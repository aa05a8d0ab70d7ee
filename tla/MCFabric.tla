------------------------- MODULE MCFabric ------------------------------------
(***************************************************************************)
(* The engine for TLC.                                                     *)
(***************************************************************************)
EXTENDS FabricPairs, TLC

ThreadSymmetry == Permutations(Threads)
-----------------------------------------------------------------------------
(***************************************************************************)
(* Requests named for what sets their two models apart; a request of       *)
(* another name has two equal models                                       *)
(***************************************************************************)
MCRequests == {"tolerated", "renamed", "retrained", "unset", "adapter", "adapters",
               "executor", "protocol"}

MCDraft(r) ==
    ModelIdentity(1, 1, TokenizerIdentity(IF r = "unset" THEN 0 ELSE 9, "tok", 2, "h"),
                  IF r = "adapters" THEN <<"lora-a">> ELSE <<>>,
                  IF r = "tolerated" THEN "Unknown" ELSE "CPU",
                  IF r = "tolerated" THEN 0 ELSE 1)

MCTarget(r) ==
    ModelIdentity(1, IF r = "tolerated" THEN 2 ELSE 1,
                  TokenizerIdentity(IF r = "unset" THEN 0 ELSE 9,
                                    IF r = "renamed" THEN "kot" ELSE "tok", 2,
                                    IF r = "retrained" THEN "g" ELSE "h"),
                  IF r = "adapter" THEN <<"lora-a">>
                  ELSE IF r = "adapters" THEN <<"lora-b">> ELSE <<>>,
                  IF r = "executor" THEN "CUDA" ELSE "CPU",
                  IF r = "protocol" THEN 2 ELSE 1)

MCCompatible ==
    {r \in MCRequests : EvaluateCompatibility(MCDraft(r), MCTarget(r), 1).compatible}
=============================================================================
