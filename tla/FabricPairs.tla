----------------------------- MODULE FabricPairs -----------------------------
(***************************************************************************)
(* The engine and the model pairs of its requests: the admission of a      *)
(* cycle (run_cycle, fabric.cpp:473-483) asks evaluate_compatibility about *)
(* the draft and the target model the request was submitted with.          *)
(***************************************************************************)
EXTENDS FabricProperties, Compat

CONSTANTS Draft(_), Target(_)   \* the model identities of a request

\* The key of run_cycle carries protocol version 1.
ASSUME PairsAssumption ==
    Compatible = {r \in Requests : EvaluateCompatibility(Draft(r), Target(r), 1).compatible}

\* Both models read a token the same way: one named tokenizer, the same
\* adapters, and no two executor kinds or protocol versions known to differ.
Interpretable(p, v) ==
    /\ p.tokenizer.id # 0
    /\ \A field \in {"id", "name", "vocab_size", "hash"} :
          p.tokenizer[field] = v.tokenizer[field]
    /\ p.adapter = v.adapter
    /\ \A k, l \in {p.kind, v.kind} \ {"Unknown"} : k = l
    /\ \A k, l \in {p.protocol, v.protocol} \ {0} : k = l

\* Nothing is ever drafted for a request whose two models would read a token
\* differently, or on executors known to differ: not by its first cycle, nor
\* after a retry, an error or a rollback let another one start (compat.cpp
\* lines 25-68, run_cycle lines 473-483).
InterpretablePairsOnly ==
    \A r \in Requests :
        proposals[r] # <<>> \/ Running(r) # {} => Interpretable(Draft(r), Target(r))
=============================================================================
