--------------------------- MODULE MCCoordinator ---------------------------
(***************************************************************************)
(* The control plane for TLC.                                              *)
(***************************************************************************)
EXTENDS Coordinator, TLC

\* The incarnations of the proposer are interchangeable.
ProposerSymmetry == Permutations(Proposers)
=============================================================================
