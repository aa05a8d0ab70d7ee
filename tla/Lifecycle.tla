------------------------------ MODULE Lifecycle ------------------------------
(***************************************************************************)
(* SpeculativeStateMachine (core/lifecycle.hpp): the guarded machine of    *)
(* one speculative cycle, under a caller that may offer any event at any   *)
(* time with a guard that passes or fails.                                 *)
(***************************************************************************)
EXTENDS Naturals, LifecycleTable

VARIABLES
    phase,      \* SpeculativeStateMachine::phase_
    applied,    \* history: the events applied since the last time in Ready
    commits     \* history: the Commit events applied since the last time in Ready

vars == <<phase, applied, commits>>

Init ==
    /\ phase = "Ready"
    /\ applied = {}
    /\ commits = 0

\* apply(event, guard): nothing happens unless the transition is declared and
\* the guard passes.
ApplyEvent(e, guard) ==
    /\ TransitionDeclared(phase, e)
    /\ guard
    /\ phase' = Apply(phase, e)
    /\ applied' = IF phase' = "Ready" THEN {} ELSE applied \cup {e}
    /\ commits' = IF phase' = "Ready" THEN 0
                  ELSE IF e = "Commit" THEN commits + 1 ELSE commits

RejectEvent(e, guard) ==
    /\ ~TransitionDeclared(phase, e) \/ ~guard
    /\ UNCHANGED vars

Next == \E e \in Events, guard \in BOOLEAN :
            ApplyEvent(e, guard) \/ RejectEvent(e, guard)

Spec == Init /\ [][Next]_vars
-----------------------------------------------------------------------------
(***************************************************************************)
(* Properties                                                              *)
(***************************************************************************)

\* A phase that stands for accepted tokens is reached only through a proposal
\* that finished and a verification that started and finished in the same
\* cycle: no shortcut through the table (a retry, a cancel, an expiry) leads
\* to Committed (kTransitions; docs/lifecycle.md "A canonical cycle").
AcceptanceNeedsVerification ==
    phase \in {"PartiallyAccepted", "FullyAccepted", "Committed"} =>
        {"ProposalFinished", "VerificationStarted", "VerificationFinished"}
            \subseteq applied

\* One cycle commits at most once, and a cycle that rejected every token or
\* was rolled back without a commit never commits (test lifecycle_no_duplicate_commit).
CommitAtMostOnce ==
    /\ commits <= 1
    /\ "RejectAll" \in applied => commits = 0
    /\ "Rollback" \in applied => commits = 0

\* Once a cycle ended in a terminal phase no decoding event revives it: the
\* machine never returns to Ready by itself (only RolledBack and RetryPending do).
TerminalIsFinal ==
    [][(phase \in TerminalPhases) => (phase' \in TerminalPhases)]_vars
=============================================================================
