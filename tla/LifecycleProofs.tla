--------------------------- MODULE LifecycleProofs ---------------------------
(***************************************************************************)
(* The guarded machine of one speculative cycle, proved for every order in *)
(* which a caller may offer events and for every guard.                    *)
(*                                                                         *)
(* Neither property is inductive: that a Committed machine was verified    *)
(* depends on what every phase on the way there says about the events      *)
(* applied so far.  Passed and Outcome record that for each phase.         *)
(***************************************************************************)
EXTENDS Lifecycle, TLAPS

Proposed == {"ProposalProduced", "VerificationPlanned", "VerificationReserved",
             "VerificationDispatched", "VerificationRunning"}
Accepting == {"Verified", "PartiallyAccepted", "FullyAccepted", "Committed"}

\* What must have been applied for the machine to be where it is.
Passed(p, done) ==
    /\ p \in Proposed \cup Accepting => "ProposalFinished" \in done
    /\ p \in {"VerificationRunning"} \cup Accepting => "VerificationStarted" \in done
    /\ p \in Accepting => "VerificationFinished" \in done

\* Where a machine can be that has committed, rejected or rolled back.
Outcome(p, done, n) ==
    /\ \/ n = 0
       \/ n = 1 /\ p \in {"Committed", "Terminal"} /\ done \cap {"RejectAll", "Rollback"} = {}
    /\ "RejectAll" \in done => p \in {"Rejected", "RolledBack", "Failed", "Terminal"}
    /\ "Rollback" \in done => p \in {"RolledBack", "Terminal"}

\* The inductive invariant.
CycleInv == Passed(phase, applied) /\ Outcome(phase, applied, commits)

\* A step that changes the machine follows a row of the table.
LEMMA FollowsTable ==
    ASSUME NEW e, NEW guard, ApplyEvent(e, guard)
    PROVE  <<phase, e, phase'>> \in kTransitions
<1>1. TransitionTargets(phase, e) # {}
  BY DEF ApplyEvent, TransitionDeclared
<1>2. (CHOOSE x \in TransitionTargets(phase, e) : TRUE) \in TransitionTargets(phase, e)
  BY <1>1
<1>3. phase' \in TransitionTargets(phase, e)
  BY <1>1, <1>2 DEF ApplyEvent, Apply, TransitionDeclared
<1>. QED BY <1>3 DEF TransitionTargets

\* Every row of the table preserves what the phases say about the past.
LEMMA RowsPreserve ==
    ASSUME NEW p, NEW e, NEW q, <<p, e, q>> \in kTransitions, q # "Ready",
           NEW done, NEW n, Passed(p, done), Outcome(p, done, n)
    PROVE  /\ Passed(q, done \cup {e})
           /\ Outcome(q, done \cup {e}, IF e = "Commit" THEN n + 1 ELSE n)
<1>. USE DEF Passed, Outcome, Proposed, Accepting
<1>1. CASE <<p, e, q>> \in ProposalTransitions
  BY <1>1 DEF ProposalTransitions
<1>2. CASE <<p, e, q>> \in VerificationTransitions
  BY <1>2 DEF VerificationTransitions
<1>3. CASE <<p, e, q>> \in SettleTransitions
  BY <1>3 DEF SettleTransitions
<1>4. CASE <<p, e, q>> \in CancelTransitions
  BY <1>4 DEF CancelTransitions, Interruptible
<1>5. CASE <<p, e, q>> \in AbortTransitions
  BY <1>5 DEF AbortTransitions, Interruptible
<1>6. CASE <<p, e, q>> \in TerminalTransitions
  BY <1>6 DEF TerminalTransitions
<1>. QED BY <1>1, <1>2, <1>3, <1>4, <1>5, <1>6 DEF kTransitions

\* CycleInv is an invariant of the machine.
LEMMA CycleInvCorrect == Spec => []CycleInv
<1>0. Passed("Ready", {}) /\ Outcome("Ready", {}, 0)
  BY DEF Passed, Outcome, Proposed, Accepting
<1>1. Init => CycleInv
  BY <1>0 DEF Init, CycleInv
<1>2. ASSUME CycleInv, [Next]_vars PROVE CycleInv'
  <2>1. CASE UNCHANGED vars
    BY <1>2, <2>1 DEF vars, CycleInv
  <2>2. ASSUME NEW e \in Events, NEW guard \in BOOLEAN, ApplyEvent(e, guard)
        PROVE  CycleInv'
    <3>1. CASE phase' = "Ready"
      BY <1>0, <2>2, <3>1 DEF ApplyEvent, CycleInv
    <3>2. CASE phase' # "Ready"
      <4>1. /\ applied' = applied \cup {e}
            /\ commits' = IF e = "Commit" THEN commits + 1 ELSE commits
        BY <2>2, <3>2 DEF ApplyEvent
      <4>2. <<phase, e, phase'>> \in kTransitions
        BY <2>2, FollowsTable
      <4>. QED BY <1>2, <3>2, <4>1, <4>2, RowsPreserve DEF CycleInv
    <3>. QED BY <3>1, <3>2
  <2>3. ASSUME NEW e \in Events, NEW guard \in BOOLEAN, RejectEvent(e, guard)
        PROVE  CycleInv'
    BY <1>2, <2>1, <2>3 DEF RejectEvent
  <2>. QED BY <1>2, <2>1, <2>2, <2>3 DEF Next
<1>3. CycleInv /\ [Next]_vars => CycleInv'
  BY <1>2
<1>. QED BY <1>1, <1>3, PTL DEF Spec

\* No order of events leads to an accepting phase past the verification.
THEOREM AcceptanceCorrect == Spec => []AcceptanceNeedsVerification
<1>1. CycleInv => AcceptanceNeedsVerification
  BY DEF CycleInv, Passed, Accepting, AcceptanceNeedsVerification
<1>. QED BY <1>1, CycleInvCorrect, PTL

\* No order of events commits a cycle twice, or commits one that was rejected
\* or rolled back.
THEOREM CommitCorrect == Spec => []CommitAtMostOnce
<1>1. CycleInv => CommitAtMostOnce
  BY DEF CycleInv, Outcome, CommitAtMostOnce
<1>. QED BY <1>1, CycleInvCorrect, PTL

\* No event leads out of the terminal phases.
THEOREM TerminalCorrect == Spec => TerminalIsFinal
<1>1. ASSUME NEW p \in TerminalPhases, NEW e, NEW q, <<p, e, q>> \in kTransitions
      PROVE  q \in TerminalPhases
  BY <1>1 DEF kTransitions, ProposalTransitions, VerificationTransitions, SettleTransitions,
     CancelTransitions, AbortTransitions, TerminalTransitions, Interruptible, TerminalPhases
<1>2. [Next]_vars => [(phase \in TerminalPhases) => (phase' \in TerminalPhases)]_vars
  BY <1>1, FollowsTable DEF Next, RejectEvent, vars
<1>. QED BY <1>2, PTL DEF Spec, TerminalIsFinal
=============================================================================
