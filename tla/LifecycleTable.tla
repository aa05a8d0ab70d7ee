--------------------------- MODULE LifecycleTable ---------------------------
(***************************************************************************)
(* The phases and events of one speculative cycle, the transition table    *)
(* kTransitions and the lookups on it (src/core/lifecycle.cpp).  The table *)
(* is a relation, a set of <<from, event, to>> triples.  Module Lifecycle  *)
(* runs the machine; the engine (module SpeculationFabric) uses Apply.     *)
(***************************************************************************)

Phases ==
    {"Ready", "ProposalPlanned", "ProposalReserved", "ProposalDispatched",
     "ProposalRunning", "ProposalProduced", "VerificationPlanned",
     "VerificationReserved", "VerificationDispatched", "VerificationRunning",
     "Verified", "PartiallyAccepted", "FullyAccepted", "Rejected",
     "RolledBack", "CancelRequested", "Cancelled", "RetryPending",
     "Superseded", "Expired", "Failed", "Committed", "Terminal"}

Events ==
    {"Null", "PlanProposal", "ReserveProposal", "DispatchProposal", "ProposalStarted",
     "ProposalFinished", "ProposalRetry", "ProposalFail", "PlanVerification",
     "ReserveVerification", "DispatchVerification", "VerificationStarted",
     "VerificationFinished", "AcceptPartial", "AcceptFull", "RejectAll",
     "Commit", "Rollback", "Cancel", "Retry", "Supersede", "Expire", "Fail",
     "EnterTerminal"}

\* Mutant: the row for a dispatched proposal forgotten.
InterruptibleUndispatched ==
    {"Ready", "ProposalPlanned", "ProposalReserved", "ProposalRunning",
     "ProposalProduced", "VerificationPlanned", "VerificationDispatched",
     "VerificationRunning"}

\* The nine phases that accept Cancel, Supersede and Expire.  The table gives
\* none of the three to VerificationReserved.
Interruptible ==
    {"Ready", "ProposalPlanned", "ProposalReserved", "ProposalDispatched",
     "ProposalRunning", "ProposalProduced", "VerificationPlanned",
     "VerificationDispatched", "VerificationRunning"}

ProposalTransitions ==
    {<<"Ready", "PlanProposal", "ProposalPlanned">>,
     <<"ProposalPlanned", "ReserveProposal", "ProposalReserved">>,
     <<"ProposalReserved", "DispatchProposal", "ProposalDispatched">>,
     <<"ProposalDispatched", "ProposalStarted", "ProposalRunning">>,
     <<"ProposalRunning", "ProposalFinished", "ProposalProduced">>,
     <<"ProposalRunning", "ProposalRetry", "RetryPending">>,
     <<"ProposalRunning", "ProposalFail", "Failed">>}

\* Mutant: a verification may finish that never started.
VerificationTransitionsUnstarted ==
    {<<"ProposalProduced", "PlanVerification", "VerificationPlanned">>,
     <<"VerificationPlanned", "ReserveVerification", "VerificationReserved">>,
     <<"VerificationReserved", "DispatchVerification", "VerificationDispatched">>,
     <<"VerificationDispatched", "VerificationFinished", "Verified">>,
     <<"Verified", "AcceptPartial", "PartiallyAccepted">>,
     <<"Verified", "AcceptFull", "FullyAccepted">>,
     <<"Verified", "RejectAll", "Rejected">>}

VerificationTransitions ==
    {<<"ProposalProduced", "PlanVerification", "VerificationPlanned">>,
     <<"VerificationPlanned", "ReserveVerification", "VerificationReserved">>,
     <<"VerificationReserved", "DispatchVerification", "VerificationDispatched">>,
     <<"VerificationDispatched", "VerificationStarted", "VerificationRunning">>,
     <<"VerificationRunning", "VerificationFinished", "Verified">>,
     <<"VerificationRunning", "ProposalRetry", "RetryPending">>,
     <<"VerificationRunning", "ProposalFail", "Failed">>,
     <<"Verified", "AcceptPartial", "PartiallyAccepted">>,
     <<"Verified", "AcceptFull", "FullyAccepted">>,
     <<"Verified", "RejectAll", "Rejected">>}

\* Mutant: a rejected candidate may be committed.
SettleTransitionsRejected ==
    {<<"FullyAccepted", "Commit", "Committed">>,
     <<"PartiallyAccepted", "Commit", "Committed">>,
     <<"Rejected", "Commit", "Committed">>,
     <<"Rejected", "Rollback", "RolledBack">>,
     <<"RolledBack", "Retry", "Ready">>}

SettleTransitions ==
    {<<"FullyAccepted", "Commit", "Committed">>,
     <<"PartiallyAccepted", "Commit", "Committed">>,
     <<"PartiallyAccepted", "Rollback", "RolledBack">>,
     <<"Rejected", "Rollback", "RolledBack">>,
     <<"RolledBack", "Retry", "Ready">>,
     <<"RetryPending", "Retry", "Ready">>}

CancelTransitions ==
    {<<p, "Cancel", "CancelRequested">> : p \in Interruptible}
    \cup {<<"CancelRequested", "Expire", "Cancelled">>}

AbortTransitions ==
    {<<p, "Supersede", "Superseded">> :
        p \in Interruptible \cup {"Verified", "RetryPending"}}
    \cup {<<p, "Expire", "Expired">> : p \in Interruptible \cup {"RetryPending"}}
    \cup {<<p, "Fail", "Failed">> :
            p \in {"Ready", "ProposalPlanned", "ProposalReserved",
                   "ProposalDispatched", "ProposalRunning",
                   "VerificationRunning", "PartiallyAccepted", "Rejected"}}

\* Mutant: a terminal cycle may be retried.
TerminalTransitionsRetried ==
    {<<p, "Retry", "Ready">> : p \in {"Failed", "Expired"}}

TerminalTransitions ==
    {<<p, "EnterTerminal", "Terminal">> :
        p \in {"Committed", "RolledBack", "Cancelled", "Superseded",
               "Expired", "Failed"}}

kTransitions ==
    ProposalTransitions \cup VerificationTransitions \cup SettleTransitions
    \cup CancelTransitions \cup AbortTransitions \cup TerminalTransitions

\* is_terminal_phase
TerminalPhases ==
    {"Terminal", "Committed", "Cancelled", "Expired", "Superseded", "Failed"}

TransitionTargets(p, e) == {x \in Phases : <<p, e, x>> \in kTransitions}

TransitionDeclared(p, e) == TransitionTargets(p, e) # {}

\* apply with the default guard and the error ignored, as the engine calls it.
Apply(p, e) ==
    IF TransitionDeclared(p, e) THEN CHOOSE x \in TransitionTargets(p, e) : TRUE
                                ELSE p
=============================================================================
