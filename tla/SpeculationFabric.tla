-------------------------- MODULE SpeculationFabric --------------------------
(***************************************************************************)
(* The engine: class SpeculationFabric (src/core/fabric.cpp).  It owns the *)
(* authoritative token sequence of every request and advances it by        *)
(* speculative cycles.                                                     *)
(*                                                                         *)
(* run_cycle takes the engine's mutex several times: once to admit the     *)
(* call, once per branch to read the state it proposes from, once per      *)
(* branch to read the state it verifies against, once to settle.  Between  *)
(* two of these it runs an executor unlocked.  An action is one locked     *)
(* section; the executor call that follows it neither reads nor writes     *)
(* shared state, so its answer is chosen in the same action.               *)
(*                                                                         *)
(* Left out: the event log, timings, the explain/snapshot/stats getters    *)
(* (they read only), and reservations: no code ever adds one to            *)
(* RequestState::reservations, so the loops that release them do nothing   *)
(* and the memory headroom given to check_backpressure is always 1.        *)
(* Calls that return an error or an outcome without touching the engine's  *)
(* state are stuttering steps.                                             *)
(***************************************************************************)
EXTENDS Integers, Sequences, LifecycleTable

CONSTANTS
    Requests,           \* the request ids callers use
    NullRequest,        \* id 0, RequestId::is_null; a caller may or may not use it
    NoRequest,          \* not a request id: an idle thread has none
    Threads,            \* the callers' threads
    Compatible,         \* the requests whose model pair is compatible
    HasDeadline,        \* the requests submitted with a deadline_ns
    PrefixLen,          \* the length of SpeculationRequest::prefix
    MaxAttempts,        \* SpeculationRequest::max_attempts, 0 = no limit
    MaxDepth,           \* ProposalPolicy::max_depth
    BranchCount,        \* ProposalPolicy::max_branches
    MaxOutstanding,     \* max_outstanding_speculative_work, 0 = no limit
    RatioNum, RatioDen, \* min_economic_acceptance_ratio = RatioNum / RatioDen
    SpeculatingEnabled  \* ProposalPolicy::speculating_enabled

CONSTANTS               \* bounds on what the callers do
    MaxCycles,          \* cycles completed on a request when another may start
    MaxRollbacks,       \* stats.rollback_count when another rollback() may be called
    MaxBypasses,        \* stats.speculation_bypasses when another call may be refused
    MaxSubmits,         \* stats.requests_eligible when another submit may succeed
    MaxRetries,         \* stats.retry_count when another retry() may be called
    MaxEpoch            \* the last coordinator epoch

ASSUME ConstantsAssumption ==
    /\ NoRequest \notin Requests
    /\ Compatible \subseteq Requests
    /\ HasDeadline \subseteq Requests
    /\ PrefixLen \in Nat
    /\ MaxAttempts \in Nat
    /\ MaxDepth \in Nat \ {0}
    /\ BranchCount \in Nat \ {0}
    /\ MaxOutstanding \in Nat
    /\ RatioNum \in Nat
    /\ RatioDen \in Nat \ {0}
    /\ SpeculatingEnabled \in BOOLEAN

\* The requests with a non-null id: submit protects only these against a
\* second registration.
Named == Requests \ {NullRequest}

VARIABLES
    registered,   \* the keys of Impl::requests
    attempt,      \* RequestState::attempt
    epoch,        \* RequestState::epoch
    authGen,      \* RequestState::auth_gen
    stateGen,     \* RequestState::auth_state.generation and auth_state_gen
    committed,    \* RequestState::committed
    branches,     \* RequestState::branches: branch id -> absent, active, retired
    proposals,    \* RequestState::proposals
    cycle,        \* RequestState::cycle, the phase of the state machine
    cancelled,    \* RequestState::cancelled
    terminal,     \* RequestState::terminal
    completed,    \* RequestState::completed_cycles
    retries,      \* RequestState::retry_count
    late,         \* the clock has passed the request's deadline
    cfgEpoch,     \* Config::epoch
    stats,        \* Impl::stats
    call          \* the locals of the run_cycle a thread executes

authority == <<authGen, stateGen, committed>>
identity  == <<registered, attempt, epoch, retries>>
closing   == <<cancelled, terminal, late>>
records   == <<branches, proposals, completed>>
vars == <<registered, attempt, epoch, authGen, stateGen, committed, branches,
          proposals, cycle, cancelled, terminal, completed, retries, late,
          cfgEpoch, stats, call>>

BranchIds == 1..BranchCount

\* A token the verifier accepted, at position pos of a candidate it compared
\* with what its own model generates from the authoritative generation base.
\* The tokens of the prefix come with the request.
Token == [base : Nat, pos : Nat]
PrefixToken == [base |-> 0, pos |-> 0]

Call(pc, r, d, ps, vs) ==
    [pc |-> pc, req |-> r, depth |-> d, proposed |-> ps, accepted |-> vs]

Idle == Call("idle", NoRequest, 0, <<>>, <<>>)

\* One element of `proposed`: what the proposer was told (attempt, base, epoch)
\* and what it answered (has: the optional candidate is present, len: its size).
BranchResult ==
    [attempt : Nat, base : Nat, epoch : Nat, has : BOOLEAN, len : Nat]

\* One element of `accepted`: the authoritative generation the verifier was
\* given, and the accepted_prefix it answered.
Verdict == [base : Nat, acc : Nat]

Proposal == [generation : Nat, attempt : Nat, branch : BranchIds,
             base : Nat, len : Nat, acc : Nat]

Counters ==
    {"eligible", "bypasses", "stale", "cancels", "retries", "rollbacks",
     "cycles", "full", "partial", "rejects", "tokens_proposed",
     "tokens_accepted", "tokens_rejected"}

TypeOK ==
    /\ registered \in [Requests -> BOOLEAN]
    /\ attempt \in [Requests -> Nat]
    /\ epoch \in [Requests -> Nat]
    /\ authGen \in [Requests -> Nat]
    /\ stateGen \in [Requests -> Nat]
    /\ committed \in [Requests -> Seq(Token)]
    /\ branches \in [Requests -> [BranchIds -> {"absent", "active", "retired"}]]
    /\ proposals \in [Requests -> Seq(Proposal)]
    /\ cycle \in [Requests -> Phases]
    /\ cancelled \in [Requests -> BOOLEAN]
    /\ terminal \in [Requests -> BOOLEAN]
    /\ completed \in [Requests -> Nat]
    /\ retries \in [Requests -> Nat]
    /\ late \in [Requests -> BOOLEAN]
    /\ cfgEpoch \in Nat
    /\ stats \in [Counters -> Nat]
    /\ call \in [Threads -> [pc : {"idle", "propose", "verify", "settle"},
                             req : Requests \cup {NoRequest},
                             depth : Nat,
                             proposed : Seq(BranchResult),
                             accepted : Seq(Verdict)]]

Init ==
    /\ registered = [r \in Requests |-> FALSE]
    /\ attempt = [r \in Requests |-> 0]
    /\ epoch = [r \in Requests |-> 0]
    /\ authGen = [r \in Requests |-> 0]
    /\ stateGen = [r \in Requests |-> 0]
    /\ committed = [r \in Requests |-> <<>>]
    /\ branches = [r \in Requests |-> [b \in BranchIds |-> "absent"]]
    /\ proposals = [r \in Requests |-> <<>>]
    /\ cycle = [r \in Requests |-> "Ready"]
    /\ cancelled = [r \in Requests |-> FALSE]
    /\ terminal = [r \in Requests |-> FALSE]
    /\ completed = [r \in Requests |-> 0]
    /\ retries = [r \in Requests |-> 0]
    /\ late = [r \in Requests |-> FALSE]
    /\ cfgEpoch = 0
    /\ stats = [c \in Counters |-> 0]
    /\ call = [t \in Threads |-> Idle]
-----------------------------------------------------------------------------
(***************************************************************************)
(* submit, cancel, complete, rollback, retry, roll_epoch                   *)
(***************************************************************************)

\* submit: a registered id is refused unless it is null.  Branches, proposals
\* and the retry count of a null id submitted again are not reset.
Submit(r) ==
    /\ registered[r] => r = NullRequest
    /\ stats["eligible"] < MaxSubmits
    /\ registered' = [registered EXCEPT ![r] = TRUE]
    /\ attempt' = [attempt EXCEPT ![r] = 1]
    /\ epoch' = [epoch EXCEPT ![r] = cfgEpoch]
    /\ authGen' = [authGen EXCEPT ![r] = 0]
    /\ stateGen' = [stateGen EXCEPT ![r] = 0]
    /\ committed' = [committed EXCEPT ![r] = [i \in 1..PrefixLen |-> PrefixToken]]
    /\ terminal' = [terminal EXCEPT ![r] = FALSE]
    /\ cancelled' = [cancelled EXCEPT ![r] = FALSE]
    /\ completed' = [completed EXCEPT ![r] = 0]
    /\ cycle' = [cycle EXCEPT ![r] = "Ready"]
    /\ stats' = [stats EXCEPT !["eligible"] = @ + 1]
    /\ UNCHANGED <<branches, proposals, retries, late, cfgEpoch, call>>

RetireAll(bs) == [b \in BranchIds |-> IF bs[b] = "absent" THEN "absent" ELSE "retired"]

Cancel(r) ==
    /\ registered[r] /\ ~cancelled[r] /\ ~terminal[r]
    /\ cycle' = [cycle EXCEPT ![r] = Apply(@, "Cancel")]
    /\ branches' = [branches EXCEPT ![r] = RetireAll(@)]
    /\ cancelled' = [cancelled EXCEPT ![r] = TRUE]
    /\ stats' = [stats EXCEPT !["cancels"] = @ + 1]
    /\ UNCHANGED <<authority, identity, terminal, late, proposals, completed,
                   cfgEpoch, call>>

\* complete: no other condition than that the request exists.
Complete(r) ==
    /\ registered[r]
    /\ terminal' = [terminal EXCEPT ![r] = TRUE]
    /\ cycle' = [cycle EXCEPT ![r] = Apply(@, "EnterTerminal")]
    /\ UNCHANGED <<authority, identity, cancelled, late, records, cfgEpoch,
                   stats, call>>

\* rollback: neither terminal nor cancelled is looked at.
Rollback(r) ==
    /\ registered[r]
    /\ stats["rollbacks"] < MaxRollbacks
    /\ branches' = [branches EXCEPT ![r] = RetireAll(@)]
    /\ stats' = [stats EXCEPT !["rollbacks"] = @ + 1]
    /\ UNCHANGED <<authority, identity, closing, proposals, completed, cycle,
                   cfgEpoch, call>>

\* retry: the machine is set to Ready even if a cycle of the earlier attempt
\* is still running.
Retry(r) ==
    /\ registered[r]
    /\ MaxAttempts # 0 => retries[r] < MaxAttempts
    /\ ~terminal[r] /\ ~cancelled[r]
    /\ stats["retries"] < MaxRetries
    /\ attempt' = [attempt EXCEPT ![r] = @ + 1]
    /\ retries' = [retries EXCEPT ![r] = @ + 1]
    /\ cycle' = [cycle EXCEPT ![r] = "Ready"]
    /\ stats' = [stats EXCEPT !["retries"] = @ + 1]
    /\ UNCHANGED <<authority, registered, epoch, closing, records, cfgEpoch, call>>

\* roll_epoch writes Config::epoch without the mutex; submit reads it under the
\* mutex and sees the value before or after.  No request is told.
RollEpoch ==
    /\ cfgEpoch < MaxEpoch
    /\ cfgEpoch' = cfgEpoch + 1
    /\ UNCHANGED <<authority, identity, closing, records, cycle, stats, call>>

\* The clock passes deadline_ns; only the admission of a cycle looks at it.
DeadlinePasses(r) ==
    /\ r \in HasDeadline /\ ~late[r]
    /\ late' = [late EXCEPT ![r] = TRUE]
    /\ UNCHANGED <<authority, identity, cancelled, terminal, records, cycle,
                   cfgEpoch, stats, call>>
-----------------------------------------------------------------------------
(***************************************************************************)
(* run_cycle, first locked section: admission                              *)
(***************************************************************************)

\* Mutant: only the proposals that had a token accepted.
OutstandingAccepted(r) == Len(SelectSeq(proposals[r], LAMBDA p : p.acc > 0))

\* Work "outstanding" as run_cycle counts it: every proposal the request ever
\* recorded, settled or not.
Outstanding(r) == Len(proposals[r])

\* The engine-wide acceptance ratio is below min_economic_acceptance_ratio; it
\* is 1 before the first token was proposed.
EconomicsBelowThreshold ==
    /\ RatioNum > 0
    /\ IF stats["tokens_proposed"] = 0
         THEN RatioDen < RatioNum
         ELSE stats["tokens_accepted"] * RatioDen < RatioNum * stats["tokens_proposed"]

\* Mutant: the gate left to the requests that have speculated.
BlockedOnEvidence(r) ==
    \/ ~SpeculatingEnabled
    \/ MaxOutstanding # 0 /\ Outstanding(r) >= MaxOutstanding
    \/ Outstanding(r) > 0 /\ EconomicsBelowThreshold

\* check_backpressure
Blocked(r) ==
    \/ ~SpeculatingEnabled
    \/ MaxOutstanding # 0 /\ Outstanding(r) >= MaxOutstanding
    \/ EconomicsBelowThreshold

\* The calls that get past the three early outcomes Superseded, Cancelled and
\* Expired, which change nothing.
Alive(r) ==
    registered[r] /\ ~terminal[r] /\ ~cancelled[r] /\ ~late[r]

\* A machine left in a terminal phase starts over before the remaining checks.
Restarted(p) == IF p \in TerminalPhases THEN "Ready" ELSE p

\* The outcomes "incompatible pair" and "bypassed".
RefuseCycle(r) ==
    /\ Alive(r)
    /\ r \notin Compatible \/ Blocked(r)
    /\ stats["bypasses"] < MaxBypasses
    /\ cycle' = [cycle EXCEPT ![r] = Restarted(@)]
    /\ stats' = IF r \in Compatible THEN [stats EXCEPT !["bypasses"] = @ + 1] ELSE stats
    /\ UNCHANGED <<authority, identity, closing, records, cfgEpoch, call>>

\* PlanProposal, ReserveProposal, DispatchProposal, each ignored where undeclared.
Dispatched(p) ==
    Apply(Apply(Apply(p, "PlanProposal"), "ReserveProposal"), "DispatchProposal")

\* Admission.  The depth plan_proposal returns is some value in 1..max_depth
\* (module AdaptiveDepth), the number of branches is max_branches.  Both
\* executors are registered; without one run_cycle returns here, changing nothing.
StartCycle(t, r) ==
    /\ call[t].pc = "idle"
    /\ Alive(r) /\ r \in Compatible /\ ~Blocked(r)
    /\ completed[r] < MaxCycles
    /\ cycle' = [cycle EXCEPT ![r] = Dispatched(Restarted(@))]
    /\ \E d \in 1..MaxDepth :
          call' = [call EXCEPT ![t] = Call("propose", r, d, <<>>, <<>>)]
    /\ UNCHANGED <<authority, identity, closing, records, cfgEpoch, stats>>
-----------------------------------------------------------------------------
(***************************************************************************)
(* run_cycle between admission and settlement: one locked read per branch  *)
(* and executor                                                            *)
(***************************************************************************)

\* Mutant: the length of the sequence taken for its generation.
BaseGenerationWithPrefix(r) == Len(committed[r])

\* The authoritative generation handed to an executor.
BaseGeneration(r) == authGen[r]

\* Read the authority for the next branch and propose.  The proposer returns a
\* candidate of the depth asked for, or a result without a candidate (a failed
\* ProposalOutcome), which run_cycle does not look at.
ProposeBranch(t) ==
    LET r == call[t].req
        i == Len(call[t].proposed) + 1
    IN
    /\ call[t].pc = "propose"
    /\ \E has \in BOOLEAN :
          LET br == [attempt |-> attempt[r], base |-> BaseGeneration(r),
                     epoch |-> epoch[r], has |-> has,
                     len |-> IF has THEN call[t].depth ELSE 0]
          IN call' = [call EXCEPT ![t] =
                        Call(IF i = BranchCount THEN "verify" ELSE "propose",
                             r, @.depth, Append(@.proposed, br), <<>>)]
    /\ UNCHANGED <<authority, identity, closing, records, cycle, cfgEpoch, stats>>

\* Read the authority again and verify the next branch against it.  The
\* verifier accepts any number of the candidate's tokens; no executor of the
\* repository accepts more than there are (MirrorsReference of CudaExecutors),
\* and run_cycle does not check it.  `*br.pr.candidate` on a missing candidate
\* is undefined: either the process dies, and the behaviour ends here, or the
\* storage reads as an empty candidate (len = 0).
VerifyBranch(t) ==
    LET r == call[t].req
        i == Len(call[t].accepted) + 1
    IN
    /\ call[t].pc = "verify"
    /\ \E acc \in 0..call[t].proposed[i].len :
          LET v == [base |-> BaseGeneration(r), acc |-> acc]
          IN call' = [call EXCEPT ![t] =
                        Call(IF i = BranchCount THEN "settle" ELSE "verify",
                             r, @.depth, @.proposed, Append(@.accepted, v))]
    /\ UNCHANGED <<authority, identity, closing, records, cycle, cfgEpoch, stats>>

\* An executor answers with an error Result: run_cycle returns it and leaves
\* the machine where dispatch put it.
ExecutorError(t) ==
    /\ call[t].pc \in {"propose", "verify"}
    /\ call' = [call EXCEPT ![t] = Idle]
    /\ UNCHANGED <<authority, identity, closing, records, cycle, cfgEpoch, stats>>
-----------------------------------------------------------------------------
(***************************************************************************)
(* run_cycle, last locked section: settlement                              *)
(***************************************************************************)

\* The branch with the longest accepted prefix, the lowest id among equals.
Winner(t) ==
    CHOOSE i \in BranchIds :
        \A j \in BranchIds :
            \/ call[t].accepted[i].acc > call[t].accepted[j].acc
            \/ call[t].accepted[i].acc = call[t].accepted[j].acc /\ i <= j

CandidateLen(t) == call[t].proposed[Winner(t)].len
AcceptedPrefix(t) == call[t].accepted[Winner(t)].acc

\* Mutants: the whole candidate; the loop started one position late.
AcceptedTokensWhole(t) ==
    [p \in 1..CandidateLen(t) |->
        [base |-> call[t].accepted[Winner(t)].base, pos |-> p]]
AcceptedTokensShifted(t) ==
    [p \in 1..AcceptedPrefix(t) |->
        [base |-> call[t].accepted[Winner(t)].base, pos |-> p + 1]]

\* The tokens the winning verdict commits.
AcceptedTokens(t) ==
    [p \in 1..AcceptedPrefix(t) |->
        [base |-> call[t].accepted[Winner(t)].base, pos |-> p]]

\* Mutant: written at the position they were verified for, over what is there.
ExtendedInPlace(s, t) ==
    SubSeq(s, 1, PrefixLen + call[t].accepted[Winner(t)].base) \o AcceptedTokens(t)

\* The accepted tokens are pushed at the end of the sequence.
Extended(s, t) == s \o AcceptedTokens(t)

\* Mutant: only the branches after the winner are retired.
RetireLater(bs, win) ==
    [b \in BranchIds |-> IF b > win THEN "retired"
                         ELSE IF bs[b] = "absent" THEN "active" ELSE bs[b]]

\* retire_others: every other branch is retired; the winner is recorded as
\* active if its id is new and otherwise keeps the mark it has.
RetireOthers(bs, win) ==
    [b \in BranchIds |-> IF b # win THEN "retired"
                         ELSE IF bs[b] = "absent" THEN "active" ELSE bs[b]]

\* Mutants: the attempt the winning branch was dispatched with; the record made
\* after the generation has moved.
SettledProposalOldAttempt(t, r) ==
    [generation |-> completed[r] + 1, attempt |-> call[t].proposed[Winner(t)].attempt,
     branch |-> Winner(t), base |-> authGen[r],
     len |-> CandidateLen(t), acc |-> AcceptedPrefix(t)]
SettledProposalAfterCommit(t, r) ==
    [generation |-> completed[r] + 1, attempt |-> attempt[r],
     branch |-> Winner(t), base |-> authGen[r] + AcceptedPrefix(t),
     len |-> CandidateLen(t), acc |-> AcceptedPrefix(t)]

\* The record pushed on proposals: attempt and base (prop.base_state) are those
\* of the request when it settles, not those the candidate was drafted with.
SettledProposal(t, r) ==
    [generation |-> completed[r] + 1, attempt |-> attempt[r],
     branch |-> Winner(t), base |-> authGen[r],
     len |-> CandidateLen(t), acc |-> AcceptedPrefix(t)]

\* Mutants: only one of the two flags is looked at.
AuthorityLostIfTerminal(r) == terminal[r]
AuthorityLostIfCancelled(r) == cancelled[r]

\* The only authority check between the executors' answers and the commit.
AuthorityLost(r) == terminal[r] \/ cancelled[r]

\* What the three outcomes of a settled cycle have in common: the winner's
\* accepted prefix (empty for RejectAll) and the generations move together.
Settle(t) ==
    LET r == call[t].req IN
    /\ call[t].pc = "settle"
    /\ ~AuthorityLost(r)
    /\ committed' = [committed EXCEPT ![r] = Extended(@, t)]
    /\ authGen' = [authGen EXCEPT ![r] = @ + AcceptedPrefix(t)]
    /\ stateGen' = [stateGen EXCEPT ![r] = @ + AcceptedPrefix(t)]
    /\ proposals' = [proposals EXCEPT ![r] = Append(@, SettledProposal(t, r))]
    /\ branches' = [branches EXCEPT ![r] = RetireOthers(@, Winner(t))]
    /\ cycle' = [cycle EXCEPT ![r] = "Ready"]
    /\ completed' = [completed EXCEPT ![r] = @ + 1]
    /\ call' = [call EXCEPT ![t] = Idle]
    /\ UNCHANGED <<identity, closing, cfgEpoch>>

\* Mutants: the rejected suffix counted backwards; the whole candidate counted
\* as accepted.
CountedBackwards(t, s) ==
    [s EXCEPT !["cycles"] = @ + 1,
              !["tokens_proposed"] = @ + CandidateLen(t),
              !["tokens_accepted"] = @ + AcceptedPrefix(t),
              !["tokens_rejected"] = @ + (AcceptedPrefix(t) - CandidateLen(t))]
CountedAccepted(t, s) ==
    [s EXCEPT !["cycles"] = @ + 1,
              !["tokens_proposed"] = @ + CandidateLen(t),
              !["tokens_accepted"] = @ + CandidateLen(t),
              !["tokens_rejected"] = @ + (CandidateLen(t) - AcceptedPrefix(t))]

\* The counters every settled cycle advances.
Counted(t, s) ==
    [s EXCEPT !["cycles"] = @ + 1,
              !["tokens_proposed"] = @ + CandidateLen(t),
              !["tokens_accepted"] = @ + AcceptedPrefix(t),
              !["tokens_rejected"] = @ + (CandidateLen(t) - AcceptedPrefix(t))]

FullAccept(t) ==
    /\ Settle(t)
    /\ AcceptedPrefix(t) = CandidateLen(t)
    /\ stats' = [Counted(t, stats) EXCEPT !["full"] = @ + 1]

PartialAccept(t) ==
    /\ Settle(t)
    /\ AcceptedPrefix(t) # CandidateLen(t) /\ AcceptedPrefix(t) > 0
    /\ stats' = [Counted(t, stats) EXCEPT !["partial"] = @ + 1, !["rollbacks"] = @ + 1]

RejectAll(t) ==
    /\ Settle(t)
    /\ AcceptedPrefix(t) # CandidateLen(t) /\ AcceptedPrefix(t) = 0
    /\ stats' = [Counted(t, stats) EXCEPT !["rejects"] = @ + 1, !["rollbacks"] = @ + 1]

\* Mutant: the cycle run again instead of given up.
StaleAuthorityRestart(t) ==
    /\ call[t].pc = "settle"
    /\ AuthorityLost(call[t].req)
    /\ call' = [call EXCEPT ![t] = Call("propose", @.req, @.depth, <<>>, <<>>)]
    /\ UNCHANGED <<authority, identity, closing, records, cycle, cfgEpoch, stats>>

\* StaleAuthorityRejected: the request was closed while the cycle ran.  Nothing
\* else about the request is compared.
StaleAuthority(t) ==
    LET r == call[t].req IN
    /\ call[t].pc = "settle"
    /\ AuthorityLost(r)
    /\ stats' = [stats EXCEPT !["stale"] = @ + 1]
    /\ call' = [call EXCEPT ![t] = Idle]
    /\ UNCHANGED <<authority, identity, closing, records, cycle, cfgEpoch>>
-----------------------------------------------------------------------------
CycleStep(t) ==
    \/ ProposeBranch(t)
    \/ VerifyBranch(t)
    \/ ExecutorError(t)
    \/ FullAccept(t)
    \/ PartialAccept(t)
    \/ RejectAll(t)
    \/ StaleAuthority(t)

Next ==
    \/ \E r \in Requests :
          \/ Submit(r)
          \/ Cancel(r)
          \/ Complete(r)
          \/ Rollback(r)
          \/ Retry(r)
          \/ DeadlinePasses(r)
          \/ RefuseCycle(r)
          \/ \E t \in Threads : StartCycle(t, r)
    \/ RollEpoch
    \/ \E t \in Threads : CycleStep(t)

Spec == Init /\ [][Next]_vars

\* A thread inside run_cycle keeps running: the process lives and the executors
\* return.  Nothing obliges the callers to call.
FairSpec == Spec /\ \A t \in Threads : WF_vars(CycleStep(t))
=============================================================================
