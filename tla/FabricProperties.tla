-------------------------- MODULE FabricProperties --------------------------
(***************************************************************************)
(* What the engine of module SpeculationFabric guarantees, the abstract    *)
(* sequence it implements, and two statements of the documentation that it *)
(* does not meet.                                                          *)
(***************************************************************************)
EXTENDS SpeculationFabric, FiniteSets

\* A process has finitely many threads.
ASSUME FiniteThreads == IsFiniteSet(Threads)

(***************************************************************************)
(* Properties that hold for any number of threads on a request             *)
(***************************************************************************)
Closed(r) == cancelled[r] \/ terminal[r]

\* The generations of the authority and of the state it names count exactly
\* the tokens committed after the prefix: no settlement, retry, rollback or
\* cancel moves one without the others (run_cycle lines 700-746).
GenerationTracksLength ==
    \A r \in Named :
        /\ stateGen[r] = authGen[r]
        /\ registered[r] => Len(committed[r]) = PrefixLen + authGen[r]

\* The recorded proposals account for the whole authoritative sequence: each
\* stands where the one before it ended and the last ends at the current
\* generation, in the order the cycles settled, however they overlapped.  The
\* base of a record is the state the cycle settled on (run_cycle line 630), not
\* the one its candidate was drafted from, as proposal.hpp:45 has it: with
\* that one the records of overlapping cycles would overlap.  Their generations
\* are 1, 2, 3, ... (docs/architecture.md invariant 10).
ProposalsTileSequence ==
    \A r \in Named :
        LET ps == proposals[r] IN
        /\ Len(ps) = completed[r]
        /\ \A i \in 1..Len(ps) :
              /\ ps[i].generation = i
              /\ ps[i].base + ps[i].acc =
                    IF i = Len(ps) THEN authGen[r] ELSE ps[i + 1].base
        /\ 0 = IF ps = <<>> THEN authGen[r] ELSE ps[1].base

\* The attempts recorded with the proposals never go back, and none is ahead of
\* the request's: a retry while a cycle runs does not reorder them.
AttemptsInOrder ==
    \A r \in Named :
        LET ps == proposals[r] IN
        \A i \in 1..Len(ps) :
            ps[i].attempt <= IF i = Len(ps) THEN attempt[r] ELSE ps[i + 1].attempt

\* At most one branch of a request is active at any time (docs/architecture.md
\* invariant 9, "uniquely authoritative"), also after winners changed.
AtMostOneActiveBranch ==
    \A r \in Requests : \A b, c \in BranchIds :
        branches[r][b] = "active" /\ branches[r][c] = "active" => b = c

\* The phase the snapshot shows agrees with the flag: a request is in
\* CancelRequested exactly when it was cancelled, whatever cycle, retry or
\* completion raced with the cancel.
CancelledPhase ==
    \A r \in Requests : cancelled[r] <=> cycle[r] = "CancelRequested"

\* The threads that run a cycle of r.
Running(r) == {t \in Threads : call[t].req = r}

\* max_outstanding_speculative_work is looked at when a cycle is admitted, and
\* the proposal is recorded when it settles: cycles admitted in between exceed
\* the limit, by no more than the threads that can hold one (run_cycle lines
\* 484-498 and 639).
OutstandingBounded ==
    MaxOutstanding # 0 => \A r \in Requests :
        Len(proposals[r]) + Cardinality(Running(r)) < MaxOutstanding + Cardinality(Threads)

\* The generations request r has been at, in the order of its settlements: the
\* ones its proposals settled on and the present one.
Reached(r) == {proposals[r][k].base : k \in 1..Len(proposals[r])} \cup {authGen[r]}

\* What a cycle read under one lock and uses under another may be old, but not
\* torn: every base it drafts or verifies from is a generation between two
\* settlements, and none is verified against an older state than it was drafted
\* from, however many cycles settle meanwhile (run_cycle lines 524-583).
InFlightOnReachedBase ==
    \A t \in Threads :
        call[t].req \in Named =>
            LET ps == call[t].proposed
                vs == call[t].accepted
            IN
            /\ \A i \in 1..Len(ps) : ps[i].base \in Reached(call[t].req)
            /\ \A j \in 1..Len(vs) : vs[j].base \in Reached(call[t].req)
            /\ \A i \in 1..Len(ps), j \in 1..Len(vs) : ps[i].base <= vs[j].base

\* The tokens at the places of the k-th proposal of r are the positions 1, 2, ...
\* of one candidate that was verified from generation b.
VerifiedAsOne(r, k, b) ==
    \A i \in 1..proposals[r][k].acc :
        committed[r][PrefixLen + proposals[r][k].base + i] = [base |-> b, pos |-> i]

\* What a cycle commits was verified as a whole, in order, from one state the
\* sequence really was in: the tokens of the k-th proposal were verified from
\* the base of a proposal j that settled no later.  They stand where they were
\* verified (j = k) unless the proposals j to k - 1 settled between their
\* verification and their commit; then they are displaced by exactly those,
\* because nothing compares the two generations (run_cycle lines 572-592, 700).
CommitsVerifiedRuns ==
    \A r \in Named : \A k \in 1..Len(proposals[r]) :
        \E j \in 1..k : VerifiedAsOne(r, k, proposals[r][j].base)

\* The step keeps every token of r where it is.
KeepsTokens(r) ==
    /\ registered'[r]
    /\ Len(committed[r]) <= Len(committed'[r])
    /\ \A k \in 1..Len(committed[r]) : committed'[r][k] = committed[r][k]

\* A registered sequence only grows at its end (docs/architecture.md invariant 1).
AppendOnly ==
    [][\A r \in Named : registered[r] => KeepsTokens(r)]_vars

\* The step leaves r closed and its authority as it is.
StaysClosed(r) ==
    /\ Closed(r)'
    /\ committed'[r] = committed[r]
    /\ authGen'[r] = authGen[r]
    /\ proposals'[r] = proposals[r]

\* Cancellation and completion stop every later commit, those of the cycles
\* already in flight included (docs/architecture.md invariant 14).
ClosedNeverCommits ==
    [][\A r \in Named : Closed(r) => StaysClosed(r)]_vars

\* The engine implements AuthoritativeSequence.
Status(r) == IF ~registered[r] THEN "absent" ELSE IF Closed(r) THEN "closed" ELSE "open"

Authority == INSTANCE AuthoritativeSequence WITH
    Ids    <- Named,
    status <- [r \in Named |-> Status(r)],
    seq    <- [r \in Named |-> committed[r]],
    gen    <- [r \in Named |-> authGen[r]]

\* Every behaviour of the engine is one of the abstract sequence: cycles,
\* retries and rollbacks are invisible there but for the tokens they commit.
RefinesAuthority == Authority!Spec

\* No cycle runs, and the ratio of all requests together is below the threshold.
GateClosed == EconomicsBelowThreshold /\ \A t \in Threads : call[t].pc = "idle"

\* The economic gate never opens again once the cycles it let in have settled:
\* nothing but a settled cycle changes the ratio and none is admitted, whatever
\* is submitted, cancelled or retried (check_backpressure, lines 94-98).
EconomicGateIsPermanent ==
    [][GateClosed => GateClosed']_vars

\* The places of the tokens speculation has committed: the request and the
\* position in its sequence, after the prefix.
Committed(r) == {r} \X ((PrefixLen + 1)..Len(committed[r]))
CommittedTokens == UNION {Committed(r) : r \in Requests}

\* The tokens the engine says it accepted are the tokens in its sequences, each
\* counted once: no request's counters or tokens are lost when cycles of several
\* requests settle in any order.  (A null id that is submitted again loses its
\* tokens, not their count.)
AcceptedTokensAreCommitted ==
    stats["tokens_accepted"] = Cardinality(CommittedTokens)

\* Once a request is closed, all speculative work on it ends for good.
ClosedRequestQuiesces ==
    \A r \in Named :
        Closed(r) ~> [](\A t \in Threads : call[t].req # r)
-----------------------------------------------------------------------------
(***************************************************************************)
(* What the documentation says and the code does not do                    *)
(***************************************************************************)

\* Thread t settles a cycle of request r in this step.
Settles(t, r) ==
    /\ call[t].pc = "settle" /\ call[t].req = r
    /\ completed'[r] = completed[r] + 1

\* docs/architecture.md:41 "A completion from an earlier attempt never mutates
\* the current attempt."
EarlierAttemptCommitsNothing ==
    [][\A t \in Threads, r \in Named :
          Settles(t, r) /\ committed'[r] # committed[r] =>
              call[t].proposed[Winner(t)].attempt = attempt[r]]_vars

\* docs/proposal_verification.md:50 "a verification against the wrong
\* authoritative base generation commits nothing."
WrongBaseCommitsNothing ==
    [][\A t \in Threads, r \in Named :
          Settles(t, r) /\ committed'[r] # committed[r] =>
              call[t].accepted[Winner(t)].base = authGen[r]]_vars
-----------------------------------------------------------------------------
(***************************************************************************)
(* Strengthenings the proofs need                                          *)
(***************************************************************************)

\* The locals of run_cycle at each stage: an idle thread has none, a running
\* one works for a registered request; a stage ends when every branch has
\* passed it, and no verdict accepts more than the candidate holds.
CallShape ==
    \A t \in Threads :
        LET c == call[t] IN
        /\ c.pc = "idle" => c = Idle
        /\ c.pc # "idle" => c.req \in Requests /\ registered[c.req]
        /\ c.pc = "propose" => Len(c.proposed) < BranchCount /\ c.accepted = <<>>
        /\ c.pc = "verify" => Len(c.proposed) = BranchCount /\ Len(c.accepted) < BranchCount
        /\ c.pc = "settle" => Len(c.proposed) = BranchCount /\ Len(c.accepted) = BranchCount
        /\ c.depth <= MaxDepth
        /\ \A i \in 1..Len(c.proposed) : c.proposed[i].len <= MaxDepth
        /\ \A i \in 1..Len(c.accepted) : c.accepted[i].acc <= c.proposed[i].len

\* The phases the engine's machine is ever in: run_cycle dispatches, but never
\* applies ProposalStarted, so every later event is refused.
PhaseShape ==
    \A r \in Requests :
        cycle[r] \in {"Ready", "ProposalDispatched", "CancelRequested"}

\* A request that was never submitted has no history.
UnregisteredIsFresh ==
    \A r \in Named :
        ~registered[r] =>
            /\ ~cancelled[r] /\ ~terminal[r]
            /\ proposals[r] = <<>> /\ completed[r] = 0
            /\ authGen[r] = 0 /\ stateGen[r] = 0
            /\ attempt[r] = 0 /\ committed[r] = <<>>
=============================================================================
