---------------------------- MODULE FabricProofs ----------------------------
(***************************************************************************)
(* Proofs about the engine, for every set of requests and threads and      *)
(* every policy.                                                           *)
(*                                                                         *)
(*   1. Types, and CallShape: what the locals of a running cycle look like *)
(*      at each of its stages.                                             *)
(*   2. The authority of a request.  All of it rests on AuthorityStep:     *)
(*      whatever the step, a named request is left alone, registered, or   *)
(*      extended by one settlement.  The history, the action properties    *)
(*      and the refinement follow from its three cases.                    *)
(*   3. Cycles in flight: how many there are, what overlapping ones read   *)
(*      and commit, and the marks they leave on a request.                 *)
(*   4. The counters: every accepted token is counted once.                *)
(***************************************************************************)
EXTENDS FabricPairs, SequenceLemmas, FiniteSetTheorems

-----------------------------------------------------------------------------
(***************************************************************************)
(* The transition table                                                    *)
(***************************************************************************)

\* apply (core/lifecycle.hpp) leads from a phase to a phase.
LEMMA ApplyType ==
    ASSUME NEW p \in Phases, NEW e
    PROVE  Apply(p, e) \in Phases
<1>1. TransitionTargets(p, e) \subseteq Phases
  BY DEF TransitionTargets
<1>2. CASE TransitionTargets(p, e) = {}
  BY <1>2 DEF Apply, TransitionDeclared
<1>3. CASE TransitionTargets(p, e) # {}
  <2>1. (CHOOSE x \in TransitionTargets(p, e) : TRUE) \in TransitionTargets(p, e)
    BY <1>3
  <2>. QED BY <1>1, <1>3, <2>1 DEF Apply, TransitionDeclared
<1>. QED BY <1>2, <1>3

\* The rows of the table the engine uses: cancelling, completing and
\* dispatching from the phases its machine can be in.
LEMMA EngineTransitions ==
    /\ Apply("Ready", "Cancel") = "CancelRequested"
    /\ Apply("ProposalDispatched", "Cancel") = "CancelRequested"
    /\ Apply("Ready", "EnterTerminal") = "Ready"
    /\ Apply("ProposalDispatched", "EnterTerminal") = "ProposalDispatched"
    /\ Apply("CancelRequested", "EnterTerminal") = "CancelRequested"
    /\ Dispatched("Ready") = "ProposalDispatched"
    /\ Dispatched("ProposalDispatched") = "ProposalDispatched"
<1>. USE DEF TransitionTargets, kTransitions, ProposalTransitions,
             VerificationTransitions, SettleTransitions, CancelTransitions,
             AbortTransitions, TerminalTransitions, Interruptible, Phases
<1>1. TransitionTargets("Ready", "Cancel") = {"CancelRequested"}
  OBVIOUS
<1>2. TransitionTargets("ProposalDispatched", "Cancel") = {"CancelRequested"}
  OBVIOUS
<1>3. TransitionTargets("Ready", "EnterTerminal") = {}
  OBVIOUS
<1>4. TransitionTargets("ProposalDispatched", "EnterTerminal") = {}
  OBVIOUS
<1>5. TransitionTargets("CancelRequested", "EnterTerminal") = {}
  OBVIOUS
<1>6. TransitionTargets("Ready", "PlanProposal") = {"ProposalPlanned"}
  OBVIOUS
<1>7. TransitionTargets("ProposalPlanned", "ReserveProposal") = {"ProposalReserved"}
  OBVIOUS
<1>8. TransitionTargets("ProposalReserved", "DispatchProposal") = {"ProposalDispatched"}
  OBVIOUS
<1>9. TransitionTargets("ProposalDispatched", "PlanProposal") = {}
  OBVIOUS
<1>10. TransitionTargets("ProposalDispatched", "ReserveProposal") = {}
  OBVIOUS
<1>11. TransitionTargets("ProposalDispatched", "DispatchProposal") = {}
  OBVIOUS
<1>. HIDE DEF TransitionTargets
<1>. QED
  BY <1>1, <1>2, <1>3, <1>4, <1>5, <1>6, <1>7, <1>8, <1>9, <1>10, <1>11
  DEF Apply, TransitionDeclared, Dispatched
-----------------------------------------------------------------------------
(***************************************************************************)
(* Types                                                                   *)
(***************************************************************************)

\* Counting up keeps the statistics well formed.
LEMMA CountUp ==
    ASSUME NEW s \in [Counters -> Nat], NEW c \in Counters, NEW n \in Nat
    PROVE  [s EXCEPT ![c] = @ + n] \in [Counters -> Nat]
OBVIOUS

\* What settlement computes from the verdicts is well formed.
LEMMA SettlementTypes ==
    ASSUME TypeOK, CallShape, NEW t \in Threads, call[t].pc = "settle"
    PROVE  /\ Winner(t) \in BranchIds
           /\ CandidateLen(t) \in Nat
           /\ AcceptedPrefix(t) \in Nat
           /\ AcceptedPrefix(t) <= CandidateLen(t)
           /\ call[t].accepted[Winner(t)] \in Verdict
           /\ call[t].proposed[Winner(t)] \in BranchResult
           /\ AcceptedTokens(t) \in Seq(Token)
           /\ Len(AcceptedTokens(t)) = AcceptedPrefix(t)
           /\ call[t].req \in Requests
           /\ registered[call[t].req]
<1>1. /\ call[t].proposed \in Seq(BranchResult)
      /\ call[t].accepted \in Seq(Verdict)
      /\ call[t].req \in Requests
      /\ registered[call[t].req]
      /\ Len(call[t].proposed) = BranchCount
      /\ Len(call[t].accepted) = BranchCount
      /\ \A i \in BranchIds : call[t].proposed[i].len <= MaxDepth
      /\ \A i \in BranchIds : call[t].accepted[i].acc <= call[t].proposed[i].len
  BY DEF TypeOK, CallShape, BranchIds
<1>2. \A i \in BranchIds :
        call[t].proposed[i] \in BranchResult /\ call[t].accepted[i] \in Verdict
  BY <1>1, ElementOfSeq DEF BranchIds
<1>. DEFINE f == [i \in 1..BranchCount |-> call[t].accepted[i].acc]
<1>3. f \in [1..BranchCount -> Nat] /\ \A i \in 1..BranchCount : f[i] <= MaxDepth
  <2>1. \A i \in 1..BranchCount :
            call[t].accepted[i].acc \in Nat /\ call[t].proposed[i].len \in Nat
    BY <1>2 DEF BranchIds, Verdict, BranchResult
  <2>2. \A i \in 1..BranchCount : call[t].accepted[i].acc <= MaxDepth
    BY <1>1, <2>1, ConstantsAssumption, SMTT(30) DEF BranchIds
  <2>. QED BY <2>1, <2>2
<1>4. \E i \in 1..BranchCount : \A j \in 1..BranchCount :
          f[i] > f[j] \/ (f[i] = f[j] /\ i <= j)
  <2>. HIDE DEF f
  <2>. QED BY <1>3, FirstMaximum, ConstantsAssumption
<1>5. Winner(t) \in BranchIds
  <2>1. \E i \in BranchIds : \A j \in BranchIds :
            \/ call[t].accepted[i].acc > call[t].accepted[j].acc
            \/ call[t].accepted[i].acc = call[t].accepted[j].acc /\ i <= j
    BY <1>4 DEF BranchIds
  <2>. QED BY <2>1, Zenon DEF Winner
<1>6. /\ CandidateLen(t) \in Nat
      /\ AcceptedPrefix(t) \in Nat
      /\ AcceptedPrefix(t) <= CandidateLen(t)
      /\ call[t].accepted[Winner(t)] \in Verdict
      /\ call[t].proposed[Winner(t)] \in BranchResult
  <2>. HIDE DEF Winner
  <2>. QED BY <1>1, <1>2, <1>5 DEF CandidateLen, AcceptedPrefix, Verdict, BranchResult
<1>7. /\ AcceptedTokens(t) \in Seq(Token)
      /\ Len(AcceptedTokens(t)) = AcceptedPrefix(t)
  <2>. HIDE DEF Winner, AcceptedPrefix
  <2>1. AcceptedTokens(t) \in [1..AcceptedPrefix(t) -> Token]
    BY <1>6 DEF AcceptedTokens, Token, Verdict
  <2>. HIDE DEF AcceptedTokens
  <2>. QED BY <1>6, <2>1, FunctionIsSequence
<1>. QED BY <1>1, <1>5, <1>6, <1>7

\* Type correctness and CallShape hold in the initial states.
LEMMA TypeInit == Init => TypeOK /\ CallShape
<1>. SUFFICES ASSUME Init PROVE TypeOK /\ CallShape
  OBVIOUS
<1>. USE ConstantsAssumption DEF Init
<1>1. \A r \in Requests : committed[r] \in Seq(Token) /\ proposals[r] \in Seq(Proposal)
  BY EmptySeq
<1>2. Idle \in [pc : {"idle", "propose", "verify", "settle"},
                req : Requests \cup {NoRequest}, depth : Nat,
                proposed : Seq(BranchResult), accepted : Seq(Verdict)]
  BY EmptySeq DEF Idle, Call
<1>3. TypeOK
  BY <1>1, <1>2 DEF TypeOK, Counters, Phases
<1>4. CallShape
  BY DEF CallShape, Idle, Call
<1>. QED BY <1>3, <1>4

\* Type correctness and CallShape together are preserved by every step: the type
\* of a settlement depends on the shape of the verdicts it settles.
LEMMA TypeNext == TypeOK /\ CallShape /\ [Next]_vars => TypeOK' /\ CallShape'
<1>. SUFFICES ASSUME TypeOK, CallShape, [Next]_vars PROVE TypeOK' /\ CallShape'
  OBVIOUS
<1>. USE ConstantsAssumption DEF authority, identity, closing, records
<1>0. /\ [stats EXCEPT !["eligible"] = @ + 1] \in [Counters -> Nat]
      /\ [stats EXCEPT !["cancels"] = @ + 1] \in [Counters -> Nat]
      /\ [stats EXCEPT !["rollbacks"] = @ + 1] \in [Counters -> Nat]
      /\ [stats EXCEPT !["retries"] = @ + 1] \in [Counters -> Nat]
      /\ [stats EXCEPT !["bypasses"] = @ + 1] \in [Counters -> Nat]
      /\ [stats EXCEPT !["stale"] = @ + 1] \in [Counters -> Nat]
  <2>1. stats \in [Counters -> Nat]
    BY DEF TypeOK
  <2>2. {"eligible", "cancels", "rollbacks", "retries", "bypasses", "stale"} \subseteq Counters
    BY DEF Counters
  <2>. QED BY <2>1, <2>2, CountUp
<1>1. ASSUME NEW r \in Requests, Submit(r) PROVE TypeOK' /\ CallShape'
  <2>1. [i \in 1..PrefixLen |-> PrefixToken] \in Seq(Token)
    <3>1. [i \in 1..PrefixLen |-> PrefixToken] \in [1..PrefixLen -> Token]
      BY DEF PrefixToken, Token
    <3>. QED BY <3>1, FunctionIsSequence
  <2>2. TypeOK'
    BY <1>1, <2>1, <1>0 DEF Submit, TypeOK, Phases
  <2>3. CallShape'
    BY <1>1 DEF Submit, TypeOK, CallShape
  <2>. QED BY <2>2, <2>3
<1>2. ASSUME NEW r \in Requests, Cancel(r) PROVE TypeOK' /\ CallShape'
  <2>1. RetireAll(branches[r]) \in [BranchIds -> {"absent", "active", "retired"}]
    BY DEF RetireAll
  <2>2. Apply(cycle[r], "Cancel") \in Phases
    BY ApplyType DEF TypeOK
  <2>3. TypeOK'
    BY <1>2, <2>1, <2>2, <1>0 DEF Cancel, TypeOK
  <2>4. CallShape'
    BY <1>2 DEF Cancel, CallShape
  <2>. QED BY <2>3, <2>4
<1>3. ASSUME NEW r \in Requests, Complete(r) PROVE TypeOK' /\ CallShape'
  <2>1. Apply(cycle[r], "EnterTerminal") \in Phases
    BY ApplyType DEF TypeOK
  <2>2. TypeOK'
    BY <1>3, <2>1 DEF Complete, TypeOK
  <2>3. CallShape'
    BY <1>3 DEF Complete, CallShape
  <2>. QED BY <2>2, <2>3
<1>4. ASSUME NEW r \in Requests, Rollback(r) PROVE TypeOK' /\ CallShape'
  <2>1. RetireAll(branches[r]) \in [BranchIds -> {"absent", "active", "retired"}]
    BY DEF RetireAll
  <2>2. TypeOK'
    BY <1>4, <2>1, <1>0 DEF Rollback, TypeOK
  <2>3. CallShape'
    BY <1>4 DEF Rollback, CallShape
  <2>. QED BY <2>2, <2>3
<1>5. ASSUME NEW r \in Requests, Retry(r) PROVE TypeOK' /\ CallShape'
  <2>1. TypeOK'
    <3>1. "Ready" \in Phases
      BY DEF Phases
    <3>2. attempt' \in [Requests -> Nat] /\ retries' \in [Requests -> Nat]
      BY <1>5 DEF Retry, TypeOK
    <3>3. cycle' \in [Requests -> Phases] /\ stats' \in [Counters -> Nat]
      BY <1>0, <1>5, <3>1 DEF Retry, TypeOK
    <3>. QED BY <1>5, <3>2, <3>3 DEF Retry, TypeOK
  <2>2. CallShape'
    BY <1>5 DEF Retry, CallShape
  <2>. QED BY <2>1, <2>2
<1>6. ASSUME NEW r \in Requests, DeadlinePasses(r) PROVE TypeOK' /\ CallShape'
  BY <1>6 DEF DeadlinePasses, TypeOK, CallShape
<1>7. ASSUME NEW r \in Requests, RefuseCycle(r) PROVE TypeOK' /\ CallShape'
  <2>1. Restarted(cycle[r]) \in Phases
    BY DEF Restarted, TypeOK, Phases
  <2>2. TypeOK'
    BY <1>7, <2>1, <1>0 DEF RefuseCycle, TypeOK
  <2>3. CallShape'
    BY <1>7 DEF RefuseCycle, CallShape
  <2>. QED BY <2>2, <2>3
<1>8. ASSUME NEW t \in Threads, NEW r \in Requests, StartCycle(t, r)
      PROVE  TypeOK' /\ CallShape'
  <2>1. Dispatched(Restarted(cycle[r])) \in Phases
    <3>1. Restarted(cycle[r]) \in Phases
      BY DEF Restarted, TypeOK, Phases
    <3>. QED BY <3>1, ApplyType DEF Dispatched
  <2>2. PICK d \in 1..MaxDepth :
            call' = [call EXCEPT ![t] = Call("propose", r, d, <<>>, <<>>)]
    BY <1>8 DEF StartCycle
  <2>3. TypeOK'
    <3>1. cycle' \in [Requests -> Phases]
      BY <1>8, <2>1 DEF StartCycle, TypeOK
    <3>2. Call("propose", r, d, <<>>, <<>>) \in
              [pc : {"idle", "propose", "verify", "settle"},
               req : Requests \cup {NoRequest}, depth : Nat,
               proposed : Seq(BranchResult), accepted : Seq(Verdict)]
      BY EmptySeq, ConstantsAssumption DEF ConstantsAssumption, Call
    <3>3. call' \in [Threads -> [pc : {"idle", "propose", "verify", "settle"},
                                 req : Requests \cup {NoRequest}, depth : Nat,
                                 proposed : Seq(BranchResult), accepted : Seq(Verdict)]]
      BY <2>2, <3>2 DEF TypeOK
    <3>4. UNCHANGED <<authority, identity, closing, records, cfgEpoch, stats>>
      BY <1>8 DEF StartCycle
    <3>. QED BY <3>1, <3>3, <3>4 DEF TypeOK, authority, identity, closing, records
  <2>4. CallShape'
    BY <1>8, <2>2, EmptySeq, SMTT(30) DEF StartCycle, TypeOK, CallShape, Idle, Call, Alive
  <2>. QED BY <2>3, <2>4
<1>9. ASSUME RollEpoch PROVE TypeOK' /\ CallShape'
  <2>1. TypeOK'
    <3>1. cfgEpoch' \in Nat
      BY <1>9 DEF RollEpoch, TypeOK
    <3>. QED BY <1>9, <3>1 DEF RollEpoch, TypeOK
  <2>2. CallShape'
    BY <1>9 DEF RollEpoch, CallShape
  <2>. QED BY <2>1, <2>2
<1>10. ASSUME NEW t \in Threads, ProposeBranch(t) PROVE TypeOK' /\ CallShape'
  <2>. DEFINE r == call[t].req
  <2>1. /\ r \in Requests /\ call[t].pc = "propose" /\ call[t].depth \in Nat
        /\ call[t].depth <= MaxDepth
        /\ call[t].proposed \in Seq(BranchResult)
        /\ Len(call[t].proposed) < BranchCount
        /\ call[t].accepted = <<>>
    BY <1>10 DEF ProposeBranch, TypeOK, CallShape
  <2>. DEFINE n == Len(call[t].proposed)
              pc2 == IF n + 1 = BranchCount THEN "verify" ELSE "propose"
  <2>2. PICK has \in BOOLEAN :
          LET br == [attempt |-> attempt[r], base |-> BaseGeneration(r),
                     epoch |-> epoch[r], has |-> has,
                     len |-> IF has THEN call[t].depth ELSE 0]
          IN call' = [call EXCEPT ![t] =
                        Call(pc2, r, @.depth, Append(@.proposed, br), <<>>)]
    BY <1>10 DEF ProposeBranch
  <2>. DEFINE br == [attempt |-> attempt[r], base |-> BaseGeneration(r),
                     epoch |-> epoch[r], has |-> has,
                     len |-> IF has THEN call[t].depth ELSE 0]
              ps == Append(call[t].proposed, br)
  <2>3. br \in BranchResult /\ br.len <= MaxDepth
    BY <2>1 DEF BranchResult, BaseGeneration, TypeOK
  <2>4. call' = [call EXCEPT ![t] = Call(pc2, r, call[t].depth, ps, <<>>)]
    BY <2>2
  <2>. HIDE DEF br
  <2>5. /\ ps \in Seq(BranchResult)
        /\ Len(ps) = Len(call[t].proposed) + 1
        /\ \A i \in 1..Len(call[t].proposed) : ps[i] = call[t].proposed[i]
        /\ ps[Len(call[t].proposed) + 1] = br
    BY <2>1, <2>3, AppendProperties
  <2>6. \A i \in 1..Len(ps) : ps[i].len <= MaxDepth
    <3>1. \A i \in 1..Len(call[t].proposed) : call[t].proposed[i].len <= MaxDepth
      BY DEF CallShape
    <3>2. Len(call[t].proposed) \in Nat
      BY <2>1, LenProperties
    <3>. HIDE DEF ps
    <3>. QED BY <2>3, <2>5, <3>1, <3>2, SMTT(30)
  <2>. HIDE DEF ps
  <2>7. TypeOK'
    BY <1>10, <2>1, <2>4, <2>5, EmptySeq DEF ProposeBranch, TypeOK, Call
  <2>8. /\ \A u \in Threads \ {t} : call'[u] = call[u]
        /\ call'[t].pc = pc2 /\ call'[t].proposed = ps /\ call'[t].accepted = <<>>
        /\ call'[t].depth = call[t].depth /\ call'[t].req = r
        /\ registered' = registered
    BY <1>10, <2>1, <2>4 DEF ProposeBranch, TypeOK, Call
  <2>9. CallShape'
    <3>1. Len(call[t].proposed) \in Nat
      BY <2>1, LenProperties
    <3>2. Len(<<>>) = 0
      OBVIOUS
    <3>3. registered[r]
      BY <1>10 DEF ProposeBranch, CallShape
    <3>. SUFFICES ASSUME NEW u \in Threads PROVE CallShape!(u)'
      BY DEF CallShape
    <3>4. CASE u = t
      <4>1. \A i \in 1..Len(call'[t].accepted) : FALSE
        BY <2>8, <3>2
      <4>2. /\ call'[t].pc = "propose" => Len(ps) < BranchCount
            /\ call'[t].pc = "verify" => Len(ps) = BranchCount
            /\ call'[t].pc \in {"propose", "verify"}
        BY <2>1, <2>5, <2>8, <3>1
      <4>. HIDE DEF r, n, pc2
      <4>. QED BY <2>1, <2>6, <2>8, <3>2, <3>3, <3>4, <4>1, <4>2
    <3>5. CASE u # t
      BY <2>8, <3>5 DEF CallShape
    <3>. QED BY <3>4, <3>5
  <2>. QED BY <2>7, <2>9
<1>11. ASSUME NEW t \in Threads, VerifyBranch(t) PROVE TypeOK' /\ CallShape'
  <2>. DEFINE r == call[t].req
              n == Len(call[t].accepted)
  <2>1. /\ r \in Requests /\ registered[r] /\ call[t].pc = "verify"
        /\ call[t].proposed \in Seq(BranchResult)
        /\ call[t].accepted \in Seq(Verdict)
        /\ Len(call[t].proposed) = BranchCount
        /\ n \in Nat /\ n < BranchCount
    BY <1>11, LenProperties DEF VerifyBranch, TypeOK, CallShape
  <2>2. call[t].proposed[n + 1] \in BranchResult
    BY <2>1, ElementOfSeq
  <2>. DEFINE pc2 == IF n + 1 = BranchCount THEN "settle" ELSE "verify"
  <2>3. PICK acc \in 0..call[t].proposed[n + 1].len :
          LET v == [base |-> BaseGeneration(r), acc |-> acc]
          IN call' = [call EXCEPT ![t] =
                        Call(pc2, r, @.depth, @.proposed, Append(@.accepted, v))]
    BY <1>11 DEF VerifyBranch
  <2>. DEFINE v == [base |-> BaseGeneration(r), acc |-> acc]
              vs == Append(call[t].accepted, v)
  <2>4. v \in Verdict /\ v.acc <= call[t].proposed[n + 1].len
    BY <2>1, <2>2 DEF Verdict, BranchResult, BaseGeneration, TypeOK
  <2>5. call' = [call EXCEPT ![t] =
                   Call(pc2, r, call[t].depth, call[t].proposed, vs)]
    BY <2>3
  <2>. HIDE DEF v
  <2>6. /\ vs \in Seq(Verdict)
        /\ Len(vs) = n + 1
        /\ \A i \in 1..n : vs[i] = call[t].accepted[i]
        /\ vs[n + 1] = v
    BY <2>1, <2>4, AppendProperties
  <2>7. \A i \in 1..Len(vs) : vs[i].acc <= call[t].proposed[i].len
    <3>1. \A i \in 1..n : call[t].accepted[i].acc <= call[t].proposed[i].len
      BY DEF CallShape
    <3>. HIDE DEF vs, n
    <3>. QED BY <2>1, <2>4, <2>6, <3>1
  <2>. HIDE DEF vs
  <2>8. TypeOK'
    BY <1>11, <2>1, <2>5, <2>6 DEF VerifyBranch, TypeOK, Call
  <2>9. /\ \A u \in Threads \ {t} : call'[u] = call[u]
        /\ call'[t].pc = pc2 /\ call'[t].accepted = vs
        /\ call'[t].proposed = call[t].proposed
        /\ call'[t].depth = call[t].depth /\ call'[t].req = r
        /\ registered' = registered
    BY <1>11, <2>1, <2>5 DEF VerifyBranch, TypeOK, Call
  <2>10. CallShape'
    <3>. SUFFICES ASSUME NEW u \in Threads PROVE CallShape!(u)'
      BY DEF CallShape
    <3>1. CASE u = t
      <4>1. /\ call'[t].pc = "verify" => Len(vs) < BranchCount
            /\ call'[t].pc = "settle" => Len(vs) = BranchCount
            /\ call'[t].pc \in {"verify", "settle"}
        BY <2>1, <2>6, <2>9
      <4>2. /\ call[t].depth <= MaxDepth
            /\ \A i \in 1..Len(call[t].proposed) : call[t].proposed[i].len <= MaxDepth
        BY DEF CallShape
      <4>. HIDE DEF r, n, pc2
      <4>. QED BY <2>1, <2>7, <2>9, <3>1, <4>1, <4>2
    <3>2. CASE u # t
      BY <2>9, <3>2, SMTT(30) DEF CallShape
    <3>. QED BY <3>1, <3>2
  <2>. QED BY <2>8, <2>10
<1>12. ASSUME NEW t \in Threads, ExecutorError(t) PROVE TypeOK' /\ CallShape'
  <2>1. TypeOK'
    BY <1>12, EmptySeq DEF ExecutorError, TypeOK, Idle, Call
  <2>2. CallShape'
    BY <1>12 DEF ExecutorError, TypeOK, CallShape, Idle, Call
  <2>. QED BY <2>1, <2>2
<1>13. ASSUME NEW t \in Threads, Settle(t), stats' \in [Counters -> Nat] PROVE TypeOK' /\ CallShape'
  <2>. DEFINE r == call[t].req
  <2>1. call[t].pc = "settle"
    BY <1>13 DEF Settle
  <2>. HIDE DEF Winner
  <2>2. /\ Winner(t) \in BranchIds
        /\ CandidateLen(t) \in Nat
        /\ AcceptedPrefix(t) \in Nat
        /\ AcceptedTokens(t) \in Seq(Token)
        /\ r \in Requests
    BY <2>1, SettlementTypes
  <2>3. Extended(committed[r], t) \in Seq(Token)
    <3>1. committed[r] \in Seq(Token)
      BY <2>2 DEF TypeOK
    <3>. QED BY <2>2, <3>1, ConcatProperties DEF Extended
  <2>4. Append(proposals[r], SettledProposal(t, r)) \in Seq(Proposal)
    <3>1. SettledProposal(t, r) \in Proposal
      <4>1. completed[r] + 1 \in Nat /\ attempt[r] \in Nat /\ authGen[r] \in Nat
        BY <2>2 DEF TypeOK
      <4>. HIDE DEF r
      <4>. QED BY <2>2, <4>1 DEF SettledProposal, Proposal
    <3>2. proposals[r] \in Seq(Proposal)
      BY <2>2 DEF TypeOK
    <3>. QED BY <3>1, <3>2, AppendProperties
  <2>5. RetireOthers(branches[r], Winner(t)) \in [BranchIds -> {"absent", "active", "retired"}]
    BY <2>2 DEF RetireOthers, TypeOK
  <2>6. /\ committed' \in [Requests -> Seq(Token)]
        /\ proposals' \in [Requests -> Seq(Proposal)]
        /\ branches' \in [Requests -> [BranchIds -> {"absent", "active", "retired"}]]
    <3>. HIDE DEF r
    <3>. QED BY <1>13, <2>2, <2>3, <2>4, <2>5 DEF Settle, TypeOK, r
  <2>7. /\ authGen' \in [Requests -> Nat]
        /\ stateGen' \in [Requests -> Nat]
        /\ completed' \in [Requests -> Nat]
        /\ cycle' \in [Requests -> Phases]
    <3>1. "Ready" \in Phases
      BY DEF Phases
    <3>2. authGen[r] + AcceptedPrefix(t) \in Nat /\ stateGen[r] + AcceptedPrefix(t) \in Nat
      BY <2>2, SMTT(30) DEF TypeOK
    <3>3. completed[r] + 1 \in Nat
      BY <2>2 DEF TypeOK
    <3>. HIDE DEF AcceptedPrefix
    <3>. QED BY <1>13, <2>2, <3>1, <3>2, <3>3 DEF Settle, TypeOK
  <2>8. call' = [call EXCEPT ![t] = Idle] /\ UNCHANGED <<identity, closing, cfgEpoch>>
    BY <1>13 DEF Settle
  <2>9. TypeOK'
    BY <1>13, <2>6, <2>7, <2>8, EmptySeq DEF TypeOK, Idle, Call
  <2>10. CallShape'
    BY <2>8 DEF TypeOK, CallShape, Idle, Call
  <2>. QED BY <2>9, <2>10
<1>14. ASSUME NEW t \in Threads, Settle(t) PROVE Counted(t, stats) \in [Counters -> Nat]
  <2>1. /\ CandidateLen(t) \in Nat
        /\ AcceptedPrefix(t) \in Nat
        /\ CandidateLen(t) - AcceptedPrefix(t) \in Nat
    BY <1>14, SettlementTypes DEF Settle
  <2>2. stats \in [Counters -> Nat]
    BY DEF TypeOK
  <2>3. {"cycles", "tokens_proposed", "tokens_accepted", "tokens_rejected"} \subseteq Counters
    BY DEF Counters
  <2>. HIDE DEF CandidateLen, AcceptedPrefix
  <2>. DEFINE s1 == [stats EXCEPT !["cycles"] = @ + 1]
              s2 == [s1 EXCEPT !["tokens_proposed"] = @ + CandidateLen(t)]
              s3 == [s2 EXCEPT !["tokens_accepted"] = @ + AcceptedPrefix(t)]
              s4 == [s3 EXCEPT !["tokens_rejected"] = @ + (CandidateLen(t) - AcceptedPrefix(t))]
  <2>4. s1 \in [Counters -> Nat]
    BY <2>2, <2>3, CountUp
  <2>5. s2 \in [Counters -> Nat]
    <3>. HIDE DEF s1
    <3>. QED BY <2>1, <2>3, <2>4, CountUp
  <2>6. s3 \in [Counters -> Nat]
    <3>. HIDE DEF s2
    <3>. QED BY <2>1, <2>3, <2>5, CountUp
  <2>7. s4 \in [Counters -> Nat]
    <3>. HIDE DEF s3
    <3>. QED BY <2>1, <2>3, <2>6, CountUp
  <2>8. Counted(t, stats) = s4
    BY DEF Counted
  <2>. QED BY <2>7, <2>8
<1>15. ASSUME NEW t \in Threads, FullAccept(t) PROVE TypeOK' /\ CallShape'
  <2>1. stats' \in [Counters -> Nat]
    BY <1>14, <1>15 DEF FullAccept, Counters
  <2>. QED BY <1>13, <1>15, <2>1 DEF FullAccept
<1>16. ASSUME NEW t \in Threads, PartialAccept(t) PROVE TypeOK' /\ CallShape'
  <2>1. stats' \in [Counters -> Nat]
    BY <1>14, <1>16 DEF PartialAccept, Counters
  <2>. QED BY <1>13, <1>16, <2>1 DEF PartialAccept
<1>17. ASSUME NEW t \in Threads, RejectAll(t) PROVE TypeOK' /\ CallShape'
  <2>1. stats' \in [Counters -> Nat]
    BY <1>14, <1>17 DEF RejectAll, Counters
  <2>. QED BY <1>13, <1>17, <2>1 DEF RejectAll
<1>18. ASSUME NEW t \in Threads, StaleAuthority(t) PROVE TypeOK' /\ CallShape'
  <2>1. TypeOK'
    BY <1>18, <1>0, EmptySeq DEF StaleAuthority, TypeOK, Idle, Call
  <2>2. CallShape'
    BY <1>18, SMTT(30) DEF StaleAuthority, TypeOK, CallShape, Idle, Call
  <2>. QED BY <2>1, <2>2
<1>19. CASE UNCHANGED vars
  BY <1>19 DEF vars, TypeOK, CallShape
<1>. QED
  BY <1>1, <1>2, <1>3, <1>4, <1>5, <1>6, <1>7, <1>8, <1>9, <1>10, <1>11,
     <1>12, <1>15, <1>16, <1>17, <1>18, <1>19 DEF Next, CycleStep

\* The engine's state and the locals of every run_cycle stay well formed, for
\* any number of threads: no lookup run_cycle makes between its locked sections
\* (the winner, its candidate, its verdict) is out of range.
THEOREM TypeCorrect == Spec => []TypeOK /\ []CallShape
<1>1. Init => TypeOK /\ CallShape
  BY TypeInit
<1>2. TypeOK /\ CallShape /\ [Next]_vars => (TypeOK /\ CallShape)'
  BY TypeNext
<1>. QED BY <1>1, <1>2, PTL DEF Spec
-----------------------------------------------------------------------------
(***************************************************************************)
(* 2. The authority of a request                                           *)
(***************************************************************************)

\* The step does not touch the authority of r and does not reopen it.
Untouched(r) ==
    /\ registered'[r] = registered[r]
    /\ authGen'[r] = authGen[r] /\ stateGen'[r] = stateGen[r]
    /\ committed'[r] = committed[r]
    /\ proposals'[r] = proposals[r] /\ completed'[r] = completed[r]
    /\ attempt'[r] >= attempt[r]
    /\ Closed(r) => Closed(r)'
    /\ ~registered[r] => ~Closed(r)' /\ attempt'[r] = attempt[r]

\* The step registers r.
Registers(r) ==
    /\ ~registered[r] /\ registered'[r]
    /\ authGen'[r] = 0 /\ stateGen'[r] = 0
    /\ committed'[r] = [i \in 1..PrefixLen |-> PrefixToken]
    /\ proposals'[r] = proposals[r] /\ completed'[r] = 0
    /\ ~Closed(r)'

\* The step settles a cycle of thread t on r.
Commits(t, r) ==
    /\ call[t].pc = "settle" /\ call[t].req = r
    /\ registered[r] /\ registered'[r]
    /\ ~Closed(r) /\ ~Closed(r)'
    /\ committed'[r] = Extended(committed[r], t)
    /\ authGen'[r] = authGen[r] + AcceptedPrefix(t)
    /\ stateGen'[r] = stateGen[r] + AcceptedPrefix(t)
    /\ proposals'[r] = Append(proposals[r], SettledProposal(t, r))
    /\ completed'[r] = completed[r] + 1
    /\ attempt'[r] = attempt[r]

\* Every step of the engine leaves a named request alone, registers it or
\* settles one cycle on it (the writes to RequestState in fabric.cpp).
LEMMA AuthorityStep ==
    ASSUME TypeOK, CallShape, UnregisteredIsFresh, [Next]_vars, NEW r \in Named
    PROVE  Untouched(r) \/ Registers(r) \/ \E t \in Threads : Commits(t, r)
<1>. USE ConstantsAssumption DEF authority, identity, closing, records
<1>0. r \in Requests /\ r # NullRequest /\ attempt[r] \in Nat
  BY DEF Named, TypeOK
<1>u. UNCHANGED <<authority, registered, attempt, proposals, completed,
                  cancelled, terminal>> => Untouched(r)
  BY <1>0 DEF Untouched, Closed, UnregisteredIsFresh
<1>1. ASSUME NEW q \in Requests, Submit(q) PROVE Untouched(r) \/ Registers(r)
  <2>1. CASE q = r
    BY <1>0, <1>1, <2>1 DEF Submit, Registers, TypeOK, Closed
  <2>2. CASE q # r
    <3>1. /\ registered'[r] = registered[r] /\ attempt'[r] = attempt[r]
          /\ authGen'[r] = authGen[r] /\ stateGen'[r] = stateGen[r]
          /\ committed'[r] = committed[r] /\ completed'[r] = completed[r]
          /\ cancelled'[r] = cancelled[r] /\ terminal'[r] = terminal[r]
          /\ proposals'[r] = proposals[r]
      BY <1>0, <1>1, <2>2 DEF Submit, TypeOK
    <3>. QED BY <1>0, <3>1 DEF Untouched, Closed, UnregisteredIsFresh
  <2>. QED BY <2>1, <2>2
<1>2. ASSUME NEW q \in Requests, Cancel(q) PROVE Untouched(r)
  BY <1>0, <1>2, SMTT(30) DEF Cancel, Untouched, TypeOK, Closed, UnregisteredIsFresh
<1>3. ASSUME NEW q \in Requests, Complete(q) PROVE Untouched(r)
  BY <1>0, <1>3, SMTT(30) DEF Complete, Untouched, TypeOK, Closed, UnregisteredIsFresh
<1>4. ASSUME NEW q \in Requests, Rollback(q) PROVE Untouched(r)
  BY <1>0, <1>4, SMTT(30) DEF Rollback, Untouched, TypeOK, Closed, UnregisteredIsFresh
<1>5. ASSUME NEW q \in Requests, Retry(q) PROVE Untouched(r)
  <2>1. attempt'[r] \in Nat /\ attempt'[r] >= attempt[r]
    <3>1. attempt'[r] = IF q = r THEN attempt[r] + 1 ELSE attempt[r]
      BY <1>0, <1>5 DEF Retry, TypeOK
    <3>. QED BY <1>0, <3>1
  <2>. QED BY <1>0, <1>5, <2>1 DEF Retry, Untouched, TypeOK, Closed, UnregisteredIsFresh
<1>6. ASSUME NEW q \in Requests, DeadlinePasses(q) PROVE Untouched(r)
  BY <1>0, <1>6, SMTT(30) DEF DeadlinePasses, Untouched, TypeOK, Closed, UnregisteredIsFresh
<1>7. ASSUME NEW q \in Requests, RefuseCycle(q) PROVE Untouched(r)
  BY <1>u, <1>7 DEF RefuseCycle
<1>8. ASSUME NEW t \in Threads, NEW q \in Requests, StartCycle(t, q) PROVE Untouched(r)
  BY <1>u, <1>8 DEF StartCycle
<1>9. ASSUME RollEpoch PROVE Untouched(r)
  BY <1>u, <1>9 DEF RollEpoch
<1>10. ASSUME NEW t \in Threads, ProposeBranch(t) PROVE Untouched(r)
  BY <1>u, <1>10 DEF ProposeBranch
<1>11. ASSUME NEW t \in Threads, VerifyBranch(t) PROVE Untouched(r)
  BY <1>u, <1>11 DEF VerifyBranch
<1>12. ASSUME NEW t \in Threads, ExecutorError(t) PROVE Untouched(r)
  BY <1>u, <1>12 DEF ExecutorError
<1>13. ASSUME NEW t \in Threads, Settle(t) PROVE Untouched(r) \/ Commits(t, r)
  <2>1. call[t].req \in Requests /\ registered[call[t].req]
    BY <1>13 DEF Settle, CallShape
  <2>2. CASE call[t].req = r
    BY <1>0, <1>13, <2>1, <2>2 DEF Settle, Commits, TypeOK, Closed, AuthorityLost
  <2>3. CASE call[t].req # r
    <3>1. /\ authGen'[r] = authGen[r] /\ stateGen'[r] = stateGen[r]
          /\ committed'[r] = committed[r] /\ completed'[r] = completed[r]
          /\ proposals'[r] = proposals[r]
      BY <1>0, <1>13, <2>3 DEF Settle, TypeOK
    <3>2. UNCHANGED <<registered, attempt, cancelled, terminal>>
      BY <1>13 DEF Settle
    <3>. QED BY <1>0, <3>1, <3>2 DEF Untouched, Closed, UnregisteredIsFresh
  <2>. QED BY <2>2, <2>3
<1>14. ASSUME NEW t \in Threads, StaleAuthority(t) PROVE Untouched(r)
  BY <1>u, <1>14 DEF StaleAuthority
<1>15. CASE UNCHANGED vars
  BY <1>0, <1>15 DEF vars, Untouched, TypeOK, Closed, UnregisteredIsFresh
<1>. QED
  BY <1>1, <1>2, <1>3, <1>4, <1>5, <1>6, <1>7, <1>8, <1>9, <1>10, <1>11,
     <1>12, <1>13, <1>14, <1>15
  DEF Next, CycleStep, FullAccept, PartialAccept, RejectAll
-----------------------------------------------------------------------------
(***************************************************************************)
(* Invariants of the authority and its history                             *)
(***************************************************************************)

\* What the settlement of thread t adds to the history of r.
LEMMA CommitEffect ==
    ASSUME TypeOK, CallShape, NEW t \in Threads, NEW r \in Named, Commits(t, r)
    PROVE  /\ AcceptedPrefix(t) \in Nat
           /\ committed'[r] = committed[r] \o AcceptedTokens(t)
           /\ Len(committed'[r]) = Len(committed[r]) + AcceptedPrefix(t)
           /\ \A k \in 1..Len(committed[r]) : committed'[r][k] = committed[r][k]
           /\ proposals[r] \in Seq(Proposal)
           /\ Len(proposals'[r]) = Len(proposals[r]) + 1
           /\ \A i \in 1..Len(proposals[r]) : proposals'[r][i] = proposals[r][i]
           /\ proposals'[r][Len(proposals[r]) + 1] = SettledProposal(t, r)
<1>1. r \in Requests
  BY DEF Named
<1>2. committed[r] \in Seq(Token) /\ proposals[r] \in Seq(Proposal)
  BY <1>1 DEF TypeOK
<1>3. /\ AcceptedPrefix(t) \in Nat
      /\ AcceptedTokens(t) \in Seq(Token)
      /\ Len(AcceptedTokens(t)) = AcceptedPrefix(t)
      /\ Winner(t) \in BranchIds
      /\ CandidateLen(t) \in Nat
  BY SettlementTypes DEF Commits
<1>4. committed'[r] = committed[r] \o AcceptedTokens(t)
  BY DEF Commits, Extended
<1>5. /\ Len(committed'[r]) = Len(committed[r]) + AcceptedPrefix(t)
      /\ \A k \in 1..Len(committed[r]) : committed'[r][k] = committed[r][k]
  <2>. HIDE DEF AcceptedTokens, AcceptedPrefix
  <2>. DEFINE c == committed[r]
              d == AcceptedTokens(t)
  <2>1. /\ Len(c \o d) = Len(c) + Len(d)
        /\ \A k \in 1..Len(c) + Len(d) :
              (c \o d)[k] = IF k <= Len(c) THEN c[k] ELSE d[k - Len(c)]
    BY <1>2, <1>3, ConcatProperties
  <2>2. Len(c) \in Nat /\ Len(d) \in Nat
    BY <1>2, <1>3, LenProperties
  <2>. HIDE DEF c, d
  <2>3. \A k \in 1..Len(c) : (c \o d)[k] = c[k]
    BY <2>1, <2>2
  <2>. QED BY <1>3, <1>4, <2>1, <2>3 DEF c, d
<1>6. SettledProposal(t, r) \in Proposal
  <2>1. completed[r] + 1 \in Nat /\ attempt[r] \in Nat /\ authGen[r] \in Nat
    BY <1>1 DEF TypeOK
  <2>. QED BY <1>3, <2>1 DEF SettledProposal, Proposal
<1>7. /\ Len(proposals'[r]) = Len(proposals[r]) + 1
      /\ \A i \in 1..Len(proposals[r]) : proposals'[r][i] = proposals[r][i]
      /\ proposals'[r][Len(proposals[r]) + 1] = SettledProposal(t, r)
  <2>. HIDE DEF SettledProposal
  <2>. QED BY <1>2, <1>6, AppendProperties DEF Commits
<1>. QED BY <1>2, <1>3, <1>4, <1>5, <1>7

\* The inductive invariant: the history of a named request is consistent.
History ==
    /\ TypeOK /\ CallShape /\ UnregisteredIsFresh
    /\ GenerationTracksLength /\ ProposalsTileSequence /\ AttemptsInOrder

\* The initial states satisfy it.
LEMMA HistoryInit == Init => History
<1>. SUFFICES ASSUME Init PROVE History
  OBVIOUS
<1>1. TypeOK /\ CallShape
  BY TypeInit
<1>2. /\ UnregisteredIsFresh /\ GenerationTracksLength
      /\ ProposalsTileSequence /\ AttemptsInOrder
  BY DEF Init, Named, UnregisteredIsFresh, GenerationTracksLength,
         ProposalsTileSequence, AttemptsInOrder
<1>. QED BY <1>1, <1>2 DEF History

\* Every step preserves it: a settlement adds one proposal that starts where
\* the sequence ends and moves length and generations by its accepted prefix.
LEMMA HistoryNext == History /\ [Next]_vars => History'
<1>. SUFFICES ASSUME History, [Next]_vars PROVE History'
  OBVIOUS
<1>. USE ConstantsAssumption
<1>1. TypeOK /\ CallShape /\ TypeOK' /\ CallShape'
  BY TypeNext DEF History
<1>2. \A r \in Named : Untouched(r) \/ Registers(r) \/ \E t \in Threads : Commits(t, r)
  BY <1>1, AuthorityStep DEF History
<1>3. UnregisteredIsFresh'
  BY <1>2 DEF History, UnregisteredIsFresh, Untouched, Registers, Commits, Closed
<1>4. GenerationTracksLength'
  <2>. SUFFICES ASSUME NEW r \in Named
                PROVE  /\ stateGen'[r] = authGen'[r]
                       /\ registered'[r] => Len(committed'[r]) = PrefixLen + authGen'[r]
    BY DEF GenerationTracksLength
  <2>1. /\ stateGen[r] = authGen[r] /\ authGen[r] \in Nat
        /\ registered[r] => Len(committed[r]) = PrefixLen + authGen[r]
    BY DEF History, GenerationTracksLength, TypeOK, Named
  <2>2. CASE Untouched(r)
    BY <2>1, <2>2 DEF Untouched
  <2>3. CASE Registers(r)
    <3>1. Len([i \in 1..PrefixLen |-> PrefixToken]) = PrefixLen
      BY FunctionIsSequence, [i \in 1..PrefixLen |-> PrefixToken] \in [1..PrefixLen -> {PrefixToken}]
    <3>. QED BY <2>3, <3>1 DEF Registers
  <2>4. ASSUME NEW t \in Threads, Commits(t, r)
        PROVE  /\ stateGen'[r] = authGen'[r]
               /\ Len(committed'[r]) = PrefixLen + authGen'[r]
    <3>1. /\ AcceptedPrefix(t) \in Nat
          /\ Len(committed'[r]) = Len(committed[r]) + AcceptedPrefix(t)
      BY <1>1, <2>4, CommitEffect
    <3>. QED BY <2>1, <2>4, <3>1 DEF Commits
  <2>. QED BY <1>2, <2>2, <2>3, <2>4
<1>5. ProposalsTileSequence'
  <2>. SUFFICES ASSUME NEW r \in Named PROVE ProposalsTileSequence!(r)'
    BY DEF ProposalsTileSequence
  <2>1. ProposalsTileSequence!(r)
    BY DEF History, ProposalsTileSequence
  <2>2. CASE Untouched(r)
    BY <2>1, <2>2 DEF Untouched
  <2>3. CASE Registers(r)
    <3>1. proposals'[r] = <<>> /\ completed'[r] = 0 /\ authGen'[r] = 0
      BY <2>3 DEF Registers, History, UnregisteredIsFresh
    <3>. QED BY <3>1
  <2>4. ASSUME NEW t \in Threads, Commits(t, r) PROVE ProposalsTileSequence!(r)'
    <3>. DEFINE ps == proposals[r]
                qs == proposals'[r]
                n == Len(proposals[r])
    <3>1. /\ AcceptedPrefix(t) \in Nat /\ ps \in Seq(Proposal)
          /\ Len(qs) = n + 1
          /\ \A i \in 1..n : qs[i] = ps[i]
          /\ qs[n + 1] = SettledProposal(t, r)
      BY <1>1, <2>4, CommitEffect
    <3>2. n \in Nat /\ n = completed[r] /\ authGen[r] \in Nat
      BY <1>1, <2>1, <3>1, LenProperties DEF TypeOK, Named
    <3>3. /\ qs[n + 1].generation = n + 1
          /\ qs[n + 1].base = authGen[r]
          /\ qs[n + 1].base + qs[n + 1].acc = authGen'[r]
      BY <2>4, <3>1, <3>2 DEF Commits, SettledProposal
    <3>4. ASSUME NEW i \in 1..n
          PROVE  qs[i].generation = i /\ qs[i].base + qs[i].acc = qs[i + 1].base
      <4>1. /\ ps[i].generation = i
            /\ ps[i].base + ps[i].acc = IF i = n THEN authGen[r] ELSE ps[i + 1].base
        BY <2>1
      <4>2. CASE i = n
        BY <3>1, <3>3, <4>1, <4>2
      <4>3. CASE i # n
        <5>1. i + 1 \in 1..n
          BY <3>2, <4>3
        <5>2. qs[i] = ps[i] /\ qs[i + 1] = ps[i + 1]
          BY <3>1, <5>1
        <5>. QED BY <4>1, <4>3, <5>2
      <4>. QED BY <4>2, <4>3
    <3>5. qs[1].base = 0
      <4>1. CASE n = 0
        <5>1. ps = <<>>
          BY <3>1, <4>1, EmptySeq
        <5>2. authGen[r] = 0
          BY <2>1, <5>1
        <5>. QED BY <3>3, <4>1, <5>2
      <4>2. CASE n # 0
        <5>1. 1 \in 1..n /\ ps # <<>>
          BY <3>1, <3>2, <4>2, EmptySeq
        <5>2. 0 = ps[1].base
          BY <2>1, <5>1
        <5>. QED BY <3>1, <5>1, <5>2
      <4>. QED BY <4>1, <4>2
    <3>6. Len(qs) = completed'[r]
      BY <2>4, <3>1, <3>2 DEF Commits
    <3>7. ASSUME NEW i \in 1..Len(qs)
          PROVE  /\ qs[i].generation = i
                 /\ qs[i].base + qs[i].acc =
                       IF i = Len(qs) THEN authGen'[r] ELSE qs[i + 1].base
      <4>1. i \in 1..n \/ i = n + 1
        BY <3>1, <3>2
      <4>2. CASE i = n + 1
        BY <3>1, <3>3, <4>2
      <4>3. CASE i \in 1..n
        <5>1. i # Len(qs)
          BY <3>1, <3>2, <4>3
        <5>. QED BY <3>4, <4>3, <5>1
      <4>. QED BY <4>1, <4>2, <4>3
    <3>8. qs # <<>>
      BY <3>1, <3>2
    <3>. QED BY <3>5, <3>6, <3>7, <3>8
  <2>. QED BY <1>2, <2>2, <2>3, <2>4
<1>6. AttemptsInOrder'
  <2>. SUFFICES ASSUME NEW r \in Named PROVE AttemptsInOrder!(r)'
    BY DEF AttemptsInOrder
  <2>1. AttemptsInOrder!(r) /\ r \in Requests /\ proposals[r] \in Seq(Proposal)
    BY <1>1 DEF History, AttemptsInOrder, TypeOK, Named
  <2>2. CASE Untouched(r)
    <3>1. attempt[r] \in Nat /\ attempt'[r] \in Nat
      BY <1>1, <2>1 DEF TypeOK
    <3>2. proposals'[r] = proposals[r] /\ attempt'[r] >= attempt[r]
      BY <2>2 DEF Untouched
    <3>3. \A i \in 1..Len(proposals[r]) : proposals[r][i].attempt \in Nat
      <4>1. \A i \in 1..Len(proposals[r]) : proposals[r][i] \in Proposal
        BY <2>1, ElementOfSeq
      <4>. QED BY <4>1 DEF Proposal
    <3>4. ASSUME NEW i \in 1..Len(proposals[r])
          PROVE  proposals[r][i].attempt <=
                    IF i = Len(proposals[r]) THEN attempt'[r] ELSE proposals[r][i + 1].attempt
      <4>1. proposals[r][i].attempt <=
                IF i = Len(proposals[r]) THEN attempt[r] ELSE proposals[r][i + 1].attempt
        BY <2>1
      <4>2. proposals[r][i].attempt \in Nat
        BY <3>3
      <4>. QED BY <3>1, <3>2, <4>1, <4>2
    <3>. QED BY <3>2, <3>4
  <2>3. CASE Registers(r)
    <3>1. proposals'[r] = <<>>
      BY <2>3 DEF Registers, History, UnregisteredIsFresh
    <3>. QED BY <3>1
  <2>4. ASSUME NEW t \in Threads, Commits(t, r) PROVE AttemptsInOrder!(r)'
    <3>. DEFINE ps == proposals[r]
                qs == proposals'[r]
                n == Len(proposals[r])
    <3>1. /\ Len(qs) = n + 1
          /\ \A i \in 1..n : qs[i] = ps[i]
          /\ qs[n + 1] = SettledProposal(t, r)
      BY <1>1, <2>4, CommitEffect
    <3>2. n \in Nat /\ attempt[r] \in Nat
      BY <1>1, <2>1, LenProperties DEF TypeOK
    <3>3. qs[n + 1].attempt = attempt[r] /\ attempt'[r] = attempt[r]
      BY <2>4, <3>1 DEF Commits, SettledProposal
    <3>4. ASSUME NEW i \in 1..n PROVE qs[i].attempt <= qs[i + 1].attempt
      <4>1. ps[i].attempt <= IF i = n THEN attempt[r] ELSE ps[i + 1].attempt
        BY <2>1
      <4>2. CASE i = n
        BY <3>1, <3>3, <4>1, <4>2
      <4>3. CASE i # n
        <5>1. i + 1 \in 1..n
          BY <3>2, <4>3
        <5>2. qs[i] = ps[i] /\ qs[i + 1] = ps[i + 1]
          BY <3>1, <5>1
        <5>. QED BY <4>1, <4>3, <5>2
      <4>. QED BY <4>2, <4>3
    <3>5. ASSUME NEW i \in 1..Len(qs)
          PROVE  qs[i].attempt <= IF i = Len(qs) THEN attempt'[r] ELSE qs[i + 1].attempt
      <4>1. i \in 1..n \/ i = n + 1
        BY <3>1, <3>2
      <4>2. CASE i = n + 1
        BY <3>1, <3>2, <3>3, <4>2
      <4>3. CASE i \in 1..n
        <5>1. i # Len(qs)
          BY <3>1, <3>2, <4>3
        <5>. QED BY <3>4, <4>3, <5>1
      <4>. QED BY <4>1, <4>2, <4>3
    <3>. QED BY <3>5
  <2>. QED BY <1>2, <2>2, <2>3, <2>4
<1>. QED BY <1>1, <1>3, <1>4, <1>5, <1>6 DEF History

\* For any number of threads on a request: the generations count the committed
\* tokens, the recorded proposals tile the sequence, and attempts never go back.
THEOREM HistoryCorrect ==
    Spec => []GenerationTracksLength /\ []ProposalsTileSequence /\ []AttemptsInOrder
<1>1. Spec => []History
  BY HistoryInit, HistoryNext, PTL DEF Spec
<1>2. History => GenerationTracksLength /\ ProposalsTileSequence /\ AttemptsInOrder
  BY DEF History
<1>. QED BY <1>1, <1>2, PTL
-----------------------------------------------------------------------------
(***************************************************************************)
(* Action properties and refinement                                        *)
(***************************************************************************)

\* No interleaving of cycles, retries and rollbacks ever removes or replaces a
\* committed token.
THEOREM AppendOnlyCorrect == Spec => AppendOnly
<1>1. ASSUME History, [Next]_vars, NEW r \in Named, registered[r]
      PROVE  KeepsTokens(r)
  <2>1. TypeOK /\ CallShape /\ UnregisteredIsFresh
    BY <1>1 DEF History
  <2>2. Len(committed[r]) \in Nat
    BY <2>1, LenProperties DEF TypeOK, Named
  <2>3. CASE Untouched(r)
    BY <1>1, <2>2, <2>3 DEF Untouched, KeepsTokens
  <2>4. ASSUME NEW t \in Threads, Commits(t, r)
        PROVE  KeepsTokens(r)
    <3>1. /\ AcceptedPrefix(t) \in Nat
          /\ Len(committed'[r]) = Len(committed[r]) + AcceptedPrefix(t)
          /\ \A k \in 1..Len(committed[r]) : committed'[r][k] = committed[r][k]
      BY <2>1, <2>4, CommitEffect
    <3>2. Len(committed[r]) <= Len(committed'[r])
      BY <2>2, <3>1
    <3>. QED BY <2>4, <3>1, <3>2 DEF Commits, KeepsTokens
  <2>. QED BY <1>1, <2>1, <2>3, <2>4, AuthorityStep DEF Registers
<1>2. Spec => []History
  BY HistoryInit, HistoryNext, PTL DEF Spec
<1>3. History /\ [Next]_vars => [\A r \in Named : registered[r] => KeepsTokens(r)]_vars
  BY <1>1
<1>. QED BY <1>2, <1>3, PTL DEF Spec, AppendOnly

\* Once a request is cancelled or completed no thread commits to it any more,
\* not even one whose cycle was verified before.
THEOREM ClosedNeverCommitsCorrect == Spec => ClosedNeverCommits
<1>1. ASSUME History, [Next]_vars, NEW r \in Named, Closed(r)
      PROVE  StaysClosed(r)
  <2>1. TypeOK /\ CallShape /\ UnregisteredIsFresh
    BY <1>1 DEF History
  <2>2. registered[r]
    BY <1>1, <2>1 DEF UnregisteredIsFresh, Closed
  <2>3. Untouched(r)
    BY <1>1, <2>1, <2>2, AuthorityStep DEF Registers, Commits
  <2>. QED BY <1>1, <2>3 DEF Untouched, StaysClosed
<1>2. Spec => []History
  BY HistoryInit, HistoryNext, PTL DEF Spec
<1>3. History /\ [Next]_vars => [\A r \in Named : Closed(r) => StaysClosed(r)]_vars
  BY <1>1
<1>. QED BY <1>2, <1>3, PTL DEF Spec, ClosedNeverCommits

\* With no cycle in flight and the engine-wide ratio below the threshold, no call
\* of any thread on any request admits a cycle again (check_backpressure, lines
\* 94-98 of fabric.cpp): the gate closes for the life of the engine.
THEOREM EconomicGateIsPermanentCorrect == Spec => EconomicGateIsPermanent
<1>. USE DEF authority, identity, closing, records
<1>1. ASSUME TypeOK, [Next]_vars, GateClosed
      PROVE  GateClosed'
  <2>. DEFINE Ratio == <<stats["tokens_proposed"], stats["tokens_accepted"]>>
  <2>1. stats \in [Counters -> Nat]
    BY <1>1 DEF TypeOK
  <2>2. SUFFICES Ratio' = Ratio /\ call' = call
    BY <1>1, <2>2 DEF GateClosed, EconomicsBelowThreshold
  <2>3. CASE UNCHANGED vars
    BY <2>3 DEF vars
  <2>4. ASSUME NEW r \in Requests, Submit(r) \/ Cancel(r) \/ Rollback(r) \/ Retry(r)
        PROVE  Ratio' = Ratio /\ call' = call
    BY <2>1, <2>4 DEF Submit, Cancel, Rollback, Retry, Counters
  <2>5. ASSUME NEW r \in Requests, Complete(r) \/ DeadlinePasses(r) \/ RefuseCycle(r)
        PROVE  Ratio' = Ratio /\ call' = call
    BY <2>1, <2>5 DEF Complete, DeadlinePasses, RefuseCycle, Counters
  <2>6. ASSUME NEW r \in Requests, NEW t \in Threads, StartCycle(t, r)
        PROVE  FALSE
    BY <1>1, <2>6 DEF StartCycle, GateClosed, Blocked
  <2>7. CASE RollEpoch
    BY <2>7 DEF RollEpoch
  <2>8. ASSUME NEW t \in Threads, CycleStep(t)
        PROVE  FALSE
    BY <1>1, <2>8 DEF GateClosed, CycleStep, ProposeBranch, VerifyBranch, ExecutorError,
         FullAccept, PartialAccept, RejectAll, StaleAuthority, Settle
  <2>. QED BY <1>1, <2>3, <2>4, <2>5, <2>6, <2>7, <2>8 DEF Next
<1>2. Spec => []TypeOK
  BY TypeCorrect, PTL
<1>3. TypeOK /\ [Next]_vars => [GateClosed => GateClosed']_vars
  BY <1>1
<1>. QED BY <1>2, <1>3, PTL DEF Spec, EconomicGateIsPermanent

\* A step changes the authority and the status of at most one named request.
LEMMA OneAtATime ==
    ASSUME History, [Next]_vars, Named # {}
    PROVE  \E q \in Named : \A r \in Named \ {q} :
               Status(r)' = Status(r) /\ committed'[r] = committed[r] /\ authGen'[r] = authGen[r]
<1>. USE DEF authority, identity, closing, records
<1>. DEFINE Same(r) == /\ Status(r)' = Status(r)
                       /\ committed'[r] = committed[r] /\ authGen'[r] = authGen[r]
            Others(q) == \A r \in Requests \ {q} : Same(r)
<1>0. TypeOK /\ CallShape /\ Named \subseteq Requests
  BY DEF History, Named
<1>1. UNCHANGED <<authority, registered, cancelled, terminal>> => \A q : Others(q)
  BY DEF Status, Closed
<1>2. ASSUME NEW q \in Requests, Submit(q) PROVE Others(q)
  BY <1>0, <1>2 DEF Submit, Status, Closed, TypeOK
<1>3. ASSUME NEW q \in Requests, Cancel(q) PROVE Others(q)
  BY <1>0, <1>3 DEF Cancel, Status, Closed, TypeOK
<1>4. ASSUME NEW q \in Requests, Complete(q) PROVE Others(q)
  BY <1>0, <1>4 DEF Complete, Status, Closed, TypeOK
<1>5. ASSUME NEW t \in Threads, Settle(t) PROVE Others(call[t].req)
  BY <1>0, <1>5 DEF Settle, Status, Closed, TypeOK
<1>6. \E q : Others(q)
  <2>1. ASSUME NEW q \in Requests,
               Rollback(q) \/ Retry(q) \/ DeadlinePasses(q) \/ RefuseCycle(q)
        PROVE  Others(q)
    BY <1>1, <2>1 DEF Rollback, Retry, DeadlinePasses, RefuseCycle
  <2>2. ASSUME NEW q \in Requests, NEW t \in Threads, StartCycle(t, q) PROVE Others(q)
    BY <1>1, <2>2 DEF StartCycle
  <2>3. ASSUME NEW t \in Threads,
               ProposeBranch(t) \/ VerifyBranch(t) \/ ExecutorError(t) \/ StaleAuthority(t)
        PROVE  \A q : Others(q)
    BY <1>1, <2>3 DEF ProposeBranch, VerifyBranch, ExecutorError, StaleAuthority
  <2>4. RollEpoch => \A q : Others(q)
    BY <1>1 DEF RollEpoch
  <2>5. UNCHANGED vars => \A q : Others(q)
    BY <1>1 DEF vars
  <2>. HIDE DEF Others
  <2>. QED BY <1>2, <1>3, <1>4, <1>5, <2>1, <2>2, <2>3, <2>4, <2>5
           DEF Next, CycleStep, FullAccept, PartialAccept, RejectAll
<1>7. PICK q : Others(q)
  BY <1>6
<1>8. CASE q \in Named
  BY <1>0, <1>7, <1>8
<1>9. CASE q \notin Named
  <2>1. PICK p \in Named : TRUE
    OBVIOUS
  <2>2. \A r \in Named \ {p} : Same(r)
    BY <1>0, <1>7, <1>9
  <2>. QED BY <2>1, <2>2
<1>. QED BY <1>8, <1>9

\* The engine implements the abstract sequence: under the refinement mapping a
\* cycle, a retry or a rollback is invisible but for the tokens it commits.
THEOREM Refinement == Spec => RefinesAuthority
<1>1. Init => Authority!Init
  BY DEF Init, Authority!Init, Status, Named, Closed
<1>2. ASSUME History, [Next]_vars
      PROVE  [Authority!Next]_(Authority!absVars)
  <2>1. TypeOK /\ CallShape /\ UnregisteredIsFresh /\ GenerationTracksLength
    BY <1>2 DEF History
  <2>2. CASE Named = {}
    BY <2>2 DEF Authority!absVars
  <2>3. CASE Named # {}
    <3>1. PICK q \in Named : \A r \in Named \ {q} :
             Status(r)' = Status(r) /\ committed'[r] = committed[r] /\ authGen'[r] = authGen[r]
      BY <1>2, <2>3, OneAtATime
    <3>2. Authority!Only(q)
      BY <3>1 DEF Authority!Only
    <3>3. CASE Registers(q)
      <4>1. Status(q) = "absent" /\ Status(q)' = "open"
        BY <3>3 DEF Registers, Status
      <4>2. Authority!Register(q)
        BY <3>2, <3>3, <4>1 DEF Authority!Register, Registers
      <4>. QED BY <4>2 DEF Authority!Next
    <3>4. ASSUME NEW t \in Threads, Commits(t, q) PROVE Authority!Extend(q)
      <4>1. Status(q) = "open" /\ Status(q)' = "open"
        BY <3>4 DEF Commits, Status
      <4>2. /\ AcceptedPrefix(t) \in Nat
            /\ Len(committed'[q]) = Len(committed[q]) + AcceptedPrefix(t)
            /\ \A k \in 1..Len(committed[q]) : committed'[q][k] = committed[q][k]
            /\ Len(committed[q]) \in Nat /\ authGen[q] \in Nat
        BY <2>1, <3>4, CommitEffect, LenProperties DEF TypeOK, Named
      <4>3. authGen'[q] = authGen[q] + AcceptedPrefix(t)
        BY <3>4 DEF Commits
      <4>4. /\ Len(committed[q]) <= Len(committed'[q])
            /\ authGen'[q] - authGen[q] = Len(committed'[q]) - Len(committed[q])
        BY <4>2, <4>3
      <4>. QED BY <3>2, <4>1, <4>2, <4>4 DEF Authority!Extend, Authority!Extends
    <3>5. CASE Untouched(q)
      <4>1. CASE Status(q)' = Status(q)
        <5>1. \A r \in Named :
                 Status(r)' = Status(r) /\ committed'[r] = committed[r] /\ authGen'[r] = authGen[r]
          BY <3>1, <3>5, <4>1 DEF Untouched
        <5>. QED BY <5>1 DEF Authority!absVars
      <4>2. CASE Status(q)' # Status(q)
        <5>1. Status(q) = "open" /\ Status(q)' = "closed"
          BY <3>5, <4>2 DEF Untouched, Status
        <5>2. Authority!Close(q)
          BY <3>2, <3>5, <5>1 DEF Authority!Close, Untouched
        <5>. QED BY <5>2 DEF Authority!Next
      <4>. QED BY <4>1, <4>2
    <3>. QED BY <1>2, <2>1, <3>3, <3>4, <3>5, AuthorityStep DEF Authority!Next
  <2>. QED BY <2>2, <2>3
<1>3. Spec => []History
  BY HistoryInit, HistoryNext, PTL DEF Spec
<1>4. History /\ [Next]_vars => [Authority!Next]_(Authority!absVars)
  BY <1>2
<1>. QED BY <1>1, <1>3, <1>4, PTL DEF Spec, RefinesAuthority, Authority!Spec
-----------------------------------------------------------------------------
(***************************************************************************)
(* Parts of the history invariant under their own names                    *)
(***************************************************************************)

\* However cycles, retries, rollbacks and cancels interleave, the generations
\* count exactly the tokens committed after the prefix.
THEOREM GenerationCorrect == Spec => []GenerationTracksLength
BY HistoryCorrect, PTL

\* The proposals of a request carry attempts that never go back, also when a
\* retry overtakes a running cycle.
THEOREM AttemptsCorrect == Spec => []AttemptsInOrder
BY HistoryCorrect, PTL
-----------------------------------------------------------------------------
(***************************************************************************)
(* The phase and the branches                                              *)
(***************************************************************************)

\* The inductive invariant behind both: CancelledPhase needs PhaseShape to know
\* which rows of the table a cancel and a completion can meet.
Marks ==
    /\ TypeOK /\ CallShape
    /\ PhaseShape /\ CancelledPhase /\ AtMostOneActiveBranch

\* The initial states satisfy it.
LEMMA MarksInit == Init => Marks
<1>. SUFFICES ASSUME Init PROVE Marks
  OBVIOUS
<1>1. TypeOK /\ CallShape
  BY TypeInit
<1>2. PhaseShape /\ CancelledPhase /\ AtMostOneActiveBranch
  BY DEF Init, PhaseShape, CancelledPhase, AtMostOneActiveBranch
<1>. QED BY <1>1, <1>2 DEF Marks

\* The phase and the flag change together: dispatch, retry and settlement move
\* only a machine that is not cancelled, and no event leads out of
\* CancelRequested but Expire, which the engine never applies.
LEMMA PhaseNext ==
    ASSUME TypeOK, CallShape, PhaseShape, CancelledPhase, [Next]_vars
    PROVE  PhaseShape' /\ CancelledPhase'
<1>. USE DEF authority, identity, closing, records
<1>. DEFINE Agree(r) == /\ cycle[r] \in {"Ready", "ProposalDispatched", "CancelRequested"}
                        /\ cancelled[r] <=> cycle[r] = "CancelRequested"
<1>1. /\ cycle \in [Requests -> Phases]
      /\ cancelled \in [Requests -> BOOLEAN]
      /\ \A r \in Requests : Agree(r)
  BY DEF TypeOK, PhaseShape, CancelledPhase
<1>2. SUFFICES \A r \in Requests : Agree(r)'
  BY <1>2 DEF PhaseShape, CancelledPhase
<1>3. \A r \in Requests : Restarted(cycle[r]) = cycle[r]
  BY <1>1 DEF Restarted, TerminalPhases
<1>4. ASSUME NEW q \in Requests, Submit(q) PROVE \A r \in Requests : Agree(r)'
  BY <1>1, <1>4 DEF Submit
<1>5. ASSUME NEW q \in Requests, Cancel(q) PROVE \A r \in Requests : Agree(r)'
  <2>1. Apply(cycle[q], "Cancel") = "CancelRequested"
    BY <1>1, <1>5, EngineTransitions DEF Cancel
  <2>. QED BY <1>1, <1>5, <2>1 DEF Cancel
<1>6. ASSUME NEW q \in Requests, Complete(q) PROVE \A r \in Requests : Agree(r)'
  <2>1. Apply(cycle[q], "EnterTerminal") = cycle[q]
    BY <1>1, EngineTransitions
  <2>. QED BY <1>1, <1>6, <2>1 DEF Complete
<1>7. ASSUME NEW q \in Requests, Retry(q) PROVE \A r \in Requests : Agree(r)'
  BY <1>1, <1>7 DEF Retry
<1>8. ASSUME NEW q \in Requests, RefuseCycle(q) PROVE \A r \in Requests : Agree(r)'
  BY <1>1, <1>3, <1>8 DEF RefuseCycle
<1>9. ASSUME NEW t \in Threads, NEW q \in Requests, StartCycle(t, q)
      PROVE  \A r \in Requests : Agree(r)'
  <2>1. Dispatched(Restarted(cycle[q])) = "ProposalDispatched"
    BY <1>1, <1>3, <1>9, EngineTransitions DEF StartCycle, Alive
  <2>. QED BY <1>1, <1>9, <2>1 DEF StartCycle, Alive
<1>10. ASSUME NEW t \in Threads, Settle(t) PROVE \A r \in Requests : Agree(r)'
  <2>1. call[t].req \in Requests
    BY <1>10 DEF Settle, CallShape
  <2>. QED BY <1>1, <1>10, <2>1 DEF Settle, AuthorityLost
<1>11. UNCHANGED <<cycle, cancelled>> => \A r \in Requests : Agree(r)'
  BY <1>1
<1>12. ASSUME NEW q \in Requests, Rollback(q) \/ DeadlinePasses(q)
       PROVE  UNCHANGED <<cycle, cancelled>>
  BY <1>12 DEF Rollback, DeadlinePasses
<1>13. ASSUME NEW t \in Threads,
              ProposeBranch(t) \/ VerifyBranch(t) \/ ExecutorError(t) \/ StaleAuthority(t)
       PROVE  UNCHANGED <<cycle, cancelled>>
  BY <1>13 DEF ProposeBranch, VerifyBranch, ExecutorError, StaleAuthority
<1>14. RollEpoch \/ UNCHANGED vars => UNCHANGED <<cycle, cancelled>>
  BY DEF RollEpoch, vars
<1>. HIDE DEF Agree
<1>. QED
  BY <1>4, <1>5, <1>6, <1>7, <1>8, <1>9, <1>10, <1>11, <1>12, <1>13, <1>14
  DEF Next, CycleStep, FullAccept, PartialAccept, RejectAll

\* At most one of these marks is "active".
OneActive(bs) == \A b, c \in BranchIds : bs[b] = "active" /\ bs[c] = "active" => b = c

\* A winner may be recorded as active because every other branch is retired in
\* the same step; cancel and rollback retire all.
LEMMA BranchesNext ==
    ASSUME TypeOK, CallShape, AtMostOneActiveBranch, [Next]_vars
    PROVE  AtMostOneActiveBranch'
<1>. USE DEF authority, identity, closing, records
<1>1. /\ branches \in [Requests -> [BranchIds -> {"absent", "active", "retired"}]]
      /\ \A r \in Requests : OneActive(branches[r])
  BY DEF TypeOK, AtMostOneActiveBranch, OneActive
<1>2. SUFFICES \A r \in Requests : OneActive(branches'[r])
  BY <1>2 DEF AtMostOneActiveBranch, OneActive
<1>3. \A bs : OneActive(RetireAll(bs))
  BY DEF OneActive, RetireAll
<1>4. \A bs, win : OneActive(RetireOthers(bs, win))
  BY DEF OneActive, RetireOthers
<1>. HIDE DEF OneActive
<1>5. ASSUME NEW q \in Requests, Cancel(q) \/ Rollback(q)
      PROVE  \A r \in Requests : OneActive(branches'[r])
  BY <1>1, <1>3, <1>5 DEF Cancel, Rollback
<1>6. ASSUME NEW t \in Threads, Settle(t)
      PROVE  \A r \in Requests : OneActive(branches'[r])
  BY <1>1, <1>4, <1>6 DEF Settle
<1>7. ASSUME NEW q \in Requests,
             Submit(q) \/ Complete(q) \/ Retry(q) \/ DeadlinePasses(q) \/ RefuseCycle(q)
      PROVE  branches' = branches
  BY <1>7 DEF Submit, Complete, Retry, DeadlinePasses, RefuseCycle
<1>8. ASSUME NEW q \in Requests, NEW t \in Threads, StartCycle(t, q)
      PROVE  branches' = branches
  BY <1>8 DEF StartCycle
<1>9. ASSUME NEW t \in Threads,
             ProposeBranch(t) \/ VerifyBranch(t) \/ ExecutorError(t) \/ StaleAuthority(t)
      PROVE  branches' = branches
  BY <1>9 DEF ProposeBranch, VerifyBranch, ExecutorError, StaleAuthority
<1>10. RollEpoch \/ UNCHANGED vars => branches' = branches
  BY DEF RollEpoch, vars
<1>. QED
  BY <1>1, <1>5, <1>6, <1>7, <1>8, <1>9, <1>10
  DEF Next, CycleStep, FullAccept, PartialAccept, RejectAll

\* Marks is inductive.
LEMMA MarksCorrect == Spec => []Marks
<1>1. Marks /\ [Next]_vars => Marks'
  BY TypeNext, PhaseNext, BranchesNext DEF Marks
<1>. QED BY <1>1, MarksInit, PTL DEF Spec

\* A snapshot shows CancelRequested exactly for a cancelled request, whichever
\* cycle, retry or completion raced with the cancel.
THEOREM CancelledPhaseCorrect == Spec => []CancelledPhase
<1>1. Marks => CancelledPhase
  BY DEF Marks
<1>. QED BY <1>1, MarksCorrect, PTL

\* At most one branch of a request is active, whichever branches won before.
THEOREM ActiveBranchCorrect == Spec => []AtMostOneActiveBranch
<1>1. Marks => AtMostOneActiveBranch
  BY DEF Marks
<1>. QED BY <1>1, MarksCorrect, PTL
-----------------------------------------------------------------------------
(***************************************************************************)
(* How much speculative work a request can have                            *)
(***************************************************************************)

\* The number of threads that run a cycle of a request is a natural number, at
\* most the number of threads, and one less without a thread that runs one.
LEMMA RunningSize ==
    /\ Cardinality(Threads) \in Nat
    /\ \A S \in SUBSET Threads :
          /\ Cardinality(S) \in Nat /\ Cardinality(S) <= Cardinality(Threads)
          /\ \A t \in S : Cardinality(S \ {t}) = Cardinality(S) - 1
<1>1. \A S \in SUBSET Threads : IsFiniteSet(S) /\ Cardinality(S) <= Cardinality(Threads)
  BY FiniteThreads, FS_Subset
<1>. QED BY <1>1, FiniteThreads, FS_CardinalityType, FS_RemoveElement

\* The limit and the excess over it: an admission finds fewer than
\* MaxOutstanding proposals, and a settlement trades a running cycle for one.
LEMMA OutstandingNext ==
    ASSUME TypeOK, CallShape, OutstandingBounded, [Next]_vars
    PROVE  OutstandingBounded'
<1>. USE ConstantsAssumption DEF authority, identity, closing, records
<1>. DEFINE Work(r) == Len(proposals[r]) + Cardinality(Running(r))
            Limit == MaxOutstanding + Cardinality(Threads)
<1>1. SUFFICES ASSUME MaxOutstanding # 0, NEW r \in Requests
               PROVE  Work(r)' < Limit
  BY DEF OutstandingBounded
<1>2. /\ Work(r) < Limit /\ proposals[r] \in Seq(Proposal) /\ Len(proposals[r]) \in Nat
      /\ call \in [Threads -> [pc : {"idle", "propose", "verify", "settle"},
                               req : Requests \cup {NoRequest},
                               depth : Nat,
                               proposed : Seq(BranchResult),
                               accepted : Seq(Verdict)]]
  BY <1>1, LenProperties DEF OutstandingBounded, TypeOK
<1>3. /\ Running(r) \in SUBSET Threads /\ Running(r)' \in SUBSET Threads
      /\ Cardinality(Running(r)) \in Nat /\ Cardinality(Running(r))' \in Nat
      /\ Cardinality(Running(r))' <= Cardinality(Threads)
      /\ Cardinality(Threads) \in Nat /\ Limit \in Nat
  <2>1. Running(r) \in SUBSET Threads /\ Running(r)' \in SUBSET Threads
    BY DEF Running
  <2>. QED BY <2>1, RunningSize
<1>4. ASSUME proposals'[r] = proposals[r], Running(r)' \subseteq Running(r)
      PROVE  Work(r)' < Limit
  <2>1. Cardinality(Running(r)') <= Cardinality(Running(r))
    BY <1>3, <1>4, FiniteThreads, FS_Subset
  <2>. QED BY <1>2, <1>3, <1>4, <2>1
<1>5. ASSUME proposals' = proposals, call' = call PROVE Work(r)' < Limit
  BY <1>4, <1>5 DEF Running
<1>6. ASSUME NEW q \in Requests,
             Submit(q) \/ Cancel(q) \/ Complete(q) \/ Rollback(q) \/ Retry(q)
             \/ DeadlinePasses(q) \/ RefuseCycle(q)
      PROVE  proposals' = proposals /\ call' = call
  BY <1>6 DEF Submit, Cancel, Complete, Rollback, Retry, DeadlinePasses, RefuseCycle
<1>7. RollEpoch \/ UNCHANGED vars => proposals' = proposals /\ call' = call
  BY DEF RollEpoch, vars
<1>8. ASSUME NEW t \in Threads, NEW q \in Requests, StartCycle(t, q)
      PROVE  Work(r)' < Limit
  <2>1. proposals' = proposals
    BY <1>8 DEF StartCycle
  <2>2. CASE q = r
    <3>1. Len(proposals[r]) < MaxOutstanding
      BY <1>1, <1>2, <1>8, <2>2 DEF StartCycle, Blocked, Outstanding
    <3>. QED BY <1>2, <1>3, <2>1, <3>1
  <2>3. CASE q # r
    <3>1. \A u \in Threads : call'[u].req = r => call[u].req = r
      BY <1>2, <1>8, <2>3 DEF StartCycle, Call
    <3>2. Running(r)' \subseteq Running(r)
      BY <3>1 DEF Running
    <3>. QED BY <1>4, <2>1, <3>2
  <2>. QED BY <2>2, <2>3
<1>9. ASSUME NEW t \in Threads,
             ProposeBranch(t) \/ VerifyBranch(t) \/ ExecutorError(t) \/ StaleAuthority(t)
      PROVE  Work(r)' < Limit
  <2>1. proposals' = proposals
    BY <1>9 DEF ProposeBranch, VerifyBranch, ExecutorError, StaleAuthority
  <2>2. \A u \in Threads : call'[u].req = r => call[u].req = r
    <3>1. CASE ProposeBranch(t)
      BY <1>1, <1>2, <3>1 DEF ProposeBranch, Call
    <3>2. CASE VerifyBranch(t)
      BY <1>1, <1>2, <3>2 DEF VerifyBranch, Call
    <3>3. CASE ExecutorError(t) \/ StaleAuthority(t)
      <4>1. call' = [call EXCEPT ![t] = Idle]
        BY <3>3 DEF ExecutorError, StaleAuthority
      <4>. QED BY <1>1, <1>2, <4>1 DEF Call, Idle
    <3>. QED BY <1>9, <3>1, <3>2, <3>3
  <2>3. Running(r)' \subseteq Running(r)
    BY <2>2 DEF Running
  <2>. QED BY <1>4, <2>1, <2>3
<1>10. ASSUME NEW t \in Threads, Settle(t) PROVE Work(r)' < Limit
  <2>1. \A u \in Threads : call'[u].req = r <=> u # t /\ call[u].req = r
    BY <1>1, <1>2, <1>10 DEF Settle, Call, Idle
  <2>2. Running(r)' = Running(r) \ {t}
    BY <2>1 DEF Running
  <2>3. CASE call[t].req = r
    <3>1. Cardinality(Running(r)') = Cardinality(Running(r)) - 1
      <4>1. t \in Running(r)
        BY <2>3 DEF Running
      <4>. QED BY <1>3, <2>2, <4>1, RunningSize
    <3>2. Len(proposals'[r]) = Len(proposals[r]) + 1
      <4>1. proposals'[r] = Append(proposals[r], SettledProposal(t, r))
        BY <1>10, <2>3 DEF Settle, TypeOK
      <4>. DEFINE S == Proposal \cup {SettledProposal(t, r)}
      <4>2. proposals[r] \in Seq(S)
        BY <1>2
      <4>3. SettledProposal(t, r) \in S
        OBVIOUS
      <4>. HIDE DEF S
      <4>. QED BY <4>1, <4>2, <4>3, AppendProperties
    <3>. QED BY <1>2, <1>3, <3>1, <3>2
  <2>4. CASE call[t].req # r
    <3>1. proposals'[r] = proposals[r]
      BY <1>10, <2>4 DEF Settle, TypeOK
    <3>. QED BY <1>4, <2>2, <3>1
  <2>. QED BY <2>3, <2>4
<1>. HIDE DEF Work, Limit
<1>. QED
  BY <1>5, <1>6, <1>7, <1>8, <1>9, <1>10
  DEF Next, CycleStep, FullAccept, PartialAccept, RejectAll

\* However many threads pass the limit's check before one of them settles, the
\* proposals of a request exceed max_outstanding_speculative_work by fewer than
\* there are threads.
THEOREM OutstandingCorrect == Spec => []OutstandingBounded
<1>1. Init => OutstandingBounded
  <2>. SUFFICES ASSUME Init, MaxOutstanding # 0, NEW r \in Requests
                PROVE  Len(proposals[r]) + Cardinality(Running(r))
                          < MaxOutstanding + Cardinality(Threads)
    BY DEF OutstandingBounded
  <2>1. Running(r) = {} /\ proposals[r] = <<>>
    BY ConstantsAssumption DEF Init, Running, Idle, Call
  <2>2. Cardinality(Running(r)) = 0
    BY <2>1, FS_EmptySet
  <2>. QED BY <2>1, <2>2, RunningSize, ConstantsAssumption
<1>2. OutstandingBounded /\ TypeOK /\ CallShape /\ [Next]_vars => OutstandingBounded'
  BY OutstandingNext
<1>. QED BY <1>1, <1>2, TypeCorrect, PTL DEF Spec
-----------------------------------------------------------------------------
(***************************************************************************)
(* Cycles that overlap: what they read, and what they commit               *)
(***************************************************************************)

\* The cycle c read its bases from the generations S, none above g, and verified
\* no branch against an older one than it was drafted from.
ReadFrom(c, S, g) ==
    /\ \A i \in 1..Len(c.proposed) : c.proposed[i].base \in S /\ c.proposed[i].base <= g
    /\ \A j \in 1..Len(c.accepted) : c.accepted[j].base \in S /\ c.accepted[j].base <= g
    /\ \A i \in 1..Len(c.proposed), j \in 1..Len(c.accepted) :
          c.proposed[i].base <= c.accepted[j].base

\* Every cycle in flight is such a cycle of its request.
InFlight ==
    \A t \in Threads, q \in Named :
        call[t].req = q => ReadFrom(call[t], Reached(q), authGen[q])

\* A base that was read stays one that was read, when the sequence moves on.
LEMMA ReadFromLater ==
    ASSUME NEW c, NEW S \in SUBSET Nat, NEW U \in SUBSET Nat, NEW g \in Nat, NEW h \in Nat,
           S \subseteq U, g <= h, ReadFrom(c, S, g)
    PROVE  ReadFrom(c, U, h)
<1>1. \A x \in S : x \in Nat /\ x \in U /\ (x <= g => x <= h)
  OBVIOUS
<1>2. \A i \in 1..Len(c.proposed) : c.proposed[i].base \in U /\ c.proposed[i].base <= h
  BY <1>1 DEF ReadFrom
<1>3. \A j \in 1..Len(c.accepted) : c.accepted[j].base \in U /\ c.accepted[j].base <= h
  BY <1>1 DEF ReadFrom
<1>. QED BY <1>2, <1>3 DEF ReadFrom

\* The generations a request has been at are numbers, the present one among them.
LEMMA ReachedType ==
    ASSUME TypeOK, NEW r \in Named
    PROVE  Reached(r) \in SUBSET Nat /\ authGen[r] \in Reached(r) /\ authGen[r] \in Nat
<1>1. r \in Requests
  BY DEF Named
<1>2. proposals[r] \in Seq(Proposal) /\ authGen[r] \in Nat
  BY <1>1 DEF TypeOK
<1>3. \A k \in 1..Len(proposals[r]) : proposals[r][k].base \in Nat
  <2>1. \A k \in 1..Len(proposals[r]) : proposals[r][k] \in Proposal
    BY <1>2, ElementOfSeq
  <2>. QED BY <2>1 DEF Proposal
<1>. QED BY <1>2, <1>3 DEF Reached

\* They stay so: a settlement keeps the generation it finds as the base of the
\* proposal it records.
LEMMA ReachedGrows ==
    ASSUME TypeOK, CallShape, UnregisteredIsFresh, [Next]_vars, NEW r \in Named, registered[r]
    PROVE  Reached(r) \subseteq Reached(r)' /\ authGen[r] <= authGen'[r]
<1>1. authGen[r] \in Nat /\ proposals[r] \in Seq(Proposal) /\ Len(proposals[r]) \in Nat
  BY LenProperties DEF Named, TypeOK
<1>2. CASE Untouched(r)
  BY <1>1, <1>2 DEF Untouched, Reached
<1>3. CASE Registers(r)
  BY <1>3 DEF Registers
<1>4. ASSUME NEW t \in Threads, Commits(t, r)
      PROVE  Reached(r) \subseteq Reached(r)' /\ authGen[r] <= authGen'[r]
  <2>1. /\ AcceptedPrefix(t) \in Nat
        /\ Len(proposals'[r]) = Len(proposals[r]) + 1
        /\ \A i \in 1..Len(proposals[r]) : proposals'[r][i] = proposals[r][i]
        /\ proposals'[r][Len(proposals[r]) + 1] = SettledProposal(t, r)
    BY <1>4, CommitEffect
  <2>2. SettledProposal(t, r).base = authGen[r]
    BY DEF SettledProposal
  <2>3. authGen'[r] = authGen[r] + AcceptedPrefix(t)
    BY <1>4 DEF Commits
  <2>4. \A i \in 1..Len(proposals[r]) : i \in 1..Len(proposals'[r])
    BY <1>1, <2>1
  <2>5. Len(proposals[r]) + 1 \in 1..Len(proposals'[r])
    BY <1>1, <2>1
  <2>6. Reached(r) \subseteq Reached(r)'
    BY <2>1, <2>2, <2>4, <2>5 DEF Reached
  <2>. QED BY <1>1, <2>1, <2>3, <2>6
<1>. QED BY <1>2, <1>3, <1>4, AuthorityStep

\* What a step does with the call of thread u.
LEMMA CallStep ==
    ASSUME TypeOK, [Next]_vars, NEW u \in Threads
    PROVE  \/ call'[u] = call[u]
           \/ call'[u] = Idle
           \/ \E r \in Requests : StartCycle(u, r)
           \/ ProposeBranch(u)
           \/ VerifyBranch(u)
<1>. DEFINE Goal == \/ call'[u] = call[u]
                    \/ call'[u] = Idle
                    \/ \E r \in Requests : StartCycle(u, r)
                    \/ ProposeBranch(u)
                    \/ VerifyBranch(u)
<1>. USE ConstantsAssumption DEF authority, identity, closing, records
<1>1. call \in [Threads -> [pc : {"idle", "propose", "verify", "settle"},
                            req : Requests \cup {NoRequest},
                            depth : Nat,
                            proposed : Seq(BranchResult),
                            accepted : Seq(Verdict)]]
  BY DEF TypeOK
<1>2. ASSUME NEW r \in Requests,
             Submit(r) \/ Cancel(r) \/ Complete(r) \/ Rollback(r) \/ Retry(r)
             \/ DeadlinePasses(r) \/ RefuseCycle(r)
      PROVE  call' = call
  BY <1>2 DEF Submit, Cancel, Complete, Rollback, Retry, DeadlinePasses, RefuseCycle
<1>3. RollEpoch \/ UNCHANGED vars => call' = call
  BY DEF RollEpoch, vars
<1>4. ASSUME NEW t \in Threads, t # u,
             (\E r \in Requests : StartCycle(t, r)) \/ ProposeBranch(t) \/ VerifyBranch(t)
             \/ ExecutorError(t) \/ StaleAuthority(t) \/ Settle(t)
      PROVE  call'[u] = call[u]
  BY <1>1, <1>4 DEF StartCycle, ProposeBranch, VerifyBranch, ExecutorError, StaleAuthority, Settle
<1>5. ASSUME ExecutorError(u) \/ StaleAuthority(u) \/ Settle(u)
      PROVE  call'[u] = Idle
  BY <1>1, <1>5 DEF ExecutorError, StaleAuthority, Settle
<1>6. ASSUME NEW t \in Threads, CycleStep(t) PROVE Goal
  BY <1>4, <1>5, <1>6 DEF CycleStep, FullAccept, PartialAccept, RejectAll
<1>7. ASSUME NEW t \in Threads, NEW r \in Requests, StartCycle(t, r) PROVE Goal
  BY <1>4, <1>7
<1>8. Goal
  <2>. HIDE DEF Goal
  <2>1. call' = call => Goal
    BY DEF Goal
  <2>. QED BY <1>2, <1>3, <1>6, <1>7, <2>1 DEF Next
<1>. QED BY <1>8

\* A branch that is drafted reads the present generation, and changes nothing else.
LEMMA Drafts ==
    ASSUME TypeOK, CallShape, NEW t \in Threads, ProposeBranch(t)
    PROVE  /\ UNCHANGED <<authGen, proposals>> /\ call'[t].req = call[t].req
           /\ call'[t].accepted = <<>>
           /\ Len(call[t].proposed) \in Nat
           /\ Len(call'[t].proposed) = Len(call[t].proposed) + 1
           /\ \A i \in 1..Len(call[t].proposed) : call'[t].proposed[i] = call[t].proposed[i]
           /\ call'[t].proposed[Len(call[t].proposed) + 1].base = authGen[call[t].req]
<1>. USE DEF authority, records
<1>. DEFINE ps == call[t].proposed
<1>1. PICK has \in BOOLEAN :
          LET br == [attempt |-> attempt[call[t].req], base |-> BaseGeneration(call[t].req),
                     epoch |-> epoch[call[t].req], has |-> has,
                     len |-> IF has THEN call[t].depth ELSE 0]
          IN call' = [call EXCEPT ![t] =
                        Call(IF Len(call[t].proposed) + 1 = BranchCount
                                THEN "verify" ELSE "propose",
                             call[t].req, @.depth, Append(@.proposed, br), <<>>)]
  BY DEF ProposeBranch
<1>. DEFINE br == [attempt |-> attempt[call[t].req], base |-> authGen[call[t].req],
                   epoch |-> epoch[call[t].req], has |-> has,
                   len |-> IF has THEN call[t].depth ELSE 0]
<1>2. /\ call[t].req \in Requests /\ call[t].depth \in Nat /\ ps \in Seq(BranchResult)
      /\ UNCHANGED <<authGen, proposals>>
  BY DEF ProposeBranch, CallShape, TypeOK
<1>3. br \in BranchResult
  BY <1>2 DEF BranchResult, TypeOK
<1>4. /\ call'[t].req = call[t].req
      /\ call'[t].proposed = Append(ps, br) /\ call'[t].accepted = <<>>
  BY <1>1 DEF Call, BaseGeneration, TypeOK
<1>. HIDE DEF br
<1>5. /\ Len(ps) \in Nat /\ Len(call'[t].proposed) = Len(ps) + 1
      /\ \A i \in 1..Len(ps) : call'[t].proposed[i] = ps[i]
      /\ call'[t].proposed[Len(ps) + 1] = br
  BY <1>2, <1>3, <1>4, AppendProperties, LenProperties
<1>. QED BY <1>2, <1>4, <1>5 DEF br

\* A branch that is verified reads the present generation, and changes nothing else.
LEMMA Verifies ==
    ASSUME TypeOK, CallShape, NEW t \in Threads, VerifyBranch(t)
    PROVE  /\ UNCHANGED <<authGen, proposals>> /\ call'[t].req = call[t].req
           /\ call'[t].proposed = call[t].proposed
           /\ Len(call[t].accepted) \in Nat
           /\ Len(call'[t].accepted) = Len(call[t].accepted) + 1
           /\ \A j \in 1..Len(call[t].accepted) : call'[t].accepted[j] = call[t].accepted[j]
           /\ call'[t].accepted[Len(call[t].accepted) + 1].base = authGen[call[t].req]
<1>. USE DEF authority, records
<1>. DEFINE vs == call[t].accepted
            i == Len(vs) + 1
<1>1. PICK acc \in 0..call[t].proposed[i].len :
          LET v == [base |-> BaseGeneration(call[t].req), acc |-> acc]
          IN call' = [call EXCEPT ![t] =
                        Call(IF i = BranchCount THEN "settle" ELSE "verify",
                             call[t].req, @.depth, @.proposed, Append(@.accepted, v))]
  BY DEF VerifyBranch
<1>. DEFINE v == [base |-> authGen[call[t].req], acc |-> acc]
<1>2. /\ call[t].req \in Requests /\ vs \in Seq(Verdict)
      /\ UNCHANGED <<authGen, proposals>>
  BY DEF VerifyBranch, CallShape, TypeOK
<1>3. v \in Verdict
  BY <1>2 DEF Verdict, TypeOK
<1>4. /\ call'[t].req = call[t].req
      /\ call'[t].accepted = Append(vs, v) /\ call'[t].proposed = call[t].proposed
  BY <1>1 DEF Call, BaseGeneration, TypeOK
<1>. HIDE DEF v
<1>5. /\ Len(vs) \in Nat /\ Len(call'[t].accepted) = Len(vs) + 1
      /\ \A j \in 1..Len(vs) : call'[t].accepted[j] = vs[j]
      /\ call'[t].accepted[Len(vs) + 1] = v
  BY <1>2, <1>3, <1>4, AppendProperties, LenProperties
<1>. QED BY <1>2, <1>4, <1>5 DEF v

\* Every step keeps the cycles in flight on generations their request has been
\* at: what they read under an earlier lock was the present then, and no
\* settlement takes a generation back.
LEMMA InFlightNext ==
    ASSUME TypeOK, CallShape, UnregisteredIsFresh, InFlight, [Next]_vars
    PROVE  InFlight'
<1>. USE ConstantsAssumption
<1>2. SUFFICES ASSUME NEW u \in Threads, NEW q \in Named, q = call'[u].req
               PROVE  ReadFrom(call'[u], Reached(q)', authGen'[q])
  BY DEF InFlight
<1>3. q \in Requests /\ q # NoRequest
  BY DEF Named
<1>5. Reached(q) \in SUBSET Nat /\ authGen[q] \in Reached(q) /\ authGen[q] \in Nat
  BY ReachedType
<1>6. TypeOK'
  BY TypeNext
<1>7. Reached(q)' \in SUBSET Nat /\ authGen'[q] \in Nat
  <2>1. authGen' \in [Requests -> Nat] /\ proposals' \in [Requests -> Seq(Proposal)]
    BY <1>6 DEF TypeOK
  <2>2. proposals'[q] \in Seq(Proposal) /\ authGen'[q] \in Nat
    BY <1>3, <2>1
  <2>3. \A k \in 1..Len(proposals'[q]) : proposals'[q][k] \in Proposal
    BY <2>2, ElementOfSeq
  <2>. QED BY <2>2, <2>3 DEF Reached, Proposal
<1>8. CASE call'[u] = call[u]
  <2>1. ReadFrom(call[u], Reached(q), authGen[q])
    BY <1>2, <1>8 DEF InFlight
  <2>2. registered[q]
    BY <1>2, <1>3, <1>8 DEF CallShape, Idle, Call
  <2>3. Reached(q) \subseteq Reached(q)' /\ authGen[q] <= authGen'[q]
    BY <2>2, ReachedGrows
  <2>. QED BY <1>5, <1>7, <1>8, <2>1, <2>3, ReadFromLater
<1>9. CASE call'[u] = Idle
  BY <1>2, <1>3, <1>9 DEF Idle, Call
<1>10. CASE \E r \in Requests : StartCycle(u, r)
  <2>1. call'[u].proposed = <<>> /\ call'[u].accepted = <<>>
    BY <1>10 DEF StartCycle, Call, TypeOK
  <2>. QED BY <2>1 DEF ReadFrom
<1>11. CASE ProposeBranch(u)
  <2>. DEFINE n == Len(call[u].proposed)
  <2>1. /\ UNCHANGED <<authGen, proposals>> /\ call[u].req = q
        /\ call'[u].accepted = <<>> /\ n \in Nat /\ Len(call'[u].proposed) = n + 1
        /\ \A i \in 1..n : call'[u].proposed[i] = call[u].proposed[i]
        /\ call'[u].proposed[n + 1].base = authGen[q]
    BY <1>2, <1>11, Drafts
  <2>2. ReadFrom(call[u], Reached(q), authGen[q])
    BY <2>1 DEF InFlight
  <2>3. Reached(q)' = Reached(q)
    BY <2>1 DEF Reached
  <2>. HIDE DEF n
  <2>4. \A i \in 1..(n + 1) : i \in 1..n \/ i = n + 1
    BY <2>1
  <2>5. \A i \in 1..n : call[u].proposed[i].base \in Reached(q) /\ call[u].proposed[i].base <= authGen[q]
    BY <2>2 DEF ReadFrom, n
  <2>6. \A i \in 1..(n + 1) :
           call'[u].proposed[i].base \in Reached(q) /\ call'[u].proposed[i].base <= authGen[q]
    <3>1. authGen[q] \in Reached(q) /\ authGen[q] <= authGen[q]
      BY <1>5
    <3>2. \A i \in 1..n :
             call'[u].proposed[i].base \in Reached(q) /\ call'[u].proposed[i].base <= authGen[q]
      BY <2>1, <2>5
    <3>3. /\ call'[u].proposed[n + 1].base \in Reached(q)
          /\ call'[u].proposed[n + 1].base <= authGen[q]
      BY <2>1, <3>1
    <3>. QED BY <2>4, <3>2, <3>3
  <2>. QED BY <2>1, <2>3, <2>6 DEF ReadFrom
<1>12. CASE VerifyBranch(u)
  <2>. DEFINE n == Len(call[u].accepted)
              m == Len(call[u].proposed)
  <2>1. /\ UNCHANGED <<authGen, proposals>> /\ call[u].req = q
        /\ call'[u].proposed = call[u].proposed /\ n \in Nat /\ Len(call'[u].accepted) = n + 1
        /\ \A j \in 1..n : call'[u].accepted[j] = call[u].accepted[j]
        /\ call'[u].accepted[n + 1].base = authGen[q]
    BY <1>2, <1>12, Verifies
  <2>2. ReadFrom(call[u], Reached(q), authGen[q])
    BY <2>1 DEF InFlight
  <2>3. Reached(q)' = Reached(q)
    BY <2>1 DEF Reached
  <2>4. /\ \A i \in 1..m : call[u].proposed[i].base \in Reached(q) /\ call[u].proposed[i].base <= authGen[q]
        /\ \A j \in 1..n : call[u].accepted[j].base \in Reached(q) /\ call[u].accepted[j].base <= authGen[q]
        /\ \A i \in 1..m, j \in 1..n : call[u].proposed[i].base <= call[u].accepted[j].base
    BY <2>2 DEF ReadFrom
  <2>. HIDE DEF n, m
  <2>5. \A j \in 1..(n + 1) : j \in 1..n \/ j = n + 1
    BY <2>1
  <2>6. \A j \in 1..(n + 1) :
           call'[u].accepted[j].base \in Reached(q) /\ call'[u].accepted[j].base <= authGen[q]
    BY <1>5, <2>1, <2>4, <2>5
  <2>7. \A i \in 1..m, j \in 1..(n + 1) : call[u].proposed[i].base <= call'[u].accepted[j].base
    BY <2>1, <2>4, <2>5
  <2>. QED BY <2>1, <2>3, <2>4, <2>6, <2>7 DEF ReadFrom, m
<1>. QED BY <1>8, <1>9, <1>10, <1>11, <1>12, CallStep

\* The proposals recorded so far end within the sequence, and hold what one
\* verification accepted.
VerifiedRuns ==
    /\ \A r \in Named : \A k \in 1..Len(proposals[r]) :
          proposals[r][k].base + proposals[r][k].acc <= authGen[r]
    /\ CommitsVerifiedRuns

\* A settlement leaves the tokens of the earlier proposals where they are, and
\* puts those of one verdict, whose base its request has been at, behind them.
LEMMA VerifiedRunsNext ==
    ASSUME History, InFlight, VerifiedRuns, [Next]_vars
    PROVE  VerifiedRuns'
<1>. USE ConstantsAssumption
<1>1. TypeOK /\ CallShape /\ UnregisteredIsFresh /\ GenerationTracksLength
  BY DEF History
<1>2. SUFFICES ASSUME NEW r \in Named, NEW k \in 1..Len(proposals'[r])
               PROVE  /\ proposals'[r][k].base + proposals'[r][k].acc <= authGen'[r]
                      /\ \E j \in 1..k : VerifiedAsOne(r, k, proposals[r][j].base)'
  BY DEF VerifiedRuns, CommitsVerifiedRuns
<1>3. /\ r \in Requests /\ authGen[r] \in Nat
      /\ proposals[r] \in Seq(Proposal) /\ Len(proposals[r]) \in Nat
      /\ committed[r] \in Seq(Token) /\ Len(committed[r]) \in Nat
  BY <1>1, LenProperties DEF Named, TypeOK
<1>. DEFINE Goal == /\ proposals'[r][k].base + proposals'[r][k].acc <= authGen'[r]
                    /\ \E j \in 1..k : VerifiedAsOne(r, k, proposals[r][j].base)'
<1>4. CASE Untouched(r)
  <2>1. k \in 1..Len(proposals[r]) /\ proposals'[r] = proposals[r]
        /\ authGen'[r] = authGen[r] /\ committed'[r] = committed[r]
    BY <1>2, <1>4 DEF Untouched
  <2>2. PICK j \in 1..k : VerifiedAsOne(r, k, proposals[r][j].base)
    BY <2>1 DEF VerifiedRuns, CommitsVerifiedRuns
  <2>3. VerifiedAsOne(r, k, proposals[r][j].base)'
    BY <2>1, <2>2 DEF VerifiedAsOne
  <2>. QED BY <2>1, <2>3 DEF VerifiedRuns
<1>5. CASE Registers(r)
  <2>1. proposals'[r] = <<>>
    BY <1>1, <1>5 DEF Registers, UnregisteredIsFresh
  <2>. QED BY <1>2, <2>1
<1>6. ASSUME NEW t \in Threads, Commits(t, r) PROVE Goal
  <2>1. PICK n \in Nat : n = Len(proposals[r])
    BY <1>3
  <2>2. PICK g \in Nat : g = authGen[r]
    BY <1>3
  <2>3. PICK a \in Nat : a = AcceptedPrefix(t)
    BY <1>1, <1>6, CommitEffect
  <2>4. /\ Len(committed[r]) = PrefixLen + g
        /\ authGen'[r] = g + a
    BY <1>1, <1>6, <2>2, <2>3 DEF GenerationTracksLength, Commits
  <2>5. /\ committed'[r] = committed[r] \o AcceptedTokens(t)
        /\ \A i \in 1..Len(committed[r]) : committed'[r][i] = committed[r][i]
        /\ Len(proposals'[r]) = n + 1
        /\ \A i \in 1..n : proposals'[r][i] = proposals[r][i]
        /\ proposals'[r][n + 1].base = g /\ proposals'[r][n + 1].acc = a
    <3>1. SettledProposal(t, r).base = g /\ SettledProposal(t, r).acc = a
      BY <2>2, <2>3 DEF SettledProposal
    <3>2. /\ committed'[r] = committed[r] \o AcceptedTokens(t)
          /\ \A i \in 1..Len(committed[r]) : committed'[r][i] = committed[r][i]
          /\ Len(proposals'[r]) = n + 1
          /\ \A i \in 1..n : proposals'[r][i] = proposals[r][i]
          /\ proposals'[r][n + 1] = SettledProposal(t, r)
      BY <1>1, <1>6, <2>1, CommitEffect
    <3>. QED BY <3>1, <3>2
  <2>6. CASE k \in 1..n
    <3>1. PICK b \in Nat, c \in Nat : b = proposals[r][k].base /\ c = proposals[r][k].acc
      <4>1. proposals[r][k] \in Proposal
        BY <1>3, <2>1, <2>6, ElementOfSeq
      <4>. QED BY <4>1 DEF Proposal
    <3>2. b + c <= g
      BY <2>1, <2>2, <2>6, <3>1 DEF VerifiedRuns
    <3>3. PICK j \in 1..k : VerifiedAsOne(r, k, proposals[r][j].base)
      BY <2>1, <2>6 DEF VerifiedRuns, CommitsVerifiedRuns
    <3>4. j \in 1..n
      BY <2>6, <3>3
    <3>5. \A i \in 1..c : committed[r][PrefixLen + b + i] = [base |-> proposals[r][j].base, pos |-> i]
      BY <3>1, <3>3 DEF VerifiedAsOne
    <3>6. \A i \in 1..c : PrefixLen + b + i \in 1..Len(committed[r])
      BY <2>4, <3>2
    <3>7. \A i \in 1..c : committed'[r][PrefixLen + b + i] = [base |-> proposals'[r][j].base, pos |-> i]
      BY <2>5, <3>4, <3>5, <3>6
    <3>8. proposals'[r][k].base = b /\ proposals'[r][k].acc = c
      BY <2>5, <2>6, <3>1
    <3>9. VerifiedAsOne(r, k, proposals[r][j].base)'
      BY <3>7, <3>8 DEF VerifiedAsOne
    <3>10. proposals'[r][k].base + proposals'[r][k].acc <= authGen'[r]
      BY <2>4, <3>2, <3>8
    <3>. QED BY <3>9, <3>10
  <2>7. CASE k = n + 1
    <3>1. PICK w \in BranchIds : w = Winner(t)
      BY <1>1, <1>6, SettlementTypes DEF Commits
    <3>2. PICK b : b = call[t].accepted[w].base
      OBVIOUS
    <3>3. b \in Reached(r)
      <4>1. call[t].req = r /\ w \in 1..Len(call[t].accepted)
        BY <1>1, <1>6 DEF Commits, CallShape, BranchIds
      <4>. QED BY <3>2, <4>1 DEF InFlight, ReadFrom
    <3>4. PICK j \in 1..k : proposals'[r][j].base = b
      <4>1. CASE b = g
        BY <2>5, <2>7, <4>1
      <4>2. CASE b # g
        <5>1. PICK j \in 1..n : proposals[r][j].base = b
          BY <2>1, <2>2, <3>3, <4>2 DEF Reached
        <5>. QED BY <2>5, <2>7, <5>1
      <4>. QED BY <4>1, <4>2
    <3>5. /\ AcceptedTokens(t) \in Seq(Token) /\ Len(AcceptedTokens(t)) = a
      BY <1>1, <1>6, <2>3, SettlementTypes DEF Commits
    <3>6. \A i \in 1..a : AcceptedTokens(t)[i] = [base |-> b, pos |-> i]
      BY <2>3, <3>1, <3>2 DEF AcceptedTokens
    <3>7. \A i \in 1..a : committed'[r][PrefixLen + g + i] = AcceptedTokens(t)[i]
      <4>. DEFINE c == committed[r]
                  d == AcceptedTokens(t)
      <4>1. \A i \in 1..Len(c) + Len(d) :
               (c \o d)[i] = IF i <= Len(c) THEN c[i] ELSE d[i - Len(c)]
        BY <1>3, <3>5, ConcatProperties
      <4>2. committed'[r] = c \o d /\ Len(c) = PrefixLen + g /\ Len(d) = a
        BY <2>4, <2>5, <3>5
      <4>. HIDE DEF c, d
      <4>3. \A i \in 1..a : (c \o d)[PrefixLen + g + i] = d[i]
        <5>. SUFFICES ASSUME NEW i \in 1..a PROVE (c \o d)[PrefixLen + g + i] = d[i]
          OBVIOUS
        <5>1. PICK x \in Nat : x = PrefixLen + g + i
          OBVIOUS
        <5>2. x \in 1..Len(c) + Len(d) /\ ~(x <= Len(c)) /\ x - Len(c) = i
          BY <4>2, <5>1
        <5>3. (c \o d)[x] = d[x - Len(c)]
          BY <4>1, <5>2, Zenon
        <5>. QED BY <5>1, <5>2, <5>3
      <4>. QED BY <4>2, <4>3 DEF d
    <3>8. VerifiedAsOne(r, k, proposals[r][j].base)'
      BY <2>5, <2>7, <3>4, <3>6, <3>7 DEF VerifiedAsOne
    <3>9. proposals'[r][k].base + proposals'[r][k].acc <= authGen'[r]
      BY <2>4, <2>5, <2>7
    <3>. QED BY <3>8, <3>9
  <2>. QED BY <1>2, <2>5, <2>6, <2>7
<1>7. Goal
  <2>. HIDE DEF Goal
  <2>. QED BY <1>1, <1>4, <1>5, <1>6, AuthorityStep DEF Goal
<1>. QED BY <1>7

\* The inductive invariant of overlapping cycles.
Overlap == History /\ InFlight /\ VerifiedRuns

\* It holds initially and is kept by every step.
LEMMA OverlapCorrect == Spec => []Overlap
<1>1. Init => Overlap
  <2>. SUFFICES ASSUME Init PROVE Overlap
    OBVIOUS
  <2>1. \A t \in Threads : call[t].req \notin Named
    BY ConstantsAssumption DEF Init, Idle, Call, Named
  <2>2. \A r \in Named : Len(proposals[r]) = 0
    BY DEF Init, Named
  <2>3. InFlight
    BY <2>1 DEF InFlight
  <2>4. VerifiedRuns
    BY <2>2 DEF VerifiedRuns, CommitsVerifiedRuns
  <2>. QED BY <2>3, <2>4, HistoryInit DEF Overlap
<1>2. Overlap /\ [Next]_vars => Overlap'
  <2>. SUFFICES ASSUME Overlap, [Next]_vars PROVE Overlap'
    OBVIOUS
  <2>1. History /\ InFlight /\ VerifiedRuns
    BY DEF Overlap
  <2>2. TypeOK /\ CallShape /\ UnregisteredIsFresh
    BY <2>1 DEF History
  <2>. QED BY <2>1, <2>2, HistoryNext, InFlightNext, VerifiedRunsNext DEF Overlap
<1>. QED BY <1>1, <1>2, PTL DEF Spec

\* Whatever a cycle read between its locked sections is a generation its request
\* was at between two settlements, verified no older than drafted, for any number
\* of threads in run_cycle on the same request.
THEOREM InFlightCorrect == Spec => []InFlightOnReachedBase
<1>1. Overlap => InFlightOnReachedBase
  BY DEF Overlap, InFlight, ReadFrom, InFlightOnReachedBase
<1>. QED BY <1>1, OverlapCorrect, PTL

\* Every settlement commits a run of tokens that was verified as a whole from a
\* state the sequence was in, for any number of threads in run_cycle on the same
\* request.
THEOREM VerifiedRunsCorrect == Spec => []CommitsVerifiedRuns
<1>1. Overlap => CommitsVerifiedRuns
  BY DEF Overlap, VerifiedRuns
<1>. QED BY <1>1, OverlapCorrect, PTL
-----------------------------------------------------------------------------
(***************************************************************************)
(* Which model pairs speculation runs for                                  *)
(***************************************************************************)

\* What evaluate_compatibility establishes about any two model identities.
LEMMA CompatibleIsInterpretable ==
    ASSUME NEW p, NEW v, EvaluateCompatibility(p, v, 1).compatible
    PROVE  Interpretable(p, v)
<1>1. Reasons(p, v, 1) \subseteq Informative
  BY DEF EvaluateCompatibility
<1>2. \A code : code # "revision_mismatch" => code \notin Reasons(p, v, 1)
  BY <1>1 DEF Informative
<1>3. /\ SameTokenizer(p, v)
      /\ ~(SameTokenizer(p, v) /\ p.tokenizer.id = 0)
      /\ ~((p.adapter = <<>>) # (v.adapter = <<>>))
      /\ ~(p.adapter # <<>> /\ v.adapter # <<>> /\ p.adapter # v.adapter)
      /\ SameExecutorKind(p.kind, v.kind)
      /\ ~ProtocolMismatch(p, v)
  BY <1>2 DEF Reasons
<1>4. /\ p.tokenizer.id # 0 /\ p.tokenizer = v.tokenizer
      /\ p.adapter = v.adapter
  BY <1>3 DEF SameTokenizer
<1>5. /\ \A k, l \in {p.kind, v.kind} \ {"Unknown"} : k = l
      /\ \A k, l \in {p.protocol, v.protocol} \ {0} : k = l
  BY <1>3 DEF SameExecutorKind, ProtocolMismatch
<1>. QED BY <1>4, <1>5 DEF Interpretable

\* Requests that have speculated or do so now are among the compatible ones.
SpeculatesIfCompatible ==
    \A r \in Requests : proposals[r] # <<>> \/ Running(r) # {} => r \in Compatible

\* Only the admission starts work on a request, and only a running cycle leaves
\* a proposal.
LEMMA PairsNext ==
    ASSUME TypeOK, CallShape, SpeculatesIfCompatible, [Next]_vars
    PROVE  SpeculatesIfCompatible'
<1>. USE ConstantsAssumption DEF authority, identity, closing, records
<1>1. /\ proposals \in [Requests -> Seq(Proposal)]
      /\ call \in [Threads -> [pc : {"idle", "propose", "verify", "settle"},
                               req : Requests \cup {NoRequest},
                               depth : Nat,
                               proposed : Seq(BranchResult),
                               accepted : Seq(Verdict)]]
      /\ \A r \in Requests : proposals[r] # <<>> => r \in Compatible
      /\ \A t \in Threads : call[t].req \in Requests => call[t].req \in Compatible
  BY DEF TypeOK, SpeculatesIfCompatible, Running
<1>2. SUFFICES /\ \A r \in Requests : proposals'[r] # <<>> => r \in Compatible
               /\ \A t \in Threads : call'[t].req \in Requests => call'[t].req \in Compatible
  BY <1>2 DEF SpeculatesIfCompatible, Running
<1>. DEFINE Goal == /\ \A r \in Requests : proposals'[r] # <<>> => r \in Compatible
                    /\ \A t \in Threads : call'[t].req \in Requests => call'[t].req \in Compatible
<1>3. ASSUME proposals' = proposals, call' = call PROVE Goal
  BY <1>1, <1>3
<1>4. ASSUME NEW q \in Requests,
             Submit(q) \/ Cancel(q) \/ Complete(q) \/ Rollback(q) \/ Retry(q)
             \/ DeadlinePasses(q) \/ RefuseCycle(q)
      PROVE  proposals' = proposals /\ call' = call
  BY <1>4 DEF Submit, Cancel, Complete, Rollback, Retry, DeadlinePasses, RefuseCycle
<1>5. RollEpoch \/ UNCHANGED vars => proposals' = proposals /\ call' = call
  BY DEF RollEpoch, vars
<1>6. ASSUME NEW t \in Threads, NEW q \in Requests, StartCycle(t, q) PROVE Goal
  BY <1>1, <1>6 DEF StartCycle, Call
<1>7. ASSUME NEW t \in Threads, ProposeBranch(t) PROVE Goal
  BY <1>1, <1>7 DEF ProposeBranch, Call
<1>8. ASSUME NEW t \in Threads, VerifyBranch(t) PROVE Goal
  BY <1>1, <1>8 DEF VerifyBranch, Call
<1>9. ASSUME NEW t \in Threads, ExecutorError(t) \/ StaleAuthority(t) PROVE Goal
  <2>1. proposals' = proposals /\ call' = [call EXCEPT ![t] = Idle]
    BY <1>9 DEF ExecutorError, StaleAuthority
  <2>. QED BY <1>1, <2>1 DEF Idle, Call
<1>10. ASSUME NEW t \in Threads, Settle(t) PROVE Goal
  <2>1. /\ call' = [call EXCEPT ![t] = Idle]
        /\ \A r \in Requests : r # call[t].req => proposals'[r] = proposals[r]
    BY <1>1, <1>10 DEF Settle
  <2>. QED BY <1>1, <2>1 DEF Idle, Call
<1>11. Goal
  <2>. HIDE DEF Goal
  <2>. QED
    BY <1>3, <1>4, <1>5, <1>6, <1>7, <1>8, <1>9, <1>10
    DEF Next, CycleStep, FullAccept, PartialAccept, RejectAll
<1>. QED BY <1>11

\* For every set of requests and every two models each of them was submitted
\* with: nothing is drafted, verified or recorded unless both models read tokens
\* alike.
THEOREM InterpretableCorrect == Spec => []InterpretablePairsOnly
<1>1. Init => SpeculatesIfCompatible
  BY ConstantsAssumption DEF Init, SpeculatesIfCompatible, Running, Idle, Call
<1>2. SpeculatesIfCompatible /\ TypeOK /\ CallShape /\ [Next]_vars => SpeculatesIfCompatible'
  BY PairsNext
<1>3. SpeculatesIfCompatible => InterpretablePairsOnly
  BY PairsAssumption, CompatibleIsInterpretable DEF SpeculatesIfCompatible, InterpretablePairsOnly
<1>. QED BY <1>1, <1>2, <1>3, TypeCorrect, PTL DEF Spec
-----------------------------------------------------------------------------
(***************************************************************************)
(* 4. The counters                                                         *)
(***************************************************************************)

\* The n places behind the a-th of a request.
Places(r, a, n) == {r} \X ((a + 1)..(a + n))

LEMMA PlacesCounted ==
    ASSUME NEW r, NEW a \in Nat, NEW n \in Nat
    PROVE  IsFiniteSet(Places(r, a, n)) /\ Cardinality(Places(r, a, n)) = n
<1>. DEFINE I == (a + 1)..(a + n)
            P == {r} \X I
            f == [k \in I |-> <<r, k>>]
<1>1. IsFiniteSet(I) /\ Cardinality(I) = n
  BY FS_Interval
<1>. HIDE DEF I
<1>2. f \in [I -> P] /\ (\A x, y \in I : f[x] = f[y] => x = y)
  OBVIOUS
<1>3. \A p \in P : \E k \in I : f[k] = p
  OBVIOUS
<1>. HIDE DEF f, P
<1>4. f \in Bijection(I, P)
  BY <1>2, <1>3 DEF Bijection, Injection, Surjection, IsInjective
<1>5. ExistsBijection(I, P)
  BY <1>4 DEF ExistsBijection
<1>6. IsFiniteSet(P) /\ Cardinality(P) = n
  BY <1>1, <1>5, FS_Bijection
<1>. QED BY <1>6 DEF P, I, Places

\* Places added to others.
LEMMA PlacesAdded ==
    ASSUME NEW T, IsFiniteSet(T), NEW P, IsFiniteSet(P), T \cap P = {}
    PROVE  /\ IsFiniteSet(T \cup P)
           /\ Cardinality(T \cup P) = Cardinality(T) + Cardinality(P)
<1>1. /\ IsFiniteSet(T \cup P)
      /\ Cardinality(T \cup P) = Cardinality(T) + Cardinality(P) - Cardinality(T \cap P)
  BY FS_Union
<1>2. Cardinality(T \cap P) = 0 /\ Cardinality(T) \in Nat /\ Cardinality(P) \in Nat
  BY FS_EmptySet, FS_CardinalityType
<1>. QED BY <1>1, <1>2

\* The inductive invariant.
Accounted == IsFiniteSet(CommittedTokens) /\ AcceptedTokensAreCommitted

LEMMA AccountedInit == Init => Accounted
<1>. SUFFICES ASSUME Init PROVE Accounted
  OBVIOUS
<1>1. CommittedTokens = {}
  <2>1. ASSUME NEW r \in Requests PROVE Committed(r) = {}
    <3>1. Len(committed[r]) = 0
      BY DEF Init
    <3>. QED BY <3>1, ConstantsAssumption DEF Committed
  <2>. QED BY <2>1 DEF CommittedTokens
<1>2. stats["tokens_accepted"] = 0
  BY DEF Init, Counters
<1>. QED BY <1>1, <1>2, FS_EmptySet DEF Accounted, AcceptedTokensAreCommitted

\* The counter of a settled cycle.
LEMMA AcceptedCounted ==
    ASSUME TypeOK, CallShape, NEW t \in Threads,
           FullAccept(t) \/ PartialAccept(t) \/ RejectAll(t)
    PROVE  stats'["tokens_accepted"] = stats["tokens_accepted"] + AcceptedPrefix(t)
<1>1. stats \in [Counters -> Nat]
  BY DEF TypeOK
<1>. HIDE DEF AcceptedPrefix, CandidateLen
<1>2. Counted(t, stats)["tokens_accepted"] = stats["tokens_accepted"] + AcceptedPrefix(t)
  BY <1>1 DEF Counted, Counters
<1>3. DOMAIN Counted(t, stats) = Counters
  BY <1>1 DEF Counted
<1>. HIDE DEF Counted
<1>. QED BY <1>2, <1>3 DEF FullAccept, PartialAccept, RejectAll, Counters

LEMMA AccountedNext ==
    NullRequest \notin Requests /\ History /\ Accounted /\ [Next]_vars => Accounted'
<1>. SUFFICES ASSUME NullRequest \notin Requests, History, Accounted, [Next]_vars
              PROVE  Accounted'
  OBVIOUS
<1>. USE ConstantsAssumption DEF authority, identity, closing, records
<1>types. /\ stats \in [Counters -> Nat] /\ committed \in [Requests -> Seq(Token)]
          /\ TypeOK /\ CallShape /\ Named = Requests
  <2>1. TypeOK /\ CallShape
    BY DEF History
  <2>2. stats \in [Counters -> Nat] /\ committed \in [Requests -> Seq(Token)]
    BY <2>1 DEF TypeOK
  <2>3. Named = Requests
    BY DEF Named
  <2>. QED BY <2>1, <2>2, <2>3
<1>same. ASSUME stats'["tokens_accepted"] = stats["tokens_accepted"],
                \A r \in Requests : Committed(r)' = Committed(r)
         PROVE  Accounted'
  <2>1. CommittedTokens' = CommittedTokens
    BY <1>same DEF CommittedTokens
  <2>. QED BY <1>same, <2>1 DEF Accounted, AcceptedTokensAreCommitted
<1>keep. ASSUME stats'["tokens_accepted"] = stats["tokens_accepted"], committed' = committed
         PROVE  Accounted'
  BY <1>same, <1>keep DEF Committed
<1>1. ASSUME NEW q \in Requests, Submit(q) PROVE Accounted'
  <2>1. stats'["tokens_accepted"] = stats["tokens_accepted"]
    BY <1>types, <1>1 DEF Submit, Counters
  <2>2. ~registered[q] /\ committed[q] = <<>>
    BY <1>types, <1>1 DEF Submit, History, UnregisteredIsFresh
  <2>3. ASSUME NEW r \in Requests PROVE Committed(r)' = Committed(r)
    <3>1. CASE r # q
      BY <1>types, <1>1, <3>1 DEF Submit, Committed
    <3>2. CASE r = q
      <4>1. committed'[q] = [i \in 1..PrefixLen |-> PrefixToken]
        BY <1>types, <1>1 DEF Submit
      <4>2. Len(committed'[q]) = PrefixLen /\ Len(committed[q]) = 0
        BY <2>2, <4>1
      <4>. QED BY <3>2, <4>2 DEF Committed
    <3>. QED BY <3>1, <3>2
  <2>. QED BY <1>same, <2>1, <2>3
<1>2. ASSUME NEW q \in Requests,
             Cancel(q) \/ Complete(q) \/ Rollback(q) \/ Retry(q) \/ DeadlinePasses(q)
             \/ RefuseCycle(q)
      PROVE  Accounted'
  BY <1>types, <1>keep, <1>2
     DEF Cancel, Complete, Rollback, Retry, DeadlinePasses, RefuseCycle, Counters
<1>3. ASSUME NEW q \in Requests, NEW t \in Threads, StartCycle(t, q) PROVE Accounted'
  BY <1>keep, <1>3 DEF StartCycle
<1>4. CASE RollEpoch \/ UNCHANGED vars
  BY <1>keep, <1>4 DEF RollEpoch, vars
<1>5. ASSUME NEW t \in Threads, ProposeBranch(t) \/ VerifyBranch(t) \/ ExecutorError(t)
      PROVE  Accounted'
  BY <1>keep, <1>5 DEF ProposeBranch, VerifyBranch, ExecutorError
<1>6. ASSUME NEW t \in Threads, StaleAuthority(t) PROVE Accounted'
  BY <1>types, <1>keep, <1>6 DEF StaleAuthority, Counters
<1>7. ASSUME NEW t \in Threads, FullAccept(t) \/ PartialAccept(t) \/ RejectAll(t)
      PROVE  Accounted'
  <2>1. Settle(t) /\ call[t].pc = "settle"
    BY <1>7 DEF FullAccept, PartialAccept, RejectAll, Settle
  <2>2. PICK q \in Requests : q = call[t].req
    BY <1>types, <2>1, SettlementTypes
  <2>3. PICK n \in Nat : n = AcceptedPrefix(t)
    BY <1>types, <2>1, SettlementTypes
  <2>4. PICK a \in Nat : a = Len(committed[q]) /\ a >= PrefixLen
    <3>1. registered[q]
      BY <1>types, <2>1, <2>2, SettlementTypes
    <3>2. Len(committed[q]) = PrefixLen + authGen[q] /\ authGen[q] \in Nat
      BY <1>types, <2>2, <3>1 DEF History, GenerationTracksLength, TypeOK
    <3>. QED BY <3>2
  <2>. DEFINE new == Places(q, a, n)
  <2>5. committed' = [committed EXCEPT ![q] = Extended(@, t)]
    BY <2>1, <2>2 DEF Settle
  <2>6. Len(committed'[q]) = a + n
    <3>1. committed[q] \in Seq(Token) /\ AcceptedTokens(t) \in Seq(Token)
      BY <1>types, <2>1, <2>2, SettlementTypes
    <3>2. committed'[q] = committed[q] \o AcceptedTokens(t)
      BY <1>types, <2>2, <2>5 DEF Extended
    <3>3. Len(AcceptedTokens(t)) = n
      BY <1>types, <2>1, <2>3, SettlementTypes
    <3>. HIDE DEF AcceptedTokens
    <3>4. Len(committed[q] \o AcceptedTokens(t)) = Len(committed[q]) + Len(AcceptedTokens(t))
      BY <3>1, ConcatProperties
    <3>. QED BY <2>4, <3>2, <3>3, <3>4
  <2>7. ASSUME NEW r \in Requests, r # q PROVE Committed(r)' = Committed(r)
    <3>1. committed'[r] = committed[r]
      BY <1>types, <2>5, <2>7
    <3>. QED BY <3>1 DEF Committed
  <2>8. Committed(q)' = Committed(q) \cup new
    <3>1. (PrefixLen + 1)..(a + n) = ((PrefixLen + 1)..a) \cup ((a + 1)..(a + n))
      BY <2>4
    <3>2. Committed(q)' = {q} \X ((PrefixLen + 1)..(a + n))
      BY <2>6 DEF Committed
    <3>3. Committed(q) = {q} \X ((PrefixLen + 1)..a)
      BY <2>4 DEF Committed
    <3>. QED BY <3>1, <3>2, <3>3 DEF Places
  <2>9. CommittedTokens' = CommittedTokens \cup new
    <3>. HIDE DEF new
    <3>1. CommittedTokens' = UNION {Committed(r)' : r \in Requests}
      BY DEF CommittedTokens
    <3>. QED BY <2>7, <2>8, <3>1 DEF CommittedTokens
  <2>10. CommittedTokens \cap new = {}
    <3>. SUFFICES ASSUME NEW r \in Requests, NEW x \in Committed(r), x \in new PROVE FALSE
      BY DEF CommittedTokens
    <3>1. PICK k \in (a + 1)..(a + n) : x = <<q, k>>
      BY DEF Places
    <3>2. r = q /\ k \in (PrefixLen + 1)..a
      BY <2>4, <3>1, SMTT(30) DEF Committed
    <3>. QED BY <3>2
  <2>11. IsFiniteSet(CommittedTokens) /\ stats["tokens_accepted"] = Cardinality(CommittedTokens)
    BY DEF Accounted, AcceptedTokensAreCommitted
  <2>12. /\ IsFiniteSet(CommittedTokens \cup new)
         /\ Cardinality(CommittedTokens \cup new) = Cardinality(CommittedTokens) + n
    <3>1. IsFiniteSet(new) /\ Cardinality(new) = n
      BY PlacesCounted
    <3>. HIDE DEF new
    <3>. QED BY <2>10, <2>11, <3>1, PlacesAdded
  <2>13. stats'["tokens_accepted"] = stats["tokens_accepted"] + n
    BY <1>types, <1>7, <2>3, AcceptedCounted
  <2>. HIDE DEF new
  <2>. QED BY <2>9, <2>11, <2>12, <2>13 DEF Accounted, AcceptedTokensAreCommitted
<1>. QED BY <1>1, <1>2, <1>3, <1>4, <1>5, <1>6, <1>7 DEF Next, CycleStep

\* Whatever the interleaving of cycles, cancels and retries on however many
\* requests, stats.accepted_tokens is the number of tokens the settlements of
\* run_cycle committed, provided no caller uses the null id.
THEOREM AcceptedCorrect ==
    ASSUME NullRequest \notin Requests
    PROVE  Spec => []AcceptedTokensAreCommitted
<1>1. Init => History /\ Accounted
  BY HistoryInit, AccountedInit
<1>2. History /\ Accounted /\ [Next]_vars => (History /\ Accounted)'
  BY HistoryNext, AccountedNext
<1>3. Accounted => AcceptedTokensAreCommitted
  BY DEF Accounted
<1>. QED BY <1>1, <1>2, <1>3, PTL DEF Spec
=============================================================================
