-------------------------- MODULE CoordinatorProofs --------------------------
(***************************************************************************)
(* The control plane's safety properties, proved for any number of process *)
(* incarnations, requests, branches and commands.                          *)
(*                                                                         *)
(* The exchange with the workers has no correlation ids.  That an answer   *)
(* belongs to the dispatch before it is an invariant of the whole system,  *)
(* in four parts:                                                          *)
(*   Sockets    which peer is behind each descriptor and in the backlog;   *)
(*   Exchange   what is on the wire to and from every worker;              *)
(*   Cycle      the locals of drive_cycle and the requests;                *)
(*   Dialogue   the numbers of the commands and replies of every driver.   *)
(* Each part is preserved because of the others.                           *)
(***************************************************************************)
EXTENDS Coordinator, SequenceLemmas

InCycle == {"propose", "proposing", "verify", "verifying", "settle"}

\* f is a function on S.
FunctionOn(f, S) == f = [x \in S |-> f[x]]

\* A connection is in the backlog once, and then behind no descriptor; neither
\* of the two ever holds a socket the coordinator has closed.
Sockets ==
    /\ proc \in [Peers -> {"new", "running", "closed", "dead"}]
    /\ boot \in [Peers -> Boots \cup {0}] /\ hello \in [Peers -> BOOLEAN]
    /\ backlog \in Seq(Peers)
    /\ fd \in [Roles -> Peers \cup {None}]
    /\ pc \in InCycle \cup {"startup", "drain", "select", "ended"}
    /\ \A role \in Roles : fd[role] # None =>
          Role(fd[role]) = role /\ proc[fd[role]] \in {"running", "dead"}
    /\ pc \notin {"startup", "ended"} => fd["proposer"] # None /\ fd["verifier"] # None
    /\ pc \in InCycle \cup {"select"} => fd["driver"] # None
    /\ \A i, j \in 1..Len(backlog) : backlog[i] = backlog[j] => i = j
    /\ \A i \in 1..Len(backlog) :
          /\ proc[backlog[i]] \in {"running", "dead"}
          /\ \A role \in Roles : fd[role] # backlog[i]

\* The connections are sequences of frames.
Channels ==
    /\ FunctionOn(toPeer, Peers) /\ FunctionOn(toCoord, Peers)
    /\ \A p \in Peers : AnySeq(toPeer[p]) /\ AnySeq(toCoord[p])

Quiet(w) == toPeer[w] = <<>> /\ toCoord[w] = <<>>

\* At most one frame is under way: the dispatch, or one of its answers.
UnderWay(w, dispatch, answers) ==
    \/ Quiet(w)
    \/ toPeer[w] = <<dispatch>> /\ toCoord[w] = <<>>
    \/ toPeer[w] = <<>> /\ \E m \in answers : toCoord[w] = <<m>>

LiveProposal == ProposalDispatch(reqs[job.req])
LiveVerification == VerificationDispatch(reqs[job.req])

\* A worker's connection is empty but for the exchange drive_cycle waits on, and
\* that one carries nothing but the live dispatch or its answer.
Exchange ==
    /\ \A w \in Workers :
          \/ Quiet(w)
          \/ pc = "proposing" /\ w = fd["proposer"]
          \/ pc = "verifying" /\ w = fd["verifier"]
    /\ pc = "proposing" => LET p == fd["proposer"] IN
          UnderWay(p, LiveProposal, {ProposalResult(LiveProposal, p)})
    /\ pc = "verifying" => LET p == fd["verifier"] IN
          UnderWay(p, LiveVerification,
                   {VerificationResult(LiveVerification, k, p) : k \in 0..job.depth})
    /\ \A w \in Workers : proc[w] = "dead" => toPeer[w] = <<>>

\* What a branch that passed verification has recorded.
BranchCurrent(br, i) ==
    /\ br.gen = i /\ br.epoch = epoch /\ br.accepted \in 0..job.depth
    /\ br.proposer = fd["proposer"] /\ br.verifier = fd["verifier"]

\* The cycle under way, at each place where drive_cycle can be: the request it
\* was submitted for is as SubmitRequest left it but for the proposal generation,
\* which counts the branches.
CycleShape ==
    LET q == reqs[job.req]
        n == Len(job.brs)
    IN
    /\ job.req \in DOMAIN reqs /\ job.depth \in Nat
    /\ AnySeq(job.brs) /\ job.branches \in Nat
    /\ IF pc = "settle" THEN n = job.branches /\ n > 0 ELSE n < job.branches
    /\ q.epoch = epoch /\ q.authGen = 0 /\ q.stateGen = 0 /\ q.committed = <<>>
    /\ q.propGen = IF pc \in {"propose", "settle"} THEN n ELSE n + 1
    /\ \A i \in 1..n : BranchCurrent(job.brs[i], i)
    /\ job.draft = IF pc \in {"verify", "verifying"}
                   THEN ProposalResult(LiveProposal, fd["proposer"]) ELSE None

RequestType == [epoch : Nat, attempt : Nat, authGen : Nat, stateGen : Nat,
                committed : Seq(Nat), propGen : Nat]

Cycle ==
    /\ epoch \in Nat \ {0}
    /\ DOMAIN reqs \subseteq ReqIds /\ reqs \in [DOMAIN reqs -> RequestType]
    /\ job = [command |-> job.command, req |-> job.req, depth |-> job.depth,
              branches |-> job.branches, draft |-> job.draft, brs |-> job.brs]
    /\ IF pc \in InCycle THEN CycleShape ELSE job = NoJob

\* The number of the command of driver d that is being served, if there is one.
Serving(d) == IF pc \in InCycle /\ fd["driver"] = d THEN {job.command} ELSE {}

\* The numbers from 1 to n grow along replies, then served, then waiting.
Line(replies, served, waiting, n) ==
    /\ \A i \in 1..Len(replies) : replies[i].n \in 1..n
    /\ \A c \in served : c \in 1..n
    /\ \A j \in 1..Len(waiting) : waiting[j].n \in 1..n
    /\ \A i, j \in 1..Len(replies) : i < j => replies[i].n < replies[j].n
    /\ \A i, j \in 1..Len(waiting) : i < j => waiting[i].n < waiting[j].n
    /\ \A i \in 1..Len(replies), j \in 1..Len(waiting) : replies[i].n < waiting[j].n
    /\ \A i \in 1..Len(replies), c \in served : replies[i].n < c
    /\ \A c \in served, j \in 1..Len(waiting) : c < waiting[j].n

\* The only number in the line is k.
Alone(replies, served, waiting, k) ==
    /\ \A i \in 1..Len(replies) : replies[i].n = k
    /\ \A c \in served : c = k
    /\ \A j \in 1..Len(waiting) : waiting[j].n = k

\* A command that asks for a cycle asks for one the driver can ask for.
WellFormed(c) ==
    c.type = "Submit" => c.req \in ReqIds /\ c.depth \in Depths /\ c.branches \in BranchCounts

\* The commands of d go through the coordinator in the order of their numbers,
\* and if d never gave up the one it waits on is the only one there.
InStep(d) ==
    /\ Line(toPeer[d], Serving(d), toCoord[d], commands)
    /\ ~gaveUp[d] => Alone(toPeer[d], Serving(d), toCoord[d], asked[d].n)
    /\ asked[d] = NoCommand \/ asked[d].n \in Nat \ {0}
    /\ \A j \in 1..Len(toCoord[d]) : WellFormed(toCoord[d][j])

Dialogue ==
    /\ commands \in Nat
    /\ FunctionOn(asked, Drivers) /\ gaveUp \in [Drivers -> BOOLEAN]
    /\ \A d \in Drivers : InStep(d)

Inv ==
    /\ Sockets /\ Channels /\ Exchange /\ Cycle /\ Dialogue
    /\ GenerationsAgree /\ LiveResultsAreCurrent
-----------------------------------------------------------------------------
(***************************************************************************)
(* Who is connected                                                        *)
(***************************************************************************)

\* The roles are disjoint and every peer has the one it was declared with.
LEMMA RoleFacts ==
    /\ \A p \in Peers : Role(p) \in Roles /\ p # None
    /\ \A p \in Peers : Role(p) = "proposer" <=> p \in Proposers
    /\ \A p \in Peers : Role(p) = "verifier" <=> p \in Verifiers
    /\ \A p \in Peers : Role(p) = "driver" <=> p \in Drivers
    /\ \A p \in Peers : p \in Drivers <=> p \notin Workers
BY PeerRoles DEF Role, Roles, Peers, Workers

\* What is left of the backlog when its first connection is accepted.
LEMMA AcceptFirst ==
    ASSUME Sockets, backlog # <<>>
    PROVE  /\ Head(backlog) \in Peers /\ Tail(backlog) \in Seq(Peers)
           /\ proc[Head(backlog)] \in {"running", "dead"}
           /\ \A role \in Roles : fd[role] # Head(backlog)
           /\ \A i \in 1..Len(Tail(backlog)) :
                 /\ Tail(backlog)[i] # Head(backlog)
                 /\ proc[Tail(backlog)[i]] \in {"running", "dead"}
                 /\ \A role \in Roles : fd[role] # Tail(backlog)[i]
           /\ \A i, j \in 1..Len(Tail(backlog)) : Tail(backlog)[i] = Tail(backlog)[j] => i = j
<1>1. /\ backlog \in Seq(Peers) /\ Len(backlog) \in Nat \ {0}
      /\ Head(backlog) = backlog[1]
  BY LenProperties, EmptySeq DEF Sockets
<1>2. /\ Head(backlog) \in Peers /\ Tail(backlog) \in Seq(Peers)
      /\ Len(Tail(backlog)) = Len(backlog) - 1
      /\ \A i \in 1..Len(Tail(backlog)) : Tail(backlog)[i] = backlog[i + 1]
  BY <1>1, HeadTailProperties
<1>3. \A i \in 1..Len(Tail(backlog)) : i + 1 \in 1..Len(backlog) /\ i + 1 # 1
  BY <1>1, <1>2
<1>. QED BY <1>1, <1>2, <1>3 DEF Sockets

\* The parts of Sockets that a change of descriptors, processes and backlog
\* leaves to show.
LEMMA SocketsStep ==
    ASSUME Sockets, proc' \in [Peers -> {"new", "running", "closed", "dead"}],
           fd' \in [Roles -> Peers \cup {None}], backlog' \in Seq(Peers),
           pc' \in InCycle \cup {"startup", "drain", "select", "ended"},
           UNCHANGED <<boot, hello>>,
           \A role \in Roles : fd'[role] # None =>
              Role(fd'[role]) = role /\ proc'[fd'[role]] \in {"running", "dead"},
           pc' \notin {"startup", "ended"} => fd'["proposer"] # None /\ fd'["verifier"] # None,
           pc' \in InCycle \cup {"select"} => fd'["driver"] # None,
           \A i, j \in 1..Len(backlog') : backlog'[i] = backlog'[j] => i = j,
           \A i \in 1..Len(backlog') :
              /\ proc'[backlog'[i]] \in {"running", "dead"}
              /\ \A role \in Roles : fd'[role] # backlog'[i]
    PROVE  Sockets'
BY DEF Sockets

\* Every step keeps the descriptors and the backlog apart, and both clear of
\* closed sockets.
LEMMA SocketsNext ==
    ASSUME Sockets, [Next]_vars
    PROVE  Sockets'
<1>. USE DEF peerVars, coordVars, history
<1>1. ASSUME UNCHANGED <<proc, boot, hello, backlog, fd>>,
             pc' \in InCycle \cup {"startup", "drain", "select", "ended"},
             pc' \notin {"startup", "ended"} => pc \notin {"startup", "ended"},
             pc' \in InCycle \cup {"select"} => fd["driver"] # None
      PROVE  Sockets'
  BY <1>1 DEF Sockets
<1>2. ASSUME NEW p \in Peers, Connect(p) PROVE Sockets'
  <2>1. /\ proc[p] = "new" /\ backlog' = Append(backlog, p)
        /\ proc' = [proc EXCEPT ![p] = "running"]
        /\ UNCHANGED <<hello, fd, pc>>
    BY <1>2 DEF Connect
  <2>2. boot' \in [Peers -> Boots \cup {0}]
    BY <1>2 DEF Connect, Sockets
  <2>3. /\ backlog \in Seq(Peers) /\ Len(backlog) \in Nat
        /\ Len(backlog') = Len(backlog) + 1 /\ backlog' \in Seq(Peers)
        /\ \A i \in 1..Len(backlog) : backlog'[i] = backlog[i]
        /\ backlog'[Len(backlog) + 1] = p
    BY <2>1, AppendProperties, LenProperties DEF Sockets
  <2>4. /\ \A i \in 1..Len(backlog) : backlog[i] # p
        /\ \A role \in Roles : fd[role] # p
    BY <2>1, RoleFacts DEF Sockets
  <2>5. proc' \in [Peers -> {"new", "running", "closed", "dead"}]
    BY <2>1 DEF Sockets
  <2>6. \A i \in 1..Len(backlog') : i \in 1..Len(backlog) \/ i = Len(backlog) + 1
    BY <2>3
  <2>7. \A i, j \in 1..Len(backlog') : backlog'[i] = backlog'[j] => i = j
    BY <2>3, <2>4, <2>6 DEF Sockets
  <2>8. ASSUME NEW i \in 1..Len(backlog')
        PROVE  /\ proc'[backlog'[i]] \in {"running", "dead"}
               /\ \A role \in Roles : fd'[role] # backlog'[i]
    <3>1. CASE i \in 1..Len(backlog)
      <4>1. backlog[i] \in Peers
        BY <2>3, <3>1, ElementOfSeq
      <4>. QED BY <2>1, <2>3, <2>4, <3>1, <4>1 DEF Sockets
    <3>2. CASE i = Len(backlog) + 1
      BY <2>1, <2>3, <2>4, <3>2 DEF Sockets
    <3>. QED BY <2>6, <3>1, <3>2
  <2>9. \A role \in Roles : fd'[role] # None =>
            Role(fd'[role]) = role /\ proc'[fd'[role]] \in {"running", "dead"}
    BY <2>1, <2>4 DEF Sockets
  <2>. QED BY <2>1, <2>2, <2>3, <2>5, <2>7, <2>8, <2>9 DEF Sockets
<1>3. ASSUME NEW p \in Peers, Greet(p) PROVE Sockets'
  BY <1>3 DEF Greet, Sockets
<1>4. ASSUME NEW p \in Peers, Kill(p) \/ Exit(p) PROVE Sockets'
  <2>1. /\ proc' = [proc EXCEPT ![p] = "dead"]
        /\ UNCHANGED <<boot, hello, backlog, fd, pc>>
    BY <1>4 DEF Kill, Exit
  <2>2. \A i \in 1..Len(backlog) : backlog[i] \in Peers
    BY ElementOfSeq DEF Sockets
  <2>. QED BY <2>1, <2>2 DEF Sockets
<1>5. ASSUME AcceptAtStartup PROVE Sockets'
  <2>. DEFINE p == Head(backlog)
              f == [fd EXCEPT ![Role(p)] = p]
  <2>1. /\ pc = "startup" /\ backlog # <<>> /\ backlog' = Tail(backlog)
        /\ UNCHANGED <<proc, boot, hello>>
        /\ \/ fd' = f /\ (IF AllConnected(f) THEN pc' = "drain" ELSE pc' = pc)
           \/ fd' = fd /\ pc' = "ended"
    BY <1>5 DEF AcceptAtStartup
  <2>2. p \in Peers /\ Role(p) \in Roles /\ p # None
    BY <2>1, AcceptFirst, RoleFacts
  <2>3. /\ f \in [Roles -> Peers \cup {None}]
        /\ \A role \in Roles : f[role] = IF role = Role(p) THEN p ELSE fd[role]
    BY <2>2 DEF Sockets
  <2>4. CASE fd' = fd /\ pc' = "ended"
    BY <2>1, <2>4, AcceptFirst DEF Sockets, InCycle
  <2>5. CASE fd' = f /\ (IF AllConnected(f) THEN pc' = "drain" ELSE pc' = pc)
    <3>. HIDE DEF f, p
    <3>1. AllConnected(f) => f["proposer"] # None /\ f["verifier"] # None
      BY DEF AllConnected, Roles
    <3>. QED BY <2>1, <2>2, <2>3, <2>5, <3>1, AcceptFirst DEF Sockets, InCycle, p
  <2>. QED BY <2>1, <2>4, <2>5
<1>6. ASSUME AcceptPeer PROVE Sockets'
  <2>. DEFINE p == Head(backlog)
  <2>1. /\ pc = "drain" /\ backlog # <<>> /\ backlog' = Tail(backlog)
        /\ UNCHANGED <<boot, hello, pc>>
        /\ \/ /\ p \in Workers /\ proc' = Closing(fd[Role(p)])
              /\ fd' = [fd EXCEPT ![Role(p)] = p]
           \/ p \in Drivers /\ fd' = [fd EXCEPT !["driver"] = p] /\ proc' = proc
           \/ fd' = fd /\ proc' = Closing(p)
    BY <1>6 DEF AcceptPeer, Accepts
  <2>2. p \in Peers /\ Role(p) \in Roles /\ p # None
    BY <2>1, AcceptFirst, RoleFacts
  <2>3. \A i \in 1..Len(Tail(backlog)) : Tail(backlog)[i] \in Peers
    BY <2>1, AcceptFirst, ElementOfSeq
  <2>4. ASSUME NEW o \in Peers, proc' = Closing(o)
        PROVE  /\ proc' \in [Peers -> {"new", "running", "closed", "dead"}]
               /\ \A q \in Peers : q # o => proc'[q] = proc[q]
    BY <2>4 DEF Closing, Sockets
  <2>5. fd["proposer"] # None /\ fd["verifier"] # None
    BY <2>1 DEF Sockets
  <2>6. CASE p \in Workers /\ proc' = Closing(fd[Role(p)]) /\ fd' = [fd EXCEPT ![Role(p)] = p]
    <3>. DEFINE o == fd[Role(p)]
    <3>1. o \in Peers /\ o # p
      BY <2>1, <2>2, <2>5, <2>6, RoleFacts, AcceptFirst DEF Sockets, Roles
    <3>2. /\ proc' \in [Peers -> {"new", "running", "closed", "dead"}]
          /\ \A q \in Peers : q # o => proc'[q] = proc[q]
      BY <2>4, <2>6, <3>1
    <3>3. /\ fd' \in [Roles -> Peers \cup {None}]
          /\ \A role \in Roles : fd'[role] = IF role = Role(p) THEN p ELSE fd[role]
      BY <2>2, <2>6 DEF Sockets
    <3>4. ASSUME NEW role \in Roles, fd'[role] # None
          PROVE  Role(fd'[role]) = role /\ proc'[fd'[role]] \in {"running", "dead"}
      <4>1. CASE role = Role(p)
        BY <2>1, <2>2, <3>1, <3>2, <3>3, <4>1, AcceptFirst
      <4>2. CASE role # Role(p)
        <5>1. fd'[role] = fd[role] /\ fd[role] \in Peers
          BY <3>3, <3>4, <4>2
        <5>2. Role(fd[role]) = role /\ proc[fd[role]] \in {"running", "dead"}
          BY <3>4, <5>1 DEF Sockets
        <5>3. Role(o) = Role(p)
          BY <2>2, <3>1, RoleFacts DEF Sockets
        <5>. QED BY <3>2, <4>2, <5>1, <5>2, <5>3
      <4>. QED BY <4>1, <4>2
    <3>5. fd'["proposer"] # None /\ fd'["verifier"] # None
      BY <2>2, <2>5, <3>3 DEF Roles
    <3>6. \A i \in 1..Len(backlog') :
             /\ proc'[backlog'[i]] \in {"running", "dead"}
             /\ \A role \in Roles : fd'[role] # backlog'[i]
      <4>. HIDE DEF p
      <4>1. \A i \in 1..Len(Tail(backlog)) : Tail(backlog)[i] # o /\ Tail(backlog)[i] # p
        BY <2>1, <2>2, AcceptFirst DEF p
      <4>. QED BY <2>1, <2>3, <3>2, <3>3, <4>1, AcceptFirst
    <3>7. \A i, j \in 1..Len(backlog') : backlog'[i] = backlog'[j] => i = j
      BY <2>1, AcceptFirst
    <3>8. backlog' \in Seq(Peers) /\ pc' = "drain"
      BY <2>1, AcceptFirst
    <3>. HIDE DEF p
    <3>. QED BY <2>1, <3>2, <3>3, <3>4, <3>5, <3>6, <3>7, <3>8, SocketsStep DEF InCycle
  <2>7. CASE p \in Drivers /\ fd' = [fd EXCEPT !["driver"] = p] /\ proc' = proc
    <3>1. Role(p) = "driver"
      BY <2>2, <2>7, RoleFacts
    <3>2. /\ fd' \in [Roles -> Peers \cup {None}]
          /\ \A role \in Roles : fd'[role] = IF role = "driver" THEN p ELSE fd[role]
      BY <2>2, <2>7 DEF Sockets, Roles
    <3>. QED BY <2>1, <2>2, <2>7, <3>1, <3>2, AcceptFirst DEF Sockets, InCycle, Roles
  <2>8. CASE fd' = fd /\ proc' = Closing(p)
    <3>1. /\ proc' \in [Peers -> {"new", "running", "closed", "dead"}]
          /\ \A q \in Peers : q # p => proc'[q] = proc[q]
      BY <2>2, <2>4, <2>8
    <3>2. \A i \in 1..Len(Tail(backlog)) : Tail(backlog)[i] # p
      BY <2>1, AcceptFirst
    <3>3. \A role \in Roles : fd[role] # p
      BY <2>1, AcceptFirst
    <3>. HIDE DEF p
    <3>. QED BY <2>1, <2>2, <2>3, <2>8, <3>1, <3>2, <3>3, AcceptFirst DEF Sockets, InCycle
  <2>. QED BY <2>1, <2>6, <2>7, <2>8
<1>7. ASSUME Select \/ SelectTimeout PROVE Sockets'
  BY <1>1, <1>7 DEF Select, SelectTimeout, InCycle
<1>8. ASSUME DriverGone PROVE Sockets'
  <2>1. /\ fd' = [fd EXCEPT !["driver"] = None] /\ pc = "select" /\ pc' = "drain"
        /\ UNCHANGED <<proc, boot, hello, backlog>>
    BY <1>8 DEF DriverGone
  <2>2. /\ fd' \in [Roles -> Peers \cup {None}]
        /\ \A role \in Roles : fd'[role] = IF role = "driver" THEN None ELSE fd[role]
    BY <2>1 DEF Sockets, Roles
  <2>3. \A i \in 1..Len(backlog) : backlog[i] # None
    BY ElementOfSeq, PeerRoles DEF Sockets
  <2>. QED BY <2>1, <2>2, <2>3 DEF Sockets, InCycle, Roles
<1>9. ASSUME HandleSubmit \/ HandleReplay \/ HandleProbe \/ HandleRollEpoch \/ HandleStatus
             \/ HandleShutdown
      PROVE  Sockets'
  <2>1. /\ pc = "select" /\ pc' \in {"propose", "drain", "ended"}
        /\ UNCHANGED <<proc, boot, hello, backlog, fd>>
    <3>1. CASE HandleSubmit
      BY <3>1 DEF HandleSubmit, Receives
    <3>2. CASE HandleReplay
      BY <3>2 DEF HandleReplay, Receives
    <3>3. CASE HandleProbe
      BY <3>3 DEF HandleProbe, Receives
    <3>4. CASE HandleRollEpoch
      BY <3>4 DEF HandleRollEpoch, Receives
    <3>5. CASE HandleStatus
      BY <3>5 DEF HandleStatus, Receives
    <3>6. CASE HandleShutdown
      BY <3>6 DEF HandleShutdown, Receives
    <3>. QED BY <1>9, <3>1, <3>2, <3>3, <3>4, <3>5, <3>6
  <2>. QED BY <1>1, <2>1 DEF Sockets, InCycle
<1>10. ASSUME SendProposal \/ RecvProposal \/ SendVerification \/ RecvVerification \/ Settle
       PROVE  Sockets'
  <2>1. pc \in InCycle /\ UNCHANGED <<proc, boot, hello, backlog, fd>>
    BY <1>10 DEF SendProposal, RecvProposal, SendVerification, RecvVerification, Settle, InCycle
  <2>2. pc' \in InCycle \cup {"drain"}
    BY <1>10 DEF SendProposal, RecvProposal, SendVerification, RecvVerification, Settle,
       InCycle, Rejects
  <2>. QED BY <1>1, <2>1, <2>2 DEF Sockets, InCycle
<1>11. ASSUME NEW p \in Workers, Propose(p) \/ Verify(p) PROVE Sockets'
  BY <1>11 DEF Propose, Verify, Sockets
<1>12. ASSUME NEW d \in Drivers, Ask(d) \/ ReadReply(d) \/ GiveUp(d) PROVE Sockets'
  BY <1>12 DEF Ask, ReadReply, GiveUp, Sockets
<1>13. CASE UNCHANGED vars
  BY <1>13 DEF vars, Sockets
<1>. QED
  BY <1>2, <1>3, <1>4, <1>5, <1>6, <1>7, <1>8, <1>9, <1>10, <1>11, <1>12, <1>13
  DEF Next, Coordinator
-----------------------------------------------------------------------------
(***************************************************************************)
(* What a step does to the connections                                     *)
(***************************************************************************)

\* g differs from f at p only.
OnlyAt(f, g, p) == FunctionOn(g, Peers) /\ \A q \in Peers \ {p} : g[q] = f[q]

\* A frame put on the connection of p.
LEMMA PutEffect ==
    ASSUME NEW f, FunctionOn(f, Peers), NEW p \in Peers, NEW m
    PROVE  /\ OnlyAt(f, Put(f, p, m), p)
           /\ Put(f, p, m)[p] = IF proc[p] = "dead" THEN f[p] ELSE Append(f[p], m)
BY DEF Put, FunctionOn, OnlyAt

\* A frame taken off the connection of p.
LEMMA TakenEffect ==
    ASSUME NEW f, FunctionOn(f, Peers), NEW p \in Peers
    PROVE  OnlyAt(f, Taken(f, p), p) /\ Taken(f, p)[p] = Tail(f[p])
BY DEF Taken, FunctionOn, OnlyAt

\* The descriptors lead to peers of their role.
LEMMA Descriptors ==
    ASSUME Sockets
    PROVE  /\ fd["driver"] # None =>
                 fd["driver"] \in Drivers /\ fd["driver"] \in Peers /\ fd["driver"] \notin Workers
           /\ pc \in InCycle \cup {"select"} => fd["driver"] # None
           /\ pc \notin {"startup", "ended"} =>
                 /\ fd["proposer"] \in Proposers /\ fd["verifier"] \in Verifiers
                 /\ fd["proposer"] \in Workers /\ fd["verifier"] \in Workers
                 /\ fd["proposer"] \in Peers /\ fd["verifier"] \in Peers
                 /\ fd["proposer"] # fd["verifier"]
           /\ pc \in InCycle => pc \notin {"startup", "ended"}
<1>1. \A role \in Roles : fd[role] # None => fd[role] \in Peers /\ Role(fd[role]) = role
  BY DEF Sockets
<1>2. "driver" \in Roles /\ "proposer" \in Roles /\ "verifier" \in Roles
  BY DEF Roles
<1>3. pc \notin {"startup", "ended"} => fd["proposer"] # None /\ fd["verifier"] # None
  BY DEF Sockets
<1>. QED BY <1>1, <1>2, <1>3, RoleFacts DEF Workers, InCycle, Sockets

\* A command read off the driver's connection.
LEMMA ReceiveEffect ==
    ASSUME Sockets, Channels, NEW type, Receives(type)
    PROVE  LET d == fd["driver"] IN
           /\ pc = "select" /\ d \in Drivers /\ d \in Peers /\ d \notin Workers
           /\ toCoord[d] # <<>> /\ OnlyAt(toCoord, toCoord', d)
           /\ toCoord'[d] = Tail(toCoord[d])
           /\ Command = toCoord[d][1] /\ Command.type = type
           /\ 1 \in 1..Len(toCoord[d])
<1>1. pc = "select" /\ fd["driver"] \in Drivers /\ fd["driver"] \in Peers
      /\ fd["driver"] \notin Workers
  BY Descriptors DEF Receives, InCycle
<1>2. AnySeq(toCoord[fd["driver"]]) /\ toCoord[fd["driver"]] # <<>>
  BY <1>1 DEF Channels, Receives
<1>3. Head(toCoord[fd["driver"]]) = toCoord[fd["driver"]][1]
      /\ Len(toCoord[fd["driver"]]) \in Nat \ {0}
  BY <1>2, AnySeqTail
<1>. QED BY <1>1, <1>2, <1>3, TakenEffect DEF Receives, Command, Channels

\* A reply put on the driver's connection.
LEMMA AnswerEffect ==
    ASSUME Sockets, Channels, pc \in InCycle \cup {"select"}, NEW n, NEW m, Answers(n, m)
    PROVE  LET d == fd["driver"] IN
           /\ d \in Drivers /\ d \in Peers /\ d \notin Workers
           /\ OnlyAt(toPeer, toPeer', d)
           /\ toPeer'[d] = IF proc[d] = "dead" THEN toPeer[d]
                           ELSE Append(toPeer[d], [n |-> n, reply |-> m])
BY Descriptors, PutEffect DEF Answers, Channels

\* Each handler reads one command and answers it at most once.
LEMMA HandlerEffect ==
    ASSUME Sockets, Channels,
           HandleReplay \/ HandleProbe \/ HandleRollEpoch \/ HandleStatus
    PROVE  /\ \E type : Receives(type)
           /\ toPeer' = toPeer \/ \E m : Answers(Command.n, m)
                                         /\ m # [type |-> "Reject", body |-> "stale"]
           /\ pc' = "drain"
           /\ UNCHANGED <<peerVars, asked, fd, curBoot, prevBoot, reqs, job, history>>
<1>0. \A rej : rej # "stale" => Verdict(rej) # [type |-> "Reject", body |-> "stale"]
  BY DEF Verdict
<1>1. \A r, e, b, attempt, base, propGen, current :
         ValidateAuthority(r, e, b, attempt, base, propGen, current) # "stale"
  BY DEF ValidateAuthority
<1>2. CASE HandleReplay
  <2>. DEFINE m == Command.result
              v == ValidateAuthority(FirstReq, m.epoch, m.boot, m.attempt, m.base, m.propGen,
                                     curBoot["proposer"])
  <2>1. \/ Answers(Command.n, [type |-> "Info", body |-> "no_request"])
        \/ Answers(Command.n, Verdict(v))
    BY <1>2 DEF HandleReplay
  <2>2. v # "stale"
    BY <1>1
  <2>. HIDE DEF v
  <2>3. Verdict(v) # [type |-> "Reject", body |-> "stale"]
    BY <1>0, <2>2
  <2>4. [type |-> "Info", body |-> "no_request"] # [type |-> "Reject", body |-> "stale"]
    OBVIOUS
  <2>5. \E x : Answers(Command.n, x) /\ x # [type |-> "Reject", body |-> "stale"]
    BY <2>1, <2>3, <2>4
  <2>. QED BY <1>2, <2>5 DEF HandleReplay
<1>3. CASE HandleProbe
  <2>. DEFINE k == Command.kind
              r == FirstReq
              b == curBoot["proposer"]
              v == ValidateAuthority(r,
                     IF k = "epoch" THEN r.epoch - 1 ELSE r.epoch,
                     IF k = "boot" THEN b + 9999 ELSE IF k = "prevBoot" THEN prevBoot ELSE b,
                     IF k = "attempt" THEN r.attempt + 7 ELSE r.attempt,
                     IF k = "base" THEN r.authGen + 5 ELSE r.authGen,
                     IF k = "generation" THEN r.propGen + 1 ELSE r.propGen, b)
  <2>1. toPeer' = toPeer \/ Answers(Command.n, Verdict(v))
    BY <1>3 DEF HandleProbe
  <2>2. v # "stale"
    BY <1>1
  <2>. HIDE DEF v
  <2>3. Verdict(v) # [type |-> "Reject", body |-> "stale"]
    BY <1>0, <2>2
  <2>. QED BY <1>3, <2>1, <2>3 DEF HandleProbe
<1>4. CASE HandleRollEpoch \/ HandleStatus
  <2>1. /\ [type |-> "Info", body |-> "ok epoch"] # [type |-> "Reject", body |-> "stale"]
        /\ [type |-> "Info", body |-> "status"] # [type |-> "Reject", body |-> "stale"]
    OBVIOUS
  <2>. QED BY <1>4, <2>1 DEF HandleRollEpoch, HandleStatus
<1>. QED BY <1>2, <1>3, <1>4

\* A step that changes each direction for one peer at most, and leaves a sequence
\* there, keeps the connections well formed.
LEMMA ChannelsStep ==
    ASSUME Channels,
           toPeer' = toPeer \/ \E p \in Peers : OnlyAt(toPeer, toPeer', p) /\ AnySeq(toPeer'[p]),
           toCoord' = toCoord \/ \E p \in Peers : OnlyAt(toCoord, toCoord', p) /\ AnySeq(toCoord'[p])
    PROVE  Channels'
<1>1. FunctionOn(toPeer', Peers) /\ \A p \in Peers : AnySeq(toPeer'[p])
  BY DEF Channels, OnlyAt
<1>2. FunctionOn(toCoord', Peers) /\ \A p \in Peers : AnySeq(toCoord'[p])
  BY DEF Channels, OnlyAt
<1>. QED BY <1>1, <1>2 DEF Channels

\* Every step takes frames off the front of a connection or puts them at its end.
LEMMA ChannelsNext ==
    ASSUME Sockets, Channels, [Next]_vars
    PROVE  Channels'
<1>. USE DEF peerVars, coordVars, history
<1>. DEFINE Inbound == toPeer' = toPeer
                       \/ \E p \in Peers : OnlyAt(toPeer, toPeer', p) /\ AnySeq(toPeer'[p])
            Outbound == toCoord' = toCoord
                       \/ \E p \in Peers : OnlyAt(toCoord, toCoord', p) /\ AnySeq(toCoord'[p])
<1>0. SUFFICES Inbound /\ Outbound
  BY ChannelsStep
<1>1. \A p \in Peers : AnySeq(toPeer[p]) /\ AnySeq(toCoord[p])
  BY DEF Channels
<1>2. /\ \A p \in Peers : \A m : AnySeq(Put(toPeer, p, m)[p]) /\ OnlyAt(toPeer, Put(toPeer, p, m), p)
      /\ \A p \in Peers : \A m : AnySeq(Put(toCoord, p, m)[p]) /\ OnlyAt(toCoord, Put(toCoord, p, m), p)
  BY <1>1, PutEffect, AnySeqAppend DEF Channels
<1>3. /\ \A p \in Peers : toPeer[p] # <<>> =>
             AnySeq(Taken(toPeer, p)[p]) /\ OnlyAt(toPeer, Taken(toPeer, p), p)
      /\ \A p \in Peers : toCoord[p] # <<>> =>
             AnySeq(Taken(toCoord, p)[p]) /\ OnlyAt(toCoord, Taken(toCoord, p), p)
  BY <1>1, TakenEffect, AnySeqTail DEF Channels
<1>4. \A n, m : pc \in InCycle \cup {"select"} /\ Answers(n, m) => Inbound
  BY <1>2, Descriptors DEF Answers
<1>5. \A type : Receives(type) => Outbound /\ pc = "select"
  BY <1>3, ReceiveEffect DEF Receives
<1>6. ASSUME NEW p \in Peers, Connect(p) \/ Greet(p) \/ Exit(p) PROVE Inbound /\ Outbound
  BY <1>6 DEF Connect, Greet, Exit
<1>7. ASSUME NEW p \in Peers, Kill(p) PROVE Inbound /\ Outbound
  <2>1. /\ toPeer' = [toPeer EXCEPT ![p] = <<>>]
        /\ toCoord' = toCoord \/ toCoord' = [toCoord EXCEPT ![p] = <<>>]
    BY <1>7 DEF Kill
  <2>2. AnySeq(toPeer'[p]) /\ OnlyAt(toPeer, toPeer', p)
    BY <2>1, SomeSequences DEF Channels, FunctionOn, OnlyAt
  <2>3. CASE toCoord' = [toCoord EXCEPT ![p] = <<>>]
    <3>1. AnySeq(toCoord'[p]) /\ OnlyAt(toCoord, toCoord', p)
      BY <2>3, SomeSequences DEF Channels, FunctionOn, OnlyAt
    <3>. QED BY <2>2, <3>1
  <2>. QED BY <2>1, <2>2, <2>3
<1>8. ASSUME NEW p \in Workers, Propose(p) \/ Verify(p) PROVE Inbound /\ Outbound
  <2>1. /\ p \in Peers /\ toPeer[p] # <<>> /\ toPeer' = Taken(toPeer, p)
        /\ \E m : toCoord' = Put(toCoord, p, m)
    BY <1>8 DEF Propose, Verify, Peers
  <2>. QED BY <1>2, <1>3, <2>1
<1>9. ASSUME NEW d \in Drivers, Ask(d) \/ ReadReply(d) \/ GiveUp(d) PROVE Inbound /\ Outbound
  <2>1. d \in Peers
    BY DEF Peers
  <2>2. CASE Ask(d)
    BY <1>2, <2>1, <2>2 DEF Ask
  <2>3. CASE ReadReply(d)
    BY <1>3, <2>1, <2>3 DEF ReadReply
  <2>4. CASE GiveUp(d)
    BY <2>4 DEF GiveUp
  <2>. QED BY <1>9, <2>2, <2>3, <2>4
<1>10. ASSUME AcceptAtStartup \/ AcceptPeer \/ Select \/ SelectTimeout \/ DriverGone
       PROVE  Inbound /\ Outbound
  BY <1>10 DEF AcceptAtStartup, AcceptPeer, Select, SelectTimeout, DriverGone
<1>11. ASSUME HandleSubmit \/ HandleShutdown PROVE Inbound /\ Outbound
  <2>1. toPeer' = toPeer /\ \E type : Receives(type)
    BY <1>11 DEF HandleSubmit, HandleShutdown
  <2>. QED BY <1>5, <2>1
<1>12. ASSUME HandleReplay \/ HandleProbe \/ HandleRollEpoch \/ HandleStatus
       PROVE  Inbound /\ Outbound
  <2>1. /\ \E type : Receives(type)
        /\ toPeer' = toPeer \/ \E m : Answers(Command.n, m)
    BY <1>12, HandlerEffect
  <2>. HIDE DEF Inbound, Outbound
  <2>2. Outbound /\ pc = "select"
    BY <1>5, <2>1
  <2>3. toPeer' = toPeer => Inbound
    BY DEF Inbound
  <2>. QED BY <1>4, <2>1, <2>2, <2>3
<1>13. ASSUME SendProposal \/ SendVerification PROVE Inbound /\ Outbound
  <2>1. /\ pc \in InCycle /\ toCoord' = toCoord
        /\ \/ \E m : toPeer' = Put(toPeer, fd["proposer"], m)
           \/ \E m : toPeer' = Put(toPeer, fd["verifier"], m)
           \/ \E n, m : Answers(n, m)
    BY <1>13 DEF SendProposal, SendVerification, Rejects, InCycle
  <2>2. fd["proposer"] \in Peers /\ fd["verifier"] \in Peers
    BY <2>1, Descriptors
  <2>3. \A n, m : Answers(n, m) => Inbound
    BY <1>4, <2>1
  <2>. QED BY <1>2, <2>1, <2>2, <2>3
<1>14. ASSUME RecvProposal \/ RecvVerification PROVE Inbound /\ Outbound
  <2>1. /\ pc \in InCycle
        /\ toPeer' = toPeer \/ \E n, m : Answers(n, m)
        /\ \/ toCoord' = toCoord
           \/ toCoord[fd["proposer"]] # <<>> /\ toCoord' = Taken(toCoord, fd["proposer"])
           \/ toCoord[fd["verifier"]] # <<>> /\ toCoord' = Taken(toCoord, fd["verifier"])
    BY <1>14 DEF RecvProposal, RecvVerification, Rejects, InCycle, Consumed
  <2>2. fd["proposer"] \in Peers /\ fd["verifier"] \in Peers
    BY <2>1, Descriptors
  <2>3. \A n, m : Answers(n, m) => Inbound
    BY <1>4, <2>1
  <2>. QED BY <1>3, <2>1, <2>2, <2>3
<1>15. ASSUME Settle PROVE Inbound /\ Outbound
  BY <1>4, <1>15 DEF Settle, InCycle
<1>16. CASE UNCHANGED vars
  BY <1>16 DEF vars
<1>. HIDE DEF Inbound, Outbound
<1>. QED
  BY <1>6, <1>7, <1>8, <1>9, <1>10, <1>11, <1>12, <1>13, <1>14, <1>15, <1>16
  DEF Next, Coordinator
-----------------------------------------------------------------------------
(***************************************************************************)
(* The exchange with the workers                                           *)
(***************************************************************************)

\* drive_cycle gives up and tells the driver why.
Aborts(reason) ==
    /\ Answers(job.command, [type |-> "Reject", body |-> reason]) /\ reason # "stale"
    /\ pc' = "drain" /\ job' = NoJob

\* The answer to the live dispatch passes validate_authority: every field it
\* compares was copied from the request and the boot id that still stand.
LEMMA LiveProposalPasses ==
    ASSUME NEW p
    PROVE  LET m == ProposalResult(LiveProposal, p) IN
           ValidateAuthority(reqs[job.req], m.epoch, m.boot, m.attempt, m.base, m.propGen,
                             curBoot["proposer"]) = ""
BY DEF ProposalResult, LiveProposal, ProposalDispatch, ValidateAuthority

\* So does the answer of the verifier.
LEMMA LiveVerificationPasses ==
    ASSUME NEW p, NEW k, NEW b
    PROVE  LET m == VerificationResult(LiveVerification, k, p)
               r == reqs[job.req]
           IN ValidateAuthority(r, m.epoch, b, m.attempt, m.base, r.propGen, b) = ""
BY DEF VerificationResult, LiveVerification, VerificationDispatch, ValidateAuthority

\* What RecvProposal finds on the wire, and what it makes of it.
LEMMA RecvProposalEffect ==
    ASSUME Sockets, Channels, Exchange, RecvProposal
    PROVE  LET p == fd["proposer"]
               m == ProposalResult(LiveProposal, p)
           IN
           /\ pc = "proposing" /\ toPeer[p] = <<>>
           /\ \/ toCoord[p] = <<>> /\ toCoord' = toCoord /\ \E reason : Aborts(reason)
              \/ /\ toCoord[p] = <<m>> /\ OnlyAt(toCoord, toCoord', p) /\ toCoord'[p] = <<>>
                 /\ \/ \E reason : Aborts(reason)
                    \/ pc' = "verify" /\ toPeer' = toPeer /\ job' = [job EXCEPT !.draft = m]
<1>. DEFINE p == fd["proposer"]
            m == ProposalResult(LiveProposal, p)
<1>1. /\ pc = "proposing" /\ p \in Workers /\ p \in Peers
      /\ UnderWay(p, LiveProposal, {m})
      /\ proc[p] = "dead" => toPeer[p] = <<>>
  <2>1. pc = "proposing"
    BY DEF RecvProposal
  <2>2. p \in Workers /\ p \in Peers
    BY <2>1, Descriptors
  <2>. QED BY <2>1, <2>2 DEF Exchange
<1>2. \A reason : reason # "stale" /\ Rejects(reason) => Aborts(reason)
  BY DEF Rejects, Aborts
<1>3. CASE HungUp(p) /\ Rejects("proposer recv failed") /\ UNCHANGED toCoord
  <2>1. toCoord[p] = <<>> /\ toPeer[p] = <<>>
    BY <1>1, <1>3 DEF HungUp
  <2>2. Aborts("proposer recv failed")
    BY <1>2, <1>3
  <2>. QED BY <1>1, <1>3, <2>1, <2>2
<1>4. CASE toCoord[p] # <<>> /\ toCoord' = Consumed(p)
  <2>1. toPeer[p] = <<>> /\ toCoord[p] = <<m>>
    BY <1>1, <1>4 DEF UnderWay, Quiet
  <2>2. Head(toCoord[p]) = m /\ Tail(toCoord[p]) = <<>>
    BY <2>1, OneElement
  <2>3. OnlyAt(toCoord, toCoord', p) /\ toCoord'[p] = <<>>
    BY <1>1, <1>4, <2>2, TakenEffect DEF Consumed, Channels
  <2>4. ValidateAuthority(reqs[job.req], m.epoch, m.boot, m.attempt, m.base, m.propGen,
                          curBoot["proposer"]) = ""
    BY LiveProposalPasses
  <2>5. \/ Rejects("proposal non-success")
        \/ pc' = "verify" /\ toPeer' = toPeer /\ job' = [job EXCEPT !.draft = m]
    <3>. HIDE DEF m
    <3>. QED BY <1>4, <2>2, <2>4 DEF RecvProposal, HungUp
  <2>. QED BY <1>1, <1>2, <2>1, <2>3, <2>5
<1>. QED BY <1>3, <1>4 DEF RecvProposal

\* What a verified branch adds to drive_cycle's list.
Branch(k) ==
    [branch |-> Len(job.brs) + 1, gen |-> job.draft.propGen, accepted |-> k,
     epoch |-> job.draft.epoch, proposer |-> job.draft.from, verifier |-> fd["verifier"]]

\* The same for RecvVerification.
LEMMA RecvVerificationEffect ==
    ASSUME Sockets, Channels, Exchange, RecvVerification
    PROVE  LET p == fd["verifier"] IN
           /\ pc = "verifying" /\ toPeer[p] = <<>>
           /\ \/ toCoord[p] = <<>> /\ toCoord' = toCoord /\ \E reason : Aborts(reason)
              \/ /\ OnlyAt(toCoord, toCoord', p) /\ toCoord'[p] = <<>> /\ toPeer' = toPeer
                 /\ \E k \in 0..job.depth :
                      /\ job' = [job EXCEPT !.draft = None, !.brs = Append(job.brs, Branch(k))]
                      /\ pc' = IF Len(Append(job.brs, Branch(k))) = job.branches
                               THEN "settle" ELSE "propose"
<1>. DEFINE p == fd["verifier"]
            Result(k) == VerificationResult(LiveVerification, k, p)
<1>1. /\ pc = "verifying" /\ p \in Workers /\ p \in Peers
      /\ UnderWay(p, LiveVerification, {Result(k) : k \in 0..job.depth})
      /\ proc[p] = "dead" => toPeer[p] = <<>>
  <2>1. pc = "verifying"
    BY DEF RecvVerification
  <2>2. p \in Workers /\ p \in Peers
    BY <2>1, Descriptors
  <2>. QED BY <2>1, <2>2 DEF Exchange
<1>2. \A reason : reason # "stale" /\ Rejects(reason) => Aborts(reason)
  BY DEF Rejects, Aborts
<1>3. CASE HungUp(p) /\ Rejects("verifier recv failed") /\ UNCHANGED toCoord
  <2>1. toCoord[p] = <<>> /\ toPeer[p] = <<>>
    BY <1>1, <1>3 DEF HungUp
  <2>2. Aborts("verifier recv failed")
    BY <1>2, <1>3
  <2>. QED BY <1>1, <1>3, <2>1, <2>2
<1>4. CASE toCoord[p] # <<>> /\ toCoord' = Consumed(p)
  <2>1. toPeer[p] = <<>> /\ \E k \in 0..job.depth : toCoord[p] = <<Result(k)>>
    BY <1>1, <1>4 DEF UnderWay, Quiet
  <2>2. PICK k \in 0..job.depth : toCoord[p] = <<Result(k)>>
    BY <2>1
  <2>. DEFINE m == Result(k)
  <2>3. Head(toCoord[p]) = m /\ Tail(toCoord[p]) = <<>>
    BY <2>2, OneElement
  <2>4. OnlyAt(toCoord, toCoord', p) /\ toCoord'[p] = <<>>
    BY <1>1, <1>4, <2>3, TakenEffect DEF Consumed, Channels
  <2>5. /\ m.accepted = k /\ m.from = p
        /\ \A b : ValidateAuthority(reqs[job.req], m.epoch, b, m.attempt, m.base,
                                    reqs[job.req].propGen, b) = ""
    BY LiveVerificationPasses DEF VerificationResult
  <2>6. /\ toPeer' = toPeer
        /\ job' = [job EXCEPT !.draft = None, !.brs = Append(job.brs, Branch(k))]
        /\ pc' = IF Len(Append(job.brs, Branch(k))) = job.branches THEN "settle" ELSE "propose"
    <3>. HIDE DEF m
    <3>. QED BY <1>4, <2>3, <2>5 DEF RecvVerification, HungUp, Branch
  <2>. QED BY <1>1, <2>1, <2>2, <2>4, <2>6
<1>. QED BY <1>3, <1>4 DEF RecvVerification

\* No worker has a frame in flight when drive_cycle waits for none.
LEMMA NothingUnderWay ==
    ASSUME Exchange, pc \notin {"proposing", "verifying"}
    PROVE  \A w \in Workers : toPeer[w] = <<>> /\ toCoord[w] = <<>>
BY DEF Exchange, Quiet

\* A step after which drive_cycle waits for no worker has to leave none speaking.
LEMMA ExchangeOver ==
    ASSUME pc' \notin {"proposing", "verifying"},
           \A w \in Workers : toPeer'[w] = <<>> /\ toCoord'[w] = <<>>
    PROVE  Exchange'
BY DEF Exchange, Quiet

\* A step that drive_cycle has no part in, and that at most empties a worker's
\* connection.
LEMMA ExchangeKept ==
    ASSUME Exchange, UNCHANGED <<pc, fd, curBoot, reqs, job>>,
           \A w \in Workers :
              toPeer'[w] \in {toPeer[w], <<>>} /\ toCoord'[w] \in {toCoord[w], <<>>},
           \A w \in Workers : proc'[w] = "dead" => toPeer'[w] = <<>>,
           pc = "proposing" => fd["proposer"] \in Workers,
           pc = "verifying" => fd["verifier"] \in Workers
    PROVE  Exchange'
<1>1. LiveProposal' = LiveProposal /\ LiveVerification' = LiveVerification
  BY DEF LiveProposal, LiveVerification, ProposalDispatch, VerificationDispatch
<1>2. \A w \in Workers : Quiet(w) => Quiet(w)'
  BY DEF Quiet
<1>3. \A w \in Workers : \A x, S : UnderWay(w, x, S) =>
         \/ toPeer'[w] = <<>> /\ toCoord'[w] = <<>>
         \/ toPeer'[w] = <<x>> /\ toCoord'[w] = <<>>
         \/ toPeer'[w] = <<>> /\ \E m \in S : toCoord'[w] = <<m>>
  BY DEF UnderWay, Quiet
<1>. QED BY <1>1, <1>2, <1>3 DEF Exchange, UnderWay, Quiet

\* A worker serves the dispatch it was sent: it is the one drive_cycle waits for,
\* and its answer the answer to that dispatch.
LEMMA ExchangeServed ==
    ASSUME Sockets, Channels, Exchange, NEW p \in Workers, Propose(p) \/ Verify(p)
    PROVE  Exchange'
<1>. USE DEF peerVars, coordVars, history
<1>1. /\ UNCHANGED <<pc, fd, curBoot, reqs, job, proc>> /\ proc[p] = "running"
      /\ p \in Peers /\ toPeer[p] # <<>> /\ ~Quiet(p)
  BY DEF Propose, Verify, Quiet, Peers
<1>2. LiveProposal' = LiveProposal /\ LiveVerification' = LiveVerification
  BY <1>1 DEF LiveProposal, LiveVerification, ProposalDispatch, VerificationDispatch
<1>3. /\ OnlyAt(toPeer, toPeer', p) /\ toPeer'[p] = Tail(toPeer[p])
      /\ FunctionOn(toCoord, Peers)
  BY <1>1, TakenEffect DEF Propose, Verify, Channels
<1>4. CASE Propose(p)
  <2>1. pc = "proposing" /\ p = fd["proposer"]
    BY <1>1, <1>4, Descriptors, PeerRoles DEF Exchange, Propose
  <2>2. toPeer[p] = <<LiveProposal>> /\ toCoord[p] = <<>>
    BY <1>1, <2>1 DEF Exchange, UnderWay, Quiet
  <2>3. /\ Head(toPeer[p]) = LiveProposal /\ toPeer'[p] = <<>>
        /\ Append(toCoord[p], ProposalResult(LiveProposal, p)) = <<ProposalResult(LiveProposal, p)>>
    BY <1>3, <2>2, OneElement
  <2>4. toCoord' = Put(toCoord, p, ProposalResult(LiveProposal, p))
    BY <1>4, <2>3 DEF Propose
  <2>5. /\ OnlyAt(toCoord, toCoord', p)
        /\ toCoord'[p] = <<ProposalResult(LiveProposal, p)>>
    BY <1>1, <1>3, <2>3, <2>4, PutEffect
  <2>6. p = fd'["proposer"] /\ toCoord'[p] = <<ProposalResult(LiveProposal', p)>>
    BY <1>1, <1>2, <2>1, <2>5
  <2>7. \A w \in Workers : w # p => Quiet(w)'
    BY <1>3, <2>1, <2>5 DEF Exchange, OnlyAt, Quiet, Peers
  <2>8. \A w \in Workers : proc'[w] = "dead" => toPeer'[w] = <<>>
    BY <1>1, <2>3, <2>7 DEF Quiet
  <2>9. UnderWay(fd["proposer"], LiveProposal, {ProposalResult(LiveProposal, fd["proposer"])})'
    BY <2>3, <2>6 DEF UnderWay
  <2>. QED BY <1>1, <2>1, <2>7, <2>8, <2>9 DEF Exchange
<1>5. CASE Verify(p)
  <2>1. pc = "verifying" /\ p = fd["verifier"]
    BY <1>1, <1>5, Descriptors, PeerRoles DEF Exchange, Verify
  <2>2. toPeer[p] = <<LiveVerification>> /\ toCoord[p] = <<>>
    BY <1>1, <2>1 DEF Exchange, UnderWay, Quiet
  <2>3. Head(toPeer[p]) = LiveVerification /\ toPeer'[p] = <<>>
    BY <1>3, <2>2, OneElement
  <2>4. LiveVerification.depth = job.depth
    BY DEF LiveVerification, VerificationDispatch
  <2>5. PICK k \in 0..job.depth :
            toCoord' = Put(toCoord, p, VerificationResult(LiveVerification, k, p))
    BY <1>5, <2>3, <2>4 DEF Verify
  <2>. DEFINE m == VerificationResult(LiveVerification, k, p)
  <2>6. OnlyAt(toCoord, toCoord', p) /\ toCoord'[p] = <<m>>
    <3>1. Append(toCoord[p], m) = <<m>>
      BY <2>2, OneElement
    <3>. HIDE DEF m
    <3>. QED BY <1>1, <1>3, <2>5, <3>1, PutEffect DEF m
  <2>7. /\ p = fd'["verifier"] /\ k \in 0..job'.depth
        /\ toCoord'[p] = <<VerificationResult(LiveVerification', k, p)>>
    BY <1>1, <1>2, <2>1, <2>6
  <2>8. \A w \in Workers : w # p => Quiet(w)'
    BY <1>3, <2>1, <2>6 DEF Exchange, OnlyAt, Quiet, Peers
  <2>9. \A w \in Workers : proc'[w] = "dead" => toPeer'[w] = <<>>
    BY <1>1, <2>3, <2>8 DEF Quiet
  <2>10. UnderWay(fd["verifier"], LiveVerification,
                  {VerificationResult(LiveVerification, i, fd["verifier"]) : i \in 0..job.depth})'
    BY <2>3, <2>7 DEF UnderWay
  <2>. QED BY <1>1, <2>1, <2>8, <2>9, <2>10 DEF Exchange
<1>. QED BY <1>4, <1>5

\* A reply leaves the workers' connections alone.
LEMMA AnswersSpareWorkers ==
    ASSUME Sockets, Channels, pc \in InCycle \cup {"select"}, NEW n, NEW m, Answers(n, m)
    PROVE  \A w \in Workers : toPeer'[w] = toPeer[w]
BY AnswerEffect DEF OnlyAt, Peers

\* A dispatch is put on a quiet connection.
LEMMA ExchangeSent ==
    ASSUME Sockets, Channels, Exchange, Cycle, SendProposal \/ SendVerification
    PROVE  Exchange'
<1>. USE DEF peerVars, coordVars, history
<1>1. /\ pc \in {"propose", "verify"} /\ pc \in InCycle
      /\ UNCHANGED <<toCoord, fd, curBoot, proc>>
  BY DEF SendProposal, SendVerification, InCycle
<1>2. \A w \in Workers : toPeer[w] = <<>> /\ toCoord[w] = <<>>
  BY <1>1, NothingUnderWay
<1>3. ASSUME NEW reason, Rejects(reason) PROVE Exchange'
  <2>1. \A w \in Workers : toPeer'[w] = <<>> /\ toCoord'[w] = <<>>
    BY <1>1, <1>2, <1>3, AnswersSpareWorkers DEF Rejects
  <2>2. pc' \notin {"proposing", "verifying"}
    BY <1>3 DEF Rejects
  <2>. QED BY <2>1, <2>2, ExchangeOver
<1>4. ASSUME NEW p \in Workers, NEW m, toPeer' = Put(toPeer, p, m)
      PROVE  /\ \A w \in Workers : w # p => Quiet(w)'
             /\ toCoord'[p] = <<>> /\ toPeer'[p] \in {<<>>, <<m>>}
             /\ \A w \in Workers : proc'[w] = "dead" => toPeer'[w] = <<>>
  <2>1. p \in Peers /\ Append(toPeer[p], m) = <<m>>
    BY <1>2, OneElement DEF Peers
  <2>2. OnlyAt(toPeer, toPeer', p)
        /\ toPeer'[p] = IF proc[p] = "dead" THEN <<>> ELSE <<m>>
    BY <1>2, <1>4, <2>1, PutEffect DEF Channels
  <2>. QED BY <1>1, <1>2, <2>2 DEF OnlyAt, Quiet, Peers
<1>5. fd["proposer"] \in Workers /\ fd["verifier"] \in Workers
  BY <1>1, Descriptors
<1>6. CASE SendProposal
  <2>. DEFINE r == Dispatched(reqs[job.req])
              m == ProposalDispatch(r)
  <2>1. CASE toPeer' = Put(toPeer, fd["proposer"], m) /\ pc' = "proposing" /\ job' = job
    <3>1. job.req \in DOMAIN reqs /\ reqs' = [reqs EXCEPT ![job.req] = r]
      BY <1>1, <1>6 DEF Cycle, CycleShape, SendProposal
    <3>2. LiveProposal' = m
      <4>1. reqs'[job'.req] = r
        BY <2>1, <3>1
      <4>. QED BY <1>1, <2>1, <4>1 DEF LiveProposal, ProposalDispatch
    <3>. HIDE DEF m
    <3>3. /\ \A w \in Workers : w # fd["proposer"] => Quiet(w)'
          /\ toCoord'[fd["proposer"]] = <<>> /\ toPeer'[fd["proposer"]] \in {<<>>, <<m>>}
          /\ \A w \in Workers : proc'[w] = "dead" => toPeer'[w] = <<>>
      BY <1>4, <1>5, <2>1
    <3>4. UnderWay(fd["proposer"], LiveProposal, {ProposalResult(LiveProposal, fd["proposer"])})'
      BY <1>1, <3>2, <3>3 DEF UnderWay, Quiet
    <3>. QED BY <1>1, <2>1, <3>3, <3>4 DEF Exchange
  <2>. QED BY <1>3, <1>6, <2>1 DEF SendProposal
<1>7. CASE SendVerification
  <2>. DEFINE m == VerificationDispatch(reqs[job.req])
  <2>1. CASE toPeer' = Put(toPeer, fd["verifier"], m) /\ pc' = "verifying" /\ job' = job
    <3>1. LiveVerification' = m
      BY <1>7, <2>1 DEF LiveVerification, VerificationDispatch, SendVerification
    <3>. HIDE DEF m
    <3>2. /\ \A w \in Workers : w # fd["verifier"] => Quiet(w)'
          /\ toCoord'[fd["verifier"]] = <<>> /\ toPeer'[fd["verifier"]] \in {<<>>, <<m>>}
          /\ \A w \in Workers : proc'[w] = "dead" => toPeer'[w] = <<>>
      BY <1>4, <1>5, <2>1
    <3>3. UnderWay(fd["verifier"], LiveVerification,
                   {VerificationResult(LiveVerification, k, fd["verifier"]) : k \in 0..job.depth})'
      BY <1>1, <3>1, <3>2 DEF UnderWay, Quiet
    <3>. QED BY <1>1, <2>1, <3>2, <3>3 DEF Exchange
  <2>. QED BY <1>3, <1>7, <2>1 DEF SendVerification
<1>. QED BY <1>6, <1>7

\* An answer, or the end of the peer, ends the exchange.
LEMMA ExchangeReceived ==
    ASSUME Sockets, Channels, Exchange, RecvProposal \/ RecvVerification
    PROVE  Exchange'
<1>1. ASSUME NEW p \in Workers, toPeer[p] = <<>>, pc \in InCycle,
             \A w \in Workers : w # p => Quiet(w),
             \/ toCoord[p] = <<>> /\ toCoord' = toCoord
             \/ OnlyAt(toCoord, toCoord', p) /\ toCoord'[p] = <<>>,
             \/ \E reason : Aborts(reason)
             \/ toPeer' = toPeer /\ pc' \notin {"proposing", "verifying"}
      PROVE  Exchange'
  <2>1. \A w \in Workers : toCoord'[w] = <<>> /\ toPeer[w] = <<>>
    BY <1>1 DEF Quiet, OnlyAt, Peers
  <2>2. (\A w \in Workers : toPeer'[w] = toPeer[w]) /\ pc' \notin {"proposing", "verifying"}
    BY <1>1, AnswersSpareWorkers DEF Aborts
  <2>. QED BY <2>1, <2>2, ExchangeOver
<1>2. CASE RecvProposal
  <2>1. pc = "proposing"
    BY <1>2 DEF RecvProposal
  <2>2. fd["proposer"] \in Workers /\ \A w \in Workers : w # fd["proposer"] => Quiet(w)
    BY <2>1, Descriptors DEF Exchange, InCycle
  <2>. QED BY <1>1, <1>2, <2>1, <2>2, RecvProposalEffect DEF InCycle
<1>3. CASE RecvVerification
  <2>1. pc = "verifying"
    BY <1>3 DEF RecvVerification
  <2>2. fd["verifier"] \in Workers /\ \A w \in Workers : w # fd["verifier"] => Quiet(w)
    BY <2>1, Descriptors DEF Exchange, InCycle
  <2>. QED BY <1>1, <1>3, <2>1, <2>2, RecvVerificationEffect DEF InCycle
<1>. QED BY <1>2, <1>3

\* Every step keeps the exchange with the workers in lock step.
LEMMA ExchangeNext ==
    ASSUME Sockets, Channels, Exchange, Cycle, [Next]_vars
    PROVE  Exchange'
<1>. USE DEF peerVars, coordVars, history
<1>1. /\ pc = "proposing" => fd["proposer"] \in Workers
      /\ pc = "verifying" => fd["verifier"] \in Workers
  BY Descriptors DEF InCycle
<1>2. /\ \A w \in Workers : proc[w] = "dead" => toPeer[w] = <<>>
      /\ \A w \in Workers : w \in Peers /\ w \notin Drivers
  BY PeerRoles DEF Exchange, Peers
<1>3. ASSUME NEW p \in Peers, Connect(p) \/ Greet(p) \/ Exit(p) PROVE Exchange'
  <2>1. UNCHANGED <<pc, fd, curBoot, reqs, job, toPeer, toCoord>>
    BY <1>3 DEF Connect, Greet, Exit
  <2>2. ASSUME NEW w \in Workers, proc'[w] = "dead" PROVE toPeer[w] = <<>>
    <3>1. CASE Exit(p) /\ w = p
      <4>1. proc[w] = "closed"
        BY <3>1 DEF Exit
      <4>2. w # fd["proposer"] /\ w # fd["verifier"]
        BY <4>1, <1>2, RoleFacts DEF Sockets, Roles
      <4>. QED BY <4>2 DEF Exchange, Quiet
    <3>2. CASE Exit(p) /\ w # p
      BY <1>2, <2>2, <3>2 DEF Exit, Sockets
    <3>3. CASE Connect(p) \/ Greet(p)
      BY <1>2, <2>2, <3>3 DEF Connect, Greet, Sockets
    <3>. QED BY <1>3, <3>1, <3>2, <3>3
  <2>. QED BY <1>1, <2>1, <2>2, ExchangeKept
<1>4. ASSUME NEW p \in Peers, Kill(p) PROVE Exchange'
  <2>1. /\ UNCHANGED <<pc, fd, curBoot, reqs, job>>
        /\ proc' = [proc EXCEPT ![p] = "dead"]
        /\ toPeer' = [toPeer EXCEPT ![p] = <<>>]
        /\ toCoord' = toCoord \/ toCoord' = [toCoord EXCEPT ![p] = <<>>]
    BY <1>4 DEF Kill
  <2>2. \A w \in Workers :
           /\ toPeer'[w] = IF w = p THEN <<>> ELSE toPeer[w]
           /\ toCoord'[w] \in {toCoord[w], <<>>}
    BY <1>2, <2>1 DEF Channels, FunctionOn
  <2>3. \A w \in Workers : proc'[w] = "dead" => toPeer'[w] = <<>>
    BY <1>2, <2>1, <2>2 DEF Sockets
  <2>. QED BY <1>1, <2>1, <2>2, <2>3, ExchangeKept
<1>5. ASSUME NEW d \in Drivers, Ask(d) \/ ReadReply(d) \/ GiveUp(d) PROVE Exchange'
  <2>1. UNCHANGED <<pc, fd, curBoot, reqs, job, proc>> /\ d \in Peers
    BY <1>5 DEF Ask, ReadReply, GiveUp, Peers
  <2>2. toPeer' = toPeer \/ OnlyAt(toPeer, toPeer', d)
    BY <1>5, <2>1, TakenEffect DEF Ask, ReadReply, GiveUp, Channels
  <2>3. toCoord' = toCoord \/ OnlyAt(toCoord, toCoord', d)
    BY <1>5, <2>1, PutEffect DEF Ask, ReadReply, GiveUp, Channels
  <2>4. \A w \in Workers : toPeer'[w] = toPeer[w] /\ toCoord'[w] = toCoord[w]
    BY <1>2, <2>2, <2>3 DEF OnlyAt
  <2>. QED BY <1>1, <1>2, <2>1, <2>4, ExchangeKept
<1>6. ASSUME AcceptAtStartup \/ AcceptPeer \/ Select \/ SelectTimeout \/ DriverGone
      PROVE  Exchange'
  <2>1. /\ pc \notin {"proposing", "verifying"} /\ pc' \notin {"proposing", "verifying"}
        /\ UNCHANGED <<toPeer, toCoord>>
    BY <1>6 DEF AcceptAtStartup, AcceptPeer, Accepts, Select, SelectTimeout, DriverGone
  <2>. QED BY <2>1, NothingUnderWay, ExchangeOver
<1>7. ASSUME HandleSubmit \/ HandleShutdown \/ HandleReplay \/ HandleProbe \/ HandleRollEpoch
             \/ HandleStatus
      PROVE  Exchange'
  <2>1. /\ \E type : Receives(type)
        /\ toPeer' = toPeer \/ \E m : Answers(Command.n, m)
        /\ pc' \notin {"proposing", "verifying"}
    BY <1>7, HandlerEffect DEF HandleSubmit, HandleShutdown
  <2>2. pc = "select" /\ \A w \in Workers : toCoord'[w] = toCoord[w]
    BY <1>2, <2>1, ReceiveEffect DEF OnlyAt
  <2>3. \A w \in Workers : toPeer'[w] = toPeer[w]
    BY <2>1, <2>2, AnswersSpareWorkers
  <2>. QED BY <2>1, <2>2, <2>3, NothingUnderWay, ExchangeOver
<1>8. ASSUME Settle PROVE Exchange'
  <2>1. /\ pc = "settle" /\ pc' = "drain" /\ toCoord' = toCoord
        /\ \E n, m : Answers(n, m)
    BY <1>8 DEF Settle
  <2>2. \A w \in Workers : toPeer'[w] = toPeer[w]
    BY <2>1, AnswersSpareWorkers DEF InCycle
  <2>. QED BY <2>1, <2>2, NothingUnderWay, ExchangeOver
<1>9. CASE UNCHANGED vars
  <2>1. UNCHANGED <<pc, fd, curBoot, reqs, job, proc, toPeer, toCoord>>
    BY <1>9 DEF vars
  <2>. QED BY <1>1, <1>2, <2>1, ExchangeKept
<1>. QED
  BY <1>3, <1>4, <1>5, <1>6, <1>7, <1>8, <1>9, ExchangeServed, ExchangeSent, ExchangeReceived
  DEF Next, Coordinator
-----------------------------------------------------------------------------
(***************************************************************************)
(* Settlement: drive_cycle's last part                                     *)
(***************************************************************************)

\* What the branch with the most accepted tokens advances a request by.
Advance(brs) == Max({brs[i].accepted : i \in 1..Len(brs)})

\* The branches of a cycle that has none left to run.
Complete(brs, depth) ==
    /\ AnySeq(brs) /\ Len(brs) > 0
    /\ \A i \in 1..Len(brs) : brs[i].gen = i /\ brs[i].accepted \in 0..depth

\* The branch drive_cycle settles on exists, its accepted count is the greatest,
\* and everything it commits carries its own generation.
LEMMA Winner ==
    ASSUME NEW depth \in Nat, NEW brs, Complete(brs, depth)
    PROVE  LET adv == Advance(brs) IN
           /\ adv \in Nat /\ CommittedOf(brs) \in Seq(Nat) /\ Len(CommittedOf(brs)) = adv
           /\ \E w \in 1..Len(brs) : \A k \in 1..adv : CommittedOf(brs)[k] = w
<1>. DEFINE n == Len(brs)
            f == [i \in 1..n |-> brs[i].accepted]
            best == {i \in 1..n : \A j \in 1..n : brs[j].accepted <= brs[i].accepted}
            counts == {brs[i].accepted : i \in 1..n}
            w == Min(best)
            adv == Advance(brs)
<1>0. /\ AnySeq(brs) /\ n > 0
      /\ \A j \in 1..n : brs[j].gen = j /\ brs[j].accepted \in 0..depth
  BY DEF Complete
<1>1. n \in Nat \ {0}
  BY <1>0, AnySeqLength
<1>2. f \in [1..n -> Nat] /\ \A i \in 1..n : f[i] = brs[i].accepted /\ f[i] <= depth
  BY <1>0
<1>3. PICK i \in 1..n : \A j \in 1..n : f[i] > f[j] \/ (f[i] = f[j] /\ i <= j)
  <2>. HIDE DEF n, f
  <2>. QED BY <1>1, <1>2, FirstMaximum
<1>4. i \in best /\ \A j \in best : i <= j
  <2>. HIDE DEF f, n
  <2>1. \A j \in 1..n : f[j] \in Nat /\ f[j] = brs[j].accepted
    BY <1>2
  <2>2. \A j \in 1..n : f[j] <= f[i]
    BY <1>3, <2>1
  <2>3. i \in best
    BY <2>1, <2>2
  <2>4. ASSUME NEW j \in best PROVE i <= j
    <3>1. j \in 1..n /\ f[i] <= f[j]
      BY <2>1, <2>4
    <3>. QED BY <1>3, <2>1, <3>1
  <2>. QED BY <2>3, <2>4
<1>5. w \in best
  <2>. HIDE DEF best
  <2>. QED BY <1>4, Zenon DEF Min
<1>6. w \in 1..n /\ \A j \in 1..n : brs[j].accepted <= brs[w].accepted
  <2>. HIDE DEF w
  <2>. QED BY <1>5
<1>7. adv = brs[w].accepted
  <2>. HIDE DEF w, n
  <2>1. brs[w].accepted \in counts /\ \A y \in counts : y \in Nat /\ brs[w].accepted >= y
    BY <1>0, <1>6 DEF n
  <2>. HIDE DEF counts
  <2>2. adv = Max(counts)
    BY DEF Advance, counts, n
  <2>3. adv \in counts /\ \A y \in counts : adv >= y
    BY <2>1, <2>2 DEF Max
  <2>. HIDE DEF adv
  <2>. QED BY <2>1, <2>3
<1>8. CommittedOf(brs) = [k \in 1..brs[w].accepted |-> brs[w].gen]
  BY DEF CommittedOf
<1>9. brs[w].gen = w /\ brs[w].accepted \in Nat
  <2>. HIDE DEF w
  <2>. QED BY <1>0, <1>6
<1>. HIDE DEF w, adv
<1>10. CommittedOf(brs) \in [1..adv -> Nat] /\ \A k \in 1..adv : CommittedOf(brs)[k] = w
  BY <1>1, <1>6, <1>7, <1>8, <1>9
<1>. HIDE DEF n
<1>11. CommittedOf(brs) \in Seq(Nat) /\ Len(CommittedOf(brs)) = adv
  BY <1>7, <1>9, <1>10, FunctionIsSequence
<1>. QED BY <1>6, <1>7, <1>9, <1>10, <1>11 DEF adv, n
-----------------------------------------------------------------------------
(***************************************************************************)
(* The cycle and the requests                                              *)
(***************************************************************************)

\* Outside drive_cycle there are only the requests to account for.
LEMMA CycleIdle ==
    ASSUME epoch' \in Nat \ {0}, DOMAIN reqs' \subseteq ReqIds,
           reqs' \in [DOMAIN reqs' -> RequestType], job' = NoJob, pc' \notin InCycle
    PROVE  Cycle'
BY DEF Cycle, NoJob, Job

\* The steps drive_cycle has no part in.
LEMMA CycleKept ==
    ASSUME Cycle, UNCHANGED <<pc, epoch, reqs, job>>,
           pc \in InCycle => UNCHANGED <<fd, curBoot>>
    PROVE  Cycle'
<1>1. CASE pc \notin InCycle
  BY <1>1 DEF Cycle, NoJob, Job
<1>2. CASE pc \in InCycle
  <2>1. LiveProposal' = LiveProposal
    BY <1>2 DEF LiveProposal, ProposalDispatch
  <2>2. \A br, i : BranchCurrent(br, i)' = BranchCurrent(br, i)
    BY <1>2 DEF BranchCurrent
  <2>3. CycleShape
    BY <1>2 DEF Cycle
  <2>4. CycleShape'
    BY <1>2, <2>1, <2>2, <2>3 DEF CycleShape
  <2>. QED BY <1>2, <2>4 DEF Cycle
<1>. QED BY <1>1, <1>2

\* A request replaced by another one.
LEMMA RequestsUpdated ==
    ASSUME Cycle, pc \in InCycle, NEW r \in RequestType, reqs' = [reqs EXCEPT ![job.req] = r]
    PROVE  /\ DOMAIN reqs' = DOMAIN reqs /\ DOMAIN reqs' \subseteq ReqIds
           /\ reqs' \in [DOMAIN reqs' -> RequestType]
           /\ job.req \in DOMAIN reqs /\ reqs'[job.req] = r
           /\ \A q \in DOMAIN reqs \ {job.req} : reqs'[q] = reqs[q]
BY DEF Cycle, CycleShape

\* The request of the cycle, as far as its type goes.
LEMMA CycleRequest ==
    ASSUME Cycle, pc \in InCycle
    PROVE  /\ reqs[job.req] \in RequestType /\ CycleShape /\ Len(job.brs) \in Nat
           /\ reqs \in [DOMAIN reqs -> RequestType] /\ DOMAIN reqs \subseteq ReqIds
<1>1. CycleShape /\ reqs \in [DOMAIN reqs -> RequestType] /\ DOMAIN reqs \subseteq ReqIds
  BY DEF Cycle
<1>2. AnySeq(job.brs) /\ job.req \in DOMAIN reqs
  BY <1>1 DEF CycleShape
<1>. QED BY <1>1, <1>2, AnySeqLength

\* SubmitRequest starts a cycle.
LEMMA CycleSubmitted ==
    ASSUME Sockets, Channels, Cycle, Dialogue, HandleSubmit
    PROVE  Cycle'
<1>. DEFINE c == Command
<1>1. /\ c.req \in ReqIds /\ c.depth \in Nat /\ c.branches \in Nat \ {0}
  <2>1. /\ fd["driver"] \in Drivers /\ c = toCoord[fd["driver"]][1] /\ c.type = "Submit"
        /\ 1 \in 1..Len(toCoord[fd["driver"]])
    BY ReceiveEffect DEF HandleSubmit
  <2>2. WellFormed(c)
    BY <2>1 DEF Dialogue, InStep
  <2>3. \A x \in Depths : x \in Nat
    BY CoordinatorConstants
  <2>4. \A x \in BranchCounts : x \in Nat \ {0}
    BY CoordinatorConstants
  <2>. HIDE DEF c
  <2>. QED BY <2>1, <2>2, <2>3, <2>4 DEF WellFormed
<1>2. /\ pc' = "propose" /\ epoch' = epoch /\ epoch \in Nat \ {0}
      /\ reqs' = [r \in DOMAIN reqs \cup {c.req} |->
                    IF r = c.req THEN Fresh(epoch) ELSE reqs[r]]
      /\ job' = Job(c.n, c.req, c.depth, c.branches)
  BY DEF HandleSubmit, Cycle
<1>. HIDE DEF c
<1>3. /\ Fresh(epoch) \in RequestType /\ Len(<<>>) = 0 /\ AnySeq(<<>>)
  BY <1>2, EmptySeq, SomeSequences DEF Fresh, CReq, RequestType
<1>4. /\ DOMAIN reqs' \subseteq ReqIds /\ reqs' \in [DOMAIN reqs' -> RequestType]
      /\ c.req \in DOMAIN reqs' /\ reqs'[c.req] = Fresh(epoch)
  BY <1>1, <1>2, <1>3 DEF Cycle
<1>5. /\ job'.req = c.req /\ job'.depth = c.depth /\ job'.branches = c.branches
      /\ job'.brs = <<>> /\ job'.draft = None
      /\ job' = [command |-> job'.command, req |-> job'.req, depth |-> job'.depth,
                 branches |-> job'.branches, draft |-> job'.draft, brs |-> job'.brs]
  BY <1>2 DEF Job
<1>6. CycleShape'
  BY <1>1, <1>2, <1>3, <1>4, <1>5 DEF CycleShape, Fresh, CReq
<1>. QED BY <1>2, <1>4, <1>5, <1>6 DEF Cycle, InCycle

\* A branch is dispatched to the proposer.
LEMMA CycleProposed ==
    ASSUME Cycle, SendProposal
    PROVE  Cycle'
<1>. DEFINE r == Dispatched(reqs[job.req])
<1>1. /\ pc = "propose" /\ pc \in InCycle /\ reqs' = [reqs EXCEPT ![job.req] = r]
      /\ UNCHANGED <<fd, epoch>>
      /\ \/ pc' = "proposing" /\ job' = job
         \/ pc' = "drain" /\ job' = NoJob
  BY DEF SendProposal, Rejects, InCycle
<1>2. CycleShape /\ reqs[job.req] \in RequestType /\ epoch \in Nat \ {0} /\ Len(job.brs) \in Nat
  BY <1>1, CycleRequest DEF Cycle
<1>3. /\ r \in RequestType /\ r.epoch = epoch /\ r.authGen = 0 /\ r.stateGen = 0
      /\ r.committed = <<>> /\ r.propGen = Len(job.brs) + 1
  BY <1>1, <1>2 DEF Dispatched, CReq, RequestType, CycleShape
<1>. HIDE DEF r
<1>4. /\ DOMAIN reqs' \subseteq ReqIds /\ reqs' \in [DOMAIN reqs' -> RequestType]
      /\ job.req \in DOMAIN reqs' /\ reqs'[job.req] = r
  BY <1>1, <1>3, RequestsUpdated
<1>5. CASE pc' = "proposing" /\ job' = job
  <2>1. \A br, i : BranchCurrent(br, i)' = BranchCurrent(br, i)
    BY <1>1, <1>5 DEF BranchCurrent
  <2>2. CycleShape'
    BY <1>1, <1>2, <1>3, <1>4, <1>5, <2>1 DEF CycleShape
  <2>. QED BY <1>1, <1>2, <1>4, <1>5, <2>2 DEF Cycle, InCycle
<1>6. CASE pc' = "drain" /\ job' = NoJob
  BY <1>1, <1>2, <1>4, <1>6, CycleIdle DEF InCycle
<1>. QED BY <1>1, <1>5, <1>6

\* drive_cycle gives up: the requests stay as they are.
LEMMA CycleAborted ==
    ASSUME Cycle, pc' = "drain", job' = NoJob, UNCHANGED <<epoch, reqs>>
    PROVE  Cycle'
BY CycleIdle DEF Cycle, InCycle

\* The draft of a branch is kept for its verification.
LEMMA CycleDrafted ==
    ASSUME Sockets, Channels, Exchange, Cycle, RecvProposal
    PROVE  Cycle'
<1>. DEFINE m == ProposalResult(LiveProposal, fd["proposer"])
<1>1. /\ pc = "proposing" /\ pc \in InCycle /\ UNCHANGED <<fd, curBoot, epoch, reqs>>
      /\ \/ pc' = "drain" /\ job' = NoJob
         \/ pc' = "verify" /\ job' = [job EXCEPT !.draft = m]
  BY RecvProposalEffect DEF RecvProposal, Aborts, InCycle
<1>2. CASE pc' = "verify" /\ job' = [job EXCEPT !.draft = m]
  <2>. HIDE DEF m
  <2>1. /\ job'.req = job.req /\ job'.depth = job.depth /\ job'.branches = job.branches
        /\ job'.brs = job.brs /\ job'.draft = m
        /\ job' = [command |-> job'.command, req |-> job'.req, depth |-> job'.depth,
                   branches |-> job'.branches, draft |-> job'.draft, brs |-> job'.brs]
    BY <1>2 DEF Cycle
  <2>2. LiveProposal' = LiveProposal
    BY <1>1, <2>1 DEF LiveProposal, ProposalDispatch
  <2>3. \A br, i : BranchCurrent(br, i)' = BranchCurrent(br, i)
    BY <1>1, <2>1 DEF BranchCurrent
  <2>4. job'.draft = ProposalResult(LiveProposal', fd'["proposer"])
    BY <1>1, <2>1, <2>2 DEF m
  <2>5. CycleShape
    BY <1>1, CycleRequest
  <2>6. CycleShape'
    BY <1>1, <1>2, <2>1, <2>3, <2>4, <2>5 DEF CycleShape
  <2>. QED BY <1>1, <1>2, <2>1, <2>6 DEF Cycle, InCycle
<1>. QED BY <1>1, <1>2, CycleAborted

\* The branch is sent to the verifier.
LEMMA CycleVerifying ==
    ASSUME Cycle, SendVerification
    PROVE  Cycle'
<1>1. /\ pc = "verify" /\ pc \in InCycle /\ UNCHANGED <<fd, curBoot, epoch, reqs>>
      /\ \/ pc' = "drain" /\ job' = NoJob
         \/ pc' = "verifying" /\ job' = job
  BY DEF SendVerification, Rejects, InCycle
<1>2. CASE pc' = "verifying" /\ job' = job
  <2>1. LiveProposal' = LiveProposal
    BY <1>1, <1>2 DEF LiveProposal, ProposalDispatch
  <2>2. \A br, i : BranchCurrent(br, i)' = BranchCurrent(br, i)
    BY <1>1, <1>2 DEF BranchCurrent
  <2>3. CycleShape
    BY <1>1, CycleRequest
  <2>4. CycleShape'
    BY <1>1, <1>2, <2>1, <2>2, <2>3 DEF CycleShape
  <2>. QED BY <1>1, <1>2, <2>4 DEF Cycle, InCycle
<1>. QED BY <1>1, <1>2, CycleAborted

\* A verified branch joins the others.
LEMMA CycleVerified ==
    ASSUME Sockets, Channels, Exchange, Cycle, RecvVerification
    PROVE  Cycle'
<1>1. /\ pc = "verifying" /\ pc \in InCycle /\ UNCHANGED <<fd, curBoot, epoch, reqs>>
      /\ \/ pc' = "drain" /\ job' = NoJob
         \/ \E k \in 0..job.depth :
              /\ job' = [job EXCEPT !.draft = None, !.brs = Append(job.brs, Branch(k))]
              /\ pc' = IF Len(Append(job.brs, Branch(k))) = job.branches
                       THEN "settle" ELSE "propose"
  BY RecvVerificationEffect DEF RecvVerification, Aborts, InCycle
<1>2. ASSUME NEW k \in 0..job.depth,
             job' = [job EXCEPT !.draft = None, !.brs = Append(job.brs, Branch(k))],
             pc' = IF Len(Append(job.brs, Branch(k))) = job.branches THEN "settle" ELSE "propose"
      PROVE  Cycle'
  <2>. DEFINE n == Len(job.brs)
              br == Branch(k)
  <2>1. CycleShape /\ n \in Nat
    BY <1>1, CycleRequest
  <2>2. AnySeq(job.brs) /\ job.draft = ProposalResult(LiveProposal, fd["proposer"])
        /\ reqs[job.req].propGen = n + 1 /\ reqs[job.req].epoch = epoch /\ n < job.branches
        /\ job.branches \in Nat
    BY <1>1, <2>1 DEF CycleShape
  <2>3. BranchCurrent(br, n + 1)
    BY <2>2 DEF BranchCurrent, Branch, ProposalResult, LiveProposal, ProposalDispatch
  <2>. HIDE DEF br
  <2>4. /\ AnySeq(Append(job.brs, br)) /\ Len(Append(job.brs, br)) = n + 1
        /\ \A i \in 1..n : Append(job.brs, br)[i] = job.brs[i]
        /\ Append(job.brs, br)[n + 1] = br
    BY <2>2, AnySeqAppend
  <2>5. /\ job'.req = job.req /\ job'.depth = job.depth /\ job'.branches = job.branches
        /\ job'.brs = Append(job.brs, br) /\ job'.draft = None
        /\ job' = [command |-> job'.command, req |-> job'.req, depth |-> job'.depth,
                   branches |-> job'.branches, draft |-> job'.draft, brs |-> job'.brs]
    BY <1>2 DEF Cycle, br
  <2>7. \A i \in 1..(n + 1) : BranchCurrent(job.brs[i], i)'
    <3>1. \A i \in 1..n : BranchCurrent(job.brs[i], i)
      BY <2>1 DEF CycleShape
    <3>2. \A i \in 1..(n + 1) : BranchCurrent(Append(job.brs, br)[i], i)
      <4>1. \A i \in 1..(n + 1) : i \in 1..n \/ i = n + 1
        BY <2>1
      <4>. HIDE DEF n
      <4>. QED BY <2>3, <2>4, <3>1, <4>1
    <3>. HIDE DEF n
    <3>. QED BY <1>1, <2>5, <3>2 DEF BranchCurrent
  <2>8. pc' \in {"settle", "propose"} /\ (pc' = "settle" <=> n + 1 = job.branches)
    BY <1>2, <2>4 DEF br
  <2>. HIDE DEF n
  <2>9. CycleShape'
    <3>1. /\ Len(job'.brs) = n + 1 /\ AnySeq(job'.brs) /\ reqs'[job'.req] = reqs[job.req]
      BY <1>1, <2>4, <2>5
    <3>2. /\ job'.req \in DOMAIN reqs' /\ job'.depth \in Nat /\ job'.branches \in Nat
          /\ reqs[job.req].authGen = 0 /\ reqs[job.req].stateGen = 0
          /\ reqs[job.req].committed = <<>>
      BY <1>1, <2>1, <2>5 DEF CycleShape
    <3>3. IF pc' = "settle" THEN n + 1 = job'.branches /\ n + 1 > 0 ELSE n + 1 < job'.branches
      <4>1. n + 1 > 0 /\ (n + 1 # job.branches => n + 1 < job.branches)
        BY <2>1, <2>2 DEF n
      <4>. QED BY <2>5, <2>8, <4>1
    <3>4. /\ job'.draft = None /\ pc' \in {"propose", "settle"} /\ pc' \notin {"verify", "verifying"}
      BY <2>5, <2>8
    <3>. QED BY <1>1, <2>2, <2>7, <3>1, <3>2, <3>3, <3>4 DEF CycleShape
  <2>. QED BY <1>1, <2>5, <2>8, <2>9 DEF Cycle, InCycle
<1>. QED BY <1>1, <1>2, CycleAborted

\* What drive_cycle leaves a request with: the winner's tokens, counted.
Settled(r) ==
    LET adv == Advance(job.brs) IN
    CReq(r.epoch, r.attempt, r.authGen + adv, r.stateGen + adv,
         r.committed \o CommittedOf(job.brs), r.propGen)

\* A request as GenerationsAgree wants it.
Agrees(q) ==
    /\ q.authGen = Len(q.committed) /\ q.stateGen = q.authGen
    /\ \A i \in 1..Len(q.committed) :
          q.committed[i] = q.committed[1] /\ q.committed[i] \in 1..q.propGen

\* The settlement is well typed, and its generations count its tokens.
LEMMA SettledAgrees ==
    ASSUME Cycle, pc = "settle"
    PROVE  Settled(reqs[job.req]) \in RequestType /\ Agrees(Settled(reqs[job.req]))
<1>. DEFINE r == reqs[job.req]
            adv == Advance(job.brs)
            tokens == CommittedOf(job.brs)
<1>1. CycleShape /\ r \in RequestType /\ Len(job.brs) \in Nat
  BY CycleRequest DEF InCycle
<1>2. /\ AnySeq(job.brs) /\ Len(job.brs) > 0 /\ job.depth \in Nat
      /\ r.authGen = 0 /\ r.stateGen = 0 /\ r.committed = <<>> /\ r.propGen = Len(job.brs)
      /\ Complete(job.brs, job.depth)
  BY <1>1 DEF CycleShape, BranchCurrent, Complete
<1>3. /\ adv \in Nat /\ tokens \in Seq(Nat) /\ Len(tokens) = adv
      /\ \E w \in 1..Len(job.brs) : \A k \in 1..adv : tokens[k] = w
  <2>1. job.depth \in Nat /\ Complete(job.brs, job.depth)
    BY <1>2
  <2>. HIDE DEF r
  <2>. QED BY <2>1, Winner
<1>. HIDE DEF adv, tokens
<1>4. r.committed \o tokens = tokens
  BY <1>2, <1>3, ConcatEmptySeq
<1>. DEFINE new == CReq(r.epoch, r.attempt, r.authGen + adv, r.stateGen + adv,
                        r.committed \o tokens, r.propGen)
<1>5. new = CReq(r.epoch, r.attempt, adv, adv, tokens, Len(job.brs))
  BY <1>2, <1>3, <1>4
<1>6. /\ new.authGen = adv /\ new.stateGen = adv /\ new.committed = tokens
      /\ new.propGen = Len(job.brs) /\ new \in RequestType
  BY <1>1, <1>3, <1>5 DEF CReq, RequestType
<1>7. Settled(r) = new
  BY DEF Settled, adv, tokens
<1>. HIDE DEF new, r
<1>8. Agrees(new)
  <2>1. PICK w \in 1..Len(job.brs) : \A k \in 1..adv : tokens[k] = w
    BY <1>3
  <2>2. \A k \in 1..adv : 1 \in 1..adv
    BY <1>3
  <2>. QED BY <1>3, <1>6, <2>1, <2>2 DEF Agrees
<1>. QED BY <1>6, <1>7, <1>8 DEF r

\* What Settle does to the requests.
LEMMA SettleEffect ==
    ASSUME Cycle, Settle
    PROVE  /\ pc = "settle" /\ pc' = "drain" /\ job' = NoJob /\ epoch' = epoch
           /\ reqs' = [reqs EXCEPT ![job.req] = Settled(reqs[job.req])]
           /\ Answers(job.command,
                      [type |-> "Commit", count |-> Len(Settled(reqs[job.req]).committed)])
BY DEF Settle, Settled, Advance

\* Every step keeps drive_cycle's locals and the requests in shape.
LEMMA CycleNext ==
    ASSUME Sockets, Channels, Exchange, Cycle, Dialogue, [Next]_vars
    PROVE  Cycle'
<1>. USE DEF peerVars, coordVars, history
<1>1. ASSUME NEW p \in Peers, Connect(p) \/ Greet(p) \/ Kill(p) \/ Exit(p) PROVE Cycle'
  <2>1. UNCHANGED coordVars
    BY <1>1 DEF Connect, Greet, Kill, Exit
  <2>. QED BY <2>1, CycleKept
<1>2. ASSUME NEW p \in Workers, Propose(p) \/ Verify(p) PROVE Cycle'
  <2>1. UNCHANGED coordVars
    BY <1>2 DEF Propose, Verify
  <2>. QED BY <2>1, CycleKept
<1>3. ASSUME NEW d \in Drivers, Ask(d) \/ ReadReply(d) \/ GiveUp(d) PROVE Cycle'
  <2>1. UNCHANGED coordVars
    BY <1>3 DEF Ask, ReadReply, GiveUp
  <2>. QED BY <2>1, CycleKept
<1>4. ASSUME pc \notin InCycle, pc' \notin InCycle, UNCHANGED <<reqs, job>>,
             epoch' \in Nat \ {0}
      PROVE  Cycle'
  BY <1>4, CycleIdle DEF Cycle
<1>5. epoch \in Nat \ {0} /\ epoch + 1 \in Nat \ {0}
  BY DEF Cycle
<1>6. ASSUME AcceptAtStartup \/ AcceptPeer \/ Select \/ SelectTimeout \/ DriverGone
             \/ HandleReplay \/ HandleProbe \/ HandleStatus \/ HandleShutdown
      PROVE  Cycle'
  <2>1. pc \notin InCycle /\ pc' \notin InCycle /\ UNCHANGED <<reqs, job, epoch>>
    BY <1>6 DEF AcceptAtStartup, AcceptPeer, Accepts, Select, SelectTimeout, DriverGone,
       HandleReplay, HandleProbe, HandleStatus, HandleShutdown, Receives, InCycle
  <2>. QED BY <1>4, <1>5, <2>1
<1>7. ASSUME HandleRollEpoch PROVE Cycle'
  BY <1>4, <1>5, <1>7 DEF HandleRollEpoch, Receives, InCycle
<1>8. ASSUME Settle PROVE Cycle'
  <2>1. /\ pc = "settle" /\ pc \in InCycle /\ pc' = "drain" /\ job' = NoJob /\ epoch' = epoch
        /\ reqs' = [reqs EXCEPT ![job.req] = Settled(reqs[job.req])]
    BY <1>8, SettleEffect DEF InCycle
  <2>2. DOMAIN reqs' \subseteq ReqIds /\ reqs' \in [DOMAIN reqs' -> RequestType]
    BY <2>1, SettledAgrees, RequestsUpdated
  <2>. QED BY <1>5, <2>1, <2>2, CycleIdle DEF InCycle
<1>9. CASE UNCHANGED vars
  BY <1>9, CycleKept DEF vars
<1>. QED
  BY <1>1, <1>2, <1>3, <1>6, <1>7, <1>8, <1>9, CycleSubmitted, CycleProposed, CycleDrafted,
     CycleVerifying, CycleVerified
  DEF Next, Coordinator

\* The requests change in three places, and each leaves them agreeing.
LEMMA GenerationsNext ==
    ASSUME Cycle, GenerationsAgree, [Next]_vars
    PROVE  GenerationsAgree'
<1>. USE DEF peerVars, coordVars, history
<1>0. GenerationsAgree <=> \A q \in DOMAIN reqs : Agrees(reqs[q])
  BY DEF GenerationsAgree, Agrees
<1>1. SUFFICES \A q \in DOMAIN reqs' : Agrees(reqs'[q])
  BY DEF GenerationsAgree, Agrees
<1>2. ASSUME HandleSubmit PROVE \A q \in DOMAIN reqs' : Agrees(reqs'[q])
  <2>1. reqs' = [r \in DOMAIN reqs \cup {Command.req} |->
                   IF r = Command.req THEN Fresh(epoch) ELSE reqs[r]]
    BY <1>2 DEF HandleSubmit
  <2>2. Agrees(Fresh(epoch))
    BY SomeSequences DEF Agrees, Fresh, CReq
  <2>. QED BY <1>0, <2>1, <2>2
<1>3. ASSUME SendProposal PROVE \A q \in DOMAIN reqs' : Agrees(reqs'[q])
  <2>. DEFINE r == reqs[job.req]
  <2>1. /\ pc \in InCycle /\ reqs' = [reqs EXCEPT ![job.req] = Dispatched(r)]
    BY <1>3 DEF SendProposal, InCycle
  <2>2. r \in RequestType /\ CycleShape
    BY <2>1, CycleRequest
  <2>3. job.req \in DOMAIN reqs /\ r.committed = <<>> /\ r.authGen = 0 /\ r.stateGen = 0
    BY <2>2 DEF CycleShape
  <2>4. Agrees(Dispatched(r))
    BY <2>3, SomeSequences DEF Agrees, Dispatched, CReq
  <2>. HIDE DEF r
  <2>. QED BY <1>0, <2>1, <2>3, <2>4
<1>4. ASSUME Settle PROVE \A q \in DOMAIN reqs' : Agrees(reqs'[q])
  <2>1. pc = "settle" /\ reqs' = [reqs EXCEPT ![job.req] = Settled(reqs[job.req])]
    BY <1>4, SettleEffect
  <2>2. Agrees(Settled(reqs[job.req]))
    BY <2>1, SettledAgrees
  <2>. QED BY <1>0, <2>1, <2>2
<1>5. ASSUME reqs' = reqs PROVE \A q \in DOMAIN reqs' : Agrees(reqs'[q])
  BY <1>0, <1>5
<1>6. ASSUME \/ AcceptAtStartup \/ AcceptPeer \/ Select \/ SelectTimeout \/ DriverGone
             \/ HandleReplay \/ HandleProbe \/ HandleRollEpoch \/ HandleStatus \/ HandleShutdown
             \/ RecvProposal \/ SendVerification \/ RecvVerification
             \/ \E p \in Peers : Connect(p) \/ Greet(p) \/ Kill(p) \/ Exit(p)
             \/ \E p \in Workers : Propose(p) \/ Verify(p)
             \/ \E d \in Drivers : Ask(d) \/ ReadReply(d) \/ GiveUp(d)
             \/ UNCHANGED vars
      PROVE  reqs' = reqs
  <2>1. CASE AcceptAtStartup \/ AcceptPeer \/ Select \/ SelectTimeout \/ DriverGone
    BY <2>1 DEF AcceptAtStartup, AcceptPeer, Select, SelectTimeout, DriverGone
  <2>2. CASE HandleReplay \/ HandleProbe \/ HandleRollEpoch \/ HandleStatus \/ HandleShutdown
    <3>1. CASE HandleReplay
      BY <3>1 DEF HandleReplay
    <3>2. CASE HandleProbe
      BY <3>2 DEF HandleProbe
    <3>3. CASE HandleRollEpoch \/ HandleStatus \/ HandleShutdown
      BY <3>3 DEF HandleRollEpoch, HandleStatus, HandleShutdown
    <3>. QED BY <2>2, <3>1, <3>2, <3>3
  <2>3. CASE RecvProposal \/ SendVerification \/ RecvVerification
    BY <2>3 DEF RecvProposal, SendVerification, RecvVerification
  <2>4. CASE \E p \in Peers : Connect(p) \/ Greet(p) \/ Kill(p) \/ Exit(p)
    BY <2>4 DEF Connect, Greet, Kill, Exit
  <2>5. CASE \E p \in Workers : Propose(p) \/ Verify(p)
    BY <2>5 DEF Propose, Verify
  <2>6. CASE \E d \in Drivers : Ask(d) \/ ReadReply(d) \/ GiveUp(d)
    BY <2>6 DEF Ask, ReadReply, GiveUp
  <2>7. CASE UNCHANGED vars
    BY <2>7 DEF vars
  <2>. QED BY <1>6, <2>1, <2>2, <2>3, <2>4, <2>5, <2>6, <2>7
<1>. QED BY <1>2, <1>3, <1>4, <1>5, <1>6 DEF Next, Coordinator
-----------------------------------------------------------------------------
(***************************************************************************)
(* The dialogue with the driver                                            *)
(***************************************************************************)

\* Numbers that grow along a line go on doing so when more numbers are allowed,
\* and when replies, the command served or those waiting are lost.
LEMMA LineShrinks ==
    ASSUME NEW replies, NEW served, NEW waiting, NEW n \in Nat, NEW m \in Nat, n <= m,
           Line(replies, served, waiting, n)
    PROVE  /\ Line(replies, served, waiting, m)
           /\ Line(<<>>, served, waiting, m) /\ Line(replies, served, <<>>, m)
           /\ Line(<<>>, served, <<>>, m) /\ Line(replies, {}, waiting, m)
BY SomeSequences DEF Line

\* A command joins the end of the line.
LEMMA LineJoined ==
    ASSUME NEW replies, NEW served, NEW waiting, NEW n \in Nat, AnySeq(waiting),
           Line(replies, served, waiting, n), NEW c, c.n = n + 1
    PROVE  Line(replies, served, Append(waiting, c), n + 1)
<1>. DEFINE after == Append(waiting, c)
            l == Len(waiting)
<1>1. /\ l \in Nat /\ Len(after) = l + 1 /\ after[l + 1] = c
      /\ \A j \in 1..l : after[j] = waiting[j]
  BY AnySeqLength, AnySeqAppend
<1>2. \A j \in 1..(l + 1) : j \in 1..l \/ j = l + 1
  BY <1>1
<1>. HIDE DEF after
<1>3. \A j \in 1..Len(after) : after[j].n \in 1..(n + 1)
  BY <1>1, <1>2 DEF Line
<1>4. \A i, j \in 1..Len(after) : i < j => after[i].n < after[j].n
  BY <1>1, <1>2 DEF Line
<1>5. \A i \in 1..Len(replies), j \in 1..Len(after) : replies[i].n < after[j].n
  BY <1>1, <1>2 DEF Line
<1>6. \A x \in served, j \in 1..Len(after) : x < after[j].n
  BY <1>1, <1>2 DEF Line
<1>7. /\ \A i \in 1..Len(replies) : replies[i].n \in 1..(n + 1)
      /\ \A x \in served : x \in 1..(n + 1)
  BY DEF Line
<1>. QED BY <1>3, <1>4, <1>5, <1>6, <1>7 DEF Line, after

\* The first reply is read.
LEMMA LineRead ==
    ASSUME NEW replies, NEW served, NEW waiting, NEW n \in Nat,
           AnySeq(replies), replies # <<>>, Line(replies, served, waiting, n)
    PROVE  Line(Tail(replies), served, waiting, n)
<1>. DEFINE after == Tail(replies)
<1>1. /\ Len(replies) \in Nat \ {0} /\ Len(after) = Len(replies) - 1
      /\ \A i \in 1..(Len(replies) - 1) : after[i] = replies[i + 1]
  BY AnySeqTail
<1>2. \A i \in 1..Len(after) : i \in Nat /\ i + 1 \in 1..Len(replies) /\ after[i] = replies[i + 1]
  BY <1>1
<1>. HIDE DEF after
<1>3. \A i, j \in 1..Len(after) : i < j => after[i].n < after[j].n
  <2>1. \A i, j \in 1..Len(after) : i < j => i + 1 < j + 1
    BY <1>1
  <2>. QED BY <1>2, <2>1 DEF Line
<1>. QED BY <1>2, <1>3 DEF Line, after

\* The command at the head of the line is served.
LEMMA LineServed ==
    ASSUME NEW replies, NEW waiting, NEW n \in Nat,
           AnySeq(waiting), waiting # <<>>, Line(replies, {}, waiting, n)
    PROVE  Line(replies, {waiting[1].n}, Tail(waiting), n)
<1>. DEFINE after == Tail(waiting)
<1>1. /\ Len(waiting) \in Nat \ {0} /\ Len(after) = Len(waiting) - 1
      /\ \A i \in 1..(Len(waiting) - 1) : after[i] = waiting[i + 1]
  BY AnySeqTail
<1>2. /\ \A i \in 1..Len(after) : i \in Nat /\ i + 1 \in 1..Len(waiting) /\ 1 < i + 1
                                  /\ after[i] = waiting[i + 1]
      /\ 1 \in 1..Len(waiting)
  BY <1>1
<1>. HIDE DEF after
<1>3. \A i, j \in 1..Len(after) : i < j => after[i].n < after[j].n
  <2>1. \A i, j \in 1..Len(after) : i < j => i + 1 < j + 1
    BY <1>1
  <2>. QED BY <1>2, <2>1 DEF Line
<1>. QED BY <1>2, <1>3 DEF Line, after

\* The command served is answered.
LEMMA LineAnswered ==
    ASSUME NEW replies, NEW waiting, NEW n \in Nat, NEW c, NEW m, AnySeq(replies),
           Line(replies, {c}, waiting, n)
    PROVE  Line(Append(replies, [n |-> c, reply |-> m]), {}, waiting, n)
<1>. DEFINE e == [n |-> c, reply |-> m]
            after == Append(replies, e)
            l == Len(replies)
<1>1. /\ l \in Nat /\ Len(after) = l + 1 /\ after[l + 1] = e
      /\ \A j \in 1..l : after[j] = replies[j]
  BY AnySeqLength, AnySeqAppend
<1>2. \A j \in 1..(l + 1) : j \in 1..l \/ j = l + 1
  BY <1>1
<1>3. e.n = c
  OBVIOUS
<1>. HIDE DEF after, e
<1>4. \A j \in 1..Len(after) : after[j].n \in 1..n
  BY <1>1, <1>2, <1>3 DEF Line
<1>5. \A i, j \in 1..Len(after) : i < j => after[i].n < after[j].n
  BY <1>1, <1>2, <1>3 DEF Line
<1>6. \A i \in 1..Len(after), j \in 1..Len(waiting) : after[i].n < waiting[j].n
  BY <1>1, <1>2, <1>3 DEF Line
<1>. QED BY <1>4, <1>5, <1>6 DEF Line, after, e

\* The only number of a line stays the only one as the line moves on.
LEMMA AloneKept ==
    ASSUME NEW replies, NEW served, NEW waiting, NEW k, Alone(replies, served, waiting, k)
    PROVE  /\ Alone(<<>>, served, waiting, k) /\ Alone(replies, served, <<>>, k)
           /\ Alone(<<>>, served, <<>>, k) /\ Alone(replies, {}, waiting, k)
BY SomeSequences DEF Alone

\* It does when its command is served.
LEMMA AloneServed ==
    ASSUME NEW replies, NEW waiting, NEW k, AnySeq(waiting), waiting # <<>>,
           Alone(replies, {}, waiting, k)
    PROVE  Alone(replies, {waiting[1].n}, Tail(waiting), k)
<1>1. /\ Len(waiting) \in Nat \ {0} /\ Len(Tail(waiting)) = Len(waiting) - 1
      /\ \A i \in 1..(Len(waiting) - 1) : Tail(waiting)[i] = waiting[i + 1]
  BY AnySeqTail
<1>2. /\ 1 \in 1..Len(waiting)
      /\ \A i \in 1..Len(Tail(waiting)) :
            i + 1 \in 1..Len(waiting) /\ Tail(waiting)[i] = waiting[i + 1]
  BY <1>1
<1>. QED BY <1>2 DEF Alone

\* It does when its command is answered.
LEMMA AloneAnswered ==
    ASSUME NEW replies, NEW waiting, NEW k, NEW c, NEW m, AnySeq(replies),
           Alone(replies, {c}, waiting, k)
    PROVE  Alone(Append(replies, [n |-> c, reply |-> m]), {}, waiting, k)
<1>. DEFINE e == [n |-> c, reply |-> m]
            after == Append(replies, e)
            l == Len(replies)
<1>1. /\ l \in Nat /\ Len(after) = l + 1 /\ after[l + 1] = e
      /\ \A j \in 1..l : after[j] = replies[j]
  BY AnySeqLength, AnySeqAppend
<1>2. (\A j \in 1..(l + 1) : j \in 1..l \/ j = l + 1) /\ e.n = c
  BY <1>1
<1>. HIDE DEF after, e
<1>. QED BY <1>1, <1>2 DEF Alone, after, e

\* A driver that waits on nothing has nothing under way.
LEMMA NothingAsked ==
    ASSUME NEW replies, NEW served, NEW waiting, NEW n \in Nat,
           AnySeq(replies), AnySeq(waiting),
           Line(replies, served, waiting, n), Alone(replies, served, waiting, 0)
    PROVE  replies = <<>> /\ served = {} /\ waiting = <<>>
<1>1. /\ Len(replies) \in Nat /\ (replies = <<>> <=> Len(replies) = 0)
      /\ Len(waiting) \in Nat /\ (waiting = <<>> <=> Len(waiting) = 0)
  BY AnySeqLength
<1>2. \A x \in 1..n : x # 0
  OBVIOUS
<1>3. \A i \in 1..Len(replies) : FALSE
  BY <1>2 DEF Line, Alone
<1>4. \A i \in 1..Len(waiting) : FALSE
  BY <1>2 DEF Line, Alone
<1>5. \A c \in served : FALSE
  BY <1>2 DEF Line, Alone
<1>. QED BY <1>1, <1>3, <1>4, <1>5

\* The reply to the only number leaves the line empty.
LEMMA LastReply ==
    ASSUME NEW replies, NEW served, NEW waiting, NEW n \in Nat, NEW k,
           AnySeq(replies), AnySeq(waiting), replies # <<>>,
           Line(replies, served, waiting, n), Alone(replies, served, waiting, k)
    PROVE  Alone(Tail(replies), served, waiting, 0)
<1>1. /\ Len(replies) \in Nat \ {0} /\ Len(Tail(replies)) = Len(replies) - 1
  BY AnySeqTail
<1>2. /\ 1 \in 1..Len(replies) /\ replies[1].n = k /\ k \in 1..n
  BY <1>1 DEF Alone, Line
<1>3. \A i \in 1..Len(Tail(replies)) : i + 1 \in 1..Len(replies) /\ 1 < i + 1
  BY <1>1
<1>4. \A i \in 1..Len(Tail(replies)) : FALSE
  <2>1. \A i \in 1..Len(replies) : 1 < i => k < replies[i].n /\ replies[i].n = k
    BY <1>2 DEF Line, Alone
  <2>. QED BY <1>2, <1>3, <2>1
<1>5. \A c \in served : FALSE
  <2>1. \A c \in served : k < c /\ c = k
    BY <1>2 DEF Line, Alone
  <2>. QED BY <1>2, <2>1
<1>6. \A j \in 1..Len(waiting) : FALSE
  <2>1. \A j \in 1..Len(waiting) : k < waiting[j].n /\ waiting[j].n = k
    BY <1>2 DEF Line, Alone
  <2>. QED BY <1>2, <2>1
<1>. QED BY <1>4, <1>5, <1>6 DEF Alone

\* A step that neither the driver nor the coordinator's end of its connection
\* takes part in.
LEMMA InStepKept ==
    ASSUME NEW d, InStep(d), commands \in Nat, commands' \in Nat, commands <= commands',
           toPeer'[d] = toPeer[d], toCoord'[d] = toCoord[d], asked'[d] = asked[d],
           gaveUp'[d] = gaveUp[d], Serving(d)' = Serving(d)
    PROVE  InStep(d)'
<1>1. Line(toPeer[d], Serving(d), toCoord[d], commands')
  BY LineShrinks DEF InStep
<1>. QED BY <1>1 DEF InStep

\* The driver is killed: its replies are lost, and its commands may be.
LEMMA InStepKilled ==
    ASSUME NEW d, InStep(d), commands \in Nat, UNCHANGED <<commands, asked, gaveUp>>,
           toPeer'[d] = <<>>, toCoord'[d] \in {toCoord[d], <<>>}, Serving(d)' = Serving(d)
    PROVE  InStep(d)'
<1>1. /\ Line(<<>>, Serving(d), toCoord[d], commands) /\ Line(<<>>, Serving(d), <<>>, commands)
  BY LineShrinks DEF InStep
<1>2. ~gaveUp[d] => /\ Alone(<<>>, Serving(d), toCoord[d], asked[d].n)
                    /\ Alone(<<>>, Serving(d), <<>>, asked[d].n)
  BY AloneKept DEF InStep
<1>3. \A j \in 1..Len(toCoord'[d]) : WellFormed(toCoord'[d][j])
  BY SomeSequences DEF InStep
<1>. QED BY <1>1, <1>2, <1>3 DEF InStep

\* Every command the driver can send is numbered and well formed.
LEMMA CommandsWellFormed ==
    ASSUME NEW n, NEW c \in Commands(n)
    PROVE  c.n = n /\ WellFormed(c)
BY DEF Commands, WellFormed

\* The driver sends a command.
LEMMA InStepAsked ==
    ASSUME NEW d \in Drivers, InStep(d), commands \in Nat, AnySeq(toPeer[d]), AnySeq(toCoord[d]),
           NEW c, c.n = commands + 1, WellFormed(c), asked[d] = NoCommand,
           commands' = commands + 1, gaveUp' = gaveUp, asked'[d] = c,
           toPeer'[d] = toPeer[d], toCoord'[d] = Append(toCoord[d], c),
           Serving(d)' = Serving(d)
    PROVE  InStep(d)'
<1>1. Line(toPeer[d], Serving(d), Append(toCoord[d], c), commands + 1)
  BY LineJoined DEF InStep
<1>2. /\ Len(toCoord[d]) \in Nat /\ Len(Append(toCoord[d], c)) = Len(toCoord[d]) + 1
      /\ Append(toCoord[d], c)[Len(toCoord[d]) + 1] = c
      /\ \A j \in 1..Len(toCoord[d]) : Append(toCoord[d], c)[j] = toCoord[d][j]
  BY AnySeqLength, AnySeqAppend
<1>3. \A j \in 1..Len(Append(toCoord[d], c)) : j \in 1..Len(toCoord[d]) \/ j = Len(toCoord[d]) + 1
  BY <1>2
<1>4. ~gaveUp[d] => Alone(toPeer[d], Serving(d), Append(toCoord[d], c), c.n)
  <2>1. HAVE ~gaveUp[d]
  <2>2. Alone(toPeer[d], Serving(d), toCoord[d], 0)
    BY <2>1 DEF InStep, NoCommand
  <2>3. toPeer[d] = <<>> /\ Serving(d) = {} /\ toCoord[d] = <<>>
    BY <2>2, NothingAsked DEF InStep
  <2>4. Len(toPeer[d]) = 0 /\ Len(toCoord[d]) = 0
    BY <2>3, SomeSequences
  <2>. QED BY <1>2, <1>3, <2>3, <2>4 DEF Alone
<1>5. \A j \in 1..Len(Append(toCoord[d], c)) : WellFormed(Append(toCoord[d], c)[j])
  BY <1>2, <1>3 DEF InStep
<1>. QED BY <1>1, <1>4, <1>5 DEF InStep

\* The driver reads a reply.
LEMMA InStepRead ==
    ASSUME NEW d, InStep(d), commands \in Nat, AnySeq(toPeer[d]), AnySeq(toCoord[d]),
           toPeer[d] # <<>>, UNCHANGED <<commands, gaveUp>>, asked'[d] = NoCommand,
           toPeer'[d] = Tail(toPeer[d]), toCoord'[d] = toCoord[d], Serving(d)' = Serving(d)
    PROVE  InStep(d)'
<1>1. Line(Tail(toPeer[d]), Serving(d), toCoord[d], commands)
  BY LineRead DEF InStep
<1>2. ~gaveUp[d] => Alone(Tail(toPeer[d]), Serving(d), toCoord[d], 0)
  BY LastReply DEF InStep
<1>3. asked'[d].n = 0
  BY DEF NoCommand
<1>. QED BY <1>1, <1>2, <1>3 DEF InStep

\* A command is read and a cycle started for it.
LEMMA InStepSubmitted ==
    ASSUME NEW d, InStep(d), commands \in Nat, AnySeq(toCoord[d]), toCoord[d] # <<>>,
           UNCHANGED <<commands, asked, gaveUp>>, Serving(d) = {},
           toPeer'[d] = toPeer[d], toCoord'[d] = Tail(toCoord[d]),
           Serving(d)' = {toCoord[d][1].n} \/ Serving(d)' = {}
    PROVE  InStep(d)'
<1>1. /\ Line(toPeer[d], {toCoord[d][1].n}, Tail(toCoord[d]), commands)
      /\ ~gaveUp[d] => Alone(toPeer[d], {toCoord[d][1].n}, Tail(toCoord[d]), asked[d].n)
  BY LineServed, AloneServed DEF InStep
<1>2. /\ Line(toPeer[d], {}, Tail(toCoord[d]), commands)
      /\ ~gaveUp[d] => Alone(toPeer[d], {}, Tail(toCoord[d]), asked[d].n)
  BY <1>1, LineShrinks, AloneKept
<1>3. \A j \in 1..Len(Tail(toCoord[d])) : WellFormed(Tail(toCoord[d])[j])
  <2>1. /\ Len(toCoord[d]) \in Nat \ {0} /\ Len(Tail(toCoord[d])) = Len(toCoord[d]) - 1
        /\ \A j \in 1..(Len(toCoord[d]) - 1) : Tail(toCoord[d])[j] = toCoord[d][j + 1]
    BY AnySeqTail
  <2>2. \A j \in 1..Len(Tail(toCoord[d])) :
           j + 1 \in 1..Len(toCoord[d]) /\ Tail(toCoord[d])[j] = toCoord[d][j + 1]
    BY <2>1
  <2>. QED BY <2>2 DEF InStep
<1>. QED BY <1>1, <1>2, <1>3 DEF InStep

\* A command is read and answered at once.
LEMMA InStepHandled ==
    ASSUME NEW d, InStep(d), commands \in Nat, AnySeq(toPeer[d]), AnySeq(toCoord[d]),
           toCoord[d] # <<>>, UNCHANGED <<commands, asked, gaveUp>>, Serving(d) = {}, NEW m,
           toPeer'[d] = Append(toPeer[d], [n |-> toCoord[d][1].n, reply |-> m]),
           toCoord'[d] = Tail(toCoord[d]), Serving(d)' = {}
    PROVE  InStep(d)'
<1>. DEFINE c == toCoord[d][1].n
            after == Append(toPeer[d], [n |-> c, reply |-> m])
<1>1. /\ Line(toPeer[d], {c}, Tail(toCoord[d]), commands)
      /\ ~gaveUp[d] => Alone(toPeer[d], {c}, Tail(toCoord[d]), asked[d].n)
  BY LineServed, AloneServed DEF InStep
<1>. HIDE DEF c
<1>2. /\ Line(after, {}, Tail(toCoord[d]), commands)
      /\ ~gaveUp[d] => Alone(after, {}, Tail(toCoord[d]), asked[d].n)
  BY <1>1, LineAnswered, AloneAnswered
<1>3. \A j \in 1..Len(Tail(toCoord[d])) : WellFormed(Tail(toCoord[d])[j])
  <2>1. /\ Len(toCoord[d]) \in Nat \ {0} /\ Len(Tail(toCoord[d])) = Len(toCoord[d]) - 1
        /\ \A j \in 1..(Len(toCoord[d]) - 1) : Tail(toCoord[d])[j] = toCoord[d][j + 1]
    BY AnySeqTail
  <2>2. \A j \in 1..Len(Tail(toCoord[d])) :
           j + 1 \in 1..Len(toCoord[d]) /\ Tail(toCoord[d])[j] = toCoord[d][j + 1]
    BY <2>1
  <2>. QED BY <2>2 DEF InStep
<1>4. toPeer'[d] = after
  BY DEF c
<1>. HIDE DEF after
<1>. QED BY <1>2, <1>3, <1>4 DEF InStep

\* The cycle ends, and its command is answered unless the driver has died.
LEMMA InStepFinished ==
    ASSUME NEW d, InStep(d), commands \in Nat, AnySeq(toPeer[d]),
           UNCHANGED <<commands, asked, gaveUp>>, NEW c, Serving(d) = {c}, NEW m,
           \/ toPeer'[d] = toPeer[d]
           \/ toPeer'[d] = Append(toPeer[d], [n |-> c, reply |-> m]),
           toCoord'[d] = toCoord[d], Serving(d)' = {}
    PROVE  InStep(d)'
<1>. DEFINE after == Append(toPeer[d], [n |-> c, reply |-> m])
<1>0. /\ Line(toPeer[d], {c}, toCoord[d], commands) /\ commands <= commands
      /\ ~gaveUp[d] => Alone(toPeer[d], {c}, toCoord[d], asked[d].n)
  BY DEF InStep
<1>1. /\ Line(after, {}, toCoord[d], commands) /\ Line(toPeer[d], {}, toCoord[d], commands)
      /\ ~gaveUp[d] => /\ Alone(after, {}, toCoord[d], asked[d].n)
                       /\ Alone(toPeer[d], {}, toCoord[d], asked[d].n)
  <2>1. Line(after, {}, toCoord[d], commands) /\ Line(toPeer[d], {}, toCoord[d], commands)
    BY <1>0, LineAnswered, LineShrinks
  <2>2. ~gaveUp[d] => /\ Alone(after, {}, toCoord[d], asked[d].n)
                      /\ Alone(toPeer[d], {}, toCoord[d], asked[d].n)
    BY <1>0, AloneAnswered, AloneKept
  <2>. QED BY <2>1, <2>2
<1>. HIDE DEF after
<1>2. toPeer'[d] \in {toPeer[d], after}
  BY DEF after
<1>. QED BY <1>1, <1>2 DEF InStep

\* A step that concerns no driver.
LEMMA DialogueKept ==
    ASSUME Dialogue, UNCHANGED <<asked, commands, gaveUp>>,
           \A d \in Drivers : toPeer'[d] = toPeer[d] /\ toCoord'[d] = toCoord[d]
                              /\ Serving(d)' = Serving(d)
    PROVE  Dialogue'
<1>1. commands \in Nat /\ commands <= commands /\ \A d \in Drivers : InStep(d)
  BY DEF Dialogue
<1>2. \A d \in Drivers : InStep(d)'
  BY <1>1, InStepKept
<1>. QED BY <1>2 DEF Dialogue

\* A step of the coordinator that concerns one driver.
LEMMA DialogueAt ==
    ASSUME Dialogue, UNCHANGED <<asked, commands, gaveUp>>, NEW e \in Drivers, InStep(e)',
           \A d \in Drivers \ {e} : toPeer'[d] = toPeer[d] /\ toCoord'[d] = toCoord[d]
                                    /\ Serving(d)' = Serving(d)
    PROVE  Dialogue'
<1>1. commands \in Nat /\ commands <= commands /\ \A d \in Drivers : InStep(d)
  BY DEF Dialogue
<1>2. \A d \in Drivers \ {e} : InStep(d)'
  BY <1>1, InStepKept
<1>. QED BY <1>2 DEF Dialogue

\* drive_cycle returns with its one reply.
LEMMA DialogueFinished ==
    ASSUME Sockets, Channels, Dialogue, pc \in InCycle, pc' = "drain", NEW m,
           Answers(job.command, m), UNCHANGED <<asked, commands, gaveUp>>,
           \A d \in Drivers : toCoord'[d] = toCoord[d]
    PROVE  Dialogue'
<1>0. PICK e : e = fd["driver"]
  OBVIOUS
<1>1. /\ e \in Drivers /\ e \in Peers /\ OnlyAt(toPeer, toPeer', e)
      /\ \/ toPeer'[e] = toPeer[e]
         \/ toPeer'[e] = Append(toPeer[e], [n |-> job.command, reply |-> m])
  BY <1>0, AnswerEffect
<1>2. /\ Serving(e) = {job.command} /\ \A d \in Drivers : Serving(d)' = {}
      /\ \A d \in Drivers \ {e} : Serving(d) = {}
  BY <1>0 DEF Serving, InCycle
<1>3. InStep(e) /\ commands \in Nat /\ AnySeq(toPeer[e])
  BY <1>1 DEF Dialogue, Channels
<1>4. InStep(e)'
  BY <1>1, <1>2, <1>3, InStepFinished
<1>5. \A d \in Drivers \ {e} : toPeer'[d] = toPeer[d]
  BY <1>1 DEF OnlyAt, Peers
<1>. QED BY <1>1, <1>2, <1>4, <1>5, DialogueAt

\* The handlers read a command, and answer it once at most.
LEMMA DialogueHandled ==
    ASSUME Sockets, Channels, Dialogue,
           HandleSubmit \/ HandleShutdown \/ HandleReplay \/ HandleProbe \/ HandleRollEpoch
              \/ HandleStatus
    PROVE  Dialogue'
<1>. USE DEF history
<1>0. PICK e : e = fd["driver"]
  OBVIOUS
<1>. DEFINE c == toCoord[e][1].n
<1>1. /\ \E type : Receives(type)
      /\ \/ toPeer' = toPeer
         \/ (\E m : Answers(Command.n, m)) /\ pc' \notin InCycle
      /\ UNCHANGED <<asked, commands, gaveUp, fd>>
      /\ pc' \in InCycle => job'.command = Command.n
  <2>1. CASE HandleSubmit \/ HandleShutdown
    BY <2>1 DEF HandleSubmit, HandleShutdown, InCycle, Job
  <2>2. CASE HandleReplay \/ HandleProbe \/ HandleRollEpoch \/ HandleStatus
    BY <2>2, HandlerEffect DEF InCycle
  <2>. QED BY <2>1, <2>2
<1>2. /\ pc = "select" /\ e \in Drivers /\ e \in Peers /\ toCoord[e] # <<>>
      /\ OnlyAt(toCoord, toCoord', e) /\ toCoord'[e] = Tail(toCoord[e]) /\ Command.n = c
  BY <1>0, <1>1, ReceiveEffect
<1>3. /\ \A d \in Drivers : Serving(d) = {}
      /\ \A d \in Drivers \ {e} : Serving(d)' = {}
      /\ Serving(e)' = IF pc' \in InCycle THEN {c} ELSE {}
  BY <1>0, <1>1, <1>2 DEF Serving, InCycle
<1>4. InStep(e) /\ commands \in Nat /\ AnySeq(toPeer[e]) /\ AnySeq(toCoord[e])
  BY <1>2 DEF Dialogue, Channels
<1>5. \A d \in Drivers \ {e} : toPeer'[d] = toPeer[d] /\ toCoord'[d] = toCoord[d]
  <2>1. \A d \in Drivers \ {e} : toCoord'[d] = toCoord[d]
    BY <1>2 DEF OnlyAt, Peers
  <2>2. ASSUME NEW m, Answers(Command.n, m)
        PROVE  \A d \in Drivers \ {e} : toPeer'[d] = toPeer[d]
    BY <1>0, <1>2, <2>2, AnswerEffect DEF OnlyAt, Peers
  <2>. QED BY <1>1, <2>1, <2>2
<1>6. ASSUME NEW m, Answers(Command.n, m)
      PROVE  toPeer'[e] = toPeer[e] \/ toPeer'[e] = Append(toPeer[e], [n |-> c, reply |-> m])
  BY <1>0, <1>2, <1>6, AnswerEffect
<1>7. InStep(e)'
  <2>1. CASE toPeer'[e] = toPeer[e]
    BY <1>1, <1>2, <1>3, <1>4, <2>1, InStepSubmitted
  <2>2. ASSUME NEW m, pc' \notin InCycle,
               toPeer'[e] = Append(toPeer[e], [n |-> c, reply |-> m])
        PROVE  InStep(e)'
    BY <1>1, <1>2, <1>3, <1>4, <2>2, InStepHandled
  <2>3. CASE toPeer' = toPeer
    BY <2>1, <2>3
  <2>. QED BY <1>1, <1>6, <2>1, <2>2, <2>3
<1>. QED BY <1>1, <1>2, <1>3, <1>5, <1>7, DialogueAt

\* The driver's own steps.
LEMMA DialogueDriver ==
    ASSUME Sockets, Channels, Dialogue, NEW e \in Drivers, Ask(e) \/ ReadReply(e) \/ GiveUp(e)
    PROVE  Dialogue'
<1>. USE DEF peerVars, coordVars, history
<1>1. /\ e \in Peers /\ InStep(e) /\ commands \in Nat
      /\ AnySeq(toPeer[e]) /\ AnySeq(toCoord[e]) /\ \A d \in Drivers : Serving(d)' = Serving(d)
  BY DEF Dialogue, Channels, Peers, Serving, Ask, ReadReply, GiveUp
<1>2. ASSUME InStep(e)', commands' \in Nat, commands <= commands', FunctionOn(asked', Drivers),
             gaveUp' \in [Drivers -> BOOLEAN],
             \A d \in Drivers \ {e} :
                /\ toPeer'[d] = toPeer[d] /\ toCoord'[d] = toCoord[d]
                /\ asked'[d] = asked[d] /\ gaveUp'[d] = gaveUp[d]
      PROVE  Dialogue'
  <2>1. \A d \in Drivers \ {e} : InStep(d)'
    BY <1>1, <1>2, InStepKept DEF Dialogue
  <2>. QED BY <1>2, <2>1 DEF Dialogue
<1>3. CASE Ask(e)
  <2>1. PICK c \in Commands(commands + 1) :
             toCoord' = Put(toCoord, e, c) /\ asked' = [asked EXCEPT ![e] = c]
    BY <1>3 DEF Ask
  <2>2. /\ asked[e] = NoCommand /\ proc[e] = "running" /\ commands' = commands + 1
        /\ gaveUp' = gaveUp /\ toPeer' = toPeer
    BY <1>3 DEF Ask
  <2>3. c.n = commands + 1 /\ WellFormed(c)
    BY CommandsWellFormed
  <2>4. OnlyAt(toCoord, toCoord', e) /\ toCoord'[e] = Append(toCoord[e], c)
    BY <1>1, <2>1, <2>2, PutEffect DEF Channels
  <2>5. /\ FunctionOn(asked', Drivers) /\ asked'[e] = c
        /\ \A d \in Drivers \ {e} : asked'[d] = asked[d]
    BY <2>1 DEF Dialogue, FunctionOn
  <2>6. InStep(e)'
    BY <1>1, <2>2, <2>3, <2>4, <2>5, InStepAsked
  <2>7. commands' \in Nat /\ commands <= commands'
    BY <1>1, <2>2
  <2>8. gaveUp' \in [Drivers -> BOOLEAN] /\ \A d \in Drivers \ {e} : toCoord'[d] = toCoord[d]
    BY <2>2, <2>4 DEF OnlyAt, Peers, Dialogue
  <2>. QED BY <1>2, <2>2, <2>5, <2>6, <2>7, <2>8
<1>4. CASE ReadReply(e)
  <2>1. /\ toPeer[e] # <<>> /\ toPeer' = Taken(toPeer, e) /\ UNCHANGED <<commands, gaveUp, toCoord>>
        /\ asked' = [asked EXCEPT ![e] = NoCommand]
    BY <1>4 DEF ReadReply
  <2>2. OnlyAt(toPeer, toPeer', e) /\ toPeer'[e] = Tail(toPeer[e])
    BY <1>1, <2>1, TakenEffect DEF Channels
  <2>3. /\ FunctionOn(asked', Drivers) /\ asked'[e] = NoCommand
        /\ \A d \in Drivers \ {e} : asked'[d] = asked[d]
    BY <2>1 DEF Dialogue, FunctionOn
  <2>4. InStep(e)'
    BY <1>1, <2>1, <2>2, <2>3, InStepRead
  <2>5. /\ gaveUp' \in [Drivers -> BOOLEAN] /\ commands' \in Nat /\ commands <= commands'
        /\ \A d \in Drivers \ {e} : toPeer'[d] = toPeer[d]
    BY <1>1, <2>1, <2>2 DEF OnlyAt, Peers, Dialogue
  <2>. QED BY <1>2, <2>1, <2>3, <2>4, <2>5
<1>5. CASE GiveUp(e)
  <2>1. /\ UNCHANGED <<toPeer, toCoord, commands>>
        /\ asked' = [asked EXCEPT ![e] = NoCommand] /\ gaveUp' = [gaveUp EXCEPT ![e] = TRUE]
    BY <1>5 DEF GiveUp
  <2>2. /\ FunctionOn(asked', Drivers) /\ asked'[e] = NoCommand
        /\ \A d \in Drivers \ {e} : asked'[d] = asked[d]
    BY <2>1 DEF Dialogue, FunctionOn
  <2>3. /\ gaveUp' \in [Drivers -> BOOLEAN] /\ gaveUp'[e]
        /\ \A d \in Drivers \ {e} : gaveUp'[d] = gaveUp[d]
    BY <2>1, Zenon DEF Dialogue
  <2>4. InStep(e)'
    BY <1>1, <2>1, <2>2, <2>3 DEF InStep
  <2>5. commands' \in Nat /\ commands <= commands'
    BY <1>1, <2>1
  <2>. QED BY <1>2, <2>1, <2>2, <2>3, <2>4, <2>5
<1>. QED BY <1>3, <1>4, <1>5

\* Every step keeps the commands and replies of every driver in step.
LEMMA DialogueNext ==
    ASSUME Sockets, Channels, Exchange, Cycle, Dialogue, [Next]_vars
    PROVE  Dialogue'
<1>. USE DEF peerVars, coordVars, history
<1>1. \A d \in Drivers : d \in Peers /\ d \notin Workers
  BY PeerRoles DEF Peers
<1>2. ASSUME NEW p \in Peers, Connect(p) \/ Greet(p) \/ Exit(p) PROVE Dialogue'
  <2>1. UNCHANGED <<asked, commands, gaveUp, toPeer, toCoord, pc, fd, job>>
    BY <1>2 DEF Connect, Greet, Exit
  <2>. QED BY <2>1, DialogueKept DEF Serving
<1>3. ASSUME NEW p \in Peers, Kill(p) PROVE Dialogue'
  <2>1. /\ UNCHANGED <<asked, commands, gaveUp, pc, fd, job>>
        /\ toPeer' = [toPeer EXCEPT ![p] = <<>>]
        /\ toCoord' = toCoord \/ toCoord' = [toCoord EXCEPT ![p] = <<>>]
    BY <1>3 DEF Kill
  <2>2. /\ \A d \in Drivers : Serving(d)' = Serving(d)
        /\ \A d \in Drivers \ {p} : toPeer'[d] = toPeer[d] /\ toCoord'[d] = toCoord[d]
        /\ toPeer'[p] = <<>> /\ toCoord'[p] \in {toCoord[p], <<>>}
    BY <1>1, <2>1 DEF Serving, Channels, FunctionOn
  <2>3. CASE p \in Drivers
    <3>1. InStep(p)'
      BY <2>1, <2>2, <2>3, InStepKilled DEF Dialogue
    <3>. QED BY <2>1, <2>2, <2>3, <3>1, DialogueAt
  <2>4. CASE p \notin Drivers
    BY <2>1, <2>2, <2>4, DialogueKept
  <2>. QED BY <2>3, <2>4
<1>4. ASSUME NEW p \in Workers, Propose(p) \/ Verify(p) PROVE Dialogue'
  <2>1. /\ p \in Peers /\ toPeer' = Taken(toPeer, p) /\ \E m : toCoord' = Put(toCoord, p, m)
        /\ UNCHANGED <<asked, commands, gaveUp, pc, fd, job>>
    BY <1>4 DEF Propose, Verify, Peers
  <2>2. OnlyAt(toPeer, toPeer', p) /\ OnlyAt(toCoord, toCoord', p)
    BY <2>1, TakenEffect, PutEffect DEF Channels
  <2>3. \A d \in Drivers : toPeer'[d] = toPeer[d] /\ toCoord'[d] = toCoord[d]
                           /\ Serving(d)' = Serving(d)
    BY <1>1, <2>1, <2>2 DEF OnlyAt, Serving
  <2>. QED BY <2>1, <2>3, DialogueKept
<1>5. ASSUME AcceptAtStartup \/ AcceptPeer \/ Select \/ SelectTimeout \/ DriverGone
      PROVE  Dialogue'
  <2>1. /\ pc \notin InCycle /\ pc' \notin InCycle
        /\ UNCHANGED <<asked, commands, gaveUp, toPeer, toCoord>>
    BY <1>5 DEF AcceptAtStartup, AcceptPeer, Accepts, Select, SelectTimeout, DriverGone, InCycle
  <2>. QED BY <2>1, DialogueKept DEF Serving
<1>6. ASSUME pc \in InCycle, pc' \in InCycle, job'.command = job.command,
             UNCHANGED <<asked, commands, gaveUp, fd>>,
             \A d \in Drivers : toPeer'[d] = toPeer[d] /\ toCoord'[d] = toCoord[d]
      PROVE  Dialogue'
  BY <1>6, DialogueKept DEF Serving
<1>7. ASSUME SendProposal \/ SendVerification PROVE Dialogue'
  <2>1. /\ pc \in InCycle /\ UNCHANGED <<asked, commands, gaveUp, fd, toCoord>>
        /\ \/ \E p \in {fd["proposer"], fd["verifier"]} : \E m : toPeer' = Put(toPeer, p, m)
              /\ pc' \in InCycle /\ job' = job
           \/ \E reason : Rejects(reason)
    BY <1>7 DEF SendProposal, SendVerification, InCycle
  <2>2. fd["proposer"] \in Workers /\ fd["verifier"] \in Workers
    BY <2>1, Descriptors
  <2>3. ASSUME NEW p \in Workers, NEW m, toPeer' = Put(toPeer, p, m), pc' \in InCycle, job' = job
        PROVE  Dialogue'
    <3>1. OnlyAt(toPeer, toPeer', p)
      BY <2>3, PutEffect DEF Channels, Peers
    <3>. QED BY <1>1, <1>6, <2>1, <2>3, <3>1 DEF OnlyAt
  <2>4. ASSUME NEW reason, Rejects(reason) PROVE Dialogue'
    BY <2>1, <2>4, DialogueFinished DEF Rejects
  <2>. QED BY <2>1, <2>2, <2>3, <2>4
<1>8. ASSUME RecvProposal \/ RecvVerification PROVE Dialogue'
  <2>1. /\ pc \in InCycle /\ UNCHANGED <<asked, commands, gaveUp, fd>>
        /\ \/ toCoord' = toCoord
           \/ OnlyAt(toCoord, toCoord', fd["proposer"])
           \/ OnlyAt(toCoord, toCoord', fd["verifier"])
    BY <1>8, RecvProposalEffect, RecvVerificationEffect DEF RecvProposal, RecvVerification, InCycle
  <2>2. \/ \E reason : Aborts(reason)
        \/ toPeer' = toPeer /\ pc' \in InCycle /\ job'.command = job.command
    <3>1. CASE RecvProposal
      <4>1. \/ \E reason : Aborts(reason)
            \/ pc' = "verify" /\ toPeer' = toPeer /\ \E m : job' = [job EXCEPT !.draft = m]
        BY <3>1, RecvProposalEffect
      <4>. QED BY <4>1 DEF InCycle, Cycle
    <3>2. CASE RecvVerification
      <4>1. \/ \E reason : Aborts(reason)
            \/ /\ pc' \in {"settle", "propose"} /\ toPeer' = toPeer
               /\ \E brs : job' = [job EXCEPT !.draft = None, !.brs = brs]
        BY <3>2, RecvVerificationEffect
      <4>. QED BY <4>1 DEF InCycle, Cycle
    <3>. QED BY <1>8, <3>1, <3>2
  <2>3. \A d \in Drivers : toCoord'[d] = toCoord[d]
    BY <1>1, <2>1, Descriptors DEF OnlyAt
  <2>4. ASSUME NEW reason, Aborts(reason) PROVE Dialogue'
    BY <2>1, <2>3, <2>4, DialogueFinished DEF Aborts
  <2>. QED BY <1>6, <2>1, <2>2, <2>3, <2>4
<1>9. ASSUME Settle PROVE Dialogue'
  <2>1. /\ pc \in InCycle /\ pc' = "drain" /\ UNCHANGED <<asked, commands, gaveUp, toCoord>>
        /\ \E m : Answers(job.command, m)
    BY <1>9 DEF Settle, InCycle
  <2>. QED BY <2>1, DialogueFinished
<1>10. CASE UNCHANGED vars
  <2>1. UNCHANGED <<asked, commands, gaveUp, toPeer, toCoord, pc, fd, job>>
    BY <1>10 DEF vars
  <2>. QED BY <2>1, DialogueKept DEF Serving
<1>. QED
  BY <1>2, <1>3, <1>4, <1>5, <1>7, <1>8, <1>9, <1>10, DialogueHandled, DialogueDriver
  DEF Next, Coordinator
-----------------------------------------------------------------------------
(***************************************************************************)
(* What the driver is told                                                 *)
(***************************************************************************)

Stale == [type |-> "Reject", body |-> "stale"]

\* No reply of the connection says that a live result was stale.
NoneStale(s) == \A i \in 1..Len(s) : s[i].reply # Stale

\* Reading a reply, or adding one that does not say so, keeps it that way.
LEMMA NoneStaleSteps ==
    /\ NoneStale(<<>>)
    /\ \A s : AnySeq(s) /\ s # <<>> /\ NoneStale(s) => NoneStale(Tail(s))
    /\ \A s, n, m : AnySeq(s) /\ NoneStale(s) /\ m # Stale =>
          NoneStale(Append(s, [n |-> n, reply |-> m]))
<1>1. NoneStale(<<>>)
  BY SomeSequences DEF NoneStale
<1>2. ASSUME NEW s, AnySeq(s), s # <<>>, NoneStale(s) PROVE NoneStale(Tail(s))
  <2>1. /\ Len(s) \in Nat \ {0} /\ Len(Tail(s)) = Len(s) - 1
        /\ \A i \in 1..(Len(s) - 1) : Tail(s)[i] = s[i + 1]
    BY <1>2, AnySeqTail
  <2>2. \A i \in 1..Len(Tail(s)) : i + 1 \in 1..Len(s) /\ Tail(s)[i] = s[i + 1]
    BY <2>1
  <2>. QED BY <1>2, <2>2 DEF NoneStale
<1>3. ASSUME NEW s, NEW n, NEW m, AnySeq(s), NoneStale(s), m # Stale
      PROVE  NoneStale(Append(s, [n |-> n, reply |-> m]))
  <2>. DEFINE e == [n |-> n, reply |-> m]
              after == Append(s, e)
              l == Len(s)
  <2>1. /\ l \in Nat /\ Len(after) = l + 1 /\ after[l + 1] = e
        /\ \A j \in 1..l : after[j] = s[j]
    BY <1>3, AnySeqLength, AnySeqAppend
  <2>2. (\A j \in 1..(l + 1) : j \in 1..l \/ j = l + 1) /\ e.reply = m
    BY <2>1
  <2>. HIDE DEF after, e
  <2>. QED BY <1>3, <2>1, <2>2 DEF NoneStale, after, e
<1>. QED BY <1>1, <1>2, <1>3

\* No step tells the driver that a live result was stale.
LEMMA LiveResultsNext ==
    ASSUME Sockets, Channels, Exchange, Cycle, LiveResultsAreCurrent, [Next]_vars
    PROVE  LiveResultsAreCurrent'
<1>. USE DEF peerVars, coordVars, history
<1>. DEFINE Goal == \A d \in Drivers : NoneStale(toPeer'[d])
<1>1. SUFFICES Goal
  BY DEF LiveResultsAreCurrent, NoneStale, Stale
<1>2. \A d \in Drivers : /\ NoneStale(toPeer[d]) /\ AnySeq(toPeer[d])
                         /\ d \in Peers /\ d \notin Workers
  BY PeerRoles DEF LiveResultsAreCurrent, NoneStale, Stale, Channels, Peers
<1>3. toPeer' = toPeer => Goal
  BY <1>2
<1>4. ASSUME NEW p \in Peers, p \notin Drivers, OnlyAt(toPeer, toPeer', p) PROVE Goal
  BY <1>2, <1>4 DEF OnlyAt
<1>5. ASSUME pc \in InCycle \cup {"select"}, NEW n, NEW m, Answers(n, m), m # Stale PROVE Goal
  <2>1. /\ fd["driver"] \in Drivers /\ OnlyAt(toPeer, toPeer', fd["driver"])
        /\ \/ toPeer'[fd["driver"]] = toPeer[fd["driver"]]
           \/ toPeer'[fd["driver"]] = Append(toPeer[fd["driver"]], [n |-> n, reply |-> m])
    BY <1>5, AnswerEffect
  <2>2. NoneStale(toPeer'[fd["driver"]])
    BY <1>2, <1>5, <2>1, NoneStaleSteps
  <2>3. \A d \in Drivers \ {fd["driver"]} : NoneStale(toPeer'[d])
    BY <1>2, <2>1 DEF OnlyAt
  <2>. QED BY <2>2, <2>3
<1>6. \A reason : reason # "stale" => [type |-> "Reject", body |-> reason] # Stale
  BY DEF Stale
<1>. HIDE DEF Goal
<1>7. ASSUME pc \in InCycle, NEW reason, Rejects(reason) \/ Aborts(reason), reason # "stale"
      PROVE  Goal
  BY <1>5, <1>6, <1>7 DEF Rejects, Aborts
<1>8. ASSUME NEW p \in Peers, Kill(p) PROVE Goal
  <2>1. /\ \A d \in Drivers : toPeer'[d] = IF d = p THEN <<>> ELSE toPeer[d]
    BY <1>2, <1>8 DEF Kill, Channels, FunctionOn
  <2>. QED BY <1>2, <2>1, NoneStaleSteps DEF Goal
<1>9. ASSUME NEW p \in Workers, Propose(p) \/ Verify(p) PROVE Goal
  <2>1. p \in Peers /\ p \notin Drivers /\ toPeer' = Taken(toPeer, p)
    BY <1>2, <1>9 DEF Propose, Verify, Peers
  <2>. QED BY <1>4, <2>1, TakenEffect DEF Channels
<1>10. ASSUME NEW e \in Drivers, ReadReply(e) PROVE Goal
  <2>1. /\ toPeer[e] # <<>> /\ OnlyAt(toPeer, toPeer', e) /\ toPeer'[e] = Tail(toPeer[e])
    BY <1>2, <1>10, TakenEffect DEF ReadReply, Channels
  <2>2. NoneStale(toPeer'[e])
    BY <1>2, <2>1, NoneStaleSteps
  <2>. QED BY <1>2, <2>1, <2>2 DEF Goal, OnlyAt
<1>11. ASSUME HandleReplay \/ HandleProbe \/ HandleRollEpoch \/ HandleStatus PROVE Goal
  <2>1. /\ pc = "select"
        /\ toPeer' = toPeer \/ \E m : Answers(Command.n, m) /\ m # Stale
    BY <1>11, HandlerEffect DEF Receives, Stale
  <2>. QED BY <1>3, <1>5, <2>1
<1>12. ASSUME SendProposal \/ SendVerification PROVE Goal
  <2>1. /\ pc \in InCycle
        /\ \/ \E m : toPeer' = Put(toPeer, fd["proposer"], m)
           \/ \E m : toPeer' = Put(toPeer, fd["verifier"], m)
           \/ Rejects("proposer send failed")
           \/ Rejects("verifier send failed")
    BY <1>12 DEF SendProposal, SendVerification, InCycle
  <2>2. /\ fd["proposer"] \in Peers /\ fd["verifier"] \in Peers
        /\ fd["proposer"] \notin Drivers /\ fd["verifier"] \notin Drivers
    BY <1>2, <2>1, Descriptors
  <2>3. ASSUME NEW p \in Peers, p \notin Drivers, NEW m, toPeer' = Put(toPeer, p, m) PROVE Goal
    BY <1>4, <2>3, PutEffect DEF Channels
  <2>. QED BY <1>7, <2>1, <2>2, <2>3
<1>13. ASSUME RecvProposal \/ RecvVerification PROVE Goal
  <2>1. /\ pc \in InCycle
        /\ toPeer' = toPeer \/ \E reason : Aborts(reason)
    BY <1>13, RecvProposalEffect, RecvVerificationEffect DEF RecvProposal, RecvVerification, InCycle
  <2>2. \A reason : Aborts(reason) => reason # "stale"
    BY DEF Aborts
  <2>. QED BY <1>3, <1>7, <2>1, <2>2
<1>14. ASSUME Settle PROVE Goal
  <2>1. \A k : [type |-> "Commit", count |-> k] # Stale
    BY DEF Stale
  <2>2. pc \in InCycle \cup {"select"}
    BY <1>14 DEF Settle, InCycle
  <2>. QED BY <1>5, <1>14, <2>1, <2>2, SettleEffect
<1>15. ASSUME \/ AcceptAtStartup \/ AcceptPeer \/ Select \/ SelectTimeout \/ DriverGone
              \/ HandleSubmit \/ HandleShutdown
              \/ \E p \in Peers : Connect(p) \/ Greet(p) \/ Exit(p)
              \/ \E d \in Drivers : Ask(d) \/ GiveUp(d)
              \/ UNCHANGED vars
       PROVE  Goal
  <2>1. toPeer' = toPeer
    BY <1>15 DEF AcceptAtStartup, AcceptPeer, Select, SelectTimeout, DriverGone, HandleSubmit,
       HandleShutdown, Connect, Greet, Exit, Ask, GiveUp, vars
  <2>. QED BY <1>3, <2>1
<1>. QED
  BY <1>8, <1>9, <1>10, <1>11, <1>12, <1>13, <1>14, <1>15 DEF Next, Coordinator
-----------------------------------------------------------------------------
(***************************************************************************)
(* The theorems                                                            *)
(***************************************************************************)

\* The system starts with nobody connected and nothing under way.
LEMMA InvInit == Init => Inv
<1>. SUFFICES ASSUME Init PROVE Inv
  OBVIOUS
<1>. USE SomeSequences DEF Init
<1>1. Sockets
  <2>1. backlog \in Seq(Peers) /\ Len(backlog) = 0
    BY EmptySeq
  <2>. QED BY <2>1 DEF Sockets, InCycle
<1>2. Channels
  BY DEF Channels, FunctionOn
<1>3. Exchange
  BY DEF Exchange, Quiet, Workers, Peers
<1>4. Cycle
  BY DEF Cycle, NoJob, Job, InCycle
<1>5. Dialogue
  <2>1. ASSUME NEW d \in Drivers PROVE InStep(d)
    <3>1. toPeer[d] = <<>> /\ toCoord[d] = <<>> /\ Len(<<>>) = 0 /\ Serving(d) = {}
      BY DEF Peers, Serving, InCycle
    <3>. QED BY <3>1 DEF InStep, Line, Alone
  <2>. QED BY <2>1 DEF Dialogue, FunctionOn
<1>6. GenerationsAgree /\ LiveResultsAreCurrent
  <2>1. \A d \in Drivers : Len(toPeer[d]) = 0
    BY DEF Peers
  <2>. QED BY <2>1 DEF GenerationsAgree, LiveResultsAreCurrent
<1>. QED BY <1>1, <1>2, <1>3, <1>4, <1>5, <1>6 DEF Inv

\* The invariant of the control plane holds in every reachable state: what is on
\* the wire, what drive_cycle holds and what the driver waits for fit together,
\* whichever processes are killed and restarted.
THEOREM InvCorrect == Spec => []Inv
<1>1. Inv /\ [Next]_vars => Inv'
  BY SocketsNext, ChannelsNext, ExchangeNext, CycleNext, DialogueNext, GenerationsNext,
     LiveResultsNext
  DEF Inv
<1>. QED BY <1>1, InvInit, PTL DEF Spec

\* The state keeps its types, and the coordinator its worker sockets.
THEOREM TypeCorrect == Spec => []TypeOK
<1>1. Inv => TypeOK
  <2>. SUFFICES ASSUME Inv PROVE TypeOK
    OBVIOUS
  <2>1. Len(job.brs) <= job.branches
    <3>1. CASE pc \in InCycle
      <4>1. CycleShape /\ Len(job.brs) \in Nat
        BY <3>1, CycleRequest DEF Inv
      <4>. QED BY <4>1 DEF CycleShape
    <3>2. CASE pc \notin InCycle
      BY <3>2, SomeSequences DEF Inv, Cycle, NoJob, Job
    <3>. QED BY <3>1, <3>2
  <2>2. \A role \in Roles : fd[role] \in {None} \cup {p \in Peers : Role(p) = role}
    BY DEF Inv, Sockets
  <2>3. epoch \in Nat \ {0} /\ DOMAIN reqs \subseteq ReqIds
    BY DEF Inv, Cycle
  <2>. QED BY <2>1, <2>2, <2>3 DEF Inv, Sockets, TypeOK, InCycle
<1>. QED BY <1>1, InvCorrect, PTL

\* A request's generations count its committed tokens, and those are one branch's.
THEOREM GenerationsCorrect == Spec => []GenerationsAgree
<1>1. Inv => GenerationsAgree
  BY DEF Inv
<1>. QED BY <1>1, InvCorrect, PTL

\* What drive_cycle is about to commit was drafted and verified under the present
\* epoch by the workers connected now.
THEOREM EvidenceCorrect == Spec => []EvidenceIsCurrent
<1>1. Inv => EvidenceIsCurrent
  <2>. SUFFICES ASSUME Inv, pc \in InCycle PROVE EvidenceIsCurrent
    BY DEF EvidenceIsCurrent, InCycle
  <2>1. CycleShape
    BY CycleRequest DEF Inv
  <2>2. \A i \in 1..Len(job.brs) : BranchCurrent(job.brs[i], i)
    BY <2>1 DEF CycleShape
  <2>3. job.draft # None => job.draft.from = fd["proposer"]
    BY <2>1 DEF CycleShape, ProposalResult
  <2>. QED BY <2>2, <2>3 DEF EvidenceIsCurrent, BranchCurrent
<1>. QED BY <1>1, InvCorrect, PTL

\* Between commands no worker has a frame in flight.
THEOREM QuietCorrect == Spec => []QuietBetweenCycles
<1>1. Inv => QuietBetweenCycles
  BY NothingUnderWay DEF Inv, QuietBetweenCycles
<1>. QED BY <1>1, InvCorrect, PTL

\* validate_authority refuses no answer to a dispatch of the running cycle.
THEOREM LiveResultsCorrect == Spec => []LiveResultsAreCurrent
<1>1. Inv => LiveResultsAreCurrent
  BY DEF Inv
<1>. QED BY <1>1, InvCorrect, PTL

\* A driver that never lost patience reads the reply to the command it waits on,
\* and no driver reads a reply twice or out of order.
THEOREM RepliesCorrect == Spec => []RepliesInStep
<1>1. Inv => RepliesInStep
  <2>. SUFFICES ASSUME Inv, NEW d \in Drivers, toPeer[d] # <<>>
                PROVE  /\ gaveUp[d] \/ (asked[d] # NoCommand /\ toPeer[d][1].n = asked[d].n)
                       /\ \A i \in 1..(Len(toPeer[d]) - 1) : toPeer[d][i].n < toPeer[d][i + 1].n
    BY DEF RepliesInStep
  <2>1. InStep(d) /\ d \in Peers /\ commands \in Nat
    BY DEF Inv, Dialogue, Peers
  <2>2. Len(toPeer[d]) \in Nat \ {0}
    BY <2>1, AnySeqTail DEF Inv, Channels
  <2>3. 1 \in 1..Len(toPeer[d])
    BY <2>2
  <2>4. toPeer[d][1].n \in 1..commands
    BY <2>1, <2>3 DEF InStep, Line
  <2>5. ASSUME ~gaveUp[d] PROVE asked[d] # NoCommand /\ toPeer[d][1].n = asked[d].n
    <3>1. toPeer[d][1].n = asked[d].n
      BY <2>1, <2>3, <2>5 DEF InStep, Alone
    <3>2. NoCommand.n = 0
      BY DEF NoCommand
    <3>3. toPeer[d][1].n # 0
      BY <2>1, <2>4
    <3>. QED BY <3>1, <3>2, <3>3
  <2>6. ASSUME NEW i \in 1..(Len(toPeer[d]) - 1) PROVE toPeer[d][i].n < toPeer[d][i + 1].n
    <3>1. i \in 1..Len(toPeer[d]) /\ i + 1 \in 1..Len(toPeer[d]) /\ i < i + 1
      BY <2>2
    <3>. QED BY <2>1, <3>1 DEF InStep, Line
  <2>. QED BY <2>5, <2>6
<1>. QED BY <1>1, InvCorrect, PTL
=============================================================================
