----------------------------- MODULE Coordinator -----------------------------
(***************************************************************************)
(* The distributed control plane: the sf_coordinator process               *)
(* (tools/sf_coordinator.cpp), the sf_worker processes it dispatches to    *)
(* (tools/sf_worker.cpp) and the sf_driver that commands it                *)
(* (tools/sf_driver.cpp), over the framed TCP of tools/sockutil.h.         *)
(*                                                                         *)
(* A peer is one incarnation of a worker or driver process: it connects    *)
(* once, then says Hello, and may be killed at any time; a restart is      *)
(* another peer.  The coordinator is one thread; its program counter `pc' stops    *)
(* wherever it can block or where another process can be observed.  TCP    *)
(* keeps the order of a connection and loses nothing, except what a killed *)
(* peer had not yet got onto the wire.  A token is identified with the     *)
(* proposal generation of the dispatch that drafted it.                    *)
(*                                                                         *)
(* A driver waits for a reply until its socket's receive timeout, 8 s,     *)
(* then sends its next command and reads the next reply it gets.  Commands *)
(* and replies carry a number n here that the frames do not have.          *)
(*                                                                         *)
(* Depths stay below 62: the 64-field limit of wire::encode, which the     *)
(* callers do not check, begins there.  Frames are whole messages here;    *)
(* module FramedChannel shows what becomes of their bytes.                 *)
(***************************************************************************)
EXTENDS Integers, Sequences, FiniteSetsExt

CONSTANTS
    Proposers, Verifiers, Drivers,  \* process incarnations, by role
    None,                           \* no peer, no message
    Boots,                          \* process ids the system hands out
    ReqIds,                         \* request ids the driver submits
    Depths,                         \* depths it asks for
    BranchCounts,                   \* branch counts it asks for
    ProbeKinds,                     \* the "stale:<kind>" probes it sends
    CommandTypes,                   \* the types of command it sends
    MaxCommands                     \* bound: commands sent in all

Workers == Proposers \cup Verifiers
Peers == Workers \cup Drivers

ASSUME PeerRoles ==
    /\ Proposers \cap Verifiers = {} /\ Workers \cap Drivers = {}
    /\ None \notin Peers

\* Depths below 62, where encode accepts the dispatches, and at least one branch:
\* the code checks neither, and the driver always asks for one branch or more.
ASSUME CoordinatorConstants ==
    /\ Boots \subseteq Nat \ {0} /\ ReqIds \subseteq Nat \ {0}
    /\ Depths \subseteq 0..61 /\ BranchCounts \subseteq Nat \ {0}
    /\ ProbeKinds \subseteq {"epoch", "boot", "prevBoot", "attempt", "generation", "base"}
    /\ CommandTypes \subseteq {"Submit", "Replay", "Probe", "RollEpoch", "Status", "Shutdown"}
    /\ MaxCommands \in Nat

Roles == {"proposer", "verifier", "driver"}
Role(p) == IF p \in Proposers THEN "proposer"
           ELSE IF p \in Verifiers THEN "verifier" ELSE "driver"

VARIABLES
    proc,       \* proc[p]: "new", "running", "closed" (socket shut on it), "dead"
    boot,       \* boot[p]: the pid it announces in Hello, 0 before it starts
    hello,      \* hello[p]: its Hello is on the wire
    backlog,    \* connections not yet accepted, oldest first
    toPeer,     \* toPeer[p]: the frames on their way to p
    toCoord,    \* toCoord[p]: the frames on their way to the coordinator
    asked,      \* asked[d]: the command driver d waits on, or NoCommand
    pc,         \* where the coordinator is
    fd,         \* proposerFd, verifierFd, driverFd
    curBoot,    \* proposerBoot, verifierBoot
    prevBoot,   \* prevProposerBoot
    epoch,      \* CoordinatorEpoch
    reqs,       \* requests, a function on the ids submitted so far
    job,        \* drive_cycle's locals
    sent,       \* history: the proposal results workers have sent
    commands,   \* history: commands sent so far
    gaveUp      \* history: gaveUp[d]: a receive of driver d has timed out

peerVars == <<proc, boot, hello, backlog>>
coordVars == <<pc, fd, curBoot, prevBoot, epoch, reqs, job>>
history == <<sent, commands, gaveUp>>
vars == <<peerVars, toPeer, toCoord, asked, coordVars, history>>

\* CReq, and what SubmitRequest resets it to.
CReq(e, attempt, gen, stateGen, committed, propGen) ==
    [epoch |-> e, attempt |-> attempt, authGen |-> gen, stateGen |-> stateGen,
     committed |-> committed, propGen |-> propGen]
Fresh(e) == CReq(e, 1, 0, 0, <<>>, 0)

\* What a driver waits on that waits on nothing; commands are numbered from 1.
NoCommand == [n |-> 0, type |-> "none"]

\* command: the number of the command the cycle is for.
Job(n, r, depth, branches) ==
    [command |-> n, req |-> r, depth |-> depth, branches |-> branches, draft |-> None, brs |-> <<>>]
NoJob == Job(0, 0, 0, 0)

Init ==
    /\ proc = [p \in Peers |-> "new"] /\ boot = [p \in Peers |-> 0]
    /\ hello = [p \in Peers |-> FALSE] /\ backlog = <<>>
    /\ toPeer = [p \in Peers |-> <<>>] /\ toCoord = [p \in Peers |-> <<>>]
    /\ asked = [d \in Drivers |-> NoCommand]
    /\ pc = "startup"
    /\ fd = [role \in Roles |-> None]
    /\ curBoot = [role \in {"proposer", "verifier"} |-> 0] /\ prevBoot = 0
    /\ epoch = 1
    /\ reqs = [r \in {} |-> Fresh(1)]
    /\ job = NoJob
    /\ sent = {} /\ commands = 0 /\ gaveUp = [d \in Drivers |-> FALSE]
-----------------------------------------------------------------------------
(* The peers.  *)

Alive(p) == proc[p] \in {"running", "closed"}

\* The channels when a frame is put on one, and when one is taken off it.  What
\* is sent to a process that died is lost.
Put(channel, p, m) == [channel EXCEPT ![p] = IF proc[p] = "dead" THEN @ ELSE Append(@, m)]
Taken(channel, p) == [channel EXCEPT ![p] = Tail(@)]

\* A process starts and connects.  A proposer's boot id is its pid, which no live
\* process shares; a verifier's is compared only with itself and a driver's with
\* nothing, so theirs stay 0.
Connect(p) ==
    /\ proc[p] = "new" /\ pc # "ended"
    /\ \E b \in IF p \notin Proposers THEN {0}
             ELSE Boots \ {boot[q] : q \in {q \in Proposers : Alive(q)}} :
          boot' = [boot EXCEPT ![p] = b]
    /\ proc' = [proc EXCEPT ![p] = "running"]
    /\ backlog' = Append(backlog, p)
    /\ UNCHANGED <<hello, toPeer, toCoord, asked, coordVars, history>>

\* The Hello every process sends once it is connected.
Greet(p) ==
    /\ proc[p] = "running" /\ ~hello[p] /\ pc # "ended"
    /\ hello' = [hello EXCEPT ![p] = TRUE]
    /\ UNCHANGED <<proc, boot, backlog, toPeer, toCoord, asked, coordVars, history>>

\* A process is killed, before or after its Hello.  The answer it had just sent
\* may or may not be on the wire.
Kill(p) ==
    /\ proc[p] = "running" /\ pc # "ended"
    /\ proc' = [proc EXCEPT ![p] = "dead"]
    /\ toPeer' = [toPeer EXCEPT ![p] = <<>>]
    /\ toCoord' \in {toCoord, [toCoord EXCEPT ![p] = <<>>]}
    /\ UNCHANGED <<boot, hello, backlog, asked, coordVars, history>>

\* recv_frame fails on a socket the coordinator has closed: the process ends.
\* What becomes of the peers once the coordinator has ended is not followed.
Exit(p) ==
    /\ proc[p] = "closed" /\ pc # "ended"
    /\ proc' = [proc EXCEPT ![p] = "dead"]
    /\ UNCHANGED <<boot, hello, backlog, toPeer, toCoord, asked, coordVars, history>>

\* The proposer answers a ProposalDispatch, echoing the authority it was given;
\* CpuProposerExecutor refuses a depth of zero.
ProposalResult(m, p) ==
    [type |-> "ProposalResult", req |-> m.req, attempt |-> m.attempt, epoch |-> m.epoch,
     boot |-> m.boot, base |-> m.base, propGen |-> m.propGen,
     outcome |-> IF m.depth = 0 THEN "non_retryable" ELSE "success", from |-> p]

Propose(p) ==
    /\ p \in Proposers /\ proc[p] = "running" /\ toPeer[p] # <<>>
    /\ LET result == ProposalResult(Head(toPeer[p]), p) IN
       toCoord' = Put(toCoord, p, result) /\ sent' = sent \cup {result}
    /\ toPeer' = Taken(toPeer, p)
    /\ UNCHANGED <<peerVars, asked, coordVars, commands, gaveUp>>

\* The verifier answers a VerificationDispatch with how many tokens it accepts.
VerificationResult(m, k, p) ==
    [type |-> "VerificationResult", req |-> m.req, attempt |-> m.attempt,
     epoch |-> m.epoch, base |-> m.base, accepted |-> k, from |-> p]

Verify(p) ==
    /\ p \in Verifiers /\ proc[p] = "running" /\ toPeer[p] # <<>>
    /\ LET m == Head(toPeer[p]) IN
       \E k \in 0..m.depth : toCoord' = Put(toCoord, p, VerificationResult(m, k, p))
    /\ toPeer' = Taken(toPeer, p)
    /\ UNCHANGED <<peerVars, asked, coordVars, history>>

Commands(n) ==
    {c \in [n : {n}, type : {"Submit"}, req : ReqIds, depth : Depths, branches : BranchCounts]
             \cup [n : {n}, type : {"Replay"}, result : sent]
             \cup [n : {n}, type : {"Probe"}, kind : ProbeKinds]
             \cup [n : {n}, type : {"RollEpoch", "Status", "Shutdown"}] :
        c.type \in CommandTypes}

\* The driver sends one command and waits for its reply.
Ask(d) ==
    /\ proc[d] = "running" /\ hello[d] /\ pc # "ended" /\ asked[d] = NoCommand
    /\ commands < MaxCommands
    /\ \E c \in Commands(commands + 1) :
         /\ toCoord' = Put(toCoord, d, c)
         /\ asked' = [asked EXCEPT ![d] = c]
    /\ commands' = commands + 1
    /\ UNCHANGED <<peerVars, toPeer, coordVars, sent, gaveUp>>

ReadReply(d) ==
    /\ proc[d] = "running" /\ asked[d] # NoCommand /\ toPeer[d] # <<>>
    /\ toPeer' = Taken(toPeer, d)
    /\ asked' = [asked EXCEPT ![d] = NoCommand]
    /\ UNCHANGED <<peerVars, toCoord, coordVars, history>>

\* The receive times out, and the driver goes on.
GiveUp(d) ==
    /\ proc[d] = "running" /\ asked[d] # NoCommand /\ toPeer[d] = <<>>
    /\ asked' = [asked EXCEPT ![d] = NoCommand]
    /\ gaveUp' = [gaveUp EXCEPT ![d] = TRUE]
    /\ UNCHANGED <<peerVars, toPeer, toCoord, coordVars, sent, commands>>
-----------------------------------------------------------------------------
(* The coordinator: connections.  *)

\* Mutant: the driver alone is waited for.
AllConnectedDriver(f) == f["driver"] # None

AllConnected(f) == \A role \in Roles : f[role] # None

\* recv_frame on the connection just accepted: it waits for the Hello, and fails
\* when the peer died without one.
Silent(p) == proc[p] = "dead" /\ ~hello[p]

\* The accept loop of main: a peer that dies before its Hello ends the process,
\* and a second peer of a role replaces the first, whose socket stays open.
AcceptAtStartup ==
    /\ pc = "startup" /\ backlog # <<>>
    /\ hello[Head(backlog)] \/ Silent(Head(backlog))
    /\ backlog' = Tail(backlog)
    /\ LET p == Head(backlog)
           f == [fd EXCEPT ![Role(p)] = p]
           b == IF p \in Workers THEN [curBoot EXCEPT ![Role(p)] = boot[p]] ELSE curBoot
       IN IF hello[p]
          THEN /\ fd' = f /\ curBoot' = b
               /\ IF AllConnected(f)
                  THEN pc' = "drain" /\ prevBoot' = b["proposer"]
                  ELSE UNCHANGED <<pc, prevBoot>>
          ELSE pc' = "ended" /\ UNCHANGED <<fd, curBoot, prevBoot>>
    /\ UNCHANGED <<proc, boot, hello, toPeer, toCoord, asked, epoch, reqs, job, history>>

\* closesocket(p): a live peer will find out.
Closing(p) == [proc EXCEPT ![p] = IF @ = "running" THEN "closed" ELSE @]

\* Mutant: connections are accepted in the middle of a cycle too.
AcceptsAnywhere(at) == at \notin {"startup", "ended"}

\* Connections are accepted only between commands.
Accepts(at) == at = "drain"

\* One round of drain_accepts: a worker takes over its role and the socket of
\* the one before it is closed; a second driver is turned away.
AcceptPeer ==
    /\ Accepts(pc) /\ backlog # <<>>
    /\ backlog' = Tail(backlog)
    /\ LET p == Head(backlog) IN
       \/ /\ hello[p] /\ p \in Workers
          /\ proc' = Closing(fd[Role(p)])
          /\ fd' = [fd EXCEPT ![Role(p)] = p]
          /\ curBoot' = [curBoot EXCEPT ![Role(p)] = boot[p]]
          /\ prevBoot' = IF p \in Proposers THEN curBoot["proposer"] ELSE prevBoot
       \/ /\ hello[p] /\ p \in Drivers /\ fd["driver"] = None
          /\ fd' = [fd EXCEPT !["driver"] = p]
          /\ UNCHANGED <<proc, curBoot, prevBoot>>
       \/ /\ Silent(p) \/ (hello[p] /\ p \in Drivers /\ fd["driver"] # None)
          /\ proc' = Closing(p)
          /\ UNCHANGED <<fd, curBoot, prevBoot>>
    /\ UNCHANGED <<boot, hello, toPeer, toCoord, asked, pc, epoch, reqs, job, history>>

\* No connection left to accept: wait for the driver, if there is one.
Select ==
    /\ pc = "drain" /\ backlog = <<>> /\ fd["driver"] # None
    /\ pc' = "select"
    /\ UNCHANGED <<peerVars, toPeer, toCoord, asked, fd, curBoot, prevBoot, epoch, reqs, job,
                   history>>

SelectTimeout ==
    /\ pc = "select" /\ toCoord[fd["driver"]] = <<>> /\ proc[fd["driver"]] = "running"
    /\ pc' = "drain"
    /\ UNCHANGED <<peerVars, toPeer, toCoord, asked, fd, curBoot, prevBoot, epoch, reqs, job,
                   history>>

DriverGone ==
    /\ pc = "select" /\ toCoord[fd["driver"]] = <<>> /\ proc[fd["driver"]] = "dead"
    /\ pc' = "drain" /\ fd' = [fd EXCEPT !["driver"] = None]
    /\ UNCHANGED <<peerVars, toPeer, toCoord, asked, curBoot, prevBoot, epoch, reqs, job,
                   history>>
-----------------------------------------------------------------------------
(* The coordinator: commands.  *)

\* validate_authority: the reason a result is refused, "" if it is not.
ValidateAuthority(r, e, b, attempt, base, propGen, current) ==
    IF e # r.epoch THEN "stale_epoch"
    ELSE IF b # current THEN "stale_worker_boot"
    ELSE IF attempt # r.attempt THEN "stale_attempt"
    ELSE IF base # r.authGen THEN "wrong_base_generation"
    ELSE IF propGen # r.propGen THEN "stale_generation"
    ELSE ""

Verdict(rej) == IF rej = "" THEN [type |-> "Info", body |-> "no_rejection"]
                ELSE [type |-> "Reject", body |-> rej]

\* The driver has sent a command of this type; it is read off the socket.
Receives(type) ==
    /\ pc = "select"
    /\ toCoord[fd["driver"]] # <<>> /\ Head(toCoord[fd["driver"]]).type = type
    /\ toCoord' = Taken(toCoord, fd["driver"])

Command == Head(toCoord[fd["driver"]])

\* Mutant: a handler that falls through to another reply.
AnswersTwice(n, m) ==
    toPeer' = Put(Put(toPeer, fd["driver"], [n |-> n, reply |-> m]), fd["driver"],
                  [n |-> n, reply |-> m])

\* The reply to command n.
Answers(n, m) == toPeer' = Put(toPeer, fd["driver"], [n |-> n, reply |-> m])
FirstReq == reqs[Min(DOMAIN reqs)]        \* requests.begin()->second

HandleSubmit ==
    /\ Receives("Submit")
    /\ reqs' = [r \in DOMAIN reqs \cup {Command.req} |->
                  IF r = Command.req THEN Fresh(epoch) ELSE reqs[r]]
    /\ job' = Job(Command.n, Command.req, Command.depth, Command.branches)
    /\ pc' = "propose"
    /\ UNCHANGED <<peerVars, toPeer, asked, fd, curBoot, prevBoot, epoch, history>>

\* A proposal result sent by the driver is judged, never used.
HandleReplay ==
    /\ Receives("Replay")
    /\ LET m == Command.result IN
       IF DOMAIN reqs = {} THEN Answers(Command.n, [type |-> "Info", body |-> "no_request"])
       ELSE Answers(Command.n, Verdict(ValidateAuthority(FirstReq, m.epoch, m.boot, m.attempt, m.base,
                                              m.propGen, curBoot["proposer"])))
    /\ pc' = "drain"
    /\ UNCHANGED <<peerVars, asked, fd, curBoot, prevBoot, epoch, reqs, job, history>>

\* "stale:<kind>": the current authority with one field spoilt.  Nothing is
\* answered when no request is known.
HandleProbe ==
    /\ Receives("Probe")
    /\ IF DOMAIN reqs = {} THEN UNCHANGED toPeer
       ELSE LET k == Command.kind
                r == FirstReq
                b == curBoot["proposer"]
            IN Answers(Command.n, Verdict(ValidateAuthority(r,
                 IF k = "epoch" THEN r.epoch - 1 ELSE r.epoch,
                 IF k = "boot" THEN b + 9999 ELSE IF k = "prevBoot" THEN prevBoot ELSE b,
                 IF k = "attempt" THEN r.attempt + 7 ELSE r.attempt,
                 IF k = "base" THEN r.authGen + 5 ELSE r.authGen,
                 IF k = "generation" THEN r.propGen + 1 ELSE r.propGen, b)))
    /\ pc' = "drain"
    /\ UNCHANGED <<peerVars, asked, fd, curBoot, prevBoot, epoch, reqs, job, history>>

HandleRollEpoch ==
    /\ Receives("RollEpoch")
    /\ epoch' = epoch + 1
    /\ Answers(Command.n, [type |-> "Info", body |-> "ok epoch"])
    /\ pc' = "drain"
    /\ UNCHANGED <<peerVars, asked, fd, curBoot, prevBoot, reqs, job, history>>

HandleStatus ==
    /\ Receives("Status")
    /\ Answers(Command.n, [type |-> "Info", body |-> "status"])
    /\ pc' = "drain"
    /\ UNCHANGED <<peerVars, asked, fd, curBoot, prevBoot, epoch, reqs, job, history>>

HandleShutdown ==
    /\ Receives("Shutdown")
    /\ pc' = "ended"
    /\ UNCHANGED <<peerVars, toPeer, asked, fd, curBoot, prevBoot, epoch, reqs, job,
                   history>>
-----------------------------------------------------------------------------
(* The coordinator: drive_cycle, one branch after the other.  *)

Rejects(reason) == Answers(job.command, [type |-> "Reject", body |-> reason]) /\ pc' = "drain" /\ job' = NoJob

\* The request of the cycle with another proposal generation and this epoch.
Dispatched(r) ==
    CReq(epoch, r.attempt, r.authGen, r.stateGen, r.committed, r.propGen + 1)

\* Mutant: the dispatch is built before the proposal generation advances.
ProposalDispatchEarly(r) ==
    [req |-> job.req, attempt |-> r.attempt, epoch |-> r.epoch, base |-> r.authGen,
     boot |-> curBoot["proposer"], propGen |-> r.propGen - 1, depth |-> job.depth]

ProposalDispatch(r) ==
    [req |-> job.req, attempt |-> r.attempt, epoch |-> r.epoch, base |-> r.authGen,
     boot |-> curBoot["proposer"], propGen |-> r.propGen, depth |-> job.depth]

\* A send to a dead peer fails, or is buffered and the receive after it fails.
SendProposal ==
    /\ pc = "propose"
    /\ LET r == Dispatched(reqs[job.req]) IN
       /\ reqs' = [reqs EXCEPT ![job.req] = r]
       /\ \/ /\ toPeer' = Put(toPeer, fd["proposer"], ProposalDispatch(r))
             /\ pc' = "proposing" /\ job' = job
          \/ proc[fd["proposer"]] = "dead" /\ Rejects("proposer send failed")
    /\ UNCHANGED <<peerVars, toCoord, asked, fd, curBoot, prevBoot, epoch, history>>

\* Mutant: a peer that died without answering is never noticed.
HungUpNever(p) == FALSE

\* recv_frame fails: the peer died and left nothing on the wire.
HungUp(p) == proc[p] = "dead" /\ toCoord[p] = <<>>

\* Mutant: the frame stays in the socket after it is read.
ConsumedLeft(p) == toCoord

Consumed(p) == Taken(toCoord, p)

\* drive_cycle up to the dispatch to the verifier.  "proposer decode failed" and,
\* below, "verifier decode failed" are left out: a worker sends encodings only,
\* and at these depths all of them are within the decoder's limits.
RecvProposal ==
    /\ pc = "proposing"
    /\ LET p == fd["proposer"]
           m == Head(toCoord[p])
           r == reqs[job.req]
           rej == ValidateAuthority(r, m.epoch, m.boot, m.attempt, m.base, m.propGen,
                                    curBoot["proposer"])
       IN \/ HungUp(p) /\ Rejects("proposer recv failed") /\ UNCHANGED toCoord
          \/ /\ toCoord[p] # <<>> /\ toCoord' = Consumed(p)
             /\ \/ rej # "" /\ Rejects("stale")
                \/ rej = "" /\ m.outcome # "success" /\ Rejects("proposal non-success")
                \/ /\ rej = "" /\ m.outcome = "success"
                   /\ pc' = "verify" /\ UNCHANGED toPeer
                   /\ job' = [job EXCEPT !.draft = m]
    /\ UNCHANGED <<peerVars, asked, fd, curBoot, prevBoot, epoch, reqs, history>>

VerificationDispatch(r) ==
    [req |-> job.req, attempt |-> r.attempt, epoch |-> r.epoch, base |-> r.authGen,
     depth |-> job.depth]

SendVerification ==
    /\ pc = "verify"
    /\ \/ /\ toPeer' = Put(toPeer, fd["verifier"], VerificationDispatch(reqs[job.req]))
          /\ pc' = "verifying" /\ job' = job
       \/ proc[fd["verifier"]] = "dead" /\ Rejects("verifier send failed")
    /\ UNCHANGED <<peerVars, toCoord, asked, fd, curBoot, prevBoot, epoch, reqs, history>>

\* Br.  The verifier's boot and the proposal generation are compared with
\* themselves, so only the epoch, attempt and base of the answer are checked.
RecvVerification ==
    /\ pc = "verifying"
    /\ LET p == fd["verifier"]
           m == Head(toCoord[p])
           r == reqs[job.req]
           b == curBoot["verifier"]
           rej == ValidateAuthority(r, m.epoch, b, m.attempt, m.base, r.propGen, b)
           brs == Append(job.brs, [branch |-> Len(job.brs) + 1, gen |-> job.draft.propGen,
                                   accepted |-> m.accepted, epoch |-> job.draft.epoch,
                                   proposer |-> job.draft.from, verifier |-> m.from])
       IN \/ HungUp(p) /\ Rejects("verifier recv failed") /\ UNCHANGED toCoord
          \/ /\ toCoord[p] # <<>> /\ toCoord' = Consumed(p)
             /\ \/ rej # "" /\ Rejects("stale")
                \/ /\ rej = ""
                   /\ pc' = IF Len(brs) = job.branches THEN "settle" ELSE "propose"
                   /\ job' = [job EXCEPT !.draft = None, !.brs = brs]
                   /\ UNCHANGED toPeer
    /\ UNCHANGED <<peerVars, asked, fd, curBoot, prevBoot, epoch, reqs, history>>

\* Mutant: every branch that accepted something commits it.
CommittedOfAll(brs) ==
    LET all[n \in 0..Len(brs)] ==
          IF n = 0 THEN <<>> ELSE all[n - 1] \o [k \in 1..brs[n].accepted |-> brs[n].gen]
    IN all[Len(brs)]

\* The most accepted branch, the first of equals, commits what it had accepted.
CommittedOf(brs) ==
    LET w == Min({i \in 1..Len(brs) : \A j \in 1..Len(brs) : brs[j].accepted <= brs[i].accepted})
    IN [k \in 1..brs[w].accepted |-> brs[w].gen]

Settle ==
    /\ pc = "settle"
    /\ LET r == reqs[job.req]
           adv == Max({job.brs[i].accepted : i \in 1..Len(job.brs)})
           new == CReq(r.epoch, r.attempt, r.authGen + adv, r.stateGen + adv,
                       r.committed \o CommittedOf(job.brs), r.propGen)
       IN /\ reqs' = [reqs EXCEPT ![job.req] = new]
          /\ Answers(job.command, [type |-> "Commit", count |-> Len(new.committed)])
    /\ pc' = "drain" /\ job' = NoJob
    /\ UNCHANGED <<peerVars, toCoord, asked, fd, curBoot, prevBoot, epoch, history>>

Coordinator ==
    \/ AcceptAtStartup \/ AcceptPeer \/ Select \/ SelectTimeout \/ DriverGone
    \/ HandleSubmit \/ HandleReplay \/ HandleProbe \/ HandleRollEpoch \/ HandleStatus
    \/ HandleShutdown
    \/ SendProposal \/ RecvProposal \/ SendVerification \/ RecvVerification \/ Settle

Next ==
    \/ Coordinator
    \/ \E p \in Peers : Connect(p) \/ Greet(p) \/ Kill(p) \/ Exit(p)
    \/ \E p \in Workers : Propose(p) \/ Verify(p)
    \/ \E d \in Drivers : Ask(d) \/ ReadReply(d) \/ GiveUp(d)

\* The coordinator's thread and a worker with a frame to serve keep running, and
\* a process that connected says Hello; nothing makes one start, die, ask or
\* lose patience.
Fairness ==
    /\ WF_vars(Coordinator)
    /\ \A p \in Peers : WF_vars(Greet(p))
    /\ \A p \in Workers : WF_vars(Propose(p) \/ Verify(p))

Spec == Init /\ [][Next]_vars /\ Fairness
-----------------------------------------------------------------------------
(* Properties.  *)

\* The type invariant: every process, frame and coordinator variable has the
\* shape its declaration gives it, and once started the coordinator always
\* has a socket for both worker roles.
TypeOK ==
    /\ proc \in [Peers -> {"new", "running", "closed", "dead"}]
    /\ boot \in [Peers -> Boots \cup {0}] /\ hello \in [Peers -> BOOLEAN]
    /\ backlog \in Seq(Peers)
    /\ \A role \in Roles : fd[role] \in {None} \cup {p \in Peers : Role(p) = role}
    /\ pc \in {"startup", "drain", "select", "propose", "proposing", "verify",
               "verifying", "settle", "ended"}
    /\ pc \notin {"startup", "ended"} => fd["proposer"] # None /\ fd["verifier"] # None
    /\ epoch \in Nat \ {0}
    /\ DOMAIN reqs \subseteq ReqIds
    /\ Len(job.brs) <= job.branches

\* What the driver is told and what a request holds agree: the generation and
\* the state generation of a request count its committed tokens, and all of
\* those come from one branch of its last cycle (the winner drive_cycle picks).
GenerationsAgree ==
    \A r \in DOMAIN reqs :
        LET q == reqs[r] IN
        /\ q.authGen = Len(q.committed) /\ q.stateGen = q.authGen
        /\ \A i \in 1..Len(q.committed) :
              q.committed[i] = q.committed[1] /\ q.committed[i] \in 1..q.propGen

\* Everything drive_cycle is about to commit was drafted and verified, under
\* the present epoch, by the workers connected now, however often workers died
\* and came back: no branch of an earlier incarnation survives into a
\* settlement.
EvidenceIsCurrent ==
    pc \in {"propose", "proposing", "verify", "verifying", "settle"} =>
        /\ \A i \in 1..Len(job.brs) :
              /\ job.brs[i].proposer = fd["proposer"]
              /\ job.brs[i].verifier = fd["verifier"]
              /\ job.brs[i].epoch = epoch /\ job.brs[i].gen = i
        /\ job.draft # None => job.draft.from = fd["proposer"]

\* Between commands no worker has a frame in flight, so that the answer
\* drive_cycle reads next is the answer to what it sends next; the exchange
\* has no correlation id that would catch a late one.
QuietBetweenCycles ==
    pc \in {"drain", "select"} =>
        \A w \in Workers : toCoord[w] = <<>> /\ toPeer[w] = <<>>

\* validate_authority never refuses the answer to a dispatch of the running
\* cycle, whatever restarts surround it: its refusals are for replays only.
LiveResultsAreCurrent ==
    \A d \in Drivers : \A i \in 1..Len(toPeer[d]) :
        toPeer[d][i].reply # [type |-> "Reject", body |-> "stale"]

\* A driver that never lost patience reads the reply to the command it waits on,
\* and none is left over for the next one; one that did may read the late reply
\* to an earlier command in its place, never one it had read already.
RepliesInStep ==
    \A d \in Drivers : toPeer[d] # <<>> =>
        /\ gaveUp[d] \/ (asked[d] # NoCommand /\ toPeer[d][1].n = asked[d].n)
        /\ \A i \in 1..(Len(toPeer[d]) - 1) : toPeer[d][i].n < toPeer[d][i + 1].n

\* The command the driver waits on is one the coordinator answers.
Answerable(d) ==
    /\ fd["driver"] = d /\ asked[d] # NoCommand /\ pc \notin {"startup", "ended"}
    /\ asked[d].type = "Probe" => DOMAIN reqs # {}

\* A command sent on an accepted connection is answered, whichever workers die
\* in the meantime and whatever connection waits to be accepted, unless the
\* coordinator is told to shut down or the driver itself goes away.
CommandAnswered ==
    \A d \in Drivers :
        Answerable(d) ~>
            \/ asked[d] = NoCommand \/ pc = "ended" \/ proc[d] # "running"
            \/ \E i \in 1..Len(toPeer[d]) : toPeer[d][i].n = asked[d].n
=============================================================================
