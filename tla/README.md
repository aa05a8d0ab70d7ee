# Speculation Fabric: TLA+ models, checks and proofs

Speculation Fabric runs *speculative decoding*: a cheap proposer drafts several
tokens ahead, a verifier says how many of them are right, and the engine
appends exactly those to the authoritative sequence of a request. This
directory holds TLA+ models of that engine and of the parts around it, TLC
configurations that check them, and TLAPS proofs of every safety property the
passing runs check.
`PROJECT.json` lists every run, property, mutant, source mapping, finding,
hazard and theorem. Paths below are relative to the repository.

## 1. Inventory

| Component | State it keeps | Operations | Hard about it |
|---|---|---|---|
| Engine, `src/core/fabric.cpp` | per request: attempt, epoch, authoritative generation, state generation, committed tokens, branches, proposals, phase, cancelled/terminal; engine-wide counters; one mutex | submit, cancel, complete, rollback, retry, roll_epoch, run_cycle | run_cycle takes the mutex 2 + 2 * branches times and runs executors in between; everything else may happen there |
| State machine, `src/core/lifecycle.cpp`, `core/lifecycle.hpp` | the phase of a cycle | apply(event, guard) | a table of 68 rows; the engine discards every result of apply |
| Scheduler and adaptive depth, `fabric.cpp:36-102`, `src/core/policy.cpp` | acceptance history | plan_proposal, check_backpressure, record | shared by all requests; plans and records of overlapping cycles interleave |
| CPU executors, `src/core/cpu_proposer.cpp`, `cpu_verifier.cpp` | none | propose, verify | proposer and verifier walk one model along different tokens |
| CUDA executors, `src/cuda/cuda_executor.cu` | device buffers, shared memory, the CUDA runtime's last error | propose, verify, two kernels | a block of threads around three barriers; operations fail; the error state outlives the call |
| Coordinator, workers, driver, `tools/sf_*.cpp` | sockets, boot ids, epoch, requests | connect, Hello, accept, submit, replay, probe, roll epoch, status, shutdown; propose, verify | processes die and restart; blocking single-threaded exchange without correlation ids; the driver's receive times out |
| Persistence, `src/core/persistence.cpp` | a file | serialize, deserialize, save, load | crashes in a save, short writes, damaged files |
| Wire protocol and framing, `src/core/wire.cpp`, `tools/sockutil.h` | none | encode, decode, send_frame, recv_frame | frames cut anywhere, a peer dying inside one, lengths chosen by the peer; errors dereferenced by callers |
| Compatibility, `src/core/compat.cpp` | none | evaluate_compatibility | which unset or differing identity fields admit a pair |
| CLI, value types, clock | - | - | printing, data |

Interactions: callers' threads call the engine; the engine calls the scheduler
(under the mutex) and the executors (outside it) and drives the state machine.
The distributed programs do not use the engine: `sf_coordinator` repeats its
cycle (`drive_cycle`) over TCP with the executors in worker processes. Nothing
calls the persistence layer from inside the engine; an application does.

What makes each part correct:

* engine: the sequence only grows at its end, by tokens verified for that
  position; generations count them; nothing is committed after cancel or
  complete; records of overlapping cycles stay consistent; work on a closed request ends;
* state machine: nothing accepted unverified, committed twice, or left of Terminal;
* adaptive depth: history bounded, depth follows acceptance and recovers;
* executors: the draft diverges exactly where its alignment ends; the device
  computes what the CPU computes, in every schedule of its threads, and an
  error never turns into an answer;
* compatibility: nothing is drafted for two models that read tokens differently;
* wire: messages arrive whole and in order, and only encodings are accepted;
* coordinator: only current workers' evidence is committed, no left-over frame
  is taken for a later answer, every command is answered, once;
* persistence: what is recovered was saved whole, what was acknowledged is
  recoverable.

## 2. Modules

| Module | Models | Extends / uses |
|---|---|---|
| `LifecycleTable` | the transition table and `apply` as operators | |
| `Lifecycle` | one machine under arbitrary events and guards | LifecycleTable |
| `SpeculationFabric` | the engine | LifecycleTable |
| `AuthoritativeSequence` | what the engine promises: register, extend, close | |
| `FabricProperties` | the engine's properties, the refinement mapping, two claims of the documentation, the proofs' strengthenings | SpeculationFabric, instance of AuthoritativeSequence |
| `Compat` | evaluate_compatibility as an operator | |
| `FabricPairs` | the engine and the model pairs of its requests: admission by evaluate_compatibility | FabricProperties, Compat |
| `MCFabric` | the engine for TLC: requests with eight model pairs, symmetry | FabricPairs |
| `CpuExecutors` | propose then verify, token by token | |
| `CudaExecutors` | the CUDA executors, host and device, next to the CPU ones | CpuExecutors |
| `AdaptiveDepth` | depth planning and the acceptance history | |
| `Coordinator`, `MCCoordinator` | coordinator, workers, driver and their connections; symmetry | |
| `Wire` | encode, decode, add_frame_prefix as operators | |
| `FramedChannel`, `MCWire` | one direction of a connection, byte by byte; its messages | Wire |
| `ArchiveFormat` | the archive encoder and decoder as operators | |
| `ArchiveStore` | FileStore under crashes | ArchiveFormat |
| `SequenceLemmas` | facts the proofs share: sequences, induction and recursion over an interval, concatenations | |
| `FabricProofs` | the engine: types, history and refinement, cycles in flight, counters, model pairs | FabricPairs, SequenceLemmas |
| `LifecycleProofs` | the state machine | Lifecycle |
| `ExecutorProofs` | kernels, host calls and CPU executors | CudaExecutors, SequenceLemmas |
| `CoordinatorProofs` | the control plane: the invariant, connections, sends and receives, the cycle, the commands | Coordinator, SequenceLemmas |
| `AdaptiveDepthProofs` | the planned depth and the history it follows | AdaptiveDepth, SequenceLemmas |
| `ArchiveProofs` | the archive codec and FileStore | ArchiveStore, SequenceLemmas |
| `WireProofs` | the message codec and a connection | FramedChannel, SequenceLemmas |

Operators called `...Backwards`, `...Unchecked` and the like, commented "Mutant",
are faulty variants of the definition that follows them: replacing it by the
variant must make a property fail. They are used nowhere in the models.

### SpeculationFabric

One variable per field of `RequestState`, indexed by request, `stats` for the
counters, `call` for the locals of the run_cycle each thread is in. One action
per locked section: `StartCycle`/`RefuseCycle` (admission), `ProposeBranch` and
`VerifyBranch` (one lock per branch and executor, the executor's answer chosen in
the same step, since executors touch no engine state), then `FullAccept`,
`PartialAccept`, `RejectAll` or `StaleAuthority` (settlement). Calls that only
return an error or an outcome are stuttering steps. A token is represented by
the generation it was verified from and its position in the candidate, which
is what the properties tell apart. Any thread may run a cycle of any request at
any time, as the engine has it. A candidate missing from a failed proposal is dereferenced by the code; the model
lets it read as empty, or the behaviour stop there.

Not in it: the event log, timings, getters; reservations (never created, so
releasing them does nothing and memory headroom is always 1);
`check_authority` (no caller).

`Compatible` is the set of requests whose pair evaluate_compatibility accepts.
`fabric_concurrent` takes it from `Compat`: each of its requests is named for
what sets its two models apart, and `InterpretablePairsOnly` states from the
identity fields, not from the reasons, what an admitted pair must share.

### Coordinator

Connecting and saying Hello are separate steps; an accept blocks until the
Hello is there or the peer is gone (`Silent`). Connections are sequences of
frames in each direction. Commands and replies carry a number the code does not
have, only to state `RepliesInStep`. `GiveUp` is the driver's receive timeout:
it goes on to its next command and the late reply stays in the socket.

A peer is one incarnation of a process; a restart is another peer, with any
pid not in use. The coordinator's program counter stops where it can block or
observe another process: `AcceptAtStartup`, `AcceptPeer` (a round of
drain_accepts), `Select`, one `Handle...` per command, and the send and receive
halves of both exchanges of drive_cycle. A killed peer may or may not have got
its last frame onto the wire. The driver may send any of its commands in any
order, and may replay any result a worker ever sent.

### Wire, FramedChannel

A byte is a digit of a small base and the protocol's widths and limits are
constants, so that a message at a limit and one beyond it are both small. As in
the code a number is written by shifting it (`Shifted`); those that leave nothing
once all their bytes are shifted out are the numbers of a width (`UInt`). send
and recv move any number of bytes per step. A receiver that fails a frame closes
the connection (coordinator, worker) or goes on with its next receive (driver,
`persistent`); `cut` records that a timeout struck inside a frame, after which
the next frame is looked for in the middle of it. `Foreign` are payloads of a peer
that does not speak this version: bytes that are no message's encoding, which
`ChannelConstants` requires and TLC evaluates.

### ArchiveFormat, ArchiveStore

A blob is a sequence of 32-bit units; a u64 is two of them; a write may end
inside a unit. The checksum is a unit that names its payload, so that distinct
payloads have distinct checksums (CRC-32 misses this with probability 2^-32).
`Register` keeps the number of requests below what a unit can hold, since the
count is written as one (a u32 in the code).

### CpuExecutors, CudaExecutors, AdaptiveDepth

The synthetic model is any function from the tokens stepped through to the next
token, filled in as it is asked. `RecoversAfterWindow` is about an enabled
adaptive depth: without it plan_proposal returns the policy's depth and keeps no
promise about the history. Acceptance ratios are exact fractions; where
the code's rounding of doubles could fall either way both results are allowed.

On the device a hidden-state word is the sequence of tokens hashed into it, or
`Torn` once words of different steps were mixed; a token derived from torn words
may be any token. Threads run the kernel stage by stage and wait at its
barriers. Every host operation may fail; a kernel fault loses the device
(`broken`); `lastError` is what cudaGetLastError would return, which only that
call clears.

## 3. Runs

Passing runs (module, bounds, what they show):

* `fabric_concurrent`: two threads, one registered request out of eight (one per
  model pair), two branches, depth 2, outstanding limit 1; cancel, complete,
  retry, rollback and epoch roll at any point. TypeOK, GenerationTracksLength,
  ProposalsTileSequence, AttemptsInOrder, AtMostOneActiveBranch, CancelledPhase,
  OutstandingBounded, InFlightOnReachedBase, CommitsVerifiedRuns,
  InterpretablePairsOnly, AppendOnly, ClosedNeverCommits. Two overlapping cycles
  are what every interleaving hazard of the engine needs: one reads its bases
  before or after the other settles, both are admitted under a limit of one, and
  the second settles with the other branch as its winner. The limit ends the
  run after them; longer histories are what the proofs are for.
* `fabric_liveness`: two requests, one with a deadline, and two threads under the
  economic gate, overlapping cycles: ClosedRequestQuiesces, RefinesAuthority,
  AcceptedTokensAreCommitted, that the shared counters account for exactly the
  tokens in the sequences, and EconomicGateIsPermanent, that the rejections of
  one request close the gate to all of them for good.
* `lifecycle`: every sequence of events and guards.
* `executors`: both backends, calls without end, vocabulary 3, drafts of up to 2
  tokens, every alignment, both branches, every target model, verified against
  the dispatched or a moved base; a block of three threads, two of whose words
  give a token (the third is one that only mixes), every operation failing at
  any time. Two tokens are two rounds of the loop, which is what a missing
  barrier needs; a draft that fails on the device, the verify that is refused before
  it gets there and the next draft are what a stale error needs.
* `adaptive_depth`: depth up to 4, window 3, two cycles in flight.
* `coordinator`: two proposer incarnations, one verifier, one driver, two pids, two
  commands of any type, two branches, depths 0 and 1. Two incarnations are one restart,
  which is what stale evidence needs; depth 0 is the proposer's failure answer;
  two commands are what a late reply needs.
* `coordinator_liveness`: two drivers, one worker per role, submits; CommandAnswered.
* `archive_store`: one request of up to two tokens with a 64-bit id that needs both
  halves, any number of saves and crashes, one damaged unit.
* `wire`: bytes of base 5, integers of two and four of them, at most one field per
  type and one byte of body, two frames: an empty message, one at every limit,
  one beyond it (not sent), and payloads of another version, of an unknown type,
  with a trailing byte, and empty.

Deadlock checking is off where the bounds, or a shutdown, let the system stop;
`lifecycle` and `adaptive_depth` keep it on.

Three runs each refute one sentence of the documentation or of a comment; the
finding in `PROJECT.json` quotes it:

* `fabric_stale_attempt`: a cycle proposed for an earlier attempt commits after
  retry(), because only terminal and cancelled are looked at before a commit;
* `fabric_stale_base`: of two overlapping cycles the second commits tokens verified
  against a base generation that has moved, for the same reason;
* `cpu_accepted_prefix`: accepted_prefix counts agreement after a rejection.

### What the models keep although it differs from the documentation

These are in the actions as the code has them; no property claims otherwise
and no run is spent on them:

* the base of a recorded proposal is the authoritative state its cycle settled on,
  not the one it consumed (`fabric.cpp:630`; core/proposal.hpp:45,
  docs/proposal_verification.md:15). They differ exactly when another cycle
  settled in between. ProposalsTileSequence is about the base the code records,
  under which the records tile the sequence; with the consumed one those of
  overlapping cycles would overlap (its mutant records it another way: after
  the commit). What was consumed is the subject of InFlightOnReachedBase and
  CommitsVerifiedRuns;
* a branch retired in one cycle may win and commit in a later one
  (`fabric.cpp:668`; docs/architecture.md:42);
* run_cycle never applies ProposalStarted, so the phase it reports is never
  Committed (`fabric.cpp:645`; docs/lifecycle.md:22-24);
* the outstanding-work limit counts settled cycles, so it is never returned, and
  overlapping admissions exceed it by up to one cycle per further thread
  (`fabric.cpp:486`; OutstandingBounded is the bound that holds), a failed
  proposal's missing candidate is dereferenced (`fabric.cpp:564`), a second
  submit of the null id overwrites the first (`fabric.cpp:215`), a proposal's
  epoch is the one of submission (`fabric.cpp:535`; core/proposal.hpp:21);
* five of the six phases is_terminal_phase accepts can be left by EnterTerminal
  (`lifecycle.cpp:113`; core/lifecycle.hpp:81);
* ProposalPolicy::adaptive_window is read by no code (`core/policy.hpp:41`);
* coordinator: a result of an older epoch is accepted for replay until the
  request is driven again (`sf_coordinator.cpp:282`), a resubmitted id starts
  over (`sf_coordinator.cpp:266`), a reused pid is a reused boot id
  (`sf_worker.cpp:40`), a dispatch of no branches would index an empty vector
  (`sf_coordinator.cpp:154`; the driver sends one or more);
* driver: after a receive timeout it reads replies one command behind, and after
  one inside a frame it has lost the frame boundary (`sf_driver.cpp:50`);
* a dispatch of 62 tokens or more is refused by encode and the error Result is
  dereferenced (`sf_coordinator.cpp:105`);
* compatibility is evaluated at every admission; cache_hit is always false
  (`compat.cpp:19`; docs/compatibility.md:26);
* CUDA: the proposer perturbs by its constructor's branch index, not by the
  input's, neither executor checks tokenizer, vocabulary or compute budget, and
  an error left by a draft that returned early fails the next draft's kernel
  check (`cuda_executor.cu:214`): the verify in between is of an empty candidate
  and returns before it looks;
* persistence: save truncates the only copy in place, so a crash inside it loses
  the earlier archive (`persistence.cpp:183`); the encoder does not apply the decoder's limits
  (`persistence.cpp:91`; SavedIsRecoverable says "within the limits"), and
  data after the last declared request is accepted (`persistence.cpp:178`).

Engine properties speak of requests with a non-null id (`Named`). CPU refusals that
have the same effect are one action: over the compute budget (`cpu_proposer.cpp:67`,
a field the engine never sets) like over the depth, and for another vocabulary
size (`cpu_verifier.cpp:64`) like for a missing tokenizer. The coordinator's
"decode failed" answers (`sf_coordinator.cpp:110`, 135) are left out: no worker sends
what the decoder refuses at the depths modelled.

### Fairness

* `FairSpec` (engine): weak fairness of each thread inside run_cycle. The mutex
  is held for finite sections only and executors are assumed to return; nothing
  obliges a caller to call.
* `Spec` of Coordinator: weak fairness of the coordinator's thread, of the Hello
  of a peer that connected (both peer programs send it in the next statement),
  and of a live worker that has a frame to serve. Nothing makes a process start,
  die, ask or time out.
* `Spec` of FramedChannel: sockets between two live processes move bytes, and a
  receiver that has bytes takes them. No fairness for failures or for sending.
* `DeviceSpec`: host code runs on and the device schedules the threads of a
  running block, which CUDA guarantees for threads that are not at a barrier.

## 4. Proofs

Each theorem holds for every value of the constants that satisfies the named
assumptions of the module that declares them; TLC evaluates those assumptions
on every run. All of them concern safety.

### The engine

From `ConstantsAssumption`: the policy's limits are naturals, depth and branch
count positive, the null thread marker is no request.

* `TypeCorrect`: `Spec => []TypeOK /\ []CallShape`. Types alone are not inductive:
  a settlement takes the winner's verdict and subtracts it from the candidate's
  length, so the locals of a call must have the shape of its stage
  (`CallShape`): as many proposals and verdicts as branches, no verdict longer
  than its candidate. `FirstMaximum` shows the winner exists.
* `HistoryCorrect`: `GenerationTracksLength`, `ProposalsTileSequence` and
  `AttemptsInOrder` (`GenerationCorrect` and `AttemptsCorrect` state two of them
  by themselves). The inductive invariant `History` adds that an
  unregistered request has no history (`UnregisteredIsFresh`), without which
  the first submit would inherit records.
* `AppendOnlyCorrect`, `ClosedNeverCommitsCorrect`: action properties.
* `EconomicGateIsPermanentCorrect`: once the ratio is below the threshold with no
  cycle in flight, no step of any thread on any request changes the ratio or
  admits a cycle; needs only the types.
* `Refinement`: `Spec => RefinesAuthority`; each step changes at most one named
  request (`OneAtATime`) and is a Register, Extend, Close or stuttering step of
  `AuthoritativeSequence`.
* `CancelledPhaseCorrect`, `ActiveBranchCorrect`, from the invariant `Marks`. The
  phase is moved by the transition table, whose results the engine discards, so
  `CancelledPhase` needs to know in which phases a cancel or a completion can
  find a request (`PhaseShape`: three of them, as run_cycle never applies
  ProposalStarted).
* `OutstandingCorrect`: the admission limit is exceeded by fewer cycles than there
  are threads, for finite `Threads` (`FiniteThreads`: a process has finitely
  many). The proof counts: a thread that is admitted while the recorded
  proposals are below the limit is not yet among the running ones
  (`RunningSize`), and a settlement exchanges a running cycle for a proposal.
* `InFlightCorrect` and `VerifiedRunsCorrect`, for any number of threads on a request.
  What a cycle read before its executors ran may be old when it settles, so what
  holds is that it was never torn: each base is a generation the request was at
  between two settlements (`Reached`), verified no older than drafted; and each
  settlement commits one verified run, from such a base, behind all others. The
  invariant `Overlap` joins `History` with `InFlight` (a base read is reached and not
  above the present generation) and `VerifiedRuns` (a recorded proposal ends within
  the sequence, so a later settlement leaves its tokens alone). A settlement
  keeps the generation it finds as the base of its record (`ReachedGrows`), which
  is why what was read stays reached.
* `AcceptedCorrect`, from `Accounted` and `History`: a settlement counts as many
  tokens as it adds places to `CommittedTokens`, none of which was there before,
  as the sequence grows at its end. Its hypothesis is that no caller uses the
  null id: submitted again, it starts over while the counter keeps its tokens
  (`fabric.cpp:215`).
* `InterpretableCorrect`: for any requests and model identities, from
  `PairsAssumption` (the admitted requests are those evaluate_compatibility
  accepts) and `SpeculatesIfCompatible`.

Those about the history rest on `AuthorityStep`: whatever the step, a named
request is left alone, registered, or extended by one settlement.

### The state machine

`AcceptanceCorrect`, `CommitCorrect` and `TerminalCorrect` cover the whole table
under any events and guards. `CycleInv` says, for each phase, which events must
have been applied on the way (`Passed`) and which outcomes are still open
(`Outcome`); what the properties say of accepting phases is preserved only
together with what holds of the phases that lead to them.

### The executors

From `ExecutorConstants` and `DeviceConstants` (a vocabulary of two or more,
branches small enough to perturb a token, a non-empty block and some of its words
read for a token), for any number of device threads, any depth, any schedule
and any failure:

* `ReadsOfOneStepCorrect`, from `KernelInv`. The barriers divide a run of the block
  into phases; `Block(s, k, h)` describes stage s of round k begun with the hidden
  state h: each thread has either done its part and waits, or not, or (after the
  last round) has left, and a word is already of the next step exactly if the
  thread that writes it is done. A phase ends only when all threads wait, which
  is the step where the next one begins.
* `MirrorsReferenceCorrect` and `DivergesAtAlignmentCorrect`, from `CallInv`. It follows
  one call through the host code: what the kernel has written so far (`Results`),
  what a kernel that ended without an error left in the buffers (`Answer`), what
  is known of a candidate, and of a verdict on its first positions (`Judged`: the
  verifier's own tokens, which up to the alignment are the draft's). The target
  model only ever gains answers, so what was derived from it stays so.
* `StaleErrorCorrect`, from `ErrorInv`: an error the runtime still holds is of this
  cycle's calls, or of those of the last cycle before it whose draft reached the
  device, and in the latter case this cycle's draft has not read it yet. Calls refused for their
  arguments neither set nor fetch it and are not counted, nor do they end the
  history: a refused draft leaves the error for the next that is not.
* `DeviceTypeCorrect`, from `TypeInv`, which needs the stage of a thread to bound
  its round.

### The control plane

From `PeerRoles` and `CoordinatorConstants` (roles are disjoint; ids, boots and
branch counts positive; depths below 62, from which on the code dereferences a
refused encode), for any number of incarnations of the workers, drivers,
requests, branches and commands: `TypeCorrect`, `GenerationsCorrect`,
`EvidenceCorrect`, `QuietCorrect`, `LiveResultsCorrect`, `RepliesCorrect`. They are
consequences of one invariant, `Inv` (`InvCorrect`), whose parts need each other:

* `Sockets`: a connection is in the backlog or behind one descriptor, and never
  closed there;
* `Channels`, `Exchange`: a worker's connection is empty but for the exchange
  drive_cycle waits on, which carries the live dispatch or one answer to it. It
  needs `Sockets`, so that a restarted worker has a connection of its own, and
  `Cycle`, to know the live dispatch;
* `Cycle`: the locals of drive_cycle at each place it can block, each branch
  recorded from the workers connected now. It needs `Exchange`: the answer it
  records can only be to its own dispatch;
* `Dialogue`: a driver's commands pass through the coordinator in order; if it never
  gave up, the one it waits on is the only one there;
* `GenerationsAgree`, `LiveResultsAreCurrent`: themselves parts of the induction,
  as a settlement adds to generations that agree.

### Adaptive depth

From `DepthConstants` (a positive depth limit and window, ratios held exactly), for
any number of overlapping cycles: `WindowRecovers` and `DepthFollows`, from
`WindowInv`: the history is never longer than the window, holds ratios between 0 and
1, and its last `streak` ones are 1. What is left is arithmetic: a full acceptance
never lowers the average although any ratio may leave the window, and the three
segments of choose_depth, with llround free at a tie, never fall as the average
rises, not even where two segments meet.

### Persistence

From `FormatConstants` and `StoreConstants` (limits and ids fit their words), for any
number of requests, tokens, saves, crashes and faults: `SavedSafe` and
`RecoveredSafe`, from `FileInv` (`FileInvariant`). Its parts: an acknowledged archive
is on disk as serialize_archive wrote it; a file that ends with a checksum ends
with that of an archive handed to save (`FileOK`), which neither a truncation nor
a damaged unit can forge, given that distinct payloads have distinct checksums;
a running save writes the encoding of what is in memory. That
deserialize_archive inverts serialize_archive is proved request by request:
where a request begins is computed by the decoder from the lengths before it, and
equals the length of what the encoder wrote before it.

### Wire protocol and connections

From `WireConstants` and `ChannelConstants` (widths positive, limits that fit a u32,
messages of the message type, foreign payloads that are no encoding):

* `DecodeInvertsEncode`, `DecodeAcceptsEncodings`: the decoder is the encoder's inverse
  in both directions, for any byte, width and limit. Up from numbers (`ValuePut`,
  `PutValue`: shifting out and multiplying up) over runs of fields
  (`ReadFields`, `FieldsRead`) to messages.
* `InOrder`, from `ChannelInv` (`ChannelInvariant`). The property alone says nothing of
  the bytes under way. `InTransit` does: while no frame boundary is lost, the bytes
  from what the receiver holds back to what the sender has not yet handed over
  are the frames of some payloads, the last possibly cut off once the sender is
  gone, and the messages these payloads decode to are what was sent and not yet
  delivered (`Accounts`). Bytes may therefore move in any pieces; a length that
  is complete is that of the first frame, as frames cannot be read in two ways
  (`AccountsLength`, `AccountsPayload`).
* `EncodingsOnly`: needs only that what was received are bytes.

### Induction over data

The library's induction theorems take a predicate as parameter, which the
installed provers cannot instantiate. `IntervalInduction` states induction over
0..n for a set instead, and `IntervalRecursion` that a recursive function on 0..n
exists; both are proved from the least element of a set of naturals. All that is
said above of recursive functions (`SumOf`, `Shifted`, `Value`, FlattenSeq through
`FlattenJoins`) rests on these two.

### Model-checked only

The liveness properties (ClosedRequestQuiesces, CallsReturn,
MessagesArrive, CommandAnswered): fairness and ENABLED are outside what the
installed provers handle. Every invariant and every other action property of a
passing run, and the refinement, is a theorem.

## 5. Not modelled

The command line tool (argument parsing and printing around one engine call at a
time), value types and error names (the fields the engine uses are fields of its
model), the tenant budget (no code reads it), the event log and the getters,
`check_authority` and the reservations (never reached), `extract_frame` (called
by tests only). Archives with a valid checksum that the encoder would not write
are not enumerated. What the program does after undefined behaviour (an error
Result or an empty optional dereferenced, clamp with an empty range) is not
claimed.

## 6. State of the plan

1. The engine with its properties and refinement, the state machine, both kinds
   of executors, adaptive depth, compatibility, coordinator, wire and framing,
   persistence: modelled and checked.
2. The safety properties of all of them: proved for every value of the constants.
3. Open: the liveness properties beyond the instances checked; a composition of
   `Coordinator` with one `FramedChannel` per connection, which would discharge its
   assumption of whole frames from `ChannelInvariant` instead of by argument.
