---------------------------- MODULE CudaExecutors ----------------------------
(***************************************************************************)
(* The two backends the engine can be given: the CPU executors of module   *)
(* CpuExecutors, and CudaProposerExecutor and CudaVerifierExecutor         *)
(* (src/cuda/cuda_executor.cu), which compute the same model on a device   *)
(* with one thread per hidden-state word.  Executors are called again and  *)
(* again; on CUDA a call leaves the runtime's last error behind.           *)
(*                                                                         *)
(* A hidden-state word is a hash of the seed and of the tokens stepped     *)
(* through since: it is represented by that sequence of tokens, and by     *)
(* Torn when it was computed from words or tokens of different steps.  A   *)
(* token derived from torn words may be any token.  The weights, constants *)
(* of both backends, are left out.                                         *)
(*                                                                         *)
(* The CUDA verifier does not look at the tokenizer or the vocabulary, and *)
(* the CUDA proposer perturbs by the branch its constructor was given, not *)
(* by the one it is asked for: `branch' is that number here, and           *)
(* `tokenizer' always holds.                                               *)
(***************************************************************************)
EXTENDS CpuExecutors, FiniteSets

CONSTANTS
    Words,              \* kNW, the number of hidden-state words and of threads
    Taps                \* the words a token is derived from (0, 7 and 13)

ASSUME DeviceConstants ==
    /\ Words \in Nat \ {0}
    /\ Taps \subseteq 0..(Words - 1) /\ Taps # {}

Thread == 0..(Words - 1)
Torn == <<-1>>
Backends == {"cpu", "cuda"}

VARIABLES
    backend,            \* the executors registered with the engine
    host,               \* where the running CUDA call is, "out" if in none
    broken,             \* the device is lost: every operation fails from now on
    lastError,          \* what cudaGetLastError would return is an error
    failed,             \* history: an operation failed, in the last cycle whose draft
                        \* reached the device (now) and in the one before it (before)
    words,              \* the kernel's state[]
    next,               \* its shared next[]
    sprev,              \* its shared sprev
    out,                \* the output buffers of the kernel
    thread              \* the threads of the block

runtime == <<broken, lastError, failed>>
memory == <<words, next, sprev, out>>
deviceVars == <<host, runtime, memory, thread>>
allVars == <<vars, backend, deviceVars>>

\* A thread: the stage of the kernel it is in or, while it waits at a barrier,
\* will go on with; its loop index; the token and the words it has read.
At(stage, waits, i, tok, read) ==
    [stage |-> stage, waits |-> waits, i |-> i, tok |-> tok, read |-> read]
Gone == At("exit", FALSE, 0, 0, <<>>)

\* tokens, perpos, accepted, firstrej
Output(tokens, per, acc, frej) ==
    [tokens |-> tokens, per |-> per, accepted |-> acc, firstRejection |-> frej]

Stages == {"seed", "token", "mix", "copy", "exit"}

\* Type invariant of both backends: every token drafted, followed or compared is
\* a word of the vocabulary, and no thread's loop index passes the draft's end.
DeviceTypeOK ==
    /\ TypeOK
    /\ backend \in Backends
    /\ host \in {"out", "alloc", "copyIn", "launch", "kernel", "check", "copyOut"}
    /\ broken \in BOOLEAN /\ lastError \in BOOLEAN
    /\ failed \in [{"before", "now"} -> BOOLEAN]
    /\ words \in [Thread -> Seq(Vocab) \cup {Torn}] /\ next \in [Thread -> Seq(Vocab) \cup {Torn}]
    /\ sprev \in Vocab
    /\ \A t \in Thread : thread[t].stage \in Stages /\ thread[t].i \in 0..ModelBound

\* Buffers that were just allocated hold anything, and so does shared memory.
Blank == [t \in Thread |-> Torn]
NoOutput == Output(<<>>, <<>>, 0, 0)

DeviceInit ==
    /\ Init
    /\ backend \in Backends /\ (backend = "cuda" => tokenizer)
    /\ host = "out" /\ broken = FALSE /\ lastError = FALSE
    /\ failed = [c \in {"before", "now"} |-> FALSE]
    /\ words = Blank /\ next = Blank /\ sprev = 0 /\ out = NoOutput
    /\ thread = [t \in Thread |-> Gone]
-----------------------------------------------------------------------------
(***************************************************************************)
(* proposeKernel and verifyKernel: the same loop around another thread 0   *)
(***************************************************************************)
Proposing == pc = "propose"
Steps == IF Proposing THEN depth ELSE Len(candidate)
Origin == IF Proposing THEN "dispatched" ELSE base

\* Mutant: the barrier at the end of the loop body left out.
SyncedUntilCopy(t) == {"seed", "token", "mix"}
\* Mutant: the barrier after the token inside the branch of thread 0.
SyncedInBranch(t) == IF t = 0 THEN {"seed", "token", "mix", "copy"} ELSE {"seed", "mix", "copy"}

\* The stages of thread t that end in __syncthreads.
Synced(t) == {"seed", "token", "mix", "copy"}

\* Thread t ends its stage and goes on with `to'.
Ends(t, to, i) ==
    thread' = [thread EXCEPT ![t] = At(to, @.stage \in Synced(t), i, 0, <<>>)]

Runs(t, stage) ==
    host = "kernel" /\ thread[t].stage = stage /\ ~thread[t].waits

\* The first if: thread 0 seeds the state and clears the results.
Seed(t) ==
    /\ Runs(t, "seed")
    /\ IF t = 0
       THEN /\ words' = [u \in Thread |-> <<>>] /\ sprev' = 0
            /\ out' = Output(<<>>, <<>>, 0, Steps)
       ELSE UNCHANGED <<words, sprev, out>>
    /\ Ends(t, "token", 0)
    /\ UNCHANGED <<vars, backend, host, runtime, next>>

\* What thread 0 writes at position i when it expects token e: the draft and
\* the token to follow, or the verdict.
Written(i, e) ==
    IF Proposing
    THEN [out EXCEPT !.tokens = Append(@, DraftToken(i, e))]
    ELSE LET ok == e = candidate[i + 1] IN
         [out EXCEPT !.per = Append(@, ok),
                     !.accepted = IF ok THEN @ + 1 ELSE @,
                     !.firstRejection = IF ~ok /\ @ = Len(candidate) THEN i ELSE @]

\* The token the hidden state is stepped with: the proposer's own, the target's.
Followed(i, e) == IF Proposing THEN DraftToken(i, e) ELSE e

\* The words a token is derived from are those of one step, and sprev is the
\* token of that step.
Coherent(h) ==
    /\ h # Torn /\ \A u \in Taps : words[u] = h
    /\ sprev = IF h = <<>> THEN 0 ELSE h[Len(h)]

\* The second if, of the loop: thread 0 derives the next token.
DeriveToken ==
    LET i == thread[0].i
        h == words[CHOOSE u \in Taps : TRUE]
    IN
    /\ Runs(0, "token") /\ i < Steps
    /\ \E e \in Vocab :
          /\ IF Coherent(h) THEN Expects(Origin, h, e) ELSE UNCHANGED target
          /\ out' = Written(i, e) /\ sprev' = Followed(i, e)
    /\ Ends(0, "mix", i)
    /\ UNCHANGED <<input, pc, proposal, verdict, backend, host, runtime, words, next>>

SkipToken(t) ==
    /\ Runs(t, "token") /\ t # 0 /\ thread[t].i < Steps
    /\ Ends(t, "mix", thread[t].i)
    /\ UNCHANGED <<vars, backend, host, runtime, memory>>

Leave(t) ==
    /\ Runs(t, "token") /\ thread[t].i = Steps
    /\ thread' = [thread EXCEPT ![t] = Gone]
    /\ UNCHANGED <<vars, backend, host, runtime, memory>>

\* The word after a step with token tok from the words read.
Mixed(read, tok) ==
    IF read[1] # Torn /\ \A j \in 1..Len(read) : read[j] = read[1]
      THEN Append(read[1], tok) ELSE Torn

\* One iteration of the inner loop: a thread reads sprev, then word by word the
\* state the other threads are about to replace, and keeps the sum in next[t].
Mix(t) ==
    LET read == Append(thread[t].read, words[Len(thread[t].read)])
        tok  == IF thread[t].read = <<>> THEN sprev ELSE thread[t].tok
    IN
    /\ Runs(t, "mix")
    /\ IF Len(read) < Words
       THEN /\ thread' = [thread EXCEPT ![t] = At("mix", FALSE, @.i, tok, read)]
            /\ UNCHANGED next
       ELSE /\ next' = [next EXCEPT ![t] = Mixed(read, tok)]
            /\ Ends(t, "copy", thread[t].i)
    /\ UNCHANGED <<vars, backend, host, runtime, words, sprev, out>>

\* state[t] = next[t]
Copy(t) ==
    /\ Runs(t, "copy")
    /\ words' = [words EXCEPT ![t] = next[t]]
    /\ Ends(t, "token", thread[t].i + 1)
    /\ UNCHANGED <<vars, backend, host, runtime, next, sprev, out>>

\* __syncthreads: nobody passes before everybody has come.
Barrier ==
    /\ host = "kernel" /\ \A t \in Thread : thread[t].waits
    /\ thread' = [t \in Thread |-> [thread[t] EXCEPT !.waits = FALSE]]
    /\ UNCHANGED <<vars, backend, host, runtime, memory>>

Kernel ==
    \/ DeriveToken \/ Barrier
    \/ \E t \in Thread : Seed(t) \/ SkipToken(t) \/ Leave(t) \/ Mix(t) \/ Copy(t)
-----------------------------------------------------------------------------
(***************************************************************************)
(* The host side of propose and verify                                     *)
(***************************************************************************)
cpuKept == <<input, target, proposal, verdict>>
InCall == backend = "cuda" /\ pc \in {"propose", "verify"}

Freed == words' = Blank /\ next' = Blank /\ sprev' = 0 /\ out' = NoOutput

\* The call returns a result without a candidate, or VerifierFailure.  The
\* DevBuf destructors free what was allocated on this and every other return.
GivesUp ==
    /\ host' = "out" /\ Freed
    /\ IF Proposing
       THEN pc' = "verify" /\ UNCHANGED outcome
       ELSE pc' = "done" /\ outcome' = "VerifierFailure"
    /\ UNCHANGED <<input, target, proposal, truth, perPosition, acceptedPrefix, firstRejection>>

\* An operation of the runtime at stage `at': it succeeds and the call goes on,
\* or it fails, leaves its error behind, and the call gives up.
Operation(at, to) ==
    /\ InCall /\ host = at
    /\ \/ /\ ~broken
          /\ host' = to
          /\ UNCHANGED <<vars, runtime, memory>>
       \/ /\ GivesUp
          /\ lastError' = TRUE /\ failed' = [failed EXCEPT !["now"] = TRUE]
          /\ UNCHANGED broken
    /\ UNCHANGED <<backend, thread>>

\* The checks of the arguments come before any operation: a call they refuse
\* neither sees an error left behind nor clears it.  The engine makes such a call
\* after every failed propose, to verify the candidate that is missing.
RejectInput ==
    /\ InCall /\ host = "out"
    /\ IF Proposing THEN ~Draftable ELSE candidate = <<>>
    /\ GivesUp
    /\ UNCHANGED <<backend, runtime, thread>>

\* cudaSetDevice: the first operation of a call.  That of a draft is where the
\* history turns to a new cycle.
SelectDevice ==
    /\ InCall /\ host = "out"
    /\ IF Proposing THEN Draftable ELSE candidate # <<>>
    /\ \/ ~broken /\ host' = "alloc" /\ UNCHANGED <<vars, lastError, memory>>
       \/ GivesUp /\ lastError' = TRUE
    /\ failed' = IF Proposing THEN [before |-> failed["now"], now |-> host' = "out"]
                 ELSE [failed EXCEPT !["now"] = @ \/ host' = "out"]
    /\ UNCHANGED <<backend, broken, thread>>

\* The buffers, all of them, are allocated before the first is looked at.
Allocate == Operation("alloc", "copyIn")
CopyToDevice == Operation("copyIn", "launch")

\* The launch itself reports nothing: its error is found by cudaGetLastError.
Launch ==
    /\ InCall /\ host = "launch"
    /\ \/ /\ ~broken
          /\ host' = "kernel"
          /\ thread' = [t \in Thread |-> At("seed", FALSE, 0, 0, <<>>)]
          /\ UNCHANGED <<lastError, failed>>
       \/ /\ host' = "check"
          /\ lastError' = TRUE /\ failed' = [failed EXCEPT !["now"] = TRUE]
          /\ UNCHANGED thread
    /\ UNCHANGED <<vars, backend, broken, memory>>

\* A fault on the device kills the kernel; the error stays for good.
Fault ==
    /\ host = "kernel"
    /\ broken' = TRUE /\ failed' = [failed EXCEPT !["now"] = TRUE]
    /\ thread' = [t \in Thread |-> Gone]
    /\ UNCHANGED <<vars, backend, host, lastError, memory>>

\* resync: the host waits for the end of the kernel; the result is discarded.
Synchronize ==
    /\ host = "kernel" /\ \A t \in Thread : thread[t].stage = "exit"
    /\ host' = "check"
    /\ UNCHANGED <<vars, backend, runtime, memory, thread>>

\* Mutant: cudaPeekAtLastError, which does not reset the error.
LastErrorAfterPeek == lastError
\* cudaGetLastError resets the error it returns, unless the device is lost.
LastErrorAfterGet == FALSE

\* Mutant: the error is fetched and not looked at.
ErrorSeenNever == FALSE
ErrorSeen == lastError \/ broken

CheckKernel ==
    /\ InCall /\ host = "check"
    /\ lastError' = LastErrorAfterGet
    /\ IF ErrorSeen THEN GivesUp ELSE host' = "copyOut" /\ UNCHANGED <<vars, memory>>
    /\ UNCHANGED <<backend, broken, failed, thread>>

\* The results are copied back and become the candidate or the verdict.
CopyFromDevice ==
    /\ ~broken /\ host' = "out" /\ Freed
    /\ IF Proposing
       THEN /\ candidate' = out.tokens /\ has' = TRUE
            /\ pc' = "verify"
            /\ UNCHANGED <<perPosition, acceptedPrefix, firstRejection, outcome>>
       ELSE /\ perPosition' = out.per /\ acceptedPrefix' = out.accepted
            /\ firstRejection' = out.firstRejection
            /\ outcome' = Classify(out.accepted, Len(candidate))
            /\ pc' = "done"
            /\ UNCHANGED proposal
    /\ UNCHANGED <<input, target, truth, lastError, failed>>

CopyBack ==
    /\ InCall /\ host = "copyOut"
    /\ \/ CopyFromDevice
       \/ /\ GivesUp
          /\ lastError' = TRUE /\ failed' = [failed EXCEPT !["now"] = TRUE]
    /\ UNCHANGED <<backend, broken, thread>>

Host ==
    \/ RejectInput \/ SelectDevice \/ Allocate \/ CopyToDevice \/ Launch
    \/ Synchronize \/ CheckKernel \/ CopyBack

CpuStep ==
    /\ backend = "cpu" /\ Next
    /\ UNCHANGED <<backend, deviceVars>>

\* The same executors are asked for another proposal, and its verification.
NextInput ==
    /\ pc = "done"
    /\ depth' \in 0..MaxDepth /\ aligned' = aligned
    /\ branch' \in IF backend = "cpu" THEN Branches ELSE {branch}
    /\ tokenizer' \in (IF backend = "cpu" THEN BOOLEAN ELSE {TRUE}) /\ base' \in Bases
    /\ target' = <<>> /\ pc' = "propose" /\ has' = FALSE
    /\ candidate' = <<>> /\ truth' = <<>> /\ perPosition' = <<>>
    /\ acceptedPrefix' = 0 /\ firstRejection' = 0 /\ outcome' = "RejectAll"
    /\ UNCHANGED <<backend, deviceVars>>

DeviceNext == CpuStep \/ Kernel \/ Fault \/ Host \/ NextInput

\* Host code runs on, and the device schedules every thread of a block.
DeviceSpec ==
    /\ DeviceInit /\ [][DeviceNext]_allVars
    /\ WF_allVars(CpuStep) /\ WF_allVars(Kernel) /\ WF_allVars(Host)
-----------------------------------------------------------------------------
(***************************************************************************)
(* Properties                                                              *)
(***************************************************************************)

\* No thread ever works on words of two steps: thread 0 derives a token from
\* words and a previous token of one step, and no word was ever mixed from
\* several.  The barriers of the loop body separate every read of state[] and
\* sprev from the writes of the step before and after, in any order of threads.
ReadsOfOneStep ==
    host = "kernel" /\ ~broken /\ thread[0].stage # "seed" =>
        /\ \A t \in Thread : words[t] # Torn
        /\ Runs(0, "token") => \A u \in Taps : Coherent(words[u])

\* x is the draft a proposer of this alignment makes: the target's own token
\* after each of its prefixes, perturbed from the alignment on.
Drafted(x) ==
    \A i \in 1..Len(x) :
        LET h == <<"dispatched", SubSeq(x, 1, i - 1)>> IN
        h \in DOMAIN target /\ x[i] = DraftToken(i - 1, target[h])

\* x is what the target itself produces from the authority the verifier was given.
Produced(x) ==
    \A i \in 1..Len(x) :
        LET h == <<base, SubSeq(x, 1, i - 1)>> IN
        h \in DOMAIN target /\ x[i] = target[h]

\* per compares the candidate with the target's own x, position by position, and
\* acc counts the positions that agree.
Compared(x, per, acc) ==
    /\ Produced(x) /\ Len(per) = Len(x)
    /\ \A i \in 1..Len(x) : per[i] <=> candidate[i] = x[i]
    /\ acc = Cardinality({i \in 1..Len(x) : per[i]})

\* Whichever backend answered, and whatever failed in calls before: a candidate
\* that is returned has the depth asked for and is the target's sequence up to
\* the alignment and perturbed after it, and a verdict compares it position by
\* position with the target's own sequence (cuda_executor.cu:6-8 "mirror the
\* deterministic CPU synthetic model exactly").
MirrorsReference ==
    /\ has => Len(candidate) = depth /\ Drafted(candidate)
    /\ Verified => has /\ \E x \in [1..depth -> Vocab] : Compared(x, perPosition, acceptedPrefix)

\* An error left behind fails at most one more draft, however many calls are
\* refused for their arguments before it: a draft that has reached the device
\* returns with no error in the runtime but one of its own cycle.  Only while it
\* runs may the error that cudaGetLastError will find be of the cycle before
\* (cuda_executor.cu:214, 321).
StaleErrorIsOfLastDraft ==
    lastError =>
        \/ failed["now"]
        \/ failed["before"] /\ Proposing /\ host # "out"

\* Every call of an executor returns, the barriers in its kernel included.
CallsReturn == pc # "done" ~> pc = "done"
=============================================================================
