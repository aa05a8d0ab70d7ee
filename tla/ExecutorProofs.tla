---------------------------- MODULE ExecutorProofs ----------------------------
(***************************************************************************)
(* The executors, proved for any number of device threads, vocabulary,     *)
(* depth and alignment, and for any schedule and failure.                  *)
(*                                                                         *)
(* The kernels: the barriers divide a run of the block into phases, one    *)
(* for each stage of each round.  Block says what a phase is: who has      *)
(* done its part and waits, who has not, and which words are already those *)
(* of the next step.  That no torn word is read follows from it.           *)
(***************************************************************************)
EXTENDS CudaExecutors, SequenceLemmas, FiniteSetTheorems

\* The stage after the next barrier, and the round it belongs to.
Succ(s) == IF s = "seed" THEN "token" ELSE IF s = "token" THEN "mix"
           ELSE IF s = "mix" THEN "copy" ELSE "token"
Round(s, k) == IF s = "copy" THEN k + 1 ELSE k
\* The hidden state it begins with.
Begun(s, h) == IF s = "copy" THEN Append(h, sprev) ELSE h

\* The token the hidden state h was stepped with last.
LastToken(h) == IF h = <<>> THEN 0 ELSE h[Len(h)]

\* Thread t has done its part of stage s of round k, and waits.
Done(t, s, k) == thread[t] = At(Succ(s), TRUE, Round(s, k), 0, <<>>)

\* It has not, or is in the middle of it: it has read some of the words.
Todo(t, s, k, h) ==
    /\ thread[t].stage = s /\ ~thread[t].waits /\ thread[t].i = k
    /\ \/ thread[t].read = <<>>
       \/ /\ s = "mix" /\ thread[t].tok = sprev
          /\ thread[t].read \in Seq({h}) /\ Len(thread[t].read) < Words

\* Where the threads are in stage s of round k.
Threads(s, k, h) ==
    \A t \in Thread : Done(t, s, k) \/ Todo(t, s, k, h) \/ (s = "token" /\ thread[t] = Gone)

\* What the block computes on in stage s of a round that began with state h.
Memory(s, k, h) ==
    /\ s = "seed" => h = <<>> /\ k = 0
                     /\ (Done(0, s, k) => sprev = 0 /\ \A u \in Thread : words[u] = <<>>)
    /\ s = "token" => /\ \A u \in Thread : words[u] = h
                      /\ Done(0, s, k) \/ sprev = LastToken(h)
    /\ s = "mix" => \A u \in Thread :
          words[u] = h /\ (Done(u, s, k) => next[u] = Append(h, sprev))
    /\ s = "copy" => \A u \in Thread :
          next[u] = Append(h, sprev) /\ words[u] = IF Done(u, s, k) THEN Append(h, sprev) ELSE h

\* A phase of the block: stage s of round k, begun with the hidden state h.
Block(s, k, h) ==
    /\ s \in {"seed", "token", "mix", "copy"} /\ k \in Nat /\ h \in Seq(Vocab)
    /\ s # "seed" => sprev \in Vocab
    /\ Threads(s, k, h)
    /\ Memory(s, k, h)

\* f has one value for each thread of the block.
PerThread(f) == f = [t \in Thread |-> f[t]]

\* The inductive invariant of the kernels.
KernelInv ==
    /\ branch \in Branches
    /\ PerThread(words) /\ PerThread(next) /\ PerThread(thread)
    /\ host = "kernel" /\ ~broken => \E s, k, h : Block(s, k, h)
-----------------------------------------------------------------------------
\* A drafted token is a word of the vocabulary.
LEMMA FollowedInVocab ==
    ASSUME branch \in Branches, NEW i, NEW e \in Vocab
    PROVE  DraftToken(i, e) \in Vocab /\ Followed(i, e) \in Vocab
<1>1. /\ VocabSize \in Nat \ {0} /\ e \in Nat /\ branch \in Nat
  BY ExecutorConstants DEF Vocab
<1>2. (e + 1 + branch) % VocabSize \in 0..(VocabSize - 1)
  BY <1>1
<1>. QED BY <1>2 DEF DraftToken, Followed, Vocab

\* No hidden state is a torn word.
LEMMA NotTorn == Torn \notin Seq(Vocab)
<1>. SUFFICES ASSUME Torn \in Seq(Vocab) PROVE FALSE
  OBVIOUS
<1>1. Torn[1] \in Vocab
  BY ElementOfSeq DEF Torn
<1>. QED BY <1>1, ExecutorConstants DEF Torn, Vocab

\* There is a thread 0, and it is not counted beyond the block.
LEMMA ThreadZero == 0 \in Thread /\ Thread \subseteq Nat /\ Words \in Nat \ {0}
BY DeviceConstants DEF Thread

\* A thread that has done its part waits, one that left does not, and neither runs.
LEMMA Standing ==
    ASSUME NEW t, NEW s, NEW k
    PROVE  /\ Done(t, s, k) => thread[t].waits /\ thread[t].stage = Succ(s)
           /\ thread[t] = Gone => ~thread[t].waits /\ thread[t].stage = "exit"
BY DEF Done, At, Gone

\* Which phase it is can be read off any thread that runs.
LEMMA PhaseOf ==
    ASSUME NEW s, NEW k, NEW h, Block(s, k, h), NEW t \in Thread, NEW stage, Runs(t, stage),
           stage # "exit"
    PROVE  s = stage /\ thread[t].i = k /\ Todo(t, s, k, h) /\ ~Done(t, s, k)
<1>1. ~Done(t, s, k) /\ thread[t] # Gone
  BY Standing DEF Runs
<1>2. Todo(t, s, k, h)
  BY <1>1 DEF Block, Threads
<1>. QED BY <1>1, <1>2 DEF Todo, Runs

\* Thread t ends its part of stage s; sprev is not written while others read it.
Arriving(t, s, k) ==
    /\ thread' = [thread EXCEPT ![t] = At(Succ(s), TRUE, Round(s, k), 0, <<>>)]
    /\ s = "mix" => sprev' = sprev

\* It then waits at the barrier, and the others stay where they are.
LEMMA Arrives ==
    ASSUME KernelInv, NEW s, NEW k, NEW h, Block(s, k, h), NEW t \in Thread, Arriving(t, s, k)
    PROVE  /\ PerThread(thread)' /\ Threads(s, k, h)'
           /\ Done(t, s, k)'
           /\ \A u \in Thread : u # t => (Done(u, s, k)' <=> Done(u, s, k))
<1>1. PerThread(thread)
  BY DEF KernelInv
<1>2. /\ PerThread(thread')
      /\ thread'[t] = At(Succ(s), TRUE, Round(s, k), 0, <<>>)
      /\ \A u \in Thread : u # t => thread'[u] = thread[u]
  BY <1>1 DEF PerThread, Arriving
<1>3. Done(t, s, k)'
  BY <1>2 DEF Done
<1>4. \A u \in Thread : u # t => (Done(u, s, k)' <=> Done(u, s, k))
  BY <1>2 DEF Done
<1>5. ASSUME NEW u \in Thread, u # t, Todo(u, s, k, h) PROVE Todo(u, s, k, h)'
  BY <1>2, <1>5 DEF Todo, Arriving
<1>6. ASSUME NEW u \in Thread
      PROVE  Done(u, s, k)' \/ Todo(u, s, k, h)' \/ (s = "token" /\ thread'[u] = Gone)
  <2>1. CASE u = t
    BY <1>3, <2>1
  <2>2. CASE u # t
    BY <1>2, <1>4, <1>5, <2>2 DEF Block, Threads
  <2>. QED BY <2>1, <2>2
<1>7. Threads(s, k, h)'
  BY <1>6 DEF Threads
<1>. QED BY <1>2, <1>3, <1>4, <1>7 DEF PerThread

\* How a stage is ended.
LEMMA EndsStage ==
    ASSUME NEW t, NEW to, NEW i, Ends(t, to, i), PerThread(thread), t \in Thread,
           thread[t].stage \in {"seed", "token", "mix", "copy"}
    PROVE  thread' = [thread EXCEPT ![t] = At(to, TRUE, i, 0, <<>>)]
BY DEF Ends, Synced, PerThread

\* Seeding: thread 0 clears the state, the others only wait.
LEMMA SeedStep ==
    ASSUME KernelInv, NEW s, NEW k, NEW h, Block(s, k, h), NEW t \in Thread, Seed(t)
    PROVE  KernelInv' /\ Block(s, k, h)'
<1>1. Block(s, k, h)
  OBVIOUS
<1>2. s = "seed" /\ Todo(t, s, k, h) /\ ~Done(t, s, k) /\ k = 0 /\ h = <<>>
  BY <1>1, PhaseOf DEF Seed, Block, Memory
<1>3. Arriving(t, s, k)
  <2>1. thread' = [thread EXCEPT ![t] = At("token", TRUE, 0, 0, <<>>)]
    <3>1. Ends(t, "token", 0) /\ PerThread(thread) /\ thread[t].stage = "seed"
      BY <1>2 DEF Seed, KernelInv, Todo
    <3>. QED BY <3>1, EndsStage
  <2>. QED BY <1>2, <2>1 DEF Arriving, Succ, Round
<1>4. /\ PerThread(thread)' /\ Threads(s, k, h)' /\ Done(t, s, k)'
      /\ \A u \in Thread : u # t => (Done(u, s, k)' <=> Done(u, s, k))
  BY <1>1, <1>2, <1>3, Arrives
<1>5. Memory(s, k, h)' /\ PerThread(words)'
  <2>1. CASE t = 0
    <3>1. sprev' = 0 /\ words' = [u \in Thread |-> <<>>]
      BY <2>1 DEF Seed
    <3>. QED BY <3>1, <1>2 DEF Memory, PerThread
  <2>2. CASE t # 0
    <3>1. UNCHANGED <<words, sprev>>
      BY <2>2 DEF Seed
    <3>2. Done(0, s, k)' => Done(0, s, k)
      BY <1>4, <2>2, ThreadZero
    <3>. QED BY <3>1, <3>2, <1>1, <1>2 DEF Memory, PerThread, Block, KernelInv
  <2>. QED BY <2>1, <2>2
<1>6. Block(s, k, h)'
  BY <1>1, <1>2, <1>4, <1>5 DEF Block
<1>7. UNCHANGED <<next, branch>>
  BY DEF Seed, vars, input
<1>. QED BY <1>4, <1>5, <1>6, <1>7 DEF KernelInv, PerThread

\* Deriving a token: thread 0 alone writes sprev, before anybody reads it.
LEMMA TokenStep ==
    ASSUME KernelInv, NEW s, NEW k, NEW h, Block(s, k, h), DeriveToken
    PROVE  KernelInv' /\ Block(s, k, h)'
<1>1. Block(s, k, h)
  OBVIOUS
<1>2. s = "token" /\ thread[0].i = k /\ Todo(0, s, k, h)
  BY <1>1, PhaseOf, ThreadZero DEF DeriveToken
<1>3. Arriving(0, s, k)
  <2>1. thread' = [thread EXCEPT ![0] = At("mix", TRUE, k, 0, <<>>)]
    BY <1>2, EndsStage, ThreadZero DEF DeriveToken, KernelInv, Todo
  <2>. QED BY <1>2, <2>1 DEF Arriving, Succ, Round
<1>4. /\ PerThread(thread)' /\ Threads(s, k, h)' /\ Done(0, s, k)'
  BY <1>1, <1>2, <1>3, Arrives, ThreadZero
<1>5. sprev' \in Vocab
  BY FollowedInVocab DEF DeriveToken, KernelInv
<1>6. UNCHANGED <<words, next, branch>>
  BY DEF DeriveToken, input
<1>7. Memory(s, k, h)'
  BY <1>1, <1>2, <1>4, <1>6 DEF Memory, Block
<1>8. Block(s, k, h)'
  BY <1>1, <1>4, <1>5, <1>7 DEF Block
<1>. QED BY <1>4, <1>6, <1>8 DEF KernelInv, PerThread

\* The other threads have nothing to do for the token.
LEMMA SkipStep ==
    ASSUME KernelInv, NEW s, NEW k, NEW h, Block(s, k, h), NEW t \in Thread, SkipToken(t)
    PROVE  KernelInv' /\ Block(s, k, h)'
<1>1. Block(s, k, h)
  OBVIOUS
<1>2. s = "token" /\ thread[t].i = k /\ Todo(t, s, k, h) /\ t # 0
  BY <1>1, PhaseOf DEF SkipToken
<1>3. Arriving(t, s, k)
  <2>1. thread' = [thread EXCEPT ![t] = At("mix", TRUE, k, 0, <<>>)]
    BY <1>2, EndsStage DEF SkipToken, KernelInv, Todo
  <2>. QED BY <1>2, <2>1 DEF Arriving, Succ, Round
<1>4. /\ PerThread(thread)' /\ Threads(s, k, h)'
      /\ Done(0, s, k)' <=> Done(0, s, k)
  BY <1>1, <1>2, <1>3, Arrives, ThreadZero
<1>5. UNCHANGED <<words, next, sprev, branch>>
  BY DEF SkipToken, vars, input, memory
<1>6. Memory(s, k, h)'
  BY <1>1, <1>2, <1>4, <1>5 DEF Memory, Block
<1>7. Block(s, k, h)'
  BY <1>1, <1>4, <1>5, <1>6 DEF Block
<1>. QED BY <1>4, <1>5, <1>7 DEF KernelInv, PerThread

\* A thread that leaves the loop leaves the memory as it is.
LEMMA LeaveStep ==
    ASSUME KernelInv, NEW s, NEW k, NEW h, Block(s, k, h), NEW t \in Thread, Leave(t)
    PROVE  KernelInv' /\ Block(s, k, h)'
<1>1. Block(s, k, h)
  OBVIOUS
<1>2. s = "token" /\ Todo(t, s, k, h) /\ ~Done(t, s, k)
  BY <1>1, PhaseOf DEF Leave
<1>3. /\ PerThread(thread')
      /\ thread'[t] = Gone
      /\ \A u \in Thread : u # t => thread'[u] = thread[u]
  BY DEF Leave, KernelInv, PerThread
<1>4. UNCHANGED <<words, next, sprev, branch>>
  BY DEF Leave, vars, input, memory
<1>5. Threads(s, k, h)'
  <2>. SUFFICES ASSUME NEW u \in Thread
                PROVE  Done(u, s, k)' \/ Todo(u, s, k, h)' \/ (s = "token" /\ thread'[u] = Gone)
    BY DEF Threads
  <2>1. CASE u = t
    BY <1>2, <1>3, <2>1
  <2>2. CASE u # t
    BY <1>1, <1>3, <1>4, <2>2 DEF Block, Threads, Done, Todo
  <2>. QED BY <2>1, <2>2
<1>6. Done(0, s, k) => Done(0, s, k)'
  <2>1. CASE t = 0
    BY <1>2, <2>1
  <2>2. CASE t # 0
    BY <1>3, <2>2, ThreadZero DEF Done
  <2>. QED BY <2>1, <2>2
<1>7. Memory(s, k, h)'
  BY <1>1, <1>2, <1>4, <1>6 DEF Memory, Block
<1>8. Block(s, k, h)'
  BY <1>1, <1>4, <1>5, <1>7 DEF Block
<1>. QED BY <1>3, <1>4, <1>8 DEF KernelInv, PerThread

\* Words that were all read in one step mix to the word of the next.
LEMMA MixedWhole ==
    ASSUME NEW h \in Seq(Vocab), NEW read \in Seq({h}), read # <<>>, NEW tok
    PROVE  Mixed(read, tok) = Append(h, tok)
<1>1. Len(read) \in Nat /\ Len(read) # 0 /\ \A j \in 1..Len(read) : read[j] = h
  BY LenProperties, EmptySeq, ElementOfSeq
<1>2. read[1] = h
  BY <1>1
<1>. QED BY <1>1, <1>2, NotTorn DEF Mixed

\* Mixing: everybody reads the words of the round, nobody writes them.
LEMMA MixStep ==
    ASSUME KernelInv, NEW s, NEW k, NEW h, Block(s, k, h), NEW t \in Thread, Mix(t)
    PROVE  KernelInv' /\ Block(s, k, h)'
<1>1. Block(s, k, h)
  OBVIOUS
<1>2. s = "mix" /\ thread[t].i = k /\ Todo(t, s, k, h) /\ ~Done(t, s, k)
  BY <1>1, PhaseOf DEF Mix
<1>3. UNCHANGED <<words, sprev, branch>>
  BY DEF Mix, vars, input
<1>. DEFINE old  == thread[t].read
            read == Append(old, words[Len(old)])
            tok  == IF old = <<>> THEN sprev ELSE thread[t].tok
<1>4. old \in Seq({h}) /\ Len(old) \in 0..(Words - 1) /\ tok = sprev
  <2>1. CASE old = <<>>
    <3>1. old \in Seq({h}) /\ Len(old) = 0
      BY <2>1, EmptySeq
    <3>. QED BY <2>1, <3>1, ThreadZero
  <2>2. CASE old # <<>>
    <3>1. thread[t].tok = sprev /\ old \in Seq({h}) /\ Len(old) < Words
      BY <1>2, <2>2 DEF Todo
    <3>2. Len(old) \in Nat
      BY <3>1, LenProperties
    <3>. HIDE DEF old
    <3>. QED BY <2>2, <3>1, <3>2, ThreadZero
  <2>. QED BY <2>1, <2>2
<1>5. words[Len(old)] = h
  BY <1>1, <1>2, <1>4 DEF Block, Memory, Thread
<1>6. read \in Seq({h}) /\ read # <<>>
  BY <1>4, <1>5, AppendProperties
<1>7. \/ Len(read) < Words /\ thread' = [thread EXCEPT ![t] = At("mix", FALSE, k, tok, read)]
         /\ next' = next
      \/ next' = [next EXCEPT ![t] = Mixed(read, tok)] /\ Ends(t, "copy", k)
  <2>1. IF Len(read) < Words
        THEN /\ thread' = [thread EXCEPT ![t] = At("mix", FALSE, @.i, tok, read)]
             /\ UNCHANGED next
        ELSE /\ next' = [next EXCEPT ![t] = Mixed(read, tok)]
             /\ Ends(t, "copy", thread[t].i)
    BY DEF Mix
  <2>. HIDE DEF read, tok
  <2>2. [thread EXCEPT ![t] = At("mix", FALSE, @.i, tok, read)]
          = [thread EXCEPT ![t] = At("mix", FALSE, k, tok, read)]
    BY <1>2 DEF KernelInv, PerThread
  <2>. QED BY <1>2, <2>1, <2>2
<1>. HIDE DEF read, tok
<1>8. CASE Len(read) < Words /\ thread' = [thread EXCEPT ![t] = At("mix", FALSE, k, tok, read)]
           /\ next' = next
  <2>1. /\ PerThread(thread')
        /\ thread'[t] = At("mix", FALSE, k, tok, read)
        /\ \A u \in Thread : u # t => thread'[u] = thread[u]
    BY <1>8 DEF KernelInv, PerThread
  <2>2. Todo(t, s, k, h)'
    BY <1>2, <1>3, <1>4, <1>6, <1>8, <2>1 DEF Todo, At
  <2>3. ASSUME NEW u \in Thread PROVE Done(u, s, k)' \/ Todo(u, s, k, h)'
    <3>1. CASE u = t
      BY <2>2, <3>1
    <3>2. CASE u # t
      BY <1>1, <1>2, <1>3, <2>1, <3>2 DEF Block, Threads, Done, Todo
    <3>. QED BY <3>1, <3>2
  <2>4. Threads(s, k, h)'
    BY <2>3 DEF Threads
  <2>5. \A u \in Thread : Done(u, s, k)' => Done(u, s, k)
    <3>. SUFFICES ASSUME NEW u \in Thread, Done(u, s, k)' PROVE Done(u, s, k)
      OBVIOUS
    <3>1. u # t
      BY <2>1 DEF Done, At
    <3>. QED BY <2>1, <3>1 DEF Done
  <2>6. Memory(s, k, h)'
    BY <1>1, <1>2, <1>3, <1>8, <2>5 DEF Memory, Block
  <2>7. Block(s, k, h)'
    BY <1>1, <1>3, <2>4, <2>6 DEF Block
  <2>. QED BY <1>3, <1>8, <2>1, <2>7 DEF KernelInv, PerThread
<1>9. CASE next' = [next EXCEPT ![t] = Mixed(read, tok)] /\ Ends(t, "copy", k)
  <2>1. Arriving(t, s, k)
    <3>1. thread' = [thread EXCEPT ![t] = At("copy", TRUE, k, 0, <<>>)]
      BY <1>2, <1>9, EndsStage DEF KernelInv, Todo
    <3>. QED BY <1>2, <1>3, <3>1 DEF Arriving, Succ, Round
  <2>2. /\ PerThread(thread)' /\ Threads(s, k, h)'
        /\ \A u \in Thread : u # t => (Done(u, s, k)' <=> Done(u, s, k))
    BY <1>1, <2>1, Arrives
  <2>3. Mixed(read, tok) = Append(h, sprev)
    BY <1>1, <1>4, <1>6, MixedWhole DEF Block
  <2>4. /\ PerThread(next') /\ next'[t] = Append(h, sprev)
        /\ \A u \in Thread : u # t => next'[u] = next[u]
    BY <1>9, <2>3 DEF KernelInv, PerThread
  <2>5. ASSUME NEW u \in Thread, Done(u, s, k)' PROVE next'[u] = Append(h, sprev)
    BY <1>1, <1>2, <2>2, <2>4, <2>5 DEF Block, Memory
  <2>6. Memory(s, k, h)'
    BY <1>1, <1>2, <1>3, <2>5 DEF Memory, Block
  <2>7. Block(s, k, h)'
    BY <1>1, <1>3, <2>2, <2>6 DEF Block
  <2>. QED BY <1>3, <2>2, <2>4, <2>7 DEF KernelInv, PerThread
<1>. QED BY <1>7, <1>8, <1>9

\* Copying: a thread writes its own word, which nobody reads until the barrier.
LEMMA CopyStep ==
    ASSUME KernelInv, NEW s, NEW k, NEW h, Block(s, k, h), NEW t \in Thread, Copy(t)
    PROVE  KernelInv' /\ Block(s, k, h)'
<1>1. Block(s, k, h)
  OBVIOUS
<1>2. s = "copy" /\ thread[t].i = k /\ Todo(t, s, k, h)
  BY <1>1, PhaseOf DEF Copy
<1>3. UNCHANGED <<next, sprev, branch>>
  BY DEF Copy, vars, input
<1>4. Arriving(t, s, k)
  <2>1. thread' = [thread EXCEPT ![t] = At("token", TRUE, k + 1, 0, <<>>)]
    BY <1>2, EndsStage DEF Copy, KernelInv, Todo
  <2>. QED BY <1>2, <2>1 DEF Arriving, Succ, Round
<1>5. /\ PerThread(thread)' /\ Threads(s, k, h)' /\ Done(t, s, k)'
      /\ \A u \in Thread : u # t => (Done(u, s, k)' <=> Done(u, s, k))
  BY <1>1, <1>4, Arrives
<1>6. next[t] = Append(h, sprev)
  BY <1>1, <1>2 DEF Block, Memory
<1>7. /\ PerThread(words') /\ words'[t] = Append(h, sprev)
      /\ \A u \in Thread : u # t => words'[u] = words[u]
  BY <1>6 DEF Copy, KernelInv, PerThread
<1>8. ASSUME NEW u \in Thread
      PROVE  /\ next'[u] = Append(h, sprev)
             /\ words'[u] = IF Done(u, s, k)' THEN Append(h, sprev) ELSE h
  <2>1. next'[u] = Append(h, sprev)
    BY <1>1, <1>2, <1>3 DEF Block, Memory
  <2>2. CASE u = t
    BY <1>5, <1>7, <2>1, <2>2
  <2>3. CASE u # t
    BY <1>1, <1>2, <1>5, <1>7, <2>1, <2>3 DEF Block, Memory
  <2>. QED BY <2>2, <2>3
<1>9. Memory(s, k, h)'
  BY <1>2, <1>3, <1>8 DEF Memory
<1>10. Block(s, k, h)'
  BY <1>1, <1>3, <1>5, <1>9 DEF Block
<1>. QED BY <1>3, <1>5, <1>7, <1>10 DEF KernelInv, PerThread

\* The barrier: the next phase begins when everybody has done his part.
LEMMA BarrierStep ==
    ASSUME KernelInv, NEW s, NEW k, NEW h, Block(s, k, h), Barrier
    PROVE  KernelInv' /\ \E z : z = Begun(s, h) /\ Block(Succ(s), Round(s, k), z)'
<1>1. Block(s, k, h)
  OBVIOUS
<1>2. ASSUME NEW t \in Thread PROVE Done(t, s, k)
  <2>1. thread[t].waits
    BY DEF Barrier
  <2>2. thread[t] # Gone /\ ~Todo(t, s, k, h)
    BY <2>1, Standing DEF Todo
  <2>. QED BY <1>1, <2>2 DEF Block, Threads
<1>3. UNCHANGED <<words, next, sprev, branch>>
  BY DEF Barrier, vars, input, memory
<1>4. PerThread(thread')
  BY DEF Barrier, PerThread
<1>5. ASSUME NEW t \in Thread
      PROVE  /\ thread'[t].stage = Succ(s) /\ thread'[t].i = Round(s, k)
             /\ thread'[t].waits = FALSE /\ thread'[t].read = <<>>
  <2>1. thread'[t] = [thread[t] EXCEPT !.waits = FALSE]
    BY DEF Barrier
  <2>2. thread[t] = At(Succ(s), TRUE, Round(s, k), 0, <<>>)
    BY <1>2 DEF Done
  <2>3. thread'[t] = [At(Succ(s), TRUE, Round(s, k), 0, <<>>) EXCEPT !.waits = FALSE]
    BY <2>1, <2>2
  <2>. QED BY <2>3 DEF At
<1>6. PICK z : z = Begun(s, h) /\ z = IF s = "copy" THEN Append(h, sprev) ELSE h
  BY DEF Begun
<1>7. ASSUME NEW t \in Thread PROVE Todo(t, Succ(s), Round(s, k), z)'
  BY <1>5 DEF Todo
<1>8. Threads(Succ(s), Round(s, k), z)'
  BY <1>7 DEF Threads
<1>9. ASSUME NEW t \in Thread PROVE ~Done(t, Succ(s), Round(s, k))'
  <2>1. Done(t, Succ(s), Round(s, k))' => thread'[t].waits = TRUE
    BY DEF Done, At
  <2>. QED BY <1>5, <2>1
<1>10. /\ sprev \in Vocab /\ h \in Seq(Vocab) /\ k \in Nat
       /\ s \in {"seed", "token", "mix", "copy"}
  BY <1>1, <1>2, ThreadZero, ExecutorConstants DEF Block, Memory, Vocab
<1>11. z \in Seq(Vocab) /\ (s = "copy" => LastToken(z) = sprev)
  BY <1>6, <1>10, AppendProperties DEF LastToken
<1>12. Memory(Succ(s), Round(s, k), z)'
  <2>1. CASE s = "seed"
    <3>1. z = <<>> /\ sprev = 0 /\ \A u \in Thread : words[u] = <<>>
      BY <1>1, <1>2, <1>6, <2>1, ThreadZero DEF Block, Memory
    <3>. QED BY <1>3, <2>1, <3>1 DEF Memory, Succ, LastToken
  <2>2. CASE s = "token"
    <3>1. z = h /\ \A u \in Thread : words[u] = h
      BY <1>1, <1>6, <2>2 DEF Block, Memory
    <3>. QED BY <1>3, <1>9, <2>2, <3>1 DEF Memory, Succ
  <2>3. CASE s = "mix"
    <3>1. z = h /\ \A u \in Thread : words[u] = h /\ next[u] = Append(h, sprev)
      BY <1>1, <1>2, <1>6, <2>3 DEF Block, Memory
    <3>. QED BY <1>3, <1>9, <2>3, <3>1 DEF Memory, Succ
  <2>4. CASE s = "copy"
    <3>1. z = Append(h, sprev) /\ \A u \in Thread : words[u] = Append(h, sprev)
      BY <1>1, <1>2, <1>6, <2>4 DEF Block, Memory
    <3>2. Succ(s) = "token" /\ sprev' = LastToken(z) /\ \A u \in Thread : words'[u] = z
      BY <1>3, <1>11, <2>4, <3>1 DEF Succ
    <3>. QED BY <3>2 DEF Memory
  <2>. QED BY <1>10, <2>1, <2>2, <2>3, <2>4
<1>13. Block(Succ(s), Round(s, k), z)'
  BY <1>3, <1>8, <1>10, <1>11, <1>12 DEF Block, Succ, Round
<1>14. (\E r, n, x : Block(r, n, x))'
  BY <1>13
<1>15. KernelInv'
  BY <1>3, <1>4, <1>14 DEF KernelInv, PerThread
<1>. QED BY <1>6, <1>13, <1>15

\* The first phase: the threads of a block that was launched.
LEMMA LaunchStep ==
    ASSUME KernelInv, Launch
    PROVE  KernelInv' /\ (host' = "kernel" => Block("seed", 0, <<>>)' /\ ~Done(0, "seed", 0)')
<1>1. UNCHANGED <<words, next, sprev, branch>>
  BY DEF Launch, vars, input, memory
<1>2. CASE host' = "check"
  <2>1. UNCHANGED thread
    BY <1>2 DEF Launch
  <2>. QED BY <1>1, <1>2, <2>1 DEF KernelInv, PerThread
<1>3. CASE thread' = [t \in Thread |-> At("seed", FALSE, 0, 0, <<>>)]
  <2>1. PerThread(thread')
    BY <1>3 DEF PerThread
  <2>2. \A t \in Thread : thread'[t] = At("seed", FALSE, 0, 0, <<>>)
    BY <1>3
  <2>3. Threads("seed", 0, <<>>)'
    BY <2>2 DEF Threads, Todo, At
  <2>4. ~Done(0, "seed", 0)'
    BY <2>2, ThreadZero DEF Done, At
  <2>5. Memory("seed", 0, <<>>)'
    BY <2>4 DEF Memory
  <2>6. Block("seed", 0, <<>>)'
    BY <2>3, <2>5, EmptySeq DEF Block
  <2>7. (\E r, n, x : Block(r, n, x))'
    BY <2>6
  <2>8. KernelInv'
    BY <1>1, <2>1, <2>7 DEF KernelInv, PerThread
  <2>. QED BY <2>4, <2>6, <2>8
<1>. QED BY <1>2, <1>3 DEF Launch

\* A call that returns frees its buffers.
LEMMA FreedStep ==
    ASSUME KernelInv, Freed, host' = "out", UNCHANGED <<thread, branch>>
    PROVE  KernelInv'
BY DEF KernelInv, PerThread, Freed, Blank

\* The device is left alone.
LEMMA IdleStep ==
    ASSUME KernelInv, UNCHANGED <<words, next, thread>>, branch' \in Branches, host' # "kernel"
    PROVE  KernelInv'
BY DEF KernelInv, PerThread

\* A fault leaves no thread running.
LEMMA FaultStep ==
    ASSUME KernelInv, Fault
    PROVE  KernelInv'
BY DEF KernelInv, PerThread, Fault, vars, input, memory

\* What a step of the host does to the block.
LEMMA HostStep ==
    ASSUME KernelInv, Host
    PROVE  KernelInv'
<1>1. CASE Launch
  BY <1>1, LaunchStep
<1>2. CASE RejectInput \/ CheckKernel \/ CopyBack \/ SelectDevice \/ Allocate \/ CopyToDevice
           \/ Synchronize
  <2>1. thread' = thread /\ branch' = branch
    BY <1>2 DEF RejectInput, CheckKernel, CopyBack, SelectDevice, Allocate, CopyToDevice,
       Synchronize, Operation, GivesUp, CopyFromDevice, vars, input
  <2>2. (host' = "out" /\ Freed) \/ (host' # "kernel" /\ UNCHANGED <<words, next>>)
    BY <1>2 DEF RejectInput, CheckKernel, CopyBack, SelectDevice, Allocate, CopyToDevice,
       Synchronize, Operation, GivesUp, CopyFromDevice, memory
  <2>. QED BY <2>1, <2>2, FreedStep, IdleStep DEF KernelInv
<1>. QED BY <1>1, <1>2 DEF Host

\* Once the device is lost nothing is promised of the block.
LEMMA BrokenStep ==
    ASSUME KernelInv, broken, Kernel
    PROVE  KernelInv'
<1>1. broken' /\ branch' = branch
  BY DEF Kernel, DeriveToken, Barrier, Seed, SkipToken, Leave, Mix, Copy, runtime, vars, input
<1>2. PerThread(thread')
  BY DEF KernelInv, PerThread, Kernel, DeriveToken, Barrier, Seed, SkipToken, Leave, Mix, Copy, Ends
<1>3. PerThread(words') /\ PerThread(next')
  BY DEF KernelInv, PerThread, Kernel, DeriveToken, Barrier, Seed, SkipToken, Leave, Mix, Copy, memory
<1>. QED BY <1>1, <1>2, <1>3 DEF KernelInv, PerThread

\* A step that is not of the device leaves the block as it is.
LEMMA SamePhase ==
    ASSUME UNCHANGED <<words, next, thread, sprev>>, NEW s, NEW k, NEW h, Block(s, k, h)
    PROVE  Block(s, k, h)' /\ \A t : Done(t, s, k)' <=> Done(t, s, k)
<1>1. Threads(s, k, h)'
  BY DEF Block, Threads, Done, Todo
<1>2. Memory(s, k, h)'
  BY DEF Block, Memory, Done
<1>. QED BY <1>1, <1>2 DEF Block, Done

\* So it does not disturb the kernels' invariant.
LEMMA SameBlock ==
    ASSUME KernelInv, UNCHANGED <<words, next, thread, sprev, host, broken>>, branch' \in Branches
    PROVE  KernelInv'
<1>1. ASSUME NEW s, NEW k, NEW h, Block(s, k, h) PROVE Block(s, k, h)'
  BY <1>1, SamePhase
<1>2. (\E s, k, h : Block(s, k, h)) => (\E s, k, h : Block(s, k, h))'
  BY <1>1
<1>. QED BY <1>2 DEF KernelInv, PerThread

\* The kernel invariant holds of every run of both backends.
THEOREM KernelCorrect == DeviceSpec => []KernelInv
<1>1. DeviceInit => KernelInv
  BY DEF DeviceInit, Init, KernelInv, PerThread, Blank
<1>2. ASSUME KernelInv, [DeviceNext]_allVars PROVE KernelInv'
  <2>1. CASE CpuStep
    <3>1. UNCHANGED <<words, next, thread, sprev, host, broken>> /\ branch' = branch
      BY <2>1 DEF CpuStep, deviceVars, runtime, memory, Next, ProposeRefused, ProposeToken,
         ProposeDone, VerifierFails, VerifyStart, VerifyToken, VerifyDone, input
    <3>2. branch' \in Branches
      BY <1>2, <3>1 DEF KernelInv
    <3>. QED BY <1>2, <3>1, <3>2, SameBlock
  <2>2. CASE Kernel /\ ~broken
    <3>1. PICK s, k, h : Block(s, k, h)
      BY <1>2, <2>2 DEF KernelInv, Kernel, DeriveToken, Barrier, Seed, SkipToken, Leave, Mix, Copy, Runs
    <3>. QED BY <1>2, <2>2, <3>1, SeedStep, TokenStep, SkipStep, LeaveStep, MixStep, CopyStep,
             BarrierStep DEF Kernel
  <2>3. CASE Kernel /\ broken
    BY <1>2, <2>3, BrokenStep
  <2>4. CASE Fault
    BY <1>2, <2>4, FaultStep
  <2>5. CASE Host
    BY <1>2, <2>5, HostStep
  <2>6. CASE NextInput
    <3>1. UNCHANGED <<words, next, thread, sprev, host, broken>> /\ branch' \in Branches
      BY <1>2, <2>6 DEF NextInput, deviceVars, runtime, memory, KernelInv
    <3>. QED BY <1>2, <3>1, SameBlock
  <2>7. CASE UNCHANGED allVars
    <3>1. UNCHANGED <<words, next, thread, sprev, host, broken>> /\ branch' = branch
      BY <2>7 DEF allVars, vars, input, deviceVars, runtime, memory
    <3>2. branch' \in Branches
      BY <1>2, <3>1 DEF KernelInv
    <3>. QED BY <1>2, <3>1, <3>2, SameBlock
  <2>. QED BY <1>2, <2>1, <2>2, <2>3, <2>4, <2>5, <2>6, <2>7 DEF DeviceNext
<1>. QED BY <1>1, <1>2, PTL DEF DeviceSpec

\* No thread of either kernel ever works on words of two steps, for any number
\* of threads and rounds and any interleaving (cuda_executor.cu:75-204, the
\* barriers of the loop body).
THEOREM ReadsOfOneStepCorrect == DeviceSpec => []ReadsOfOneStep
<1>1. ASSUME KernelInv PROVE ReadsOfOneStep
  <2>. SUFFICES ASSUME host = "kernel", ~broken, thread[0].stage # "seed"
                PROVE  /\ \A t \in Thread : words[t] # Torn
                       /\ Runs(0, "token") => \A u \in Taps : Coherent(words[u])
    BY DEF ReadsOfOneStep
  <2>1. PICK s, k, h : Block(s, k, h)
    BY <1>1 DEF KernelInv
  <2>2. s = "seed" => Done(0, s, k)
    BY <2>1, ThreadZero DEF Block, Threads, Todo
  <2>3. s # "seed" => Append(h, sprev) \in Seq(Vocab)
    BY <2>1, AppendProperties DEF Block
  <2>4. ASSUME NEW t \in Thread PROVE words[t] \in {<<>>, h} \/ (s # "seed" /\ words[t] = Append(h, sprev))
    BY <2>1, <2>2 DEF Block, Memory
  <2>5. \A t \in Thread : words[t] # Torn
    BY <2>1, <2>3, <2>4, NotTorn, EmptySeq DEF Block
  <2>6. ASSUME Runs(0, "token"), NEW u \in Taps PROVE Coherent(words[u])
    <3>1. s = "token" /\ ~Done(0, s, k)
      BY <2>1, <2>6, ThreadZero, PhaseOf
    <3>2. sprev = LastToken(h) /\ \A v \in Thread : words[v] = h
      BY <2>1, <3>1 DEF Block, Memory
    <3>3. Taps \subseteq Thread
      BY DeviceConstants DEF Thread
    <3>. QED BY <2>5, <3>2, <3>3 DEF Coherent, LastToken
  <2>. QED BY <2>5, <2>6
<1>. QED BY <1>1, KernelCorrect, PTL
-----------------------------------------------------------------------------
(***************************************************************************)
(* The runtime's last error                                                *)
(***************************************************************************)

\* Where a call still has cudaGetLastError before it.
Unchecked == {"alloc", "copyIn", "launch", "kernel", "check"}

\* A call that is under way is a device call.  An error in the runtime is of the
\* last cycle whose draft reached the device, or of the one before it, and then
\* that draft is still running and has not fetched it yet.
ErrorInv ==
    /\ failed \in [{"before", "now"} -> BOOLEAN]
    /\ host # "out" => InCall
    /\ lastError => failed["now"] \/ (failed["before"] /\ Proposing /\ host \in Unchecked)

\* A draft whose call reaches the device fetches the error before it returns a
\* candidate, and every other return before that leaves an error of its own
\* (cuda_executor.cu:214); calls refused for their arguments do not count.
THEOREM StaleErrorCorrect == DeviceSpec => []StaleErrorIsOfLastDraft
<1>1. DeviceInit => ErrorInv
  BY DEF DeviceInit, ErrorInv
<1>2. ASSUME ErrorInv, [DeviceNext]_allVars PROVE ErrorInv'
  <2>. USE <1>2 DEF ErrorInv, Unchecked, InCall, Proposing
  <2>0. ASSUME failed' = [failed EXCEPT !["now"] = TRUE]
        PROVE  failed' \in [{"before", "now"} -> BOOLEAN] /\ failed'["now"]
    BY <2>0
  <2>1. CASE Kernel \/ UNCHANGED allVars
    <3>1. UNCHANGED <<host, lastError, failed, backend, pc>>
      BY <2>1 DEF Kernel, DeriveToken, Barrier, Seed, SkipToken, Leave, Mix, Copy,
         allVars, deviceVars, runtime, vars
    <3>. QED BY <3>1
  <2>2. CASE CpuStep \/ NextInput
    <3>1. UNCHANGED <<host, lastError, failed>> /\ host = "out"
      BY <2>2 DEF CpuStep, NextInput, deviceVars, runtime
    <3>. QED BY <3>1
  <2>3. CASE Fault
    BY <2>0, <2>3 DEF Fault, vars
  <2>4. CASE RejectInput
    BY <2>4 DEF RejectInput, GivesUp, runtime
  <2>5. CASE SelectDevice
    <3>1. /\ host = "out"
          /\ \/ host' = "out"
             \/ host' = "alloc" /\ InCall' /\ UNCHANGED <<lastError, pc>>
      BY <2>5 DEF SelectDevice, GivesUp, vars
    <3>2. PICK b \in BOOLEAN, n \in BOOLEAN : b = failed["now"] /\ n = (host' = "out")
      OBVIOUS
    <3>3. CASE Proposing
      <4>1. failed' = [before |-> b, now |-> n]
        BY <2>5, <3>2, <3>3 DEF SelectDevice
      <4>2. /\ [before |-> b, now |-> n] \in [{"before", "now"} -> BOOLEAN]
            /\ [before |-> b, now |-> n]["before"] = b /\ [before |-> b, now |-> n]["now"] = n
        OBVIOUS
      <4>3. /\ failed' \in [{"before", "now"} -> BOOLEAN]
            /\ failed'["before"] = b /\ failed'["now"] = n
        BY <4>1, <4>2
      <4>. QED BY <3>1, <3>2, <3>3, <4>3
    <3>4. CASE ~Proposing
      <4>1. failed' = [failed EXCEPT !["now"] = b \/ n]
        BY <2>5, <3>2, <3>4 DEF SelectDevice
      <4>2. b \/ n => failed' = [failed EXCEPT !["now"] = TRUE]
        BY <4>1
      <4>3. ~b /\ ~n => failed' = [failed EXCEPT !["now"] = FALSE]
        BY <4>1
      <4>4. failed' \in [{"before", "now"} -> BOOLEAN]
        BY <2>0, <4>2, <4>3
      <4>5. lastError' => failed'["now"]
        BY <2>0, <3>1, <3>2, <4>2
      <4>. QED BY <3>1, <4>4, <4>5
    <3>. QED BY <3>3, <3>4
  <2>6. CASE Allocate
    <3>1. \/ failed' = [failed EXCEPT !["now"] = TRUE] /\ host' = "out"
          \/ UNCHANGED <<lastError, failed, backend, pc>> /\ host = "alloc" /\ host' = "copyIn"
      BY <2>6 DEF Allocate, Operation, GivesUp, runtime, vars
    <3>. QED BY <2>0, <3>1
  <2>7. CASE CopyToDevice
    <3>1. \/ failed' = [failed EXCEPT !["now"] = TRUE] /\ host' = "out"
          \/ UNCHANGED <<lastError, failed, backend, pc>> /\ host = "copyIn" /\ host' = "launch"
      BY <2>7 DEF CopyToDevice, Operation, GivesUp, runtime, vars
    <3>. QED BY <2>0, <3>1
  <2>8. CASE Launch
    <3>1. /\ UNCHANGED <<backend, pc>> /\ host = "launch"
          /\ \/ failed' = [failed EXCEPT !["now"] = TRUE]
             \/ UNCHANGED <<lastError, failed>> /\ host' = "kernel"
      BY <2>8 DEF Launch, vars
    <3>. QED BY <2>0, <3>1
  <2>9. CASE Synchronize
    BY <2>9 DEF Synchronize, runtime, vars
  <2>10. CASE CheckKernel
    <3>1. /\ lastError' = FALSE /\ failed' = failed
          /\ host' = "out" \/ (UNCHANGED <<backend, pc>> /\ InCall)
      BY <2>10 DEF CheckKernel, LastErrorAfterGet, GivesUp, vars
    <3>. QED BY <3>1
  <2>11. CASE CopyBack
    <3>1. /\ host' = "out" /\ host = "copyOut"
          /\ failed' = [failed EXCEPT !["now"] = TRUE] \/ UNCHANGED <<lastError, failed>>
      BY <2>11 DEF CopyBack, CopyFromDevice, GivesUp
    <3>. QED BY <2>0, <3>1
  <2>. QED BY <2>1, <2>2, <2>3, <2>4, <2>5, <2>6, <2>7, <2>8, <2>9, <2>10, <2>11 DEF DeviceNext, Host
<1>3. ErrorInv => StaleErrorIsOfLastDraft
  BY DEF ErrorInv, StaleErrorIsOfLastDraft, Unchecked
<1>. QED BY <1>1, <1>2, <1>3, PTL DEF DeviceSpec
-----------------------------------------------------------------------------
(***************************************************************************)
(* Drafts and verdicts                                                     *)
(***************************************************************************)

\* The target was asked for more, or for nothing; the configuration stays.
Extended ==
    /\ UNCHANGED <<aligned, branch, base>>
    /\ \A q \in DOMAIN target : q \in DOMAIN target' /\ target'[q] = target[q]

\* A verdict on the first Len(x) positions of the candidate: the target's own
\* tokens there are x.  Against the base the draft was made from, x is the draft
\* itself up to the alignment, and the first rejection is at the alignment.
Judged(x, per, acc, frej) ==
    /\ x \in Seq(Vocab) /\ Len(x) <= Len(candidate)
    /\ per \in Seq(BOOLEAN) /\ Compared(x, per, acc)
    /\ base = "dispatched" =>
          IF Len(x) <= aligned
          THEN x = SubSeq(candidate, 1, Len(x)) /\ frej = Len(candidate)
          ELSE frej = aligned

\* What the target answers is kept, and nothing it answered before changes.
LEMMA AskTarget ==
    ASSUME NEW b, NEW h, NEW e, Expects(b, h, e), UNCHANGED <<aligned, branch, base>>
    PROVE  /\ Extended
           /\ <<b, h>> \in DOMAIN target' /\ target'[<<b, h>>] = e
           /\ <<b, h>> \in DOMAIN target => e = target[<<b, h>>]
<1>. DEFINE q == <<b, h>>
<1>1. /\ q \in DOMAIN target => e = target[q]
      /\ target' = [p \in DOMAIN target \cup {q} |-> IF p = q THEN e ELSE target[p]]
  BY DEF Expects
<1>. HIDE DEF q
<1>2. /\ q \in DOMAIN target' /\ target'[q] = e
      /\ \A p \in DOMAIN target : p \in DOMAIN target' /\ target'[p] = target[p]
  BY <1>1
<1>. QED BY <1>1, <1>2 DEF q, Extended

\* A draft stays one.
LEMMA DraftKept ==
    ASSUME NEW x, Drafted(x), Extended
    PROVE  Drafted(x)'
BY DEF Drafted, Extended, DraftToken

\* A draft of one more token.
LEMMA DraftMore ==
    ASSUME NEW x \in Seq(Vocab), Drafted(x), NEW e \in Vocab, branch \in Branches,
           Expects("dispatched", x, e), UNCHANGED <<aligned, branch, base>>,
           NEW y, y = Append(x, DraftToken(Len(x), e))
    PROVE  Drafted(y)' /\ y \in Seq(Vocab) /\ Len(y) = Len(x) + 1
<1>. DEFINE d == DraftToken(Len(x), e)
<1>1. d \in Vocab /\ d = DraftToken(Len(x), e)'
  BY FollowedInVocab DEF DraftToken
<1>2. Drafted(x)'
  BY AskTarget, DraftKept
<1>3. Len(x) \in Nat
  BY LenProperties
<1>. HIDE DEF d
<1>4. /\ y \in Seq(Vocab) /\ Len(y) = Len(x) + 1 /\ y[Len(x) + 1] = d
      /\ \A i \in 1..Len(x) : y[i] = x[i]
  BY <1>1, AppendProperties DEF d
<1>5. ASSUME NEW i \in 0..Len(x) PROVE SubSeq(y, 1, i) = SubSeq(x, 1, i)
  BY <1>1, PrefixOfAppend DEF d
<1>6. ASSUME NEW i \in 1..Len(y)
      PROVE  LET h == <<"dispatched", SubSeq(y, 1, i - 1)>> IN
             h \in DOMAIN target' /\ y[i] = DraftToken(i - 1, target[h])'
  <2>1. CASE i \in 1..Len(x)
    <3>1. SubSeq(y, 1, i - 1) = SubSeq(x, 1, i - 1) /\ y[i] = x[i]
      BY <1>3, <1>4, <1>5, <2>1
    <3>. QED BY <1>2, <2>1, <3>1 DEF Drafted
  <2>2. CASE i = Len(x) + 1
    <3>1. SubSeq(y, 1, i - 1) = x
      BY <1>3, <1>5, <2>2, SubSeqFull
    <3>2. <<"dispatched", x>> \in DOMAIN target' /\ target'[<<"dispatched", x>>] = e
      BY AskTarget
    <3>3. i - 1 = Len(x)
      BY <1>3, <2>2
    <3>. QED BY <1>1, <1>4, <2>2, <3>1, <3>2, <3>3
  <2>. QED BY <1>3, <1>4, <2>1, <2>2
<1>. QED BY <1>4, <1>6 DEF Drafted

\* One more verdict: the positions that agree are counted.
LEMMA CountMore ==
    ASSUME NEW per \in Seq(BOOLEAN), NEW ok \in BOOLEAN, NEW n \in Nat, n = Len(per)
    PROVE  Cardinality({i \in 1..(n + 1) : Append(per, ok)[i]})
             = Cardinality({i \in 1..n : per[i]}) + IF ok THEN 1 ELSE 0
<1>. DEFINE S == {i \in 1..n : per[i]}
            T == {i \in 1..(n + 1) : Append(per, ok)[i]}
<1>1. IsFiniteSet(S)
  <2>1. IsFiniteSet(1..n) /\ S \in SUBSET (1..n)
    BY FS_Interval
  <2>. HIDE DEF S
  <2>. QED BY <2>1, FS_Subset
<1>2. /\ Append(per, ok)[n + 1] = ok
      /\ \A i \in 1..n : Append(per, ok)[i] = per[i]
  BY AppendProperties
<1>3. CASE ok
  <2>1. T = S \cup {n + 1} /\ n + 1 \notin S
    BY <1>2, <1>3
  <2>. HIDE DEF S, T
  <2>2. Cardinality(T) = Cardinality(S) + IF ok THEN 1 ELSE 0
    BY <1>1, <1>3, <2>1, FS_AddElement
  <2>. QED BY <2>2 DEF S, T
<1>4. CASE ~ok
  <2>1. T = S
    BY <1>2, <1>4
  <2>2. Cardinality(S) \in Nat
    BY <1>1, FS_CardinalityType
  <2>. HIDE DEF S, T
  <2>3. Cardinality(T) = Cardinality(S) + IF ok THEN 1 ELSE 0
    BY <1>4, <2>1, <2>2
  <2>. QED BY <2>3 DEF S, T
<1>. QED BY <1>3, <1>4

\* A verdict stays one while the candidate stays.
LEMMA VerdictKept ==
    ASSUME NEW x, NEW per, NEW acc, NEW frej, Judged(x, per, acc, frej), Extended,
           candidate' = candidate
    PROVE  Judged(x, per, acc, frej)'
<1>1. Compared(x, per, acc)'
  BY DEF Judged, Compared, Produced, Extended
<1>. QED BY <1>1 DEF Judged, Extended

\* A perturbed token is never the one it was perturbed from.
LEMMA Perturbed ==
    ASSUME branch \in Branches, NEW e \in Vocab
    PROVE  (e + 1 + branch) % VocabSize # e
<1>1. /\ VocabSize \in Nat \ {0, 1} /\ e \in 0..(VocabSize - 1)
      /\ branch \in 0..(VocabSize - 2)
  BY ExecutorConstants DEF Vocab
<1>2. PICK b \in 0..(VocabSize - 2) : b = branch
  BY <1>1
<1>3. CASE e + 1 + b < VocabSize
  <2>1. (e + 1 + b) % VocabSize = e + 1 + b
    BY <1>1, <1>2, <1>3
  <2>. QED BY <1>1, <1>2, <2>1
<1>4. CASE e + 1 + b >= VocabSize
  <2>1. (e + 1 + b) % VocabSize = e + 1 + b - VocabSize
    BY <1>1, <1>2, <1>4
  <2>. QED BY <1>1, <1>2, <2>1
<1>. QED BY <1>1, <1>2, <1>3, <1>4

\* The call: its candidate and its configuration.
Ready ==
    /\ candidate \in Seq(Vocab) /\ Drafted(candidate)
    /\ depth \in Nat /\ aligned \in Nat /\ branch \in Branches

\* It stays the same during a verification.
SameCall == UNCHANGED <<aligned, branch, base, candidate>>

\* The verdict y, p, a, f on one more position than x, per, acc, frej, where the
\* target's token is e, as the loops of both verifiers compute it.
OneMore(x, per, acc, frej, e, ok, y, p, a, f) ==
    /\ Len(x) < Len(candidate) /\ e \in Vocab
    /\ ok \in BOOLEAN /\ (ok <=> e = candidate[Len(x) + 1])
    /\ y = Append(x, e) /\ p = Append(per, ok)
    /\ a = IF ok THEN acc + 1 ELSE acc
    /\ f = IF ~ok /\ frej = Len(candidate) THEN Len(x) ELSE frej

\* It is the verdict.
LEMMA VerdictMore ==
    ASSUME NEW x, NEW per, NEW acc, NEW frej, Judged(x, per, acc, frej), Ready, SameCall,
           NEW e, NEW ok, NEW y, NEW p, NEW a, NEW f,
           OneMore(x, per, acc, frej, e, ok, y, p, a, f), Expects(base, x, e)
    PROVE  Judged(y, p, a, f)' /\ Len(y) = Len(x) + 1
<1>. USE DEF OneMore, SameCall, Ready
<1>1. /\ x \in Seq(Vocab) /\ Len(x) \in Nat /\ per \in Seq(BOOLEAN) /\ Compared(x, per, acc)
      /\ Len(candidate) \in Nat
  BY LenProperties DEF Judged
<1>2. /\ y \in Seq(Vocab) /\ Len(y) = Len(x) + 1 /\ y[Len(x) + 1] = e
      /\ \A i \in 1..Len(x) : y[i] = x[i]
  BY <1>1, AppendProperties
<1>3. /\ p \in Seq(BOOLEAN) /\ Len(p) = Len(x) + 1 /\ p[Len(x) + 1] = ok
      /\ \A i \in 1..Len(x) : p[i] = per[i]
  BY <1>1, AppendProperties DEF Compared
<1>4. ASSUME NEW i \in 0..Len(x) PROVE SubSeq(y, 1, i) = SubSeq(x, 1, i)
  BY <1>1, PrefixOfAppend
<1>5. /\ Extended /\ <<base, x>> \in DOMAIN target' /\ target'[<<base, x>>] = e
      /\ <<base, x>> \in DOMAIN target => e = target[<<base, x>>]
  BY AskTarget
<1>6. Compared(x, per, acc)'
  BY <1>5, VerdictKept DEF Judged
<1>7. ASSUME NEW i \in 1..Len(y)
      PROVE  /\ <<base', SubSeq(y, 1, i - 1)>> \in DOMAIN target'
             /\ y[i] = target'[<<base', SubSeq(y, 1, i - 1)>>]
             /\ p[i] <=> candidate'[i] = y[i]
  <2>1. CASE i \in 1..Len(x)
    <3>1. SubSeq(y, 1, i - 1) = SubSeq(x, 1, i - 1) /\ y[i] = x[i] /\ p[i] = per[i]
      BY <1>1, <1>2, <1>3, <1>4, <2>1
    <3>. QED BY <1>6, <2>1, <3>1 DEF Compared, Produced
  <2>2. CASE i = Len(x) + 1
    <3>1. SubSeq(y, 1, i - 1) = x
      BY <1>1, <1>4, <2>2, SubSeqFull
    <3>2. y[i] = e /\ p[i] = ok /\ candidate'[i] = candidate[Len(x) + 1] /\ base' = base
      BY <1>2, <1>3, <2>2
    <3>. QED BY <1>5, <3>1, <3>2
  <2>3. i \in 1..Len(x) \/ i = Len(x) + 1
    BY <1>1, <1>2
  <2>. QED BY <2>1, <2>2, <2>3
<1>8. a = Cardinality({i \in 1..Len(y) : p[i]})
  <2>1. Len(per) = Len(x) /\ acc = Cardinality({i \in 1..Len(x) : per[i]})
    BY <1>1 DEF Compared
  <2>2. Cardinality({i \in 1..(Len(x) + 1) : p[i]})
          = Cardinality({i \in 1..Len(x) : per[i]}) + IF ok THEN 1 ELSE 0
    <3>1. per \in Seq(BOOLEAN) /\ ok \in BOOLEAN /\ Len(x) \in Nat /\ Len(x) = Len(per)
      BY <1>1, <2>1
    <3>2. p = Append(per, ok)
      OBVIOUS
    <3>3. Cardinality({i \in 1..(Len(x) + 1) : Append(per, ok)[i]})
            = Cardinality({i \in 1..Len(x) : per[i]}) + IF ok THEN 1 ELSE 0
      BY <3>1, CountMore, Zenon
    <3>. QED BY <3>2, <3>3, Zenon
  <2>3. acc \in Nat
    <3>1. IsFiniteSet(1..Len(x)) /\ {i \in 1..Len(x) : per[i]} \in SUBSET (1..Len(x))
      BY <1>1, FS_Interval
    <3>2. IsFiniteSet({i \in 1..Len(x) : per[i]})
      BY <3>1, FS_Subset
    <3>. QED BY <2>1, <3>2, FS_CardinalityType
  <2>4. PICK c : c = Cardinality({i \in 1..(Len(x) + 1) : p[i]})
    OBVIOUS
  <2>5. a = c
    <3>1. c = acc + IF ok THEN 1 ELSE 0
      BY <2>1, <2>2, <2>4, Zenon
    <3>2. CASE ok
      BY <2>3, <3>1, <3>2
    <3>3. CASE ~ok
      BY <2>3, <3>1, <3>3
    <3>. QED BY <3>2, <3>3
  <2>. QED BY <1>2, <2>4, <2>5
<1>9. Compared(y, p, a)'
  BY <1>2, <1>3, <1>7, <1>8 DEF Compared, Produced
<1>10. ASSUME base = "dispatched"
       PROVE  IF Len(y) <= aligned
              THEN y = SubSeq(candidate, 1, Len(y)) /\ f = Len(candidate)
              ELSE f = aligned
  <2>1. CASE Len(x) > aligned
    <3>1. frej = aligned
      BY <1>1, <1>10, <2>1 DEF Judged
    <3>. QED BY <1>1, <1>2, <2>1, <3>1
  <2>2. CASE Len(x) <= aligned
    <3>1. x = SubSeq(candidate, 1, Len(x)) /\ frej = Len(candidate)
      BY <1>10, <2>2 DEF Judged
    <3>2. PICK i \in 1..Len(candidate) : i = Len(x) + 1 /\ i - 1 = Len(x)
      BY <1>1
    <3>3. /\ <<"dispatched", x>> \in DOMAIN target
          /\ candidate[i] = DraftToken(Len(x), target[<<"dispatched", x>>])
      BY <3>1, <3>2 DEF Drafted
    <3>4. candidate[i] = DraftToken(Len(x), e)
      BY <1>5, <1>10, <3>3
    <3>5. CASE Len(x) < aligned
      <4>1. ok /\ candidate[Len(x) + 1] = e
        BY <3>2, <3>4, <3>5 DEF DraftToken
      <4>2. y = SubSeq(candidate, 1, Len(x) + 1)
        BY <1>1, <3>1, <4>1, NextPrefix
      <4>. QED BY <1>1, <1>2, <3>1, <3>5, <4>1, <4>2
    <3>6. CASE Len(x) = aligned
      <4>1. ~ok
        BY <3>2, <3>4, <3>6, Perturbed DEF DraftToken
      <4>. QED BY <1>1, <1>2, <3>1, <3>6, <4>1
    <3>. QED BY <1>1, <2>2, <3>5, <3>6
  <2>. QED BY <1>1, <2>1, <2>2
<1>. QED BY <1>1, <1>2, <1>3, <1>9, <1>10 DEF Judged
-----------------------------------------------------------------------------
(***************************************************************************)
(* What the kernels have computed                                          *)
(***************************************************************************)

\* The tokens followed so far.
Past(s, k, h) ==
    IF s = "seed" \/ (s = "token" /\ ~Done(0, s, k)) THEN h ELSE Append(h, sprev)

\* The output buffers hold the draft or the verdict for the tokens x.
Answer(x) ==
    /\ DOMAIN out = {"tokens", "per", "accepted", "firstRejection"}
    /\ x \in Seq(Vocab) /\ Len(x) <= Steps
    /\ Proposing => out.tokens = x /\ Drafted(x)
    /\ ~Proposing => Judged(x, out.per, out.accepted, out.firstRejection)

\* The results of a phase of the block.
Results(s, k, h) ==
    /\ s # "seed" \/ Done(0, s, k) => Len(h) = k /\ Answer(Past(s, k, h))
    /\ \A t \in Thread : thread[t] = Gone => k = Steps

\* What an answer depends on.
answered == <<out, pc, depth, candidate, aligned, branch, base, target>>

\* An answer stays one.
LEMMA AnswerKept ==
    ASSUME NEW x, Answer(x), UNCHANGED answered
    PROVE  Answer(x)'
<1>1. Extended /\ candidate' = candidate /\ out' = out /\ (Proposing' <=> Proposing) /\ Steps' = Steps
  BY DEF answered, Extended, Proposing, Steps
<1>2. PICK per, acc, frej : per = out.per /\ acc = out.accepted /\ frej = out.firstRejection
  OBVIOUS
<1>3. ~Proposing => Judged(x, per, acc, frej)'
  BY <1>1, <1>2, VerdictKept DEF Answer
<1>4. Proposing => Drafted(x)'
  BY <1>1, DraftKept DEF Answer
<1>. QED BY <1>1, <1>2, <1>3, <1>4 DEF Answer

\* So do the results of a phase, while thread 0 stands still.
LEMMA ResultsKept ==
    ASSUME NEW s, NEW k, NEW h, Results(s, k, h), UNCHANGED <<answered, sprev>>,
           s \in {"mix", "copy"} \/ (Done(0, s, k)' <=> Done(0, s, k)),
           \A t \in Thread : thread'[t] = Gone => thread[t] = Gone \/ k = Steps
    PROVE  Results(s, k, h)'
<1>1. Steps' = Steps
  BY DEF answered, Proposing, Steps
<1>2. PICK x : x = Past(s, k, h)
  OBVIOUS
<1>3. Past(s, k, h)' = x
  BY <1>2 DEF Past
<1>4. s # "seed" \/ Done(0, s, k)' => Len(h) = k /\ Answer(x)
  BY <1>2 DEF Results
<1>5. Answer(x) => Answer(x)'
  BY AnswerKept
<1>6. s # "seed" \/ Done(0, s, k)' => Len(h) = k /\ Answer(Past(s, k, h))'
  BY <1>3, <1>4, <1>5
<1>7. \A t \in Thread : thread'[t] = Gone => k = Steps'
  BY <1>1 DEF Results
<1>. QED BY <1>6, <1>7 DEF Results

\* A thread that ends its stage is not gone.
LEMMA EndsNotGone ==
    ASSUME PerThread(thread), NEW t \in Thread, NEW to, NEW i, Ends(t, to, i), to # "exit"
    PROVE  /\ \A u \in Thread : thread'[u] = Gone => thread[u] = Gone
           /\ t # 0 => thread'[0] = thread[0]
<1>1. thread'[t].stage = to /\ \A u \in Thread : u # t => thread'[u] = thread[u]
  BY DEF Ends, PerThread, At
<1>2. thread'[t] # Gone
  BY <1>1 DEF Gone, At
<1>. QED BY <1>1, <1>2, ThreadZero

\* What no thread of the block writes.
called == <<pc, depth, candidate, aligned, branch, base>>

\* A verdict on nothing yet.
LEMMA EmptyVerdict ==
    ASSUME NEW c, c \in Seq(Vocab)
    PROVE  /\ <<>> \in Seq(Vocab) /\ <<>> \in Seq(BOOLEAN) /\ Len(<<>>) = 0
           /\ Len(c) \in Nat /\ SubSeq(c, 1, 0) = <<>>
           /\ \A i \in 1..Len(<<>>) : FALSE
           /\ Cardinality({i \in 1..Len(<<>>) : <<>>[i]}) = 0
<1>1. <<>> \in Seq(Vocab) /\ <<>> \in Seq(BOOLEAN) /\ Len(<<>>) = 0
  BY EmptySeq
<1>2. Len(c) \in Nat /\ SubSeq(c, 1, 0) = <<>>
  BY LenProperties, SubSeqEmpty
<1>3. \A i \in 1..Len(<<>>) : FALSE
  BY <1>1
<1>4. {i \in 1..Len(<<>>) : <<>>[i]} = {}
  BY <1>3
<1>. QED BY <1>1, <1>2, <1>3, <1>4, FS_EmptySet

\* It is the verdict a verifier begins with.
LEMMA FirstVerdict ==
    ASSUME candidate' \in Seq(Vocab), aligned' \in Nat, NEW n, n = Len(candidate')
    PROVE  Judged(<<>>, <<>>, 0, n)'
<1>1. PICK c : c = candidate' /\ c \in Seq(Vocab)
  OBVIOUS
<1>2. Produced(<<>>)'
  BY <1>1, EmptyVerdict DEF Produced
<1>3. Compared(<<>>, <<>>, 0)'
  BY <1>1, <1>2, EmptyVerdict DEF Compared
<1>4. SubSeq(candidate', 1, Len(<<>>)) = <<>> /\ Len(<<>>) = 0 /\ Len(candidate') \in Nat
  BY <1>1, EmptyVerdict
<1>5. <<>> \in Seq(Vocab) /\ <<>> \in Seq(BOOLEAN)
  BY <1>1, EmptyVerdict
<1>. QED BY <1>3, <1>4, <1>5 DEF Judged

\* The seeded block has the answer to nothing yet.
LEMMA EmptyAnswer ==
    ASSUME Ready, out' = Output(<<>>, <<>>, 0, Steps), UNCHANGED <<called, target>>
    PROVE  Answer(<<>>)'
<1>1. candidate' \in Seq(Vocab) /\ aligned' \in Nat
  BY DEF Ready, called
<1>2. Steps' = Steps /\ Steps \in Nat /\ (~Proposing' => Steps = Len(candidate'))
  BY LenProperties DEF Steps, Proposing, called, Ready
<1>3. /\ DOMAIN out' = {"tokens", "per", "accepted", "firstRejection"}
      /\ out'.tokens = <<>> /\ out'.per = <<>> /\ out'.accepted = 0 /\ out'.firstRejection = Steps
  BY DEF Output
<1>4. PICK c : c = candidate' /\ c \in Seq(Vocab)
  BY <1>1
<1>5. Drafted(<<>>)'
  BY <1>4, EmptyVerdict DEF Drafted
<1>6. PICK n : n = Steps
  OBVIOUS
<1>7. ~Proposing' => Judged(<<>>, <<>>, 0, n)'
  BY <1>1, <1>2, <1>6, FirstVerdict
<1>8. ~Proposing' => Judged(<<>>, out.per, out.accepted, out.firstRejection)'
  BY <1>3, <1>6, <1>7
<1>. QED BY <1>2, <1>3, <1>4, <1>5, <1>8, EmptyVerdict DEF Answer

\* Seeding the block.
LEMMA SeedResults ==
    ASSUME KernelInv, Ready, NEW s, NEW k, NEW h, Block(s, k, h), Results(s, k, h),
           NEW t \in Thread, Seed(t)
    PROVE  Results(s, k, h)'
<1>1. s = "seed" /\ k = 0 /\ h = <<>>
  BY PhaseOf DEF Seed, Block, Memory
<1>2. /\ \A u \in Thread : thread'[u] = Gone => thread[u] = Gone
      /\ t # 0 => thread'[0] = thread[0]
  BY EndsNotGone DEF Seed, KernelInv
<1>3. UNCHANGED <<called, target>>
  BY DEF Seed, called, vars, input, proposal
<1>4. CASE t = 0
  <2>1. Answer(<<>>)'
    BY <1>3, <1>4, EmptyAnswer DEF Seed
  <2>2. Past(s, k, h)' = <<>> /\ Len(h) = k
    BY <1>1, EmptySeq DEF Past
  <2>3. \A u \in Thread : thread'[u] = Gone => k = Steps'
    BY <1>2, <1>3 DEF Results, Steps, Proposing, called
  <2>. QED BY <2>1, <2>2, <2>3 DEF Results
<1>5. CASE t # 0
  <2>1. UNCHANGED <<answered, sprev>>
    BY <1>3, <1>5 DEF Seed, answered, called
  <2>2. Done(0, s, k)' <=> Done(0, s, k)
    BY <1>2, <1>5 DEF Done
  <2>. QED BY <1>2, <2>1, <2>2, ResultsKept
<1>. QED BY <1>4, <1>5

\* What thread 0 writes.
LEMMA WrittenFields ==
    ASSUME NEW i, NEW e, DOMAIN out = {"tokens", "per", "accepted", "firstRejection"},
           out' = Written(i, e)
    PROVE  /\ DOMAIN out' = DOMAIN out
           /\ Proposing => out'.tokens = Append(out.tokens, DraftToken(i, e))
           /\ ~Proposing =>
                /\ out'.per = Append(out.per, e = candidate[i + 1])
                /\ out'.accepted = IF e = candidate[i + 1] THEN out.accepted + 1 ELSE out.accepted
                /\ out'.firstRejection =
                     IF e # candidate[i + 1] /\ out.firstRejection = Len(candidate)
                     THEN i ELSE out.firstRejection
<1>1. CASE Proposing
  <2>1. out' = [out EXCEPT !.tokens = Append(@, DraftToken(i, e))]
    BY <1>1 DEF Written
  <2>. QED BY <1>1, <2>1
<1>2. CASE ~Proposing
  <2>1. PICK ok \in BOOLEAN : ok = (e = candidate[i + 1])
    OBVIOUS
  <2>2. out' = [out EXCEPT !.per = Append(@, ok),
                           !.accepted = IF ok THEN @ + 1 ELSE @,
                           !.firstRejection = IF ~ok /\ @ = Len(candidate) THEN i ELSE @]
    BY <1>2, <2>1 DEF Written
  <2>3. /\ DOMAIN out' = DOMAIN out
        /\ out'.per = Append(out.per, ok)
        /\ out'.accepted = IF ok THEN out.accepted + 1 ELSE out.accepted
        /\ out'.firstRejection = IF ~ok /\ out.firstRejection = Len(candidate)
                                 THEN i ELSE out.firstRejection
    BY <2>2
  <2>. QED BY <1>2, <2>1, <2>3
<1>. QED BY <1>1, <1>2

\* Deriving a token: the draft or the verdict grows by the target's next token.
LEMMA TokenResults ==
    ASSUME KernelInv, Ready, NEW s, NEW k, NEW h, Block(s, k, h), Results(s, k, h), DeriveToken
    PROVE  Results(s, k, h)'
<1>1. s = "token" /\ thread[0].i = k /\ Todo(0, s, k, h) /\ ~Done(0, s, k)
  BY PhaseOf, ThreadZero DEF DeriveToken
<1>2. Past(s, k, h) = h /\ Len(h) = k /\ Answer(h) /\ k < Steps /\ h \in Seq(Vocab) /\ k \in Nat
  BY <1>1 DEF Past, Results, DeriveToken, Block
<1>3. UNCHANGED called /\ UNCHANGED <<aligned, branch, base, candidate>>
  BY DEF DeriveToken, called, input, proposal
<1>. DEFINE w == words[CHOOSE u \in Taps : TRUE]
<1>4. w = h /\ Coherent(w)
  <2>1. Taps \subseteq Thread /\ (CHOOSE u \in Taps : TRUE) \in Taps
    BY DeviceConstants DEF Thread
  <2>2. sprev = LastToken(h) /\ \A v \in Thread : words[v] = h
    BY <1>1 DEF Block, Memory
  <2>. QED BY <1>2, <2>1, <2>2, NotTorn DEF Coherent, LastToken
<1>5. PICK e \in Vocab : Expects(Origin, h, e) /\ out' = Written(k, e) /\ sprev' = Followed(k, e)
  <2>1. \E e \in Vocab :
           /\ IF Coherent(w) THEN Expects(Origin, w, e) ELSE UNCHANGED target
           /\ out' = Written(thread[0].i, e) /\ sprev' = Followed(thread[0].i, e)
    BY DEF DeriveToken
  <2>. HIDE DEF w
  <2>. QED BY <1>1, <1>4, <2>1
<1>6. Done(0, s, k)' /\ \A u \in Thread : thread'[u] = Gone => thread[u] = Gone
  <2>1. PerThread(thread) /\ Ends(0, "mix", k)
    BY <1>1 DEF KernelInv, DeriveToken
  <2>2. thread' = [thread EXCEPT ![0] = At("mix", TRUE, k, 0, <<>>)]
    BY <1>1, <2>1, EndsStage, ThreadZero DEF Todo
  <2>3. thread'[0] = At("mix", TRUE, k, 0, <<>>)
    BY <2>1, <2>2, ThreadZero DEF PerThread
  <2>. QED BY <1>1, <2>1, <2>3, EndsNotGone, ThreadZero DEF Done, Succ, Round
<1>7. PICK y : y = Append(h, Followed(k, e))
  OBVIOUS
<1>8. Past(s, k, h)' = y
  BY <1>1, <1>5, <1>6, <1>7 DEF Past
<1>9. DOMAIN out = {"tokens", "per", "accepted", "firstRejection"}
  BY <1>2 DEF Answer
<1>10. Steps' = Steps /\ (Proposing' <=> Proposing) /\ Steps \in Nat
  BY <1>3, LenProperties DEF called, Steps, Proposing, Ready
<1>11. ASSUME Proposing PROVE Answer(y)'
  <2>1. y = Append(h, DraftToken(Len(h), e)) /\ Expects("dispatched", h, e)
    BY <1>2, <1>5, <1>7, <1>11 DEF Followed, Origin
  <2>2. Drafted(y)' /\ y \in Seq(Vocab) /\ Len(y) = k + 1
    BY <1>2, <1>3, <1>11, <2>1, DraftMore DEF Answer, KernelInv
  <2>3. out'.tokens = y /\ DOMAIN out' = DOMAIN out
    BY <1>2, <1>5, <1>9, <1>11, <2>1, WrittenFields DEF Answer
  <2>. QED BY <1>2, <1>9, <1>10, <1>11, <2>2, <2>3 DEF Answer
<1>12. ASSUME ~Proposing PROVE Answer(y)'
  <2>1. PICK per, acc, frej : per = out.per /\ acc = out.accepted /\ frej = out.firstRejection
    OBVIOUS
  <2>2. PICK ok \in BOOLEAN : ok = (e = candidate[k + 1])
    OBVIOUS
  <2>3. PICK p, a, f : p = out'.per /\ a = out'.accepted /\ f = out'.firstRejection
    OBVIOUS
  <2>4. /\ p = Append(per, ok) /\ a = (IF ok THEN acc + 1 ELSE acc)
        /\ f = (IF ~ok /\ frej = Len(candidate) THEN Len(h) ELSE frej)
        /\ DOMAIN out' = DOMAIN out
    BY <1>2, <1>5, <1>9, <1>12, <2>1, <2>2, <2>3, WrittenFields
  <2>5. y = Append(h, e) /\ Expects(base, h, e) /\ Steps = Len(candidate)
    BY <1>5, <1>7, <1>12 DEF Followed, Origin, Steps
  <2>6. Judged(h, per, acc, frej) /\ Len(h) < Len(candidate) /\ (ok <=> e = candidate[Len(h) + 1])
    BY <1>2, <1>12, <2>1, <2>2, <2>5 DEF Answer
  <2>7. Judged(y, p, a, f)' /\ Len(y) = k + 1
    <3>1. OneMore(h, per, acc, frej, e, ok, y, p, a, f) /\ SameCall
      BY <1>3, <2>4, <2>5, <2>6 DEF OneMore, SameCall
    <3>2. Judged(y, p, a, f)' /\ Len(y) = Len(h) + 1
      BY <2>5, <2>6, <3>1, VerdictMore
    <3>. QED BY <1>2, <3>2
  <2>8. y \in Seq(Vocab)
    BY <2>7 DEF Judged
  <2>. QED BY <1>2, <1>9, <1>10, <1>12, <2>3, <2>4, <2>7, <2>8 DEF Answer
<1>13. Answer(y)'
  BY <1>11, <1>12
<1>14. \A u \in Thread : thread'[u] = Gone => k = Steps'
  BY <1>6, <1>10 DEF Results
<1>. QED BY <1>2, <1>8, <1>13, <1>14 DEF Results

\* The other steps of a phase leave the answer alone.
LEMMA OtherResults ==
    ASSUME KernelInv, NEW s, NEW k, NEW h, Block(s, k, h), Results(s, k, h),
           NEW t \in Thread, SkipToken(t) \/ Leave(t) \/ Mix(t) \/ Copy(t)
    PROVE  Results(s, k, h)'
<1>1. UNCHANGED <<answered, sprev>>
  BY DEF SkipToken, Leave, Mix, Copy, answered, vars, input, proposal, memory
<1>2. PerThread(thread)
  BY DEF KernelInv
<1>3. CASE SkipToken(t)
  <2>1. /\ \A u \in Thread : thread'[u] = Gone => thread[u] = Gone
        /\ thread'[0] = thread[0]
    BY <1>2, <1>3, EndsNotGone DEF SkipToken
  <2>2. Done(0, s, k)' <=> Done(0, s, k)
    BY <2>1 DEF Done
  <2>. QED BY <1>1, <2>1, <2>2, ResultsKept
<1>4. CASE Leave(t)
  <2>1. thread[t].i = k /\ ~Done(t, s, k)
    BY <1>4, PhaseOf DEF Leave
  <2>2. thread[t].i = Steps /\ thread'[t] = Gone /\ \A u \in Thread : u # t => thread'[u] = thread[u]
    BY <1>2, <1>4 DEF Leave, PerThread
  <2>3. Done(0, s, k)' <=> Done(0, s, k)
    <3>1. CASE t = 0
      BY <2>1, <2>2, <3>1 DEF Done, Gone, At
    <3>2. CASE t # 0
      BY <2>2, <3>2, ThreadZero DEF Done
    <3>. QED BY <3>1, <3>2
  <2>4. \A u \in Thread : thread'[u] = Gone => thread[u] = Gone \/ k = Steps
    BY <2>1, <2>2
  <2>. QED BY <1>1, <2>3, <2>4, ResultsKept
<1>5. CASE Mix(t)
  <2>1. s = "mix"
    BY <1>5, PhaseOf DEF Mix
  <2>2. CASE Ends(t, "copy", thread[t].i)
    BY <1>1, <1>2, <2>1, <2>2, EndsNotGone, ResultsKept
  <2>3. CASE ~Ends(t, "copy", thread[t].i)
    <3>1. /\ thread'[t].stage = "mix"
          /\ \A u \in Thread : u # t => thread'[u] = thread[u]
      BY <1>2, <1>5, <2>3 DEF Mix, PerThread, At
    <3>2. thread'[t] # Gone
      BY <3>1 DEF Gone, At
    <3>. QED BY <1>1, <2>1, <3>1, <3>2, ResultsKept
  <2>. QED BY <2>2, <2>3
<1>6. CASE Copy(t)
  <2>1. s = "copy"
    BY <1>6, PhaseOf DEF Copy
  <2>2. \A u \in Thread : thread'[u] = Gone => thread[u] = Gone
    BY <1>2, <1>6, EndsNotGone DEF Copy
  <2>. QED BY <1>1, <2>1, <2>2, ResultsKept
<1>. QED BY <1>3, <1>4, <1>5, <1>6

\* The barrier hands the answer on to the next phase.
LEMMA BarrierResults ==
    ASSUME KernelInv, NEW s, NEW k, NEW h, Block(s, k, h), Results(s, k, h), Barrier,
           NEW z, z = Begun(s, h)
    PROVE  Results(Succ(s), Round(s, k), z)'
<1>1. ASSUME NEW t \in Thread PROVE Done(t, s, k) /\ thread[t].waits
  <2>1. thread[t].waits
    BY DEF Barrier
  <2>2. thread[t] # Gone /\ ~Todo(t, s, k, h)
    BY <2>1, Standing DEF Todo
  <2>. QED BY <2>1, <2>2 DEF Block, Threads
<1>2. ASSUME NEW t \in Thread
      PROVE  thread'[t].waits = FALSE /\ thread'[t].stage = Succ(s)
  <2>1. thread'[t] = [thread[t] EXCEPT !.waits = FALSE]
    BY DEF Barrier
  <2>2. thread[t] = At(Succ(s), TRUE, Round(s, k), 0, <<>>)
    BY <1>1 DEF Done
  <2>3. thread'[t] = [At(Succ(s), TRUE, Round(s, k), 0, <<>>) EXCEPT !.waits = FALSE]
    BY <2>1, <2>2
  <2>. QED BY <2>3 DEF At
<1>3. s \in {"seed", "token", "mix", "copy"} /\ h \in Seq(Vocab) /\ k \in Nat
  BY DEF Block
<1>4. ~Done(0, Succ(s), Round(s, k))'
  <2>1. Done(0, Succ(s), Round(s, k))' => thread'[0].waits = TRUE
    BY DEF Done, At
  <2>. QED BY <1>2, <2>1, ThreadZero
<1>5. \A t \in Thread : thread'[t] # Gone
  <2>1. Gone.stage = "exit" /\ Succ(s) # "exit"
    BY <1>3 DEF Gone, At, Succ
  <2>. QED BY <1>2, <2>1
<1>6. UNCHANGED answered /\ sprev' = sprev
  BY DEF Barrier, answered, vars, input, proposal, memory
<1>7. Done(0, s, k)
  BY <1>1, ThreadZero
<1>8. Len(h) = k /\ Answer(Past(s, k, h))
  BY <1>7 DEF Results
<1>9. PICK x : x = Past(s, k, h)
  OBVIOUS
<1>10. Past(Succ(s), Round(s, k), z)' = x
  <2>1. CASE s = "seed"
    BY <1>4, <1>9, <2>1 DEF Past, Succ, Begun
  <2>2. CASE s = "token"
    BY <1>6, <1>7, <1>9, <2>2 DEF Past, Succ, Begun
  <2>3. CASE s = "mix"
    BY <1>6, <1>9, <2>3 DEF Past, Succ, Begun
  <2>4. CASE s = "copy"
    BY <1>4, <1>9, <2>4 DEF Past, Succ, Begun
  <2>. QED BY <1>3, <2>1, <2>2, <2>3, <2>4
<1>11. Answer(x)'
  BY <1>6, <1>8, <1>9, AnswerKept
<1>12. Len(z) = Round(s, k)
  <2>1. CASE s = "copy"
    <3>1. sprev \in Vocab
      BY <2>1 DEF Block
    <3>. QED BY <1>3, <1>8, <2>1, <3>1, AppendProperties DEF Begun, Round
  <2>2. CASE s # "copy"
    BY <1>8, <2>2 DEF Begun, Round
  <2>. QED BY <2>1, <2>2
<1>. QED BY <1>5, <1>10, <1>11, <1>12 DEF Results
-----------------------------------------------------------------------------
(***************************************************************************)
(* The calls                                                               *)
(***************************************************************************)

\* The verdict that was given or is being made is about all of the candidate.
WholeVerdict ==
    \E x : Len(x) = Len(candidate) /\ Judged(x, perPosition, acceptedPrefix, firstRejection)

\* The proposal: what is known of the candidate at each point.
ProposalInv ==
    /\ Ready /\ pc \in {"propose", "verify", "compare", "done"}
    /\ pc = "propose" => ~has /\ (candidate # <<>> => backend = "cpu" /\ Draftable)
    /\ has => Len(candidate) = depth
    /\ pc # "propose" /\ candidate # <<>> => has

\* The verdict: nothing before the verification, then the part that is done.
VerdictInv ==
    /\ pc \in {"propose", "verify"} => truth = <<>> /\ perPosition = <<>> /\ acceptedPrefix = 0
    /\ pc = "compare" => candidate # <<>> /\ Judged(truth, perPosition, acceptedPrefix, firstRejection)
    /\ Verified => candidate # <<>> /\ WholeVerdict

\* The device: a kernel works on its answer, and one that ended without an error
\* has given it.
AnswerInv ==
    /\ host # "out" => InCall /\ (pc = "verify" => candidate # <<>>)
    /\ host = "kernel" /\ ~broken => \E s, k, h : Block(s, k, h) /\ Results(s, k, h)
    /\ host = "copyOut" \/ (host = "check" /\ ~broken /\ ~lastError) =>
          \E x : Len(x) = Steps /\ Answer(x)

CallInv == ProposalInv /\ VerdictInv /\ AnswerInv

\* It holds when the first call begins.
LEMMA CallInit == DeviceInit => CallInv
<1>. SUFFICES ASSUME DeviceInit PROVE CallInv
  OBVIOUS
<1>1. candidate = <<>> /\ <<>> \in Seq(Vocab) /\ Len(<<>>) = 0
  BY EmptySeq DEF DeviceInit, Init
<1>2. Drafted(candidate)
  BY <1>1 DEF Drafted
<1>3. Ready
  BY <1>1, <1>2, ExecutorConstants DEF Ready, DeviceInit, Init
<1>4. ProposalInv
  BY <1>1, <1>3 DEF ProposalInv, DeviceInit, Init
<1>5. VerdictInv
  BY DEF VerdictInv, Verified, DeviceInit, Init
<1>6. AnswerInv
  BY DEF AnswerInv, DeviceInit
<1>. QED BY <1>4, <1>5, <1>6 DEF CallInv

\* So it does when the next one begins.
LEMMA CallNextInput ==
    ASSUME CallInv, NextInput, branch' \in Branches
    PROVE  CallInv'
<1>1. candidate' = <<>> /\ <<>> \in Seq(Vocab) /\ Len(<<>>) = 0 /\ pc = "done"
  BY EmptySeq DEF NextInput
<1>2. Drafted(candidate)'
  BY <1>1 DEF Drafted
<1>3. Ready'
  BY <1>1, <1>2, ExecutorConstants DEF Ready, NextInput, CallInv, ProposalInv
<1>4. ProposalInv'
  BY <1>1, <1>3 DEF ProposalInv, NextInput
<1>5. VerdictInv'
  BY DEF VerdictInv, Verified, NextInput
<1>6. host = "out" /\ host' = "out"
  BY <1>1 DEF CallInv, AnswerInv, InCall, NextInput, deviceVars
<1>7. AnswerInv'
  BY <1>6 DEF AnswerInv
<1>. QED BY <1>4, <1>5, <1>7 DEF CallInv

\* The CPU executors.
LEMMA CallCpu ==
    ASSUME CallInv, CpuStep
    PROVE  CallInv'
<1>1. host' = "out" /\ backend' = backend /\ backend = "cpu"
  BY DEF CallInv, AnswerInv, InCall, CpuStep, deviceVars
<1>2. AnswerInv'
  BY <1>1 DEF AnswerInv
<1>3. UNCHANGED <<depth, aligned, branch, base>>
  BY DEF CpuStep, Next, ProposeRefused, ProposeToken, ProposeDone, VerifierFails, VerifyStart,
     VerifyToken, VerifyDone, input
<1>4. /\ Ready /\ Len(candidate) \in Nat
  BY LenProperties DEF CallInv, ProposalInv, Ready
<1>5. ASSUME target' = target, candidate' = candidate PROVE Ready' /\ Extended
  <2>1. Extended
    BY <1>3, <1>5 DEF Extended
  <2>2. PICK c : c = candidate /\ Drafted(c)
    BY <1>4 DEF Ready
  <2>3. Drafted(c)'
    BY <2>1, <2>2, DraftKept
  <2>. QED BY <1>3, <1>4, <1>5, <2>1, <2>2, <2>3 DEF Ready
<1>6. CASE ProposeRefused
  <2>1. Ready'
    BY <1>5, <1>6 DEF ProposeRefused, proposal
  <2>2. ProposalInv'
    BY <1>6, <2>1 DEF ProposalInv, CallInv, ProposeRefused, proposal
  <2>3. VerdictInv'
    BY <1>6 DEF VerdictInv, CallInv, ProposeRefused, verdict, Verified
  <2>. QED BY <1>2, <2>2, <2>3 DEF CallInv
<1>7. CASE ProposeToken
  <2>1. PICK e \in Vocab : Expects("dispatched", candidate, e)
                           /\ candidate' = Append(candidate, DraftToken(Len(candidate), e))
    BY <1>7 DEF ProposeToken
  <2>2. PICK c, d : c = candidate /\ d = candidate'
    OBVIOUS
  <2>3. Drafted(d)' /\ d \in Seq(Vocab)
    <3>1. /\ c \in Seq(Vocab) /\ Drafted(c) /\ branch \in Branches
          /\ Expects("dispatched", c, e) /\ d = Append(c, DraftToken(Len(c), e))
          /\ UNCHANGED <<aligned, branch, base>>
      BY <1>3, <1>4, <2>1, <2>2 DEF Ready
    <3>. QED BY <3>1, DraftMore
  <2>4. Ready'
    BY <1>3, <1>4, <2>2, <2>3 DEF Ready
  <2>5. pc' = "propose" /\ pc = "propose" /\ has' = has /\ Draftable'
    BY <1>3, <1>7 DEF ProposeToken, Draftable
  <2>6. ProposalInv'
    BY <1>1, <2>4, <2>5 DEF ProposalInv, CallInv
  <2>7. VerdictInv'
    BY <1>7, <2>5 DEF VerdictInv, CallInv, ProposeToken, verdict, Verified
  <2>. QED BY <1>2, <2>6, <2>7 DEF CallInv
<1>8. CASE ProposeDone
  <2>1. Ready'
    BY <1>5, <1>8 DEF ProposeDone
  <2>2. ProposalInv'
    BY <1>3, <1>8, <2>1 DEF ProposalInv, CallInv, ProposeDone
  <2>3. VerdictInv'
    BY <1>8 DEF VerdictInv, CallInv, ProposeDone, verdict, Verified
  <2>. QED BY <1>2, <2>2, <2>3 DEF CallInv
<1>9. CASE VerifierFails
  <2>1. Ready'
    BY <1>5, <1>9 DEF VerifierFails, proposal
  <2>2. ProposalInv'
    BY <1>3, <1>9, <2>1 DEF ProposalInv, CallInv, VerifierFails, proposal
  <2>3. VerdictInv'
    BY <1>9 DEF VerdictInv, VerifierFails, Verified
  <2>. QED BY <1>2, <2>2, <2>3 DEF CallInv
<1>10. CASE VerifyStart
  <2>1. Ready'
    BY <1>5, <1>10 DEF VerifyStart, proposal
  <2>2. ProposalInv'
    BY <1>3, <1>10, <2>1 DEF ProposalInv, CallInv, VerifyStart, proposal
  <2>3. PICK n : n = Len(candidate') /\ n = firstRejection'
    BY <1>10 DEF VerifyStart, proposal
  <2>4. Judged(<<>>, <<>>, 0, n)'
    BY <2>1, <2>3, FirstVerdict DEF Ready
  <2>5. truth' = <<>> /\ perPosition' = <<>> /\ acceptedPrefix' = 0
    BY <1>10 DEF VerifyStart, VerdictInv, CallInv
  <2>6. VerdictInv'
    BY <1>10, <2>3, <2>4, <2>5 DEF VerdictInv, VerifyStart, proposal, Verified
  <2>. QED BY <1>2, <2>2, <2>6 DEF CallInv
<1>11. CASE VerifyToken
  <2>1. PICK e \in Vocab :
           LET ok == e = candidate[Len(truth) + 1] IN
           /\ Expects(base, truth, e)
           /\ truth' = Append(truth, e)
           /\ perPosition' = Append(perPosition, ok)
           /\ acceptedPrefix' = IF ok THEN acceptedPrefix + 1 ELSE acceptedPrefix
           /\ firstRejection' = IF ~ok /\ firstRejection = Len(candidate)
                                THEN Len(truth) ELSE firstRejection
    BY <1>11 DEF VerifyToken, FirstRejection
  <2>2. PICK x, per, acc, frej : x = truth /\ per = perPosition /\ acc = acceptedPrefix
                                 /\ frej = firstRejection
    OBVIOUS
  <2>3. PICK y, p, a, f : y = truth' /\ p = perPosition' /\ a = acceptedPrefix'
                          /\ f = firstRejection'
    OBVIOUS
  <2>4. PICK ok \in BOOLEAN : ok = (e = candidate[Len(truth) + 1])
    OBVIOUS
  <2>5. SameCall /\ pc = "compare" /\ pc' = "compare" /\ UNCHANGED <<has, candidate>>
    BY <1>3, <1>11 DEF VerifyToken, SameCall, proposal
  <2>6. OneMore(x, per, acc, frej, e, ok, y, p, a, f)
    BY <1>11, <2>1, <2>2, <2>3, <2>4 DEF OneMore, VerifyToken
  <2>7. Judged(y, p, a, f)'
    <3>1. Judged(x, per, acc, frej) /\ Expects(base, x, e)
      BY <2>1, <2>2, <2>5 DEF CallInv, VerdictInv
    <3>. QED BY <1>4, <2>5, <2>6, <3>1, VerdictMore
  <2>8. Ready'
    <3>1. PICK c : c = candidate /\ Drafted(c)
      BY <1>4 DEF Ready
    <3>2. Extended
      BY <1>3, <2>1, AskTarget
    <3>3. Drafted(c)'
      BY <3>1, <3>2, DraftKept
    <3>. QED BY <1>3, <1>4, <2>5, <3>1, <3>3 DEF Ready
  <2>9. ProposalInv'
    BY <1>3, <2>5, <2>8 DEF ProposalInv, CallInv
  <2>10. VerdictInv'
    BY <2>3, <2>5, <2>7 DEF VerdictInv, CallInv, Verified
  <2>. QED BY <1>2, <2>9, <2>10 DEF CallInv
<1>12. CASE VerifyDone
  <2>1. Ready' /\ Extended /\ candidate' = candidate
    BY <1>5, <1>12 DEF VerifyDone, proposal
  <2>2. ProposalInv'
    BY <1>3, <1>12, <2>1 DEF ProposalInv, CallInv, VerifyDone, proposal
  <2>3. PICK x, per, acc, frej : /\ x = truth /\ per = perPosition /\ acc = acceptedPrefix
                                 /\ frej = firstRejection
    OBVIOUS
  <2>4. candidate # <<>> /\ Judged(x, per, acc, frej)
    BY <1>12, <2>3 DEF VerifyDone, VerdictInv, CallInv
  <2>5. Judged(x, per, acc, frej)' /\ Len(x) = Len(candidate')
    BY <1>12, <2>1, <2>3, <2>4, VerdictKept DEF VerifyDone
  <2>6. WholeVerdict'
    BY <1>12, <2>3, <2>5 DEF WholeVerdict, VerifyDone
  <2>7. VerdictInv'
    BY <1>12, <2>1, <2>4, <2>6 DEF VerdictInv, VerifyDone
  <2>. QED BY <1>2, <2>2, <2>7 DEF CallInv
<1>. QED BY <1>6, <1>7, <1>8, <1>9, <1>10, <1>11, <1>12 DEF CpuStep, Next

\* What a call is about stays while the target is only asked for more.
LEMMA ReadyKept ==
    ASSUME Ready, Extended, UNCHANGED <<candidate, depth>>
    PROVE  Ready'
<1>1. PICK c : c = candidate /\ Drafted(c)
  BY DEF Ready
<1>2. Drafted(c)'
  BY <1>1, DraftKept
<1>. QED BY <1>1, <1>2 DEF Ready, Extended

\* A step inside a call of the device's executors touches neither candidate nor verdict.
LEMMA WithinCall ==
    ASSUME CallInv, InCall, Extended, UNCHANGED <<backend, pc, depth, proposal, verdict>>
    PROVE  ProposalInv' /\ VerdictInv' /\ InCall'
<1>1. Ready'
  BY ReadyKept DEF CallInv, ProposalInv, proposal
<1>2. ProposalInv'
  BY <1>1 DEF CallInv, ProposalInv, InCall, proposal, Draftable
<1>3. VerdictInv'
  BY DEF CallInv, VerdictInv, InCall, verdict, Verified
<1>. QED BY <1>2, <1>3 DEF InCall, proposal

\* Nothing changes for the caller.
LEMMA SameVars ==
    ASSUME UNCHANGED vars
    PROVE  Extended /\ UNCHANGED <<pc, depth, proposal, verdict>> /\ UNCHANGED called
           /\ UNCHANGED <<candidate, target>>
BY DEF vars, input, Extended, proposal, verdict, called

\* A step of the block.
LEMMA CallKernel ==
    ASSUME CallInv, KernelInv, Kernel
    PROVE  CallInv'
<1>1. host = "kernel" /\ host' = "kernel" /\ InCall /\ UNCHANGED <<broken, backend>>
  BY DEF CallInv, AnswerInv, Kernel, DeriveToken, Barrier, Seed, SkipToken, Leave, Mix, Copy, Runs, runtime
<1>2. Extended /\ UNCHANGED <<pc, depth, proposal, verdict, candidate>>
  <2>1. CASE DeriveToken
    <3>1. UNCHANGED <<aligned, branch, base>> /\ UNCHANGED <<pc, depth, proposal, verdict, candidate>>
      BY <2>1 DEF DeriveToken, input, proposal
    <3>2. target' = target \/ \E e, x : Expects(Origin, x, e)
      BY <2>1 DEF DeriveToken
    <3>. QED BY <3>1, <3>2, AskTarget DEF Extended
  <2>2. CASE UNCHANGED vars
    BY <2>2, SameVars
  <2>. QED BY <2>1, <2>2 DEF Kernel, Barrier, Seed, SkipToken, Leave, Mix, Copy
<1>3. ProposalInv' /\ VerdictInv' /\ InCall'
  BY <1>1, <1>2, WithinCall
<1>4. ~broken => (\E s, k, h : Block(s, k, h) /\ Results(s, k, h))'
  <2>. SUFFICES ASSUME ~broken PROVE (\E s, k, h : Block(s, k, h) /\ Results(s, k, h))'
    OBVIOUS
  <2>1. PICK s, k, h : Block(s, k, h) /\ Results(s, k, h)
    BY <1>1 DEF CallInv, AnswerInv
  <2>2. Ready
    BY DEF CallInv, ProposalInv
  <2>3. CASE Barrier
    <3>1. PICK z : z = Begun(s, h) /\ Block(Succ(s), Round(s, k), z)'
      BY <2>1, <2>3, BarrierStep
    <3>2. Results(Succ(s), Round(s, k), z)'
      BY <2>1, <2>3, <3>1, BarrierResults
    <3>. QED BY <3>1, <3>2
  <2>4. CASE DeriveToken
    BY <2>1, <2>2, <2>4, TokenStep, TokenResults
  <2>5. ASSUME NEW t \in Thread, Seed(t)
        PROVE  Block(s, k, h)' /\ Results(s, k, h)'
    BY <2>1, <2>2, <2>5, SeedStep, SeedResults
  <2>6. ASSUME NEW t \in Thread, SkipToken(t) \/ Leave(t) \/ Mix(t) \/ Copy(t)
        PROVE  Block(s, k, h)' /\ Results(s, k, h)'
    BY <2>1, <2>6, SkipStep, LeaveStep, MixStep, CopyStep, OtherResults
  <2>. QED BY <2>3, <2>4, <2>5, <2>6 DEF Kernel
<1>5. AnswerInv'
  BY <1>1, <1>2, <1>3, <1>4 DEF AnswerInv, CallInv
<1>. QED BY <1>3, <1>5 DEF CallInv

\* A call that gives up hands back no candidate and no verdict.
LEMMA CallGivesUp ==
    ASSUME CallInv, InCall, GivesUp, backend' = backend
    PROVE  CallInv'
<1>1. Extended /\ UNCHANGED <<depth, candidate, has, truth, perPosition, acceptedPrefix>>
  BY DEF GivesUp, Extended, input, proposal
<1>2. Ready'
  BY <1>1, ReadyKept DEF CallInv, ProposalInv
<1>3. ProposalInv'
  BY <1>1, <1>2 DEF CallInv, ProposalInv, InCall, GivesUp, Proposing
<1>4. VerdictInv'
  BY <1>1 DEF CallInv, VerdictInv, InCall, GivesUp, Proposing, Verified
<1>5. AnswerInv'
  BY DEF AnswerInv, GivesUp
<1>. QED BY <1>3, <1>4, <1>5 DEF CallInv

\* The results that are copied back are the draft or the verdict.
LEMMA CallCopied ==
    ASSUME CallInv, InCall, host = "copyOut", CopyFromDevice, backend' = backend
    PROVE  CallInv'
<1>1. PICK x : Len(x) = Steps /\ Answer(x)
  BY DEF CallInv, AnswerInv
<1>2. Extended /\ depth' = depth /\ Ready /\ host' = "out"
  BY DEF CopyFromDevice, Extended, input, CallInv, ProposalInv
<1>3. AnswerInv'
  BY <1>2 DEF AnswerInv
<1>4. CASE Proposing
  <2>1. candidate' = x /\ has' = TRUE /\ pc' = "verify" /\ Drafted(x) /\ x \in Seq(Vocab)
        /\ Len(x) = depth'
    BY <1>1, <1>2, <1>4 DEF CopyFromDevice, Answer, Steps
  <2>2. Drafted(x)'
    BY <1>2, <2>1, DraftKept
  <2>3. Ready'
    BY <1>2, <2>1, <2>2 DEF Ready, Extended
  <2>4. ProposalInv'
    BY <2>1, <2>3 DEF ProposalInv
  <2>5. VerdictInv'
    BY <1>4, <2>1 DEF CallInv, VerdictInv, CopyFromDevice, Proposing, Verified
  <2>. QED BY <1>3, <2>4, <2>5 DEF CallInv
<1>5. CASE ~Proposing
  <2>1. pc' = "done" /\ UNCHANGED <<has, candidate>> /\ pc = "verify"
    BY <1>5 DEF CopyFromDevice, proposal, InCall, Proposing
  <2>2. Ready'
    BY <1>2, <2>1, ReadyKept
  <2>3. ProposalInv'
    BY <1>2, <2>1, <2>2 DEF ProposalInv, CallInv
  <2>4. PICK per, acc, frej : per = out.per /\ acc = out.accepted /\ frej = out.firstRejection
    OBVIOUS
  <2>5. Judged(x, per, acc, frej) /\ Len(x) = Len(candidate')
    BY <1>1, <1>5, <2>1, <2>4 DEF Answer, Steps
  <2>6. Judged(x, per, acc, frej)'
    BY <1>2, <2>1, <2>5, VerdictKept
  <2>7. per = perPosition' /\ acc = acceptedPrefix' /\ frej = firstRejection'
    BY <1>5, <2>4 DEF CopyFromDevice
  <2>8. WholeVerdict'
    BY <2>5, <2>6, <2>7 DEF WholeVerdict
  <2>9. candidate' # <<>>
    BY <2>1 DEF CallInv, AnswerInv
  <2>10. VerdictInv'
    BY <2>1, <2>8, <2>9 DEF VerdictInv
  <2>. QED BY <1>3, <2>3, <2>10 DEF CallInv
<1>. QED BY <1>4, <1>5

\* A step of the host.
LEMMA CallHost ==
    ASSUME CallInv, KernelInv, Host
    PROVE  CallInv'
<1>1. InCall /\ backend' = backend
  <2>1. Synchronize => InCall
    BY DEF CallInv, AnswerInv, Synchronize
  <2>. QED BY <2>1 DEF Host, RejectInput, SelectDevice, Allocate, CopyToDevice, Launch, Synchronize,
           CheckKernel, CopyBack, Operation
<1>2. CASE GivesUp
  BY <1>1, <1>2, CallGivesUp
<1>3. CASE host = "copyOut" /\ CopyFromDevice
  BY <1>1, <1>3, CallCopied
<1>4. ASSUME UNCHANGED vars
      PROVE  /\ ProposalInv' /\ VerdictInv' /\ InCall'
             /\ UNCHANGED <<candidate, pc, depth, aligned, branch, base, target>>
  BY <1>1, <1>4, SameVars, WithinCall DEF called
<1>5. CASE SelectDevice /\ ~GivesUp
  <2>1. UNCHANGED vars /\ host' = "alloc" /\ (pc = "verify" => candidate # <<>>)
    BY <1>5 DEF SelectDevice, Proposing
  <2>. QED BY <1>4, <2>1 DEF CallInv, AnswerInv
<1>6. CASE (Allocate \/ CopyToDevice) /\ ~GivesUp
  <2>1. UNCHANGED vars /\ host' \in {"copyIn", "launch"} /\ host # "out"
    BY <1>6 DEF Allocate, CopyToDevice, Operation
  <2>. QED BY <1>4, <2>1 DEF CallInv, AnswerInv
<1>7. CASE Launch
  <2>1. UNCHANGED vars /\ host # "out" /\ (host' = "kernel" \/ (host' = "check" /\ lastError'))
    BY <1>7 DEF Launch
  <2>2. host' = "kernel" => Block("seed", 0, <<>>)' /\ ~Done(0, "seed", 0)'
    BY <1>7, LaunchStep
  <2>3. host' = "kernel" => Results("seed", 0, <<>>)'
    <3>. SUFFICES ASSUME host' = "kernel" PROVE Results("seed", 0, <<>>)'
      OBVIOUS
    <3>1. \A t \in Thread : thread'[t] = At("seed", FALSE, 0, 0, <<>>)
      BY <1>7 DEF Launch
    <3>2. \A t \in Thread : thread'[t] # Gone
      BY <3>1 DEF Gone, At
    <3>. QED BY <2>2, <3>2 DEF Results
  <2>4. host' = "kernel" => (\E s, k, h : Block(s, k, h) /\ Results(s, k, h))'
    BY <2>2, <2>3
  <2>. QED BY <1>4, <2>1, <2>4 DEF CallInv, AnswerInv
<1>8. CASE Synchronize
  <2>1. UNCHANGED vars /\ host = "kernel" /\ host' = "check" /\ UNCHANGED <<broken, lastError, out>>
    BY <1>8 DEF Synchronize, runtime, memory
  <2>2. ~broken => (\E x : Len(x) = Steps /\ Answer(x))'
    <3>. SUFFICES ASSUME ~broken PROVE (\E x : Len(x) = Steps /\ Answer(x))'
      OBVIOUS
    <3>1. PICK s, k, h : Block(s, k, h) /\ Results(s, k, h)
      BY <2>1 DEF CallInv, AnswerInv
    <3>2. thread[0].stage = "exit"
      BY <1>8, ThreadZero DEF Synchronize
    <3>3. ~Todo(0, s, k, h) /\ ~Done(0, s, k)
      BY <3>1, <3>2, Standing DEF Todo, Succ, Block
    <3>4. s = "token" /\ thread[0] = Gone
      BY <3>1, <3>3, ThreadZero DEF Block, Threads
    <3>5. k = Steps /\ Len(h) = k /\ Answer(h)
      BY <3>1, <3>3, <3>4, ThreadZero DEF Results, Past
    <3>6. UNCHANGED answered /\ Steps' = Steps
      BY <1>4, <2>1 DEF answered, Steps, Proposing
    <3>7. Answer(h)' /\ Len(h) = Steps'
      BY <3>5, <3>6, AnswerKept
    <3>. QED BY <3>7
  <2>. QED BY <1>4, <2>1, <2>2 DEF CallInv, AnswerInv
<1>9. CASE CheckKernel /\ ~GivesUp
  <2>1. UNCHANGED vars /\ host = "check" /\ host' = "copyOut" /\ ~broken /\ ~lastError
        /\ UNCHANGED out
    BY <1>9 DEF CheckKernel, ErrorSeen, memory
  <2>2. PICK x : Len(x) = Steps /\ Answer(x)
    BY <2>1 DEF CallInv, AnswerInv
  <2>3. UNCHANGED answered /\ Steps' = Steps
    BY <1>4, <2>1 DEF answered, Steps, Proposing
  <2>4. Answer(x)' /\ Len(x) = Steps'
    BY <2>2, <2>3, AnswerKept
  <2>5. (\E z : Len(z) = Steps /\ Answer(z))'
    BY <2>4
  <2>. QED BY <1>4, <2>1, <2>5 DEF CallInv, AnswerInv
<1>. QED BY <1>2, <1>3, <1>5, <1>6, <1>7, <1>8, <1>9 DEF Host, RejectInput, CopyBack

\* The device is lost: the kernel will give no answer.
LEMMA CallFault ==
    ASSUME CallInv, Fault
    PROVE  CallInv'
<1>1. InCall /\ host' = "kernel" /\ broken' /\ backend' = backend /\ UNCHANGED vars /\ host # "out"
  BY DEF CallInv, AnswerInv, Fault
<1>2. ProposalInv' /\ VerdictInv' /\ InCall' /\ UNCHANGED <<candidate, pc>>
  BY <1>1, SameVars, WithinCall
<1>. QED BY <1>1, <1>2 DEF CallInv, AnswerInv

\* Nothing happens.
LEMMA CallStutters ==
    ASSUME CallInv, UNCHANGED allVars
    PROVE  CallInv'
<1>1. /\ UNCHANGED <<backend, host, broken, lastError, out, words, next, sprev, thread, outcome>>
      /\ UNCHANGED <<truth, perPosition, acceptedPrefix, firstRejection, has>>
      /\ UNCHANGED answered /\ UNCHANGED vars
  BY DEF allVars, deviceVars, runtime, memory, vars, input, verdict, proposal, answered
<1>2. Extended /\ UNCHANGED <<pc, depth, candidate>> /\ Steps' = Steps
  BY <1>1, SameVars DEF answered, Steps, Proposing
<1>3. Ready'
  BY <1>2, ReadyKept DEF CallInv, ProposalInv
<1>4. ProposalInv'
  BY <1>1, <1>2, <1>3 DEF CallInv, ProposalInv, Draftable
<1>5. PICK per, acc, frej, w : /\ per = perPosition /\ acc = acceptedPrefix
                               /\ frej = firstRejection /\ w = truth
  OBVIOUS
<1>6. ASSUME NEW x, Judged(x, per, acc, frej) PROVE Judged(x, per, acc, frej)'
  BY <1>2, <1>6, VerdictKept
<1>7. WholeVerdict => WholeVerdict'
  BY <1>1, <1>2, <1>5, <1>6 DEF WholeVerdict
<1>8. Judged(truth, perPosition, acceptedPrefix, firstRejection)
        => Judged(truth, perPosition, acceptedPrefix, firstRejection)'
  BY <1>1, <1>5, <1>6
<1>9. VerdictInv'
  BY <1>1, <1>2, <1>7, <1>8 DEF CallInv, VerdictInv, Verified
<1>10. ASSUME NEW x, Answer(x) PROVE Answer(x)'
  BY <1>1, <1>10, AnswerKept
<1>11. ASSUME NEW s, NEW k, NEW h, Block(s, k, h), Results(s, k, h)
       PROVE  Block(s, k, h)' /\ Results(s, k, h)'
  BY <1>1, <1>11, SamePhase, ResultsKept
<1>12. (\E x : Len(x) = Steps /\ Answer(x)) => (\E x : Len(x) = Steps /\ Answer(x))'
  BY <1>2, <1>10
<1>13. (\E s, k, h : Block(s, k, h) /\ Results(s, k, h))
          => (\E s, k, h : Block(s, k, h) /\ Results(s, k, h))'
  BY <1>11
<1>14. AnswerInv'
  BY <1>1, <1>2, <1>12, <1>13 DEF CallInv, AnswerInv, InCall
<1>. QED BY <1>4, <1>9, <1>14 DEF CallInv

\* The invariant of the calls holds of both backends.
THEOREM CallCorrect == DeviceSpec => []CallInv
<1>1. ASSUME CallInv, KernelInv, KernelInv', [DeviceNext]_allVars PROVE CallInv'
  <2>1. CASE CpuStep
    BY <1>1, <2>1, CallCpu
  <2>2. CASE Kernel
    BY <1>1, <2>2, CallKernel
  <2>3. CASE Fault
    BY <1>1, <2>3, CallFault
  <2>4. CASE Host
    BY <1>1, <2>4, CallHost
  <2>5. CASE NextInput
    BY <1>1, <2>5, CallNextInput DEF KernelInv
  <2>6. CASE UNCHANGED allVars
    BY <1>1, <2>6, CallStutters
  <2>. QED BY <1>1, <2>1, <2>2, <2>3, <2>4, <2>5, <2>6 DEF DeviceNext
<1>. QED BY <1>1, CallInit, KernelCorrect, PTL DEF DeviceSpec

\* A draft that is verified against the authority it was made from diverges
\* exactly at the alignment, on both backends (cpu_proposer.hpp, aligned_tokens).
THEOREM DivergesAtAlignmentCorrect == DeviceSpec => []DivergesAtAlignment
<1>1. ASSUME CallInv PROVE DivergesAtAlignment
  <2>. SUFFICES ASSUME Verified, base = "dispatched"
                PROVE  firstRejection = Smaller(aligned, Len(candidate))
    BY DEF DivergesAtAlignment
  <2>1. PICK x : Len(x) = Len(candidate)
                 /\ Judged(x, perPosition, acceptedPrefix, firstRejection)
    BY <1>1 DEF CallInv, VerdictInv, WholeVerdict
  <2>2. Len(candidate) \in Nat /\ aligned \in Nat
    BY <1>1, LenProperties DEF CallInv, ProposalInv, Ready
  <2>3. IF Len(candidate) <= aligned THEN firstRejection = Len(candidate)
                                     ELSE firstRejection = aligned
    BY <2>1 DEF Judged
  <2>. QED BY <2>2, <2>3 DEF Smaller
<1>. QED BY <1>1, CallCorrect, PTL

\* Drafts and verdicts of both backends are those of the reference, whatever
\* failed before and however the threads of the block are scheduled
\* (cuda_executor.cu:6-8).
THEOREM MirrorsReferenceCorrect == DeviceSpec => []MirrorsReference
<1>1. ASSUME CallInv PROVE MirrorsReference
  <2>1. has => Len(candidate) = depth /\ Drafted(candidate)
    BY <1>1 DEF CallInv, ProposalInv, Ready
  <2>2. ASSUME Verified
        PROVE  has /\ \E x \in [1..depth -> Vocab] : Compared(x, perPosition, acceptedPrefix)
    <3>1. has
      BY <1>1, <2>2 DEF CallInv, ProposalInv, VerdictInv, Verified
    <3>2. PICK x : Len(x) = Len(candidate)
                   /\ Judged(x, perPosition, acceptedPrefix, firstRejection)
      BY <1>1, <2>2 DEF CallInv, VerdictInv, WholeVerdict
    <3>3. x \in Seq(Vocab) /\ Len(x) = depth /\ Compared(x, perPosition, acceptedPrefix)
      BY <2>1, <3>1, <3>2 DEF Judged
    <3>4. x \in [1..depth -> Vocab]
      BY <3>3, LenProperties
    <3>. QED BY <3>1, <3>3, <3>4
  <2>. QED BY <2>1, <2>2 DEF MirrorsReference
<1>. QED BY <1>1, CallCorrect, PTL
-----------------------------------------------------------------------------
(***************************************************************************)
(* Types                                                                   *)
(***************************************************************************)
Word == Seq(Vocab) \cup {Torn}

\* The answers of the target that were asked for.
TargetOK == \A h \in DOMAIN target : h \in Bases \X Seq(Vocab) /\ target[h] \in Vocab

\* The executors' variables; only a draftable depth gives a candidate.
CallTypes ==
    /\ TypeOK
    /\ has \/ (host # "out" /\ Proposing) => Draftable

\* The host's and the runtime's.
HostTypes ==
    /\ backend \in Backends
    /\ host \in {"out", "alloc", "copyIn", "launch", "kernel", "check", "copyOut"}
    /\ broken \in BOOLEAN /\ lastError \in BOOLEAN
    /\ failed \in [{"before", "now"} -> BOOLEAN]

\* The device's memory.
MemoryTypes ==
    /\ words \in [Thread -> Word] /\ next \in [Thread -> Word] /\ sprev \in Vocab
    /\ DOMAIN out = {"tokens", "per", "accepted", "firstRejection"}
    /\ out.tokens \in Seq(Vocab) /\ out.per \in Seq(BOOLEAN)
    /\ out.accepted \in Nat /\ out.firstRejection \in Nat

\* A thread r of a block that makes n steps, if it runs.
ThreadOK(r, running, n) ==
    /\ DOMAIN r = {"stage", "waits", "i", "tok", "read"}
    /\ r.stage \in Stages /\ r.i \in 0..ModelBound /\ r.tok \in Vocab
    /\ r.read \in Seq(Word) /\ Len(r.read) < Words
    /\ running /\ r.stage = "token" => r.i <= n
    /\ running /\ r.stage \in {"mix", "copy"} => r.i < n

ThreadTypes ==
    /\ PerThread(thread)
    /\ \A t \in Thread : ThreadOK(thread[t], host = "kernel", Steps)

TypeInv == CallTypes /\ HostTypes /\ MemoryTypes /\ ThreadTypes

\* An answer of the target is typed.
LEMMA TargetTyped ==
    ASSUME TargetOK, NEW b \in Bases, NEW h \in Seq(Vocab), NEW e \in Vocab, Expects(b, h, e)
    PROVE  TargetOK'
<1>. DEFINE q == <<b, h>>
<1>1. q \in Bases \X Seq(Vocab)
  OBVIOUS
<1>2. target' = [p \in DOMAIN target \cup {q} |-> IF p = q THEN e ELSE target[p]]
  BY DEF Expects
<1>. HIDE DEF q
<1>3. ASSUME NEW p \in DOMAIN target' PROVE p \in Bases \X Seq(Vocab) /\ target'[p] \in Vocab
  <2>1. p \in DOMAIN target \cup {q} /\ target'[p] = IF p = q THEN e ELSE target[p]
    BY <1>2
  <2>2. CASE p = q
    BY <1>1, <2>1, <2>2
  <2>3. CASE p # q
    BY <2>1, <2>3 DEF TargetOK
  <2>. QED BY <2>2, <2>3
<1>. QED BY <1>3 DEF TargetOK

\* A step of the CPU executors.
LEMMA CpuTypes ==
    ASSUME CallTypes, CpuStep
    PROVE  CallTypes'
<1>1. UNCHANGED <<depth, branch, aligned, tokenizer, base, host>>
  BY DEF CpuStep, Next, ProposeRefused, ProposeToken, ProposeDone, VerifierFails, VerifyStart,
     VerifyToken, VerifyDone, input, deviceVars
<1>2. /\ TypeOK /\ TargetOK /\ candidate \in Seq(Vocab) /\ Len(candidate) \in Nat
      /\ truth \in Seq(Vocab) /\ Len(truth) \in Nat /\ perPosition \in Seq(BOOLEAN)
  BY LenProperties DEF CallTypes, TypeOK, TargetOK
<1>3. TypeOK' /\ (has' => has \/ Draftable) /\ (Proposing' => Proposing)
  <2>1. CASE ProposeRefused
    BY <1>1, <1>2, <2>1 DEF ProposeRefused, TypeOK, proposal, verdict, Proposing
  <2>2. CASE ProposeToken
    <3>1. PICK e \in Vocab : Expects("dispatched", candidate, e)
                             /\ candidate' = Append(candidate, DraftToken(Len(candidate), e))
      BY <2>2 DEF ProposeToken
    <3>2. TargetOK'
      BY <1>2, <3>1, TargetTyped DEF Bases
    <3>3. candidate' \in Seq(Vocab)
      <4>1. DraftToken(Len(candidate), e) \in Vocab
        BY <1>2, FollowedInVocab DEF TypeOK
      <4>. QED BY <1>2, <3>1, <4>1, AppendProperties
    <3>. QED BY <1>1, <1>2, <2>2, <3>2, <3>3 DEF ProposeToken, TypeOK, TargetOK, verdict, Proposing
  <2>3. CASE ProposeDone
    BY <1>1, <1>2, <2>3 DEF ProposeDone, TypeOK, verdict, Proposing
  <2>4. CASE VerifierFails
    BY <1>1, <1>2, <2>4 DEF VerifierFails, TypeOK, proposal, Proposing, Outcomes
  <2>5. CASE VerifyStart
    BY <1>1, <1>2, <2>5 DEF VerifyStart, TypeOK, proposal, Proposing
  <2>6. CASE VerifyToken
    <3>1. PICK e \in Vocab :
             LET ok == e = candidate[Len(truth) + 1] IN
             /\ Expects(base, truth, e)
             /\ truth' = Append(truth, e)
             /\ perPosition' = Append(perPosition, ok)
             /\ acceptedPrefix' = IF ok THEN acceptedPrefix + 1 ELSE acceptedPrefix
             /\ firstRejection' = IF ~ok /\ firstRejection = Len(candidate)
                                  THEN Len(truth) ELSE firstRejection
      BY <2>6 DEF VerifyToken, FirstRejection
    <3>2. TargetOK'
      BY <1>2, <3>1, TargetTyped DEF TypeOK
    <3>3. truth' \in Seq(Vocab)
      BY <1>2, <3>1, AppendProperties
    <3>4. PICK ok \in BOOLEAN : ok = (e = candidate[Len(truth) + 1])
      OBVIOUS
    <3>5. perPosition' \in Seq(BOOLEAN)
      BY <1>2, <3>1, <3>4, AppendProperties
    <3>6. acceptedPrefix' \in Nat /\ firstRejection' \in Nat
      BY <1>2, <3>1 DEF TypeOK
    <3>. QED BY <1>1, <1>2, <2>6, <3>2, <3>3, <3>5, <3>6
             DEF VerifyToken, TypeOK, TargetOK, proposal, Proposing
  <2>7. CASE VerifyDone
    BY <1>1, <1>2, <2>7 DEF VerifyDone, TypeOK, proposal, Proposing, Outcomes, Classify
  <2>. QED BY <2>1, <2>2, <2>3, <2>4, <2>5, <2>6, <2>7 DEF CpuStep, Next
<1>. QED BY <1>1, <1>3 DEF CallTypes, Draftable

\* A block makes no more steps than the model allows.
LEMMA StepsBound ==
    ASSUME CallInv, CallTypes, host # "out"
    PROVE  Steps \in Nat /\ Steps <= ModelBound
<1>1. pc \in {"propose", "verify"} /\ (pc = "verify" => candidate # <<>>)
  BY DEF CallInv, AnswerInv, InCall
<1>2. CASE pc = "propose"
  BY <1>2, ExecutorConstants DEF CallTypes, Proposing, Draftable, Steps
<1>3. CASE pc = "verify"
  BY <1>1, <1>3, ExecutorConstants DEF CallInv, ProposalInv, CallTypes, Proposing, Draftable, Steps
<1>. QED BY <1>1, <1>2, <1>3

\* One thread moves.
LEMMA OneThread ==
    ASSUME ThreadTypes, NEW t \in Thread, NEW r, thread' = [thread EXCEPT ![t] = r],
           ThreadOK(r, host = "kernel", Steps), host' = host, Steps' = Steps
    PROVE  ThreadTypes'
<1>1. PerThread(thread') /\ thread'[t] = r /\ \A u \in Thread : u # t => thread'[u] = thread[u]
  BY DEF ThreadTypes, PerThread
<1>2. ASSUME NEW u \in Thread PROVE ThreadOK(thread'[u], host' = "kernel", Steps')
  BY <1>1 DEF ThreadTypes, ThreadOK
<1>. QED BY <1>1, <1>2 DEF ThreadTypes, PerThread

\* It ends its stage.
LEMMA EndsTyped ==
    ASSUME ThreadTypes, NEW t \in Thread, NEW to, NEW i, Ends(t, to, i), host' = host, Steps' = Steps,
           to \in Stages, i \in 0..ModelBound, to = "token" => i <= Steps,
           to \in {"mix", "copy"} => i < Steps
    PROVE  ThreadTypes'
<1>1. PICK r : r = At(to, thread[t].stage \in Synced(t), i, 0, <<>>)
  OBVIOUS
<1>2. thread' = [thread EXCEPT ![t] = r]
  BY <1>1 DEF Ends, ThreadTypes, PerThread
<1>3. 0 \in Vocab /\ <<>> \in Seq(Word) /\ Len(<<>>) < Words
  BY EmptySeq, ExecutorConstants, ThreadZero DEF Vocab
<1>4. ThreadOK(r, host = "kernel", Steps)
  BY <1>1, <1>3 DEF ThreadOK, At
<1>. QED BY <1>2, <1>4, OneThread

\* A step of a thread of the block.
LEMMA KernelTypes ==
    ASSUME TypeInv, CallInv, Kernel
    PROVE  TypeInv'
<1>1. host = "kernel" /\ host' = host /\ UNCHANGED <<broken, lastError, failed, backend>>
  BY DEF CallInv, AnswerInv, Kernel, DeriveToken, Barrier, Seed, SkipToken, Leave, Mix, Copy, Runs, runtime
<1>2. HostTypes'
  BY <1>1 DEF TypeInv, HostTypes
<1>3. Steps \in Nat /\ Steps <= ModelBound
  BY <1>1, StepsBound DEF TypeInv
<1>4. ASSUME NEW t \in Thread PROVE ThreadOK(thread[t], TRUE, Steps)
  BY <1>1 DEF TypeInv, ThreadTypes
<1>5. ThreadTypes /\ PerThread(thread) /\ MemoryTypes /\ CallTypes /\ TypeOK
  BY DEF TypeInv, ThreadTypes, CallTypes
<1>6. /\ 0 \in Vocab /\ <<>> \in Seq(Vocab) /\ <<>> \in Seq(BOOLEAN) /\ <<>> \in Seq(Word)
      /\ <<>> \in Word /\ Torn \in Word /\ Len(<<>>) < Words
  BY EmptySeq, ExecutorConstants, ThreadZero DEF Vocab, Word
<1>7. ASSUME UNCHANGED vars PROVE CallTypes' /\ Steps' = Steps
  BY <1>1, <1>5, <1>7 DEF CallTypes, TypeOK, vars, input, proposal, verdict, Steps, Proposing, Draftable
<1>8. CASE DeriveToken
  <2>1. UNCHANGED <<input, pc, proposal, verdict, words, next>> /\ Steps' = Steps
    BY <1>8 DEF DeriveToken, input, proposal, Steps, Proposing
  <2>. DEFINE i == thread[0].i
              w == words[CHOOSE u \in Taps : TRUE]
  <2>2. i \in Nat /\ i < Steps /\ i \in 0..ModelBound
    BY <1>4, <1>8, ThreadZero DEF DeriveToken, ThreadOK
  <2>3. PICK e \in Vocab : /\ IF Coherent(w) THEN Expects(Origin, w, e) ELSE UNCHANGED target
                           /\ out' = Written(i, e) /\ sprev' = Followed(i, e)
    BY <1>8 DEF DeriveToken
  <2>4. w \in Word
    <3>1. (CHOOSE u \in Taps : TRUE) \in Thread
      BY DeviceConstants DEF Thread
    <3>. QED BY <1>5, <3>1 DEF MemoryTypes
  <2>. HIDE DEF i, w
  <2>5. TargetOK'
    <3>1. TargetOK /\ Origin \in Bases
      BY <1>5 DEF TypeOK, TargetOK, Origin, Bases
    <3>2. CASE Coherent(w)
      <4>1. w \in Seq(Vocab)
        BY <2>4, <3>2 DEF Coherent, Word
      <4>. QED BY <2>3, <3>1, <3>2, <4>1, TargetTyped
    <3>3. CASE ~Coherent(w)
      BY <2>3, <3>1, <3>3 DEF TargetOK
    <3>. QED BY <3>2, <3>3
  <2>6. CallTypes'
    BY <1>1, <1>5, <2>1, <2>5 DEF CallTypes, TypeOK, TargetOK, input, proposal, verdict, Proposing, Draftable
  <2>7. DraftToken(i, e) \in Vocab /\ sprev' \in Vocab
    BY <1>5, <2>3, FollowedInVocab DEF TypeOK
  <2>8. MemoryTypes'
    <3>1. /\ DOMAIN out = {"tokens", "per", "accepted", "firstRejection"}
          /\ out.tokens \in Seq(Vocab) /\ out.per \in Seq(BOOLEAN)
          /\ out.accepted \in Nat /\ out.firstRejection \in Nat
      BY <1>5 DEF MemoryTypes
    <3>2. CASE Proposing
      <4>1. out' = [out EXCEPT !.tokens = Append(@, DraftToken(i, e))]
        BY <2>3, <3>2 DEF Written
      <4>2. /\ DOMAIN out' = DOMAIN out /\ out'.tokens = Append(out.tokens, DraftToken(i, e))
            /\ out'.per = out.per /\ out'.accepted = out.accepted
            /\ out'.firstRejection = out.firstRejection
        BY <3>1, <4>1
      <4>3. out'.tokens \in Seq(Vocab)
        BY <2>7, <3>1, <4>2, AppendProperties
      <4>. QED BY <1>5, <2>1, <2>7, <3>1, <4>2, <4>3 DEF MemoryTypes
    <3>3. CASE ~Proposing
      <4>1. PICK ok \in BOOLEAN : ok = (e = candidate[i + 1])
        OBVIOUS
      <4>2. out' = [out EXCEPT !.per = Append(@, ok),
                               !.accepted = IF ok THEN @ + 1 ELSE @,
                               !.firstRejection = IF ~ok /\ @ = Len(candidate) THEN i ELSE @]
        BY <2>3, <3>3, <4>1 DEF Written
      <4>3. /\ DOMAIN out' = DOMAIN out /\ out'.tokens = out.tokens
            /\ out'.per = Append(out.per, ok)
            /\ out'.accepted \in {out.accepted, out.accepted + 1}
            /\ out'.firstRejection \in {out.firstRejection, i}
        BY <3>1, <4>2
      <4>4. out'.per \in Seq(BOOLEAN)
        BY <3>1, <4>3, AppendProperties
      <4>. QED BY <1>5, <2>1, <2>2, <2>7, <3>1, <4>3, <4>4 DEF MemoryTypes
    <3>. QED BY <3>2, <3>3
  <2>9. ThreadTypes'
    <3>1. Ends(0, "mix", i)
      BY <1>8 DEF DeriveToken, i
    <3>. QED BY <1>1, <1>5, <2>1, <2>2, <3>1, EndsTyped, ThreadZero DEF Stages
  <2>. QED BY <1>2, <2>6, <2>8, <2>9 DEF TypeInv
<1>9. CASE Barrier
  <2>1. UNCHANGED vars /\ UNCHANGED memory
    BY <1>9 DEF Barrier
  <2>2. CallTypes' /\ Steps' = Steps /\ MemoryTypes'
    BY <1>5, <1>7, <2>1 DEF MemoryTypes, memory
  <2>3. PerThread(thread')
    BY <1>9 DEF Barrier, PerThread
  <2>4. ASSUME NEW t \in Thread PROVE ThreadOK(thread'[t], host' = "kernel", Steps')
    <3>1. thread'[t] = [thread[t] EXCEPT !.waits = FALSE]
      BY <1>9 DEF Barrier
    <3>2. /\ thread'[t].stage = thread[t].stage /\ thread'[t].i = thread[t].i
          /\ thread'[t].tok = thread[t].tok /\ thread'[t].read = thread[t].read
          /\ DOMAIN thread'[t] = DOMAIN thread[t]
      BY <1>4, <3>1 DEF ThreadOK
    <3>. QED BY <1>1, <1>4, <2>2, <3>2 DEF ThreadOK
  <2>. QED BY <1>2, <2>2, <2>3, <2>4 DEF TypeInv, ThreadTypes, PerThread
<1>10. ASSUME NEW t \in Thread, Seed(t) PROVE TypeInv'
  <2>1. UNCHANGED vars /\ next' = next /\ Ends(t, "token", 0)
    BY <1>10 DEF Seed
  <2>2. CallTypes' /\ Steps' = Steps
    BY <1>7, <2>1
  <2>3. MemoryTypes'
    <3>1. CASE t = 0
      <4>1. /\ words' = [u \in Thread |-> <<>>] /\ sprev' = 0
            /\ out' = Output(<<>>, <<>>, 0, Steps)
        BY <1>10, <3>1 DEF Seed
      <4>. QED BY <1>3, <1>5, <1>6, <2>1, <4>1 DEF MemoryTypes, Output
    <3>2. CASE t # 0
      BY <1>5, <1>10, <2>1, <3>2 DEF Seed, MemoryTypes
    <3>. QED BY <3>1, <3>2
  <2>4. ThreadTypes'
    BY <1>1, <1>3, <1>5, <2>1, <2>2, EndsTyped, ExecutorConstants DEF Stages
  <2>. QED BY <1>2, <2>2, <2>3, <2>4 DEF TypeInv
<1>11. ASSUME NEW t \in Thread, SkipToken(t) \/ Leave(t) PROVE TypeInv'
  <2>1. UNCHANGED vars /\ UNCHANGED memory
    BY <1>11 DEF SkipToken, Leave
  <2>2. CallTypes' /\ Steps' = Steps /\ MemoryTypes'
    BY <1>5, <1>7, <2>1 DEF MemoryTypes, memory
  <2>3. CASE SkipToken(t)
    <3>1. thread[t].i \in 0..ModelBound /\ thread[t].i < Steps /\ Ends(t, "mix", thread[t].i)
      BY <1>4, <2>3 DEF SkipToken, ThreadOK
    <3>2. ThreadTypes'
      BY <1>1, <1>5, <2>2, <3>1, EndsTyped DEF Stages
    <3>. QED BY <1>2, <2>2, <3>2 DEF TypeInv
  <2>4. CASE Leave(t)
    <3>1. thread' = [thread EXCEPT ![t] = Gone]
      BY <2>4 DEF Leave
    <3>2. ThreadOK(Gone, host = "kernel", Steps)
      BY <1>6, ExecutorConstants DEF ThreadOK, Gone, At, Stages
    <3>3. ThreadTypes'
      BY <1>1, <1>5, <2>2, <3>1, <3>2, OneThread
    <3>. QED BY <1>2, <2>2, <3>3 DEF TypeInv
  <2>. QED BY <1>11, <2>3, <2>4
<1>12. ASSUME NEW t \in Thread, Copy(t) PROVE TypeInv'
  <2>1. UNCHANGED vars /\ UNCHANGED <<next, sprev, out>> /\ words' = [words EXCEPT ![t] = next[t]]
    BY <1>12 DEF Copy
  <2>2. CallTypes' /\ Steps' = Steps
    BY <1>7, <2>1
  <2>3. MemoryTypes'
    BY <1>5, <2>1 DEF MemoryTypes
  <2>4. thread[t].i \in Nat /\ thread[t].i < Steps /\ Ends(t, "token", thread[t].i + 1)
    BY <1>4, <1>12 DEF Copy, ThreadOK, Runs
  <2>5. thread[t].i + 1 \in 0..ModelBound /\ thread[t].i + 1 <= Steps
    BY <1>3, <2>4, ExecutorConstants
  <2>6. ThreadTypes'
    BY <1>1, <1>5, <2>2, <2>4, <2>5, EndsTyped DEF Stages
  <2>. QED BY <1>2, <2>2, <2>3, <2>6 DEF TypeInv
<1>13. ASSUME NEW t \in Thread, Mix(t) PROVE TypeInv'
  <2>1. UNCHANGED vars /\ UNCHANGED <<words, sprev, out>>
    BY <1>13 DEF Mix
  <2>2. CallTypes' /\ Steps' = Steps
    BY <1>7, <2>1
  <2>. DEFINE old  == thread[t].read
              read == Append(old, words[Len(old)])
              tok  == IF old = <<>> THEN sprev ELSE thread[t].tok
  <2>3. IF Len(read) < Words
        THEN /\ thread' = [thread EXCEPT ![t] = At("mix", FALSE, @.i, tok, read)]
             /\ UNCHANGED next
        ELSE /\ next' = [next EXCEPT ![t] = Mixed(read, tok)]
             /\ Ends(t, "copy", thread[t].i)
    BY <1>13 DEF Mix
  <2>4. /\ old \in Seq(Word) /\ Len(old) \in Nat /\ Len(old) < Words /\ tok \in Vocab
        /\ thread[t].i \in 0..ModelBound /\ thread[t].i < Steps
    BY <1>4, <1>5, <1>13, LenProperties DEF Mix, Runs, ThreadOK, MemoryTypes
  <2>5. words[Len(old)] \in Word
    <3>1. Len(old) \in Thread
      BY <2>4, ThreadZero DEF Thread
    <3>. QED BY <1>5, <3>1 DEF MemoryTypes
  <2>6. read \in Seq(Word) /\ read # <<>> /\ Len(read) \in Nat
    BY <2>4, <2>5, AppendProperties, LenProperties
  <2>. HIDE DEF read, tok
  <2>7. CASE Len(read) < Words
    <3>1. PICK r : r = At("mix", FALSE, thread[t].i, tok, read)
      OBVIOUS
    <3>2. thread' = [thread EXCEPT ![t] = r] /\ next' = next
      BY <1>5, <2>3, <2>7, <3>1 DEF PerThread
    <3>3. ThreadOK(r, host = "kernel", Steps)
      BY <2>4, <2>6, <2>7, <3>1 DEF ThreadOK, At, Stages
    <3>4. ThreadTypes'
      BY <1>1, <1>5, <2>2, <3>2, <3>3, OneThread
    <3>5. MemoryTypes'
      BY <1>5, <2>1, <3>2 DEF MemoryTypes
    <3>. QED BY <1>2, <2>2, <3>4, <3>5 DEF TypeInv
  <2>8. CASE ~(Len(read) < Words)
    <3>1. next' = [next EXCEPT ![t] = Mixed(read, tok)] /\ Ends(t, "copy", thread[t].i)
      BY <2>3, <2>8
    <3>2. Mixed(read, tok) \in Word
      <4>1. read[1] \in Word
        BY <2>6, EmptySeq, ElementOfSeq, LenProperties
      <4>2. read[1] # Torn => Append(read[1], tok) \in Seq(Vocab)
        BY <2>4, <4>1, AppendProperties DEF Word
      <4>. QED BY <4>2 DEF Mixed, Word
    <3>3. MemoryTypes'
      BY <1>5, <2>1, <3>1, <3>2 DEF MemoryTypes
    <3>4. ThreadTypes'
      BY <1>1, <1>5, <2>2, <2>4, <3>1, EndsTyped DEF Stages
    <3>. QED BY <1>2, <2>2, <3>3, <3>4 DEF TypeInv
  <2>. QED BY <2>7, <2>8
<1>. QED BY <1>8, <1>9, <1>10, <1>11, <1>12, <1>13 DEF Kernel

\* The threads are typed when no kernel runs.
LEMMA ThreadsRest ==
    ASSUME ThreadTypes, thread' = thread, host' # "kernel"
    PROVE  ThreadTypes'
<1>1. ASSUME NEW t \in Thread PROVE ThreadOK(thread'[t], host' = "kernel", Steps')
  BY DEF ThreadTypes, ThreadOK
<1>. QED BY <1>1 DEF ThreadTypes, PerThread

\* They are when they are all set to r.
LEMMA ThreadsSet ==
    ASSUME NEW r, thread' = [t \in Thread |-> r], r = Gone \/ r = At("seed", FALSE, 0, 0, <<>>)
    PROVE  ThreadTypes'
<1>1. 0 \in Vocab /\ <<>> \in Seq(Word) /\ Len(<<>>) < Words
  BY EmptySeq, ExecutorConstants, ThreadZero DEF Vocab
<1>2. ThreadOK(r, host' = "kernel", Steps')
  <2>1. /\ DOMAIN r = {"stage", "waits", "i", "tok", "read"}
        /\ r.stage \in {"seed", "exit"} /\ r.i = 0 /\ r.tok = 0 /\ r.read = <<>>
    BY DEF Gone, At
  <2>. QED BY <1>1, <2>1, ExecutorConstants DEF ThreadOK, Stages
<1>. QED BY <1>2 DEF ThreadTypes, PerThread

\* So is memory that was freed.
LEMMA FreedTyped ==
    ASSUME Freed
    PROVE  MemoryTypes'
<1>1. /\ 0 \in Vocab /\ <<>> \in Seq(Vocab) /\ <<>> \in Seq(BOOLEAN) /\ Torn \in Word
  BY EmptySeq, ExecutorConstants DEF Vocab, Word
<1>. QED BY <1>1 DEF Freed, MemoryTypes, Blank, NoOutput, Output

\* A step of the host, or a fault.
LEMMA HostTyped ==
    ASSUME TypeInv, CallInv, Host \/ Fault
    PROVE  TypeInv'
<1>1. CallTypes /\ TypeOK /\ HostTypes /\ MemoryTypes /\ ThreadTypes
  BY DEF TypeInv, CallTypes
<1>2. HostTypes'
  <2>1. failed' \in [{"before", "now"} -> BOOLEAN]
    <3>1. failed' = failed \/ failed' = [failed EXCEPT !["now"] = TRUE]
          \/ failed' = [before |-> failed["now"], now |-> host' = "out"]
          \/ failed' = [failed EXCEPT !["now"] = failed["now"] \/ host' = "out"]
      BY DEF Host, Fault, RejectInput, SelectDevice, Allocate, CopyToDevice, Launch, Synchronize,
         CheckKernel, CopyBack, Operation, CopyFromDevice, runtime
    <3>2. PICK b \in BOOLEAN, n \in BOOLEAN : b = failed["now"] /\ n = (host' = "out")
      BY <1>1 DEF HostTypes
    <3>3. [before |-> b, now |-> n] \in [{"before", "now"} -> BOOLEAN]
      OBVIOUS
    <3>4. [failed EXCEPT !["now"] = b \/ n] \in [{"before", "now"} -> BOOLEAN]
      BY <1>1 DEF HostTypes
    <3>. QED BY <1>1, <3>1, <3>2, <3>3, <3>4 DEF HostTypes
  <2>2. backend' = backend /\ (broken' = broken \/ broken' = TRUE)
    BY DEF Host, Fault, RejectInput, SelectDevice, Allocate, CopyToDevice, Launch, Synchronize,
       CheckKernel, CopyBack, Operation, CopyFromDevice, runtime
  <2>3. lastError' = lastError \/ lastError' = TRUE \/ lastError' = FALSE
    BY DEF Host, Fault, RejectInput, SelectDevice, Allocate, CopyToDevice, Launch, Synchronize,
       CheckKernel, CopyBack, Operation, CopyFromDevice, runtime, LastErrorAfterGet
  <2>4. host' = host \/ host' \in {"out", "alloc", "copyIn", "launch", "kernel", "check", "copyOut"}
    BY DEF Host, Fault, RejectInput, SelectDevice, Allocate, CopyToDevice, Launch, Synchronize,
       CheckKernel, CopyBack, Operation, CopyFromDevice, GivesUp
  <2>. QED BY <1>1, <2>1, <2>2, <2>3, <2>4 DEF HostTypes
<1>3. CASE GivesUp /\ thread' = thread
  <2>1. host' = "out" /\ Freed
    BY <1>3 DEF GivesUp
  <2>2. CallTypes'
    BY <1>1, <1>3, <2>1 DEF GivesUp, CallTypes, TypeOK, input, proposal, Draftable, Outcomes
  <2>3. MemoryTypes' /\ ThreadTypes'
    BY <1>1, <1>3, <2>1, FreedTyped, ThreadsRest
  <2>. QED BY <1>2, <2>2, <2>3 DEF TypeInv
<1>4. CASE CopyFromDevice /\ host = "copyOut" /\ thread' = thread
  <2>1. host' = "out" /\ Freed
    BY <1>4 DEF CopyFromDevice
  <2>2. MemoryTypes' /\ ThreadTypes'
    BY <1>1, <1>4, <2>1, FreedTyped, ThreadsRest
  <2>3. CallTypes'
    <3>1. CASE Proposing
      BY <1>1, <1>4, <2>1, <3>1 DEF CopyFromDevice, CallTypes, TypeOK, MemoryTypes, input, Draftable
    <3>2. CASE ~Proposing
      <4>1. Classify(out.accepted, Len(candidate)) \in Outcomes
        BY DEF Classify, Outcomes
      <4>. QED BY <1>1, <1>4, <2>1, <3>2, <4>1
               DEF CopyFromDevice, CallTypes, TypeOK, MemoryTypes, input, proposal, Draftable
    <3>. QED BY <3>1, <3>2
  <2>. QED BY <1>2, <2>2, <2>3 DEF TypeInv
<1>5. CASE UNCHANGED vars /\ UNCHANGED memory /\ (host' # "out" /\ Proposing => Draftable)
  <2>1. CallTypes'
    BY <1>1, <1>5 DEF CallTypes, TypeOK, vars, input, proposal, verdict, Proposing, Draftable
  <2>2. MemoryTypes'
    BY <1>1, <1>5 DEF MemoryTypes, memory
  <2>3. ThreadTypes'
    <3>1. CASE thread' = thread /\ host' # "kernel"
      BY <1>1, <3>1, ThreadsRest
    <3>2. CASE \E r : thread' = [t \in Thread |-> r] /\ (r = Gone \/ r = At("seed", FALSE, 0, 0, <<>>))
      BY <3>2, ThreadsSet
    <3>3. CASE GivesUp /\ thread' = thread
      BY <1>1, <3>3, ThreadsRest DEF GivesUp
    <3>. QED BY <3>1, <3>2, <3>3 DEF Host, Fault, RejectInput, SelectDevice, Allocate, CopyToDevice,
             Launch, Synchronize, CheckKernel, CopyBack, Operation, CopyFromDevice
  <2>. QED BY <1>2, <2>1, <2>2, <2>3 DEF TypeInv
<1>6. host # "out" /\ Proposing => Draftable
  BY <1>1 DEF CallTypes
<1>. QED BY <1>3, <1>4, <1>5, <1>6 DEF Host, Fault, RejectInput, SelectDevice, Allocate, CopyToDevice,
         Launch, Synchronize, CheckKernel, CopyBack, Operation, vars, memory

\* Every token drafted, followed or compared is a word of the vocabulary, and no
\* thread's loop index passes the end of the draft, on both backends.
THEOREM DeviceTypeCorrect == DeviceSpec => []DeviceTypeOK
<1>1. DeviceInit => TypeInv
  <2>. SUFFICES ASSUME DeviceInit PROVE TypeInv
    OBVIOUS
  <2>1. /\ 0 \in Vocab /\ <<>> \in Seq(Vocab) /\ <<>> \in Seq(BOOLEAN) /\ Torn \in Word
        /\ <<>> \in Seq(Word) /\ Len(<<>>) < Words /\ DOMAIN <<>> = {}
    BY EmptySeq, ExecutorConstants, ThreadZero DEF Vocab, Word
  <2>2. CallTypes
    BY <2>1 DEF CallTypes, TypeOK, DeviceInit, Init, Outcomes
  <2>3. HostTypes
    BY DEF HostTypes, DeviceInit
  <2>4. MemoryTypes
    BY <2>1 DEF MemoryTypes, DeviceInit, Blank, NoOutput, Output
  <2>5. ThreadOK(Gone, FALSE, Steps)
    BY <2>1, ExecutorConstants DEF ThreadOK, Gone, At, Stages
  <2>6. ThreadTypes
    BY <2>5 DEF ThreadTypes, PerThread, DeviceInit, ThreadOK
  <2>. QED BY <2>2, <2>3, <2>4, <2>6 DEF TypeInv
<1>2. ASSUME TypeInv, CallInv, KernelInv', [DeviceNext]_allVars PROVE TypeInv'
  <2>1. CASE CpuStep
    <3>1. CallTypes' /\ UNCHANGED deviceVars /\ backend' = backend /\ host # "kernel"
      BY <1>2, <2>1, CpuTypes DEF TypeInv, CpuStep, CallInv, AnswerInv, InCall
    <3>2. HostTypes' /\ MemoryTypes'
      BY <1>2, <3>1 DEF TypeInv, HostTypes, MemoryTypes, deviceVars, runtime, memory
    <3>3. ThreadTypes'
      BY <1>2, <3>1, ThreadsRest DEF TypeInv, deviceVars
    <3>. QED BY <3>1, <3>2, <3>3 DEF TypeInv
  <2>2. CASE Kernel
    BY <1>2, <2>2, KernelTypes
  <2>3. CASE Host \/ Fault
    BY <1>2, <2>3, HostTyped
  <2>4. CASE NextInput
    <3>1. UNCHANGED deviceVars /\ backend' = backend /\ host = "out"
      BY <1>2, <2>4 DEF NextInput, CallInv, AnswerInv, InCall
    <3>2. HostTypes' /\ MemoryTypes'
      BY <1>2, <3>1 DEF TypeInv, HostTypes, MemoryTypes, deviceVars, runtime, memory
    <3>3. ThreadTypes'
      BY <1>2, <3>1, ThreadsRest DEF TypeInv, deviceVars
    <3>4. <<>> \in Seq(Vocab) /\ <<>> \in Seq(BOOLEAN) /\ DOMAIN <<>> = {}
      BY EmptySeq
    <3>5. CallTypes'
      BY <1>2, <2>4, <3>1, <3>4 DEF TypeInv, CallTypes, TypeOK, NextInput, Outcomes, KernelInv, deviceVars
    <3>. QED BY <3>2, <3>3, <3>5 DEF TypeInv
  <2>5. CASE UNCHANGED allVars
    <3>1. HostTypes' /\ MemoryTypes'
      BY <1>2, <2>5 DEF TypeInv, HostTypes, MemoryTypes, allVars, deviceVars, runtime, memory
    <3>2. CallTypes' /\ Steps' = Steps
      BY <1>2, <2>5 DEF TypeInv, CallTypes, TypeOK, allVars, deviceVars, vars, input, proposal,
         verdict, Proposing, Draftable, Steps
    <3>3. ThreadTypes'
      BY <1>2, <2>5, <3>2 DEF TypeInv, ThreadTypes, allVars, deviceVars, PerThread
    <3>. QED BY <3>1, <3>2, <3>3 DEF TypeInv
  <2>. QED BY <1>2, <2>1, <2>2, <2>3, <2>4, <2>5 DEF DeviceNext
<1>3. TypeInv => DeviceTypeOK
  BY DEF TypeInv, CallTypes, HostTypes, MemoryTypes, ThreadTypes, ThreadOK, DeviceTypeOK, Word
<1>. QED BY <1>1, <1>2, <1>3, CallCorrect, KernelCorrect, PTL DEF DeviceSpec
=============================================================================
