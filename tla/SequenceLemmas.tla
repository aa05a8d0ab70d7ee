--------------------------- MODULE SequenceLemmas ----------------------------
(***************************************************************************)
(* Facts about naturals and sequences that the proofs of several modules   *)
(* need.                                                                   *)
(***************************************************************************)
EXTENDS SequencesExt, SequenceTheorems, WellFoundedInduction, TLAPS

\* The least-number principle for a set of naturals.
LEMMA LeastNatural ==
    ASSUME NEW T, T \subseteq Nat, T # {}
    PROVE  \E x \in T : \A y \in T : x <= y
<1>. DEFINE R == OpToRel(<, Nat)
<1>1. PICK x \in T : \A y \in T : ~(<<y, x>> \in R)
  <2>. HIDE DEF R
  <2>. QED BY NatLessThanWellFounded, WFMin DEF R
<1>2. ASSUME NEW y \in T PROVE x <= y
  <2>1. x \in Nat /\ y \in Nat
    OBVIOUS
  <2>2. y < x => <<y, x>> \in R
    BY <2>1 DEF OpToRel
  <2>. HIDE DEF R
  <2>. QED BY <1>1, <2>1, <2>2
<1>. QED BY <1>2

\* A non-empty array of bounded naturals has a first maximum: the scans of
\* run_cycle (fabric.cpp:602-610) and of drive_cycle (sf_coordinator.cpp:149-152)
\* are well defined.
LEMMA FirstMaximum ==
    ASSUME NEW n \in Nat \ {0}, NEW f \in [1..n -> Nat],
           NEW m \in Nat, \A i \in 1..n : f[i] <= m
    PROVE  \E i \in 1..n : \A j \in 1..n : f[i] > f[j] \/ (f[i] = f[j] /\ i <= j)
<1>. DEFINE T == {m - f[i] : i \in 1..n}
<1>1. T \subseteq Nat /\ T # {}
  BY 1 \in 1..n
<1>2. PICK d \in T : \A y \in T : d <= y
  BY <1>1, LeastNatural
<1>. DEFINE J == {i \in 1..n : m - f[i] = d}
<1>3. J \subseteq Nat /\ J # {}
  BY SMTT(30)
<1>4. PICK i \in J : \A j \in J : i <= j
  <2>. HIDE DEF J
  <2>. QED BY <1>3, LeastNatural
<1>5. ASSUME NEW j \in 1..n PROVE f[i] > f[j] \/ (f[i] = f[j] /\ i <= j)
  <2>1. m - f[j] \in T
    OBVIOUS
  <2>2. f[i] \in Nat /\ f[j] \in Nat /\ d = m - f[i] /\ d <= m - f[j]
    BY <1>2, <2>1
  <2>3. CASE m - f[j] = d
    BY <2>2, <2>3, <1>4
  <2>4. CASE m - f[j] # d
    BY <2>2, <2>4
  <2>. QED BY <2>3, <2>4
<1>. QED BY <1>5

\* A function on 1..n is a sequence of length n.
LEMMA FunctionIsSequence ==
    ASSUME NEW S, NEW n \in Nat, NEW s \in [1..n -> S]
    PROVE  s \in Seq(S) /\ Len(s) = n
<1>1. s \in Seq(S)
  BY SeqDef
<1>2. Len(s) \in Nat /\ DOMAIN s = 1..Len(s)
  BY <1>1, LenProperties
<1>. QED BY <1>1, <1>2
-----------------------------------------------------------------------------
(***************************************************************************)
(* Sequences of anything                                                   *)
(***************************************************************************)

\* s is a sequence, of whatever it holds.
AnySeq(s) == s \in Seq({s[i] : i \in DOMAIN s})

\* The empty sequence, and any typed one.
LEMMA SomeSequences ==
    /\ AnySeq(<<>>) /\ Len(<<>>) = 0
    /\ \A S : \A s \in Seq(S) : AnySeq(s)
<1>1. ASSUME NEW S, NEW s \in Seq(S) PROVE AnySeq(s)
  <2>1. Len(s) \in Nat /\ s \in [1..Len(s) -> S]
    BY LenProperties
  <2>2. s \in [1..Len(s) -> {s[i] : i \in DOMAIN s}]
    BY <2>1
  <2>. QED BY <2>1, <2>2, FunctionIsSequence DEF AnySeq
<1>2. <<>> \in Seq({})
  BY EmptySeq
<1>. QED BY <1>1, <1>2, EmptySeq

\* The length of a sequence and where it is defined.
LEMMA AnySeqLength ==
    ASSUME NEW s, AnySeq(s)
    PROVE  /\ Len(s) \in Nat /\ DOMAIN s = 1..Len(s)
           /\ s = <<>> <=> Len(s) = 0
BY LenProperties, EmptySeq DEF AnySeq

\* Appending to a sequence.
LEMMA AnySeqAppend ==
    ASSUME NEW s, AnySeq(s), NEW e
    PROVE  /\ AnySeq(Append(s, e))
           /\ Len(Append(s, e)) = Len(s) + 1
           /\ \A i \in 1..Len(s) : Append(s, e)[i] = s[i]
           /\ Append(s, e)[Len(s) + 1] = e
           /\ Append(s, e) # <<>>
<1>. DEFINE S == {s[i] : i \in DOMAIN s} \cup {e}
<1>1. s \in Seq(S) /\ e \in S /\ Len(s) \in Nat
  BY LenProperties DEF AnySeq
<1>. HIDE DEF S
<1>2. /\ Append(s, e) \in Seq(S) /\ Append(s, e) # <<>>
      /\ Len(Append(s, e)) = Len(s) + 1
      /\ \A i \in 1..Len(s) : Append(s, e)[i] = s[i]
      /\ Append(s, e)[Len(s) + 1] = e
  BY <1>1, AppendProperties
<1>. QED BY <1>2, SomeSequences

\* Taking the head off a sequence.
LEMMA AnySeqTail ==
    ASSUME NEW s, AnySeq(s), s # <<>>
    PROVE  /\ AnySeq(Tail(s))
           /\ Len(s) \in Nat \ {0}
           /\ Len(Tail(s)) = Len(s) - 1
           /\ \A i \in 1..(Len(s) - 1) : Tail(s)[i] = s[i + 1]
           /\ Head(s) = s[1]
<1>. DEFINE S == {s[i] : i \in DOMAIN s}
<1>1. s \in Seq(S) /\ Len(s) \in Nat \ {0}
  BY AnySeqLength DEF AnySeq
<1>. HIDE DEF S
<1>2. /\ Tail(s) \in Seq(S) /\ Len(Tail(s)) = Len(s) - 1
      /\ \A i \in 1..Len(Tail(s)) : Tail(s)[i] = s[i + 1]
  BY <1>1, HeadTailProperties
<1>3. Head(s) = s[1]
  BY <1>1
<1>. QED BY <1>1, <1>2, <1>3, SomeSequences

\* Sequences of one element.
LEMMA OneElement ==
    ASSUME NEW e
    PROVE  /\ AnySeq(<<e>>) /\ <<e>> # <<>> /\ Len(<<e>>) = 1
           /\ Head(<<e>>) = e /\ Tail(<<e>>) = <<>> /\ Append(<<>>, e) = <<e>>
<1>1. <<e>> \in Seq({e})
  OBVIOUS
<1>2. AnySeq(<<e>>)
  BY <1>1, SomeSequences
<1>. QED BY <1>2
-----------------------------------------------------------------------------
(***************************************************************************)
(* Prefixes                                                                *)
(***************************************************************************)

\* The prefixes of a sequence are those of any longer one.
LEMMA PrefixOfAppend ==
    ASSUME NEW S, NEW s \in Seq(S), NEW e \in S, NEW n \in 0..Len(s)
    PROVE  SubSeq(Append(s, e), 1, n) = SubSeq(s, 1, n)
<1>1. /\ Len(s) \in Nat
      /\ Append(s, e) \in Seq(S) /\ Len(Append(s, e)) = Len(s) + 1
      /\ \A i \in 1..Len(s) : Append(s, e)[i] = s[i] /\ s[i] \in S
  BY LenProperties, AppendProperties, ElementOfSeq
<1>2. /\ SubSeq(s, 1, n) \in Seq(S) /\ Len(SubSeq(s, 1, n)) = n
      /\ \A i \in 1..n : SubSeq(s, 1, n)[i] = s[i]
  BY <1>1, SubSeqProperties
<1>3. /\ SubSeq(Append(s, e), 1, n) \in Seq(S) /\ Len(SubSeq(Append(s, e), 1, n)) = n
      /\ \A i \in 1..n : SubSeq(Append(s, e), 1, n)[i] = s[i]
  BY <1>1, SubSeqProperties
<1>. QED BY <1>2, <1>3, SeqEqual

\* A prefix and the element after it are the next prefix.
LEMMA NextPrefix ==
    ASSUME NEW S, NEW s \in Seq(S), NEW n \in Nat, n < Len(s)
    PROVE  SubSeq(s, 1, n + 1) = Append(SubSeq(s, 1, n), s[n + 1])
<1>1. Len(s) \in Nat /\ \A i \in 1..Len(s) : s[i] \in S
  BY LenProperties, ElementOfSeq
<1>2. /\ SubSeq(s, 1, n) \in Seq(S) /\ Len(SubSeq(s, 1, n)) = n
      /\ \A i \in 1..n : SubSeq(s, 1, n)[i] = s[i]
  BY <1>1, SubSeqProperties
<1>3. /\ SubSeq(s, 1, n + 1) \in Seq(S) /\ Len(SubSeq(s, 1, n + 1)) = n + 1
      /\ \A i \in 1..(n + 1) : SubSeq(s, 1, n + 1)[i] = s[i]
  BY <1>1, SubSeqProperties
<1>. DEFINE p == SubSeq(s, 1, n)
<1>4. p \in Seq(S) /\ Len(p) = n /\ s[n + 1] \in S
  BY <1>1, <1>2
<1>5. /\ Append(p, s[n + 1]) \in Seq(S) /\ Len(Append(p, s[n + 1])) = n + 1
      /\ \A i \in 1..n : Append(p, s[n + 1])[i] = s[i]
      /\ Append(p, s[n + 1])[n + 1] = s[n + 1]
  <2>. HIDE DEF p
  <2>1. \A i \in 1..n : Append(p, s[n + 1])[i] = p[i]
    BY <1>4, AppendProperties
  <2>. QED BY <1>2, <1>4, <2>1, AppendProperties DEF p
<1>. HIDE DEF p
<1>. QED BY <1>3, <1>5, SeqEqual DEF p
-----------------------------------------------------------------------------
(***************************************************************************)
(* Induction and recursion over an initial part of the naturals, with the  *)
(* claim as a set and the step as a function: what a recursive function    *)
(* computes can be shown with these.                                       *)
(***************************************************************************)

\* A set with 0 and the successors of its members up to n has all of 0..n.
LEMMA IntervalInduction ==
    ASSUME NEW n \in Nat, NEW T, 0 \in T, \A i \in 1..n : i - 1 \in T => i \in T
    PROVE  0..n \subseteq T
<1>. DEFINE U == {i \in 0..n : i \notin T}
<1>. SUFFICES ASSUME U # {} PROVE FALSE
  OBVIOUS
<1>1. U \subseteq Nat
  OBVIOUS
<1>2. PICK x \in U : \A y \in U : x <= y
  <2>. HIDE DEF U
  <2>. QED BY <1>1, LeastNatural
<1>3. x \in 1..n /\ x - 1 \in 0..n
  BY <1>2
<1>4. x - 1 \notin U
  BY <1>2, <1>3
<1>. QED BY <1>2, <1>3, <1>4

\* f is computed on 0..n by beginning with b and taking step.
Computes(f, n, V, b, step) ==
    /\ f \in [0..n -> V] /\ f[0] = b
    /\ \A i \in 1..n : f[i] = step[<<i, f[i - 1]>>]

\* There is one.
LEMMA IntervalRecursion ==
    ASSUME NEW n \in Nat, NEW V, NEW b \in V, NEW step \in [(1..n) \X V -> V]
    PROVE  \E f : Computes(f, n, V, b, step)
<1>. DEFINE Solves(f, k) == Computes(f, k, V, b, step)
            T == {k \in 0..n : \E f : Solves(f, k)}
<1>1. 0 \in T
  <2>. DEFINE f == [i \in 0..0 |-> b]
  <2>1. Solves(f, 0)
    BY DEF Computes
  <2>2. 0 \in 0..n
    OBVIOUS
  <2>. HIDE DEF f, Solves
  <2>. QED BY <2>1, <2>2
<1>2. ASSUME NEW k \in 1..n, k - 1 \in T PROVE k \in T
  <2>0. PICK g : Solves(g, k - 1)
    BY <1>2
  <2>1. /\ g \in [0..(k - 1) -> V] /\ g[0] = b
        /\ \A i \in 1..(k - 1) : g[i] = step[<<i, g[i - 1]>>]
    BY <2>0 DEF Computes
  <2>. DEFINE f == [i \in 0..k |-> IF i = k THEN step[<<k, g[k - 1]>>] ELSE g[i]]
  <2>2. g[k - 1] \in V /\ <<k, g[k - 1]>> \in (1..n) \X V
    BY <2>1
  <2>3. step[<<k, g[k - 1]>>] \in V
    BY <2>2
  <2>4. f \in [0..k -> V] /\ f[0] = b
    BY <2>1, <2>3
  <2>5. ASSUME NEW i \in 1..k PROVE f[i] = step[<<i, f[i - 1]>>]
    <3>1. f[i - 1] = g[i - 1]
      OBVIOUS
    <3>2. CASE i = k
      <4>1. f[k] = step[<<k, g[k - 1]>>]
        BY k \in 0..k, Zenon
      <4>. HIDE DEF f
      <4>. QED BY <3>1, <3>2, <4>1
    <3>3. CASE i # k
      <4>1. i \in 1..(k - 1) /\ f[i] = g[i]
        BY <3>3
      <4>. QED BY <2>1, <3>1, <4>1
    <3>. QED BY <3>2, <3>3
  <2>6. Solves(f, k)
    <3>. HIDE DEF f
    <3>. QED BY <2>4, <2>5 DEF Computes
  <2>7. k \in 0..n
    OBVIOUS
  <2>. HIDE DEF f, Solves
  <2>. QED BY <2>6, <2>7
<1>3. 0..n \subseteq T
  <2>. HIDE DEF T
  <2>. QED BY <1>1, <1>2, IntervalInduction
<1>4. n \in T
  BY <1>3
<1>. QED BY <1>4
-----------------------------------------------------------------------------
(***************************************************************************)
(* Sequences put together from sequences                                   *)
(***************************************************************************)

\* The sequence f of what the first 0, 1, 2... of the sequences ss make.
Joins(f, ss, S) ==
    /\ f \in [0..Len(ss) -> Seq(S)] /\ f[0] = <<>>
    /\ \A i \in 1..Len(ss) : f[i] = f[i - 1] \o ss[i]

\* FlattenSeq is the last of them.
LEMMA FlattenJoins ==
    ASSUME NEW S, NEW ss \in Seq(Seq(S))
    PROVE  \E f : Joins(f, ss, S) /\ FlattenSeq(ss) = f[Len(ss)]
<1>. DEFINE n == Len(ss)
            step == [p \in (1..n) \X Seq(S) |-> p[2] \o ss[p[1]]]
<1>1. n \in Nat /\ <<>> \in Seq(S) /\ \A i \in 1..n : ss[i] \in Seq(S)
  BY LenProperties, EmptySeq, ElementOfSeq
<1>2. step \in [(1..n) \X Seq(S) -> Seq(S)]
  <2>1. ASSUME NEW p \in (1..n) \X Seq(S) PROVE p[2] \o ss[p[1]] \in Seq(S)
    BY <1>1, ConcatProperties
  <2>. QED BY <2>1
<1>3. PICK f : /\ f \in [0..n -> Seq(S)] /\ f[0] = <<>>
               /\ \A i \in 1..n : f[i] = step[<<i, f[i - 1]>>]
  <2>. HIDE DEF n, step
  <2>1. \E f : Computes(f, n, Seq(S), <<>>, step)
    BY <1>1, <1>2, IntervalRecursion
  <2>. QED BY <2>1 DEF Computes
<1>4. ASSUME NEW i \in 1..n PROVE f[i] = f[i - 1] \o ss[i]
  <2>0. i - 1 \in 0..n
    BY <1>1
  <2>1. <<i, f[i - 1]>> \in (1..n) \X Seq(S)
    BY <1>3, <2>0
  <2>. QED BY <1>3, <2>1
<1>5. Joins(f, ss, S)
  BY <1>3, <1>4 DEF Joins
<1>6. CASE n = 0
  <2>1. ss = <<>>
    BY <1>6, EmptySeq
  <2>2. FlattenSeq(ss) = ss
    BY <1>6 DEF FlattenSeq
  <2>. QED BY <1>3, <1>5, <1>6, <2>1, <2>2
<1>7. CASE n # 0
  <2>. DEFINE E(h) == [i \in 1..n |-> IF i = 1 THEN ss[i] ELSE h[i - 1] \o ss[i]]
              g == [i \in 1..n |-> f[i]]
              h == CHOOSE h : h = E(h)
  <2>1. g = E(g)
    <3>1. ASSUME NEW i \in 1..n PROVE g[i] = E(g)[i]
      <4>1. CASE i = 1
        <5>0. 1 \in 1..n /\ 1 - 1 = 0
          BY <4>1
        <5>1. f[i] = f[0] \o ss[i]
          BY <1>4, <4>1, <5>0
        <5>2. ss[i] \in Seq(S) /\ g[i] = f[i] /\ E(g)[i] = ss[i]
          BY <1>1, <4>1
        <5>. HIDE DEF g, E
        <5>. QED BY <1>3, <5>1, <5>2, ConcatEmptySeq
      <4>2. CASE i # 1
        <5>1. i - 1 \in 1..n
          BY <1>1, <4>2
        <5>. QED BY <1>4, <4>2, <5>1
      <4>. QED BY <4>1, <4>2
    <3>. QED BY <3>1
  <2>2. h = E(h)
    <3>. HIDE DEF E, g
    <3>. QED BY <2>1
  <2>3. FlattenSeq(ss) = h[n]
    BY <1>7 DEF FlattenSeq
  <2>. DEFINE T == {i \in 0..n : i = 0 \/ h[i] = f[i]}
  <2>4. ASSUME NEW i \in 1..n, i - 1 \in T PROVE i \in T
    <3>1. h[i] = IF i = 1 THEN ss[i] ELSE h[i - 1] \o ss[i]
      <4>. HIDE DEF h
      <4>. QED BY <2>2
    <3>2. g[i] = IF i = 1 THEN ss[i] ELSE g[i - 1] \o ss[i]
      <4>. HIDE DEF g
      <4>. QED BY <2>1
    <3>3. g[i] = f[i] /\ (i # 1 => g[i - 1] = f[i - 1] /\ h[i - 1] = f[i - 1])
      BY <2>4, <1>1
    <3>4. i \in 0..n
      BY <1>1
    <3>. HIDE DEF h, g
    <3>. QED BY <3>1, <3>2, <3>3, <3>4
  <2>5. n \in T
    <3>1. 0 \in T
      BY <1>1
    <3>2. 0..n \subseteq T
      <4>. HIDE DEF T, n
      <4>. QED BY <1>1, <2>4, <3>1, IntervalInduction
    <3>3. n \in 0..n
      BY <1>1
    <3>. QED BY <3>2, <3>3, Zenon
  <2>6. h[n] = f[n]
    BY <1>7, <2>5
  <2>. HIDE DEF h
  <2>. QED BY <1>5, <2>3, <2>6
<1>. QED BY <1>6, <1>7

\* What the first parts of a longer sequence make is what they made before.
LEMMA JoinsUnique ==
    ASSUME NEW S, NEW ss \in Seq(Seq(S)), NEW tt \in Seq(Seq(S)), NEW f, NEW g,
           Joins(f, ss, S), Joins(g, tt, S), NEW n \in Nat, n <= Len(ss), n <= Len(tt),
           \A i \in 1..n : ss[i] = tt[i]
    PROVE  f[n] = g[n]
<1>. DEFINE T == {i \in 0..n : f[i] = g[i]}
<1>1. Len(ss) \in Nat /\ Len(tt) \in Nat
  BY LenProperties
<1>2. 0 \in T
  BY DEF Joins
<1>3. ASSUME NEW i \in 1..n, i - 1 \in T PROVE i \in T
  <2>1. i \in 1..Len(ss) /\ i \in 1..Len(tt) /\ i \in 0..n
    BY <1>1
  <2>2. f[i] = f[i - 1] \o ss[i] /\ g[i] = g[i - 1] \o tt[i]
    BY <2>1 DEF Joins
  <2>3. f[i - 1] = g[i - 1]
    BY <1>3
  <2>. QED BY <2>1, <2>2, <2>3
<1>4. 0..n \subseteq T
  <2>. HIDE DEF T
  <2>. QED BY <1>2, <1>3, IntervalInduction
<1>. QED BY <1>4, n \in 0..n

\* Nothing makes nothing.
LEMMA FlattenEmpty == FlattenSeq(<<>>) = <<>>
BY DEF FlattenSeq

\* One more sequence comes after what the others make.
LEMMA FlattenAppend ==
    ASSUME NEW S, NEW ss \in Seq(Seq(S)), NEW s \in Seq(S)
    PROVE  /\ FlattenSeq(ss) \in Seq(S)
           /\ FlattenSeq(Append(ss, s)) = FlattenSeq(ss) \o s
<1>. DEFINE tt == Append(ss, s)
            n == Len(ss)
<1>1. n \in Nat /\ tt \in Seq(Seq(S)) /\ Len(tt) = n + 1 /\ tt[n + 1] = s
  BY LenProperties, AppendProperties
<1>2. \A i \in 1..n : ss[i] = tt[i]
  BY AppendProperties
<1>3. PICK f : Joins(f, ss, S) /\ FlattenSeq(ss) = f[n]
  BY FlattenJoins
<1>. HIDE DEF tt
<1>4. PICK g : Joins(g, tt, S) /\ FlattenSeq(tt) = g[n + 1]
  BY <1>1, FlattenJoins
<1>5. f[n] = g[n]
  <2>1. n \in Nat /\ n <= Len(ss) /\ n <= Len(tt)
    BY <1>1
  <2>2. Joins(f, ss, S) /\ Joins(g, tt, S) /\ tt \in Seq(Seq(S))
    BY <1>1, <1>3, <1>4
  <2>. HIDE DEF n
  <2>. QED BY <1>2, <2>1, <2>2, JoinsUnique
<1>6. g[n + 1] = g[n] \o s
  <2>1. n + 1 \in 1..Len(tt) /\ (n + 1) - 1 = n
    BY <1>1
  <2>. HIDE DEF n
  <2>. QED BY <1>1, <1>4, <2>1 DEF Joins
<1>7. f[n] \in Seq(S)
  <2>1. n \in 0..n /\ f \in [0..n -> Seq(S)]
    BY <1>1, <1>3 DEF Joins
  <2>. HIDE DEF n
  <2>. QED BY <2>1
<1>. QED BY <1>3, <1>4, <1>5, <1>6, <1>7 DEF tt

\* The first sequence comes before what the others make.
LEMMA FlattenFirst ==
    ASSUME NEW S, NEW ss \in Seq(Seq(S)), NEW s \in Seq(S)
    PROVE  FlattenSeq(<<s>> \o ss) = s \o FlattenSeq(ss)
<1>. DEFINE n == Len(ss)
            P(i) == SubSeq(ss, 1, i)
            T == {i \in 0..n : FlattenSeq(<<s>> \o P(i)) = s \o FlattenSeq(P(i))}
<1>1. n \in Nat /\ \A i \in 1..n : ss[i] \in Seq(S)
  BY LenProperties, ElementOfSeq
<1>2. ASSUME NEW i \in 0..n PROVE P(i) \in Seq(Seq(S))
  BY <1>1, SubSeqProperties
<1>3. <<s>> \in Seq(Seq(S)) /\ Append(<<>>, s) = <<s>>
  OBVIOUS
<1>4. 0 \in T
  <2>1. P(0) = <<>>
    BY SubSeqEmpty
  <2>2. <<>> \in Seq(Seq(S)) /\ <<>> \in Seq(S)
    BY EmptySeq
  <2>3. FlattenSeq(<<s>>) = <<>> \o s
    BY <1>3, <2>2, FlattenEmpty, FlattenAppend
  <2>4. <<>> \o s = s /\ s \o <<>> = s
    BY ConcatEmptySeq
  <2>5. <<s>> \o P(0) = <<s>>
    BY <1>3, <2>1, ConcatEmptySeq
  <2>6. FlattenSeq(<<s>> \o P(0)) = s \o FlattenSeq(P(0))
    BY <2>1, <2>3, <2>4, <2>5, FlattenEmpty
  <2>7. 0 \in 0..n
    BY <1>1
  <2>. HIDE DEF P
  <2>. QED BY <2>6, <2>7
<1>5. ASSUME NEW i \in 1..n, i - 1 \in T PROVE i \in T
  <2>. DEFINE p == P(i - 1)
              q == <<s>> \o p
  <2>1. i - 1 \in 0..n /\ i \in 0..n /\ ss[i] \in Seq(S)
    BY <1>1
  <2>2. p \in Seq(Seq(S)) /\ q \in Seq(Seq(S))
    <3>1. p \in Seq(Seq(S))
      BY <1>2, <2>1
    <3>. HIDE DEF p
    <3>. QED BY <1>3, <3>1, ConcatProperties
  <2>3. P(i) = Append(p, ss[i])
    <3>1. SubSeq(ss, 1, (i - 1) + 1) = Append(SubSeq(ss, 1, i - 1), ss[(i - 1) + 1])
      BY <1>1, <2>1, NextPrefix
    <3>2. (i - 1) + 1 = i
      BY <1>1
    <3>. QED BY <3>1, <3>2
  <2>4. FlattenSeq(q) = s \o FlattenSeq(p)
    BY <1>5
  <2>. HIDE DEF p
  <2>5. <<s>> \o P(i) = Append(q, ss[i])
    <3>1. Append(p, ss[i]) = p \o <<ss[i]>> /\ Append(q, ss[i]) = q \o <<ss[i]>>
      BY <2>1, <2>2, AppendIsConcat
    <3>2. <<ss[i]>> \in Seq(Seq(S))
      BY <2>1
    <3>3. (<<s>> \o p) \o <<ss[i]>> = <<s>> \o (p \o <<ss[i]>>)
      BY <1>3, <2>2, <3>2, ConcatAssociative, SMTT(30)
    <3>. QED BY <2>3, <3>1, <3>3
  <2>. HIDE DEF q, P
  <2>6. /\ FlattenSeq(P(i)) = FlattenSeq(p) \o ss[i] /\ FlattenSeq(p) \in Seq(S)
        /\ FlattenSeq(Append(q, ss[i])) = FlattenSeq(q) \o ss[i]
    BY <2>1, <2>2, <2>3, FlattenAppend
  <2>7. (s \o FlattenSeq(p)) \o ss[i] = s \o (FlattenSeq(p) \o ss[i])
    <3>1. FlattenSeq(p) \in Seq(S) /\ ss[i] \in Seq(S)
      BY <2>1, <2>6
    <3>2. ASSUME NEW x \in Seq(S), NEW y \in Seq(S) PROVE (s \o x) \o y = s \o (x \o y)
      BY ConcatAssociative, SMTT(30)
    <3>. QED BY <3>1, <3>2, Zenon
  <2>. QED BY <2>1, <2>4, <2>5, <2>6, <2>7
<1>6. n \in T
  <2>1. 0..n \subseteq T
    <3>. HIDE DEF T, n
    <3>. QED BY <1>1, <1>4, <1>5, IntervalInduction
  <2>. QED BY <1>1, <2>1, n \in 0..n
<1>7. P(n) = ss
  BY SubSeqFull
<1>. HIDE DEF P, n
<1>. QED BY <1>6, <1>7

\* A concatenation, part by part.
LEMMA ConcatParts ==
    ASSUME NEW S, NEW s \in Seq(S), NEW t \in Seq(S)
    PROVE  /\ s \o t \in Seq(S) /\ Len(s) \in Nat /\ Len(t) \in Nat
           /\ Len(s \o t) = Len(s) + Len(t)
           /\ \A i \in 1..Len(s) : (s \o t)[i] = s[i]
           /\ \A i \in 1..Len(t) : (s \o t)[Len(s) + i] = t[i]
<1>1. /\ s \o t \in Seq(S) /\ Len(s \o t) = Len(s) + Len(t)
      /\ \A i \in 1..(Len(s) + Len(t)) :
            (s \o t)[i] = IF i <= Len(s) THEN s[i] ELSE t[i - Len(s)]
  BY ConcatProperties
<1>2. Len(s) \in Nat /\ Len(t) \in Nat
  BY LenProperties
<1>3. ASSUME NEW i \in 1..Len(t) PROVE (s \o t)[Len(s) + i] = t[i]
  <2>1. Len(s) + i \in 1..(Len(s) + Len(t)) /\ ~(Len(s) + i <= Len(s)) /\ (Len(s) + i) - Len(s) = i
    BY <1>2
  <2>. QED BY <1>1, <2>1
<1>4. ASSUME NEW i \in 1..Len(s) PROVE (s \o t)[i] = s[i]
  <2>1. i \in 1..(Len(s) + Len(t)) /\ i <= Len(s)
    BY <1>2
  <2>. QED BY <1>1, <2>1
<1>. QED BY <1>1, <1>2, <1>3, <1>4

\* What the first sequences make, with the next.
LEMMA FlattenNext ==
    ASSUME NEW S, NEW ss \in Seq(Seq(S)), NEW n \in Nat, n < Len(ss)
    PROVE  /\ FlattenSeq(SubSeq(ss, 1, n)) \in Seq(S) /\ ss[n + 1] \in Seq(S)
           /\ FlattenSeq(SubSeq(ss, 1, n + 1)) = FlattenSeq(SubSeq(ss, 1, n)) \o ss[n + 1]
<1>1. Len(ss) \in Nat /\ \A i \in 1..Len(ss) : ss[i] \in Seq(S)
  BY LenProperties, ElementOfSeq
<1>2. ss[n + 1] \in Seq(S) /\ SubSeq(ss, 1, n) \in Seq(Seq(S))
  BY <1>1, SubSeqProperties
<1>3. SubSeq(ss, 1, n + 1) = Append(SubSeq(ss, 1, n), ss[n + 1])
  BY NextPrefix
<1>. QED BY <1>2, <1>3, FlattenAppend

\* What the first i sequences make is the beginning of what all of them make.
LEMMA FlattenPrefix ==
    ASSUME NEW S, NEW ss \in Seq(Seq(S)), NEW i \in 0..Len(ss)
    PROVE  /\ FlattenSeq(SubSeq(ss, 1, i)) \in Seq(S) /\ FlattenSeq(ss) \in Seq(S)
           /\ Len(FlattenSeq(SubSeq(ss, 1, i))) <= Len(FlattenSeq(ss))
           /\ \A j \in 1..Len(FlattenSeq(SubSeq(ss, 1, i))) :
                 FlattenSeq(SubSeq(ss, 1, i))[j] = FlattenSeq(ss)[j]
<1>. DEFINE F(k) == FlattenSeq(SubSeq(ss, 1, k))
            n == Len(ss)
            Begins(k) == Len(F(i)) <= Len(F(k)) /\ \A j \in 1..Len(F(i)) : F(i)[j] = F(k)[j]
            T == {k \in 0..n : k >= i => Begins(k)}
<1>1. n \in Nat /\ i \in 0..n
  BY LenProperties
<1>2. ASSUME NEW k \in 0..n PROVE F(k) \in Seq(S) /\ Len(F(k)) \in Nat
  <2>1. SubSeq(ss, 1, k) \in Seq(Seq(S))
    BY SubSeqProperties, ElementOfSeq, LenProperties
  <2>2. F(k) \in Seq(S)
    BY <2>1, EmptySeq, FlattenAppend
  <2>. QED BY <2>2, LenProperties
<1>3. ASSUME NEW k \in 1..n PROVE F(k) = F(k - 1) \o ss[k] /\ ss[k] \in Seq(S)
  <2>1. k - 1 \in Nat /\ k - 1 < Len(ss) /\ (k - 1) + 1 = k
    BY <1>1
  <2>2. /\ ss[(k - 1) + 1] \in Seq(S)
        /\ FlattenSeq(SubSeq(ss, 1, (k - 1) + 1)) = FlattenSeq(SubSeq(ss, 1, k - 1)) \o ss[(k - 1) + 1]
    BY <2>1, FlattenNext
  <2>. QED BY <2>1, <2>2
<1>4. F(n) = FlattenSeq(ss)
  BY SubSeqFull
<1>. HIDE DEF F
<1>5. Begins(i)
  BY <1>1, <1>2
<1>6. ASSUME NEW k \in 1..n, k - 1 >= i, Begins(k - 1) PROVE Begins(k)
  <2>1. k - 1 \in 0..n /\ F(k - 1) \in Seq(S) /\ F(i) \in Seq(S) /\ Len(F(i)) \in Nat
    BY <1>1, <1>2
  <2>2. F(k) = F(k - 1) \o ss[k] /\ ss[k] \in Seq(S)
    BY <1>3
  <2>3. /\ Len(F(k - 1)) \in Nat /\ Len(ss[k]) \in Nat /\ Len(F(k)) = Len(F(k - 1)) + Len(ss[k])
        /\ \A j \in 1..Len(F(k - 1)) : F(k)[j] = F(k - 1)[j]
    BY <2>1, <2>2, ConcatParts
  <2>4. Len(F(i)) <= Len(F(k - 1)) /\ \A j \in 1..Len(F(i)) : F(i)[j] = F(k - 1)[j]
    BY <1>6
  <2>5. Len(F(i)) <= Len(F(k))
    <3>1. ASSUME NEW a \in Nat, NEW b \in Nat, NEW c \in Nat, c <= a PROVE c <= a + b
      BY <3>1
    <3>2. /\ Len(F(i)) \in Nat /\ Len(F(k - 1)) \in Nat /\ Len(ss[k]) \in Nat
          /\ Len(F(i)) <= Len(F(k - 1))
      BY <2>1, <2>3, <2>4
    <3>3. Len(F(i)) <= Len(F(k - 1)) + Len(ss[k])
      BY <3>1, <3>2, Zenon
    <3>. QED BY <2>3, <3>3, Zenon
  <2>6. ASSUME NEW j \in 1..Len(F(i)) PROVE F(i)[j] = F(k)[j]
    <3>1. j \in 1..Len(F(k - 1))
      BY <2>1, <2>3, <2>4
    <3>. QED BY <2>3, <2>4, <3>1
  <2>. QED BY <2>5, <2>6
<1>7. 0 \in T
  BY <1>1, <1>5
<1>8. ASSUME NEW k \in 1..n, k - 1 \in T PROVE k \in T
  <2>1. k \in 0..n /\ i \in Int /\ (k >= i => k = i \/ k - 1 >= i)
    BY <1>1
  <2>. HIDE DEF Begins
  <2>. QED BY <1>5, <1>6, <1>8, <2>1
<1>9. n \in T
  <2>1. 0..n \subseteq T
    <3>. HIDE DEF T, n
    <3>. QED BY <1>1, <1>7, <1>8, IntervalInduction
  <2>. QED BY <1>1, <2>1, n \in 0..n
<1>10. Begins(n)
  BY <1>1, <1>9
<1>. QED BY <1>1, <1>2, <1>4, <1>10 DEF F

\* The (i + 1)-st sequence is found in what all of them make after what the
\* first i make.
LEMMA FlattenPart ==
    ASSUME NEW S, NEW ss \in Seq(Seq(S)), NEW i \in Nat, i < Len(ss)
    PROVE  LET before == Len(FlattenSeq(SubSeq(ss, 1, i)))
           IN  /\ before \in Nat /\ Len(ss[i + 1]) \in Nat
               /\ Len(FlattenSeq(SubSeq(ss, 1, i + 1))) = before + Len(ss[i + 1])
               /\ before + Len(ss[i + 1]) <= Len(FlattenSeq(ss))
               /\ \A j \in 1..Len(ss[i + 1]) : FlattenSeq(ss)[before + j] = ss[i + 1][j]
<1>. DEFINE p == FlattenSeq(SubSeq(ss, 1, i))
            q == FlattenSeq(SubSeq(ss, 1, i + 1))
            all == FlattenSeq(ss)
            s == ss[i + 1]
<1>1. p \in Seq(S) /\ s \in Seq(S) /\ q = p \o s
  BY FlattenNext
<1>2. Len(q) <= Len(all) /\ \A j \in 1..Len(q) : q[j] = all[j]
  <2>1. i + 1 \in 0..Len(ss)
    BY LenProperties
  <2>. QED BY <2>1, FlattenPrefix
<1>. HIDE DEF p, q, all, s
<1>3. /\ Len(p) \in Nat /\ Len(s) \in Nat /\ Len(q) = Len(p) + Len(s)
      /\ \A j \in 1..Len(s) : q[Len(p) + j] = s[j]
  BY <1>1, ConcatParts
<1>4. ASSUME NEW j \in 1..Len(s) PROVE all[Len(p) + j] = s[j]
  <2>1. Len(p) + j \in 1..Len(q)
    BY <1>3
  <2>. QED BY <1>2, <1>3, <2>1
<1>5. Len(p) + Len(s) <= Len(all)
  BY <1>2, <1>3
<1>. QED BY <1>3, <1>4, <1>5 DEF p, q, all, s
-----------------------------------------------------------------------------
(***************************************************************************)
(* Sequences cut in two, and put together element by element               *)
(***************************************************************************)

\* Two sequences that begin with parts of one length have these and the rest
\* in common.
LEMMA ConcatCancel ==
    ASSUME NEW S, NEW s \in Seq(S), NEW t \in Seq(S), NEW x \in Seq(S), NEW y \in Seq(S),
           Len(s) = Len(t), s \o x = t \o y
    PROVE  s = t /\ x = y
<1>. DEFINE a == s \o x
            b == t \o y
            Made(q, u, v) == /\ Len(q) = Len(u) + Len(v) /\ Len(u) \in Nat /\ Len(v) \in Nat
                             /\ \A i \in 1..Len(u) : q[i] = u[i]
                             /\ \A i \in 1..Len(v) : q[Len(u) + i] = v[i]
<1>pair. ASSUME NEW u \in Seq(S), NEW v \in Seq(S) PROVE Made(u \o v, u, v)
  BY ConcatParts
<1>. HIDE DEF Made
<1>made. Made(a, s, x) /\ Made(b, t, y)
  BY <1>pair
<1>1. /\ Len(a) = Len(s) + Len(x) /\ Len(s) \in Nat /\ Len(x) \in Nat
      /\ \A i \in 1..Len(s) : a[i] = s[i]
      /\ \A i \in 1..Len(x) : a[Len(s) + i] = x[i]
  BY <1>made, Zenon DEF Made
<1>2. /\ Len(b) = Len(t) + Len(y) /\ Len(y) \in Nat
      /\ \A i \in 1..Len(t) : b[i] = t[i]
      /\ \A i \in 1..Len(y) : b[Len(t) + i] = y[i]
  BY <1>made, Zenon DEF Made
<1>3. a = b /\ Len(s) = Len(t)
  OBVIOUS
<1>. HIDE DEF a, b
<1>4. Len(x) = Len(y)
  BY <1>1, <1>2, <1>3
<1>5. \A i \in 1..Len(s) : s[i] = t[i]
  BY <1>1, <1>2, <1>3
<1>6. \A i \in 1..Len(x) : x[i] = y[i]
  BY <1>1, <1>2, <1>3, <1>4
<1>. QED BY <1>3, <1>4, <1>5, <1>6, SeqEqual

\* The first k elements and the others.
LEMMA ConcatSplit ==
    ASSUME NEW S, NEW s \in Seq(S), NEW k \in 0..Len(s)
    PROVE  /\ SubSeq(s, 1, k) \in Seq(S) /\ SubSeq(s, k + 1, Len(s)) \in Seq(S)
           /\ Len(SubSeq(s, 1, k)) = k
           /\ SubSeq(s, 1, k) \o SubSeq(s, k + 1, Len(s)) = s
<1>. DEFINE n == Len(s)
            a == SubSeq(s, 1, k)
            b == SubSeq(s, k + 1, n)
<1>1. n \in Nat /\ k \in Nat /\ k <= n /\ \A i \in 1..n : s[i] \in S
  BY LenProperties, ElementOfSeq
<1>2. a \in Seq(S) /\ Len(a) = k /\ \A i \in 1..k : a[i] = s[i]
  <2>1. \A i \in 1..k : s[i] \in S
    BY <1>1
  <2>2. /\ a \in Seq(S) /\ Len(a) = IF 1 <= k THEN k - 1 + 1 ELSE 0
        /\ \A i \in 1..(k - 1 + 1) : a[i] = s[1 + i - 1]
    <3>1. 1 \in Int /\ k \in Int
      BY <1>1
    <3>. QED BY <2>1, <3>1, SubSeqProperties
  <2>. HIDE DEF a
  <2>. QED BY <1>1, <2>2
<1>3. b \in Seq(S) /\ Len(b) = n - k /\ \A i \in 1..(n - k) : b[i] = s[k + i]
  <2>1. \A i \in (k + 1)..n : s[i] \in S
    BY <1>1
  <2>2. /\ b \in Seq(S) /\ Len(b) = IF k + 1 <= n THEN n - (k + 1) + 1 ELSE 0
        /\ \A i \in 1..(n - (k + 1) + 1) : b[i] = s[(k + 1) + i - 1]
    <3>1. k + 1 \in Int /\ n \in Int
      BY <1>1
    <3>. QED BY <2>1, <3>1, SubSeqProperties
  <2>. HIDE DEF b
  <2>3. n - (k + 1) + 1 = n - k /\ (k + 1 <= n <=> n - k # 0)
    BY <1>1
  <2>4. ASSUME NEW i \in 1..(n - k) PROVE b[i] = s[k + i]
    <3>1. (k + 1) + i - 1 = k + i
      BY <1>1
    <3>. QED BY <2>2, <2>3, <3>1
  <2>. QED BY <1>1, <2>2, <2>3, <2>4
<1>. HIDE DEF a, b, n
<1>4. /\ a \o b \in Seq(S) /\ Len(a \o b) = Len(a) + Len(b)
      /\ \A i \in 1..Len(a) : (a \o b)[i] = a[i]
      /\ \A i \in 1..Len(b) : (a \o b)[Len(a) + i] = b[i]
  <2>1. a \in Seq(S) /\ b \in Seq(S)
    BY <1>2, <1>3
  <2>. QED BY <2>1, ConcatParts
<1>. DEFINE q == a \o b
<1>. HIDE DEF q
<1>5. /\ q \in Seq(S) /\ Len(q) = n /\ \A i \in 1..k : q[i] = a[i]
      /\ \A i \in 1..(n - k) : q[k + i] = b[i]
  BY <1>1, <1>2, <1>3, <1>4 DEF q
<1>6. ASSUME NEW i \in 1..n PROVE q[i] = s[i]
  <2>1. CASE i <= k
    BY <1>1, <1>2, <1>5, <2>1
  <2>2. CASE i > k
    <3>. DEFINE j == i - k
    <3>1. j \in 1..(n - k) /\ k + j = i
      BY <1>1, <2>2
    <3>. HIDE DEF j
    <3>2. q[k + j] = b[j] /\ b[j] = s[k + j]
      BY <1>3, <1>5, <3>1
    <3>. QED BY <3>1, <3>2
  <2>. QED BY <1>1, <2>1, <2>2
<1>7. q = s
  BY <1>5, <1>6, SeqEqual DEF n
<1>. QED BY <1>2, <1>3, <1>7 DEF q, a, b, n

\* f maps S to T.
Maps(f, S, T) == f \in [S -> T]

\* f of the elements of ss.
Image(f, ss) == [i \in 1..Len(ss) |-> f[ss[i]]]

LEMMA ImageAppend ==
    ASSUME NEW S, NEW T, NEW f, Maps(f, S, T), NEW ss \in Seq(S), NEW e \in S
    PROVE  /\ Image(f, ss) \in Seq(T) /\ Len(Image(f, ss)) = Len(ss) /\ f[e] \in T
           /\ Image(f, Append(ss, e)) = Append(Image(f, ss), f[e])
<1>. DEFINE n == Len(ss)
            tt == Append(ss, e)
            g == Image(f, ss)
            h == Image(f, tt)
            k == Append(g, f[e])
<1>. f \in [S -> T]
  BY DEF Maps
<1>1. n \in Nat /\ \A i \in 1..n : ss[i] \in S
  BY LenProperties, ElementOfSeq
<1>2. /\ tt \in Seq(S) /\ Len(tt) = n + 1 /\ tt[n + 1] = e
      /\ \A i \in 1..n : tt[i] = ss[i]
  BY <1>1, AppendProperties
<1>. HIDE DEF tt
<1>3. g \in [1..n -> T] /\ \A i \in 1..n : g[i] = f[ss[i]]
  BY <1>1 DEF Image
<1>4. g \in Seq(T) /\ Len(g) = n
  <2>. HIDE DEF g, n
  <2>. QED BY <1>1, <1>3, FunctionIsSequence
<1>5. ASSUME NEW i \in 1..(n + 1) PROVE tt[i] \in S
  BY <1>2, ElementOfSeq
<1>6. h \in [1..(n + 1) -> T] /\ \A i \in 1..(n + 1) : h[i] = f[tt[i]]
  BY <1>2, <1>5 DEF Image
<1>7. h \in Seq(T) /\ Len(h) = n + 1
  <2>. HIDE DEF h, n
  <2>1. n + 1 \in Nat
    BY <1>1
  <2>. QED BY <1>6, <2>1, FunctionIsSequence
<1>8. f[e] \in T
  OBVIOUS
<1>. HIDE DEF g
<1>9. /\ k \in Seq(T) /\ Len(k) = n + 1 /\ k[n + 1] = f[e]
      /\ \A i \in 1..n : k[i] = g[i]
  BY <1>4, <1>8, AppendProperties
<1>. HIDE DEF h, k, n
<1>10. ASSUME NEW i \in 1..(n + 1) PROVE h[i] = k[i]
  <2>1. CASE i = n + 1
    BY <1>2, <1>6, <1>9, <2>1
  <2>2. CASE i # n + 1
    <3>1. i \in 1..n
      BY <1>1, <2>2
    <3>. QED BY <1>2, <1>3, <1>6, <1>9, <3>1
  <2>. QED BY <2>1, <2>2
<1>11. h = k
  BY <1>7, <1>9, <1>10, SeqEqual
<1>. QED BY <1>4, <1>8, <1>11 DEF g, h, k, n, tt

LEMMA ImageFirst ==
    ASSUME NEW S, NEW T, NEW f, Maps(f, S, T), NEW ss \in Seq(S), ss # <<>>
    PROVE  /\ Tail(ss) \in Seq(S) /\ ss[1] \in S
           /\ Image(f, Tail(ss)) \in Seq(T) /\ f[ss[1]] \in T
           /\ Image(f, ss) = <<f[ss[1]]>> \o Image(f, Tail(ss))
<1>. DEFINE n == Len(ss)
            tt == Tail(ss)
            e == ss[1]
            g == Image(f, tt)
            h == Image(f, ss)
            k == <<f[e]>> \o g
<1>. f \in [S -> T]
  BY DEF Maps
<1>1. n \in Nat \ {0} /\ \A i \in 1..n : ss[i] \in S
  BY LenProperties, ElementOfSeq, EmptySeq
<1>2. /\ tt \in Seq(S) /\ Len(tt) = n - 1
      /\ \A i \in 1..(n - 1) : tt[i] = ss[i + 1]
  BY HeadTailProperties
<1>. HIDE DEF tt
<1>3. e \in S /\ f[e] \in T
  BY <1>1
<1>4. ASSUME NEW i \in 1..(n - 1) PROVE tt[i] \in S
  BY <1>2, ElementOfSeq
<1>5. g \in [1..(n - 1) -> T] /\ \A i \in 1..(n - 1) : g[i] = f[tt[i]]
  BY <1>2, <1>4 DEF Image
<1>6. g \in Seq(T) /\ Len(g) = n - 1
  <2>. HIDE DEF g, n
  <2>1. n - 1 \in Nat
    BY <1>1
  <2>. QED BY <1>5, <2>1, FunctionIsSequence
<1>7. h \in [1..n -> T] /\ \A i \in 1..n : h[i] = f[ss[i]]
  BY <1>1 DEF Image
<1>8. h \in Seq(T) /\ Len(h) = n
  <2>. HIDE DEF h, n
  <2>. QED BY <1>1, <1>7, FunctionIsSequence
<1>. DEFINE x == <<f[e]>>
<1>9. x \in Seq(T) /\ Len(x) = 1 /\ x[1] = f[e]
  BY <1>3
<1>. HIDE DEF g, x, h
<1>10. /\ x \o g \in Seq(T) /\ Len(x \o g) = 1 + (n - 1)
       /\ \A i \in 1..1 : (x \o g)[i] = x[i]
       /\ \A i \in 1..(n - 1) : (x \o g)[1 + i] = g[i]
  <2>1. x \in Seq(T) /\ g \in Seq(T)
    BY <1>6, <1>9
  <2>. DEFINE q == x \o g
  <2>2. /\ q \in Seq(T) /\ Len(q) = Len(x) + Len(g)
        /\ \A i \in 1..Len(x) : q[i] = x[i]
        /\ \A i \in 1..Len(g) : q[Len(x) + i] = g[i]
    BY <2>1, ConcatParts
  <2>. HIDE DEF q
  <2>3. /\ q \in Seq(T) /\ Len(q) = 1 + (n - 1)
        /\ \A i \in 1..1 : q[i] = x[i]
        /\ \A i \in 1..(n - 1) : q[1 + i] = g[i]
    BY <1>6, <1>9, <2>2
  <2>. QED BY <2>3 DEF q
<1>. DEFINE r == x \o g
<1>. HIDE DEF n, r
<1>11. r \in Seq(T) /\ Len(r) = n
  BY <1>1, <1>10 DEF r
<1>12. ASSUME NEW i \in 1..n PROVE h[i] = r[i]
  <2>1. CASE i = 1
    <3>1. r[1] = x[1]
      BY <1>10, 1 \in 1..1 DEF r
    <3>. QED BY <1>7, <1>9, <2>1, <3>1
  <2>2. CASE i # 1
    <3>. DEFINE j == i - 1
    <3>1. j \in 1..(n - 1) /\ 1 + j = i /\ j + 1 = i
      BY <1>1, <2>2
    <3>. HIDE DEF j
    <3>2. r[1 + j] = g[j]
      BY <1>10, <3>1 DEF r
    <3>3. g[j] = f[tt[j]] /\ tt[j] = ss[j + 1]
      BY <1>2, <1>5, <3>1
    <3>. QED BY <1>7, <3>1, <3>2, <3>3
  <2>. QED BY <2>1, <2>2
<1>13. h = r
  BY <1>8, <1>11, <1>12, SeqEqual
<1>. QED BY <1>2, <1>3, <1>6, <1>13, Zenon DEF g, h, r, x, tt
=============================================================================
