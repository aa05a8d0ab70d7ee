------------------------- MODULE AdaptiveDepthProofs -------------------------
(***************************************************************************)
(* The depth of a proposal, proved for any window, maximal depth, number   *)
(* of cycles in flight and unit of the ratios.                             *)
(*                                                                         *)
(*   1. Sums: what average_ratio adds up when a ratio enters the window    *)
(*      and the oldest leaves it.                                          *)
(*   2. Depths: choose_depth grows with the average ratio, through its     *)
(*      three segments, the rounding and the clamp.                        *)
(*   3. The window: the last streak ratios of it are 1 (WindowInv).        *)
(***************************************************************************)
EXTENDS AdaptiveDepth, SequenceLemmas

Ratios == 0..Units
-----------------------------------------------------------------------------
(***************************************************************************)
(* Sums                                                                    *)
(***************************************************************************)

\* f[i] is the sum of the first i ratios of h.
Sums(f, h) ==
    /\ f \in [0..Len(h) -> Nat] /\ f[0] = 0
    /\ \A i \in 1..Len(h) : f[i] = f[i - 1] + h[i]

\* The loop of average_ratio computes them.
LEMMA SumOfSums ==
    ASSUME NEW h \in Seq(Nat)
    PROVE  \E f : Sums(f, h) /\ SumOf(h) = f[Len(h)]
<1>. DEFINE n == Len(h)
            step == [p \in (1..n) \X Nat |-> p[2] + h[p[1]]]
            E(g) == [i \in 0..n |-> IF i = 0 THEN 0 ELSE g[i - 1] + h[i]]
            sum == CHOOSE g : g = E(g)
<1>1. n \in Nat /\ \A i \in 1..n : h[i] \in Nat
  BY LenProperties, ElementOfSeq
<1>2. step \in [(1..n) \X Nat -> Nat]
  <2>1. ASSUME NEW p \in (1..n) \X Nat PROVE p[2] + h[p[1]] \in Nat
    BY <1>1
  <2>. QED BY <2>1
<1>3. PICK f : /\ f \in [0..n -> Nat] /\ f[0] = 0
               /\ \A i \in 1..n : f[i] = step[<<i, f[i - 1]>>]
  <2>. HIDE DEF n, step
  <2>1. \E f : Computes(f, n, Nat, 0, step)
    BY <1>1, <1>2, IntervalRecursion
  <2>. QED BY <2>1 DEF Computes
<1>4. ASSUME NEW i \in 1..n PROVE f[i] = f[i - 1] + h[i]
  <2>0. i - 1 \in 0..n
    BY <1>1
  <2>1. <<i, f[i - 1]>> \in (1..n) \X Nat
    BY <1>3, <2>0
  <2>. QED BY <1>3, <2>1
<1>5. f = E(f)
  <2>1. ASSUME NEW i \in 0..n PROVE f[i] = E(f)[i]
    <3>1. CASE i = 0
      BY <1>3, <3>1
    <3>2. CASE i # 0
      <4>1. i \in 1..n
        BY <1>1, <3>2
      <4>. QED BY <1>4, <3>2, <4>1
    <3>. QED BY <3>1, <3>2
  <2>. QED BY <1>3, <2>1
<1>6. sum = E(sum)
  <2>. HIDE DEF E
  <2>. QED BY <1>5
<1>7. SumOf(h) = sum[n]
  BY Zenon DEF SumOf
<1>. HIDE DEF sum
<1>. DEFINE T == {i \in 0..n : sum[i] = f[i]}
<1>8. 0 \in T
  BY <1>1, <1>3, <1>6
<1>9. ASSUME NEW i \in 1..n, i - 1 \in T PROVE i \in T
  <2>1. i \in 0..n /\ i # 0 /\ sum[i - 1] = f[i - 1]
    BY <1>1, <1>9
  <2>2. sum[i] = sum[i - 1] + h[i]
    BY <1>6, <2>1
  <2>. QED BY <1>4, <2>1, <2>2
<1>10. n \in T
  <2>1. 0..n \subseteq T
    <3>. HIDE DEF T, n
    <3>. QED BY <1>1, <1>8, <1>9, IntervalInduction
  <2>. QED BY <1>1, <2>1, n \in 0..n
<1>11. Sums(f, h)
  BY <1>3, <1>4 DEF Sums
<1>. QED BY <1>7, <1>10, <1>11

\* What the sums of two histories have in common where the second repeats the
\* first k ratios further on.
LEMMA SumsShifted ==
    ASSUME NEW h \in Seq(Nat), NEW g \in Seq(Nat), NEW f, NEW e, Sums(f, h), Sums(e, g),
           NEW k \in Nat, NEW n \in Nat, n <= Len(h), n + k <= Len(g),
           \A i \in 1..n : h[i] = g[i + k]
    PROVE  e[n + k] = f[n] + e[k]
<1>. DEFINE T == {i \in 0..n : e[i + k] = f[i] + e[k]}
<1>1. Len(h) \in Nat /\ Len(g) \in Nat /\ \A i \in 1..Len(h) : h[i] \in Nat
  BY LenProperties, ElementOfSeq
<1>2. f \in [0..Len(h) -> Nat] /\ f[0] = 0 /\ \A i \in 1..Len(h) : f[i] = f[i - 1] + h[i]
  BY DEF Sums
<1>3. e \in [0..Len(g) -> Nat] /\ \A i \in 1..Len(g) : e[i] = e[i - 1] + g[i]
  BY DEF Sums
<1>4. e[k] \in Nat
  <2>1. k \in 0..Len(g)
    BY <1>1
  <2>. QED BY <1>3, <2>1
<1>5. 0 \in T
  <2>1. 0 + k = k /\ 0 + e[k] = e[k]
    BY <1>4
  <2>. QED BY <1>2, <2>1
<1>6. ASSUME NEW i \in 1..n, i - 1 \in T PROVE i \in T
  <2>1. /\ i \in 1..Len(h) /\ i - 1 \in 0..Len(h) /\ i + k \in 1..Len(g) /\ i \in 0..n
        /\ (i + k) - 1 = (i - 1) + k
    BY <1>1
  <2>2. f[i] = f[i - 1] + h[i] /\ e[i + k] = e[(i + k) - 1] + g[i + k]
    BY <1>2, <1>3, <2>1, Zenon
  <2>3. e[(i - 1) + k] = f[i - 1] + e[k] /\ g[i + k] = h[i]
    BY <1>6
  <2>4. f[i - 1] \in Nat /\ h[i] \in Nat
    BY <1>1, <1>2, <2>1
  <2>5. e[i + k] = (f[i - 1] + e[k]) + h[i]
    BY <2>1, <2>2, <2>3, Zenon
  <2>6. e[i + k] = f[i] + e[k]
    <3>1. ASSUME NEW a \in Nat, NEW b \in Nat, NEW c \in Nat PROVE (a + b) + c = (a + c) + b
      OBVIOUS
    <3>2. (f[i - 1] + e[k]) + h[i] = (f[i - 1] + h[i]) + e[k]
      BY <1>4, <2>4, <3>1, ZenonT(40)
    <3>. QED BY <2>2, <2>5, <3>2, Zenon
  <2>. QED BY <2>1, <2>6
<1>7. n \in T
  <2>1. 0..n \subseteq T
    <3>. HIDE DEF T
    <3>. QED BY <1>5, <1>6, IntervalInduction
  <2>. QED BY <2>1, n \in 0..n
<1>. QED BY <1>7

\* A ratio enters.
LEMMA SumAppend ==
    ASSUME NEW h \in Seq(Nat), NEW r \in Nat
    PROVE  SumOf(h) \in Nat /\ SumOf(Append(h, r)) = SumOf(h) + r
<1>. DEFINE g == Append(h, r)
            n == Len(h)
<1>1. n \in Nat /\ g \in Seq(Nat) /\ Len(g) = n + 1 /\ g[n + 1] = r
  BY LenProperties, AppendProperties
<1>2. \A i \in 1..n : h[i] = g[i]
  BY AppendProperties
<1>3. PICK f : Sums(f, h) /\ SumOf(h) = f[n]
  BY SumOfSums
<1>. HIDE DEF g
<1>4. PICK e : Sums(e, g) /\ SumOf(g) = e[n + 1]
  BY <1>1, SumOfSums
<1>5. e[n + 0] = f[n] + e[0]
  <2>1. \A i \in 1..n : h[i] = g[i + 0]
    BY <1>2
  <2>2. 0 \in Nat /\ n <= Len(h) /\ n + 0 <= Len(g)
    BY <1>1
  <2>. HIDE DEF n
  <2>. QED BY <1>1, <1>3, <1>4, <2>1, <2>2, SumsShifted
<1>6. e[0] = 0 /\ e[n + 1] = e[(n + 1) - 1] + g[n + 1] /\ f[n] \in Nat
  <2>1. n + 1 \in 1..Len(g) /\ n \in 0..Len(h)
    BY <1>1
  <2>2. e[0] = 0 /\ \A i \in 1..Len(g) : e[i] = e[i - 1] + g[i]
    BY <1>4 DEF Sums
  <2>3. f \in [0..Len(h) -> Nat]
    BY <1>3 DEF Sums
  <2>. QED BY <2>1, <2>2, <2>3
<1>7. (n + 1) - 1 = n /\ n + 0 = n
  BY <1>1
<1>8. e[n] = f[n]
  BY <1>5, <1>6, <1>7
<1>9. e[n + 1] = f[n] + r
  BY <1>1, <1>6, <1>7, <1>8
<1>. QED BY <1>3, <1>4, <1>6, <1>9 DEF g

\* The oldest ratio leaves.
LEMMA SumTail ==
    ASSUME NEW g \in Seq(Nat), Len(g) > 0
    PROVE  g[1] \in Nat /\ SumOf(Tail(g)) \in Nat /\ SumOf(g) = g[1] + SumOf(Tail(g))
<1>. DEFINE h == Tail(g)
            n == Len(h)
<1>1. g # <<>> /\ Len(g) \in Nat /\ g[1] \in Nat
  BY LenProperties, EmptySeq, ElementOfSeq
<1>2. h \in Seq(Nat) /\ n = Len(g) - 1 /\ n \in Nat /\ \A i \in 1..n : h[i] = g[i + 1]
  BY <1>1, HeadTailProperties
<1>. HIDE DEF h
<1>3. PICK f : Sums(f, h) /\ SumOf(h) = f[n]
  BY <1>2, SumOfSums
<1>4. PICK e : Sums(e, g) /\ SumOf(g) = e[Len(g)]
  BY SumOfSums
<1>5. e[n + 1] = f[n] + e[1]
  <2>1. 1 \in Nat /\ n <= Len(h) /\ n + 1 <= Len(g)
    BY <1>1, <1>2
  <2>2. \A i \in 1..n : h[i] = g[i + 1]
    BY <1>2
  <2>3. h \in Seq(Nat) /\ n \in Nat
    BY <1>2
  <2>. HIDE DEF n
  <2>. QED BY <1>3, <1>4, <2>1, <2>2, <2>3, SumsShifted
<1>6. e[1] = g[1] /\ f[n] \in Nat
  <2>1. 1 \in 1..Len(g) /\ n \in 0..Len(h) /\ 1 - 1 = 0
    BY <1>1, <1>2
  <2>2. e[0] = 0 /\ \A i \in 1..Len(g) : e[i] = e[i - 1] + g[i]
    BY <1>4 DEF Sums
  <2>3. f \in [0..Len(h) -> Nat]
    BY <1>3 DEF Sums
  <2>4. e[1] = 0 + g[1]
    BY <2>1, <2>2
  <2>. QED BY <1>1, <2>1, <2>3, <2>4
<1>7. n + 1 = Len(g)
  BY <1>1, <1>2
<1>. QED BY <1>1, <1>3, <1>4, <1>5, <1>6, <1>7 DEF h

\* The sum of n ratios is at most n, and n if each of them is 1.
LEMMA SumBounds ==
    ASSUME NEW h \in Seq(Ratios)
    PROVE  /\ h \in Seq(Nat) /\ Len(h) \in Nat /\ SumOf(h) \in Nat /\ SumOf(h) <= Len(h) * Units
           /\ (\A i \in 1..Len(h) : h[i] = Units) => SumOf(h) = Len(h) * Units
<1>. DEFINE n == Len(h)
            full == \A i \in 1..n : h[i] = Units
<1>1. n \in Nat /\ Units \in Nat /\ \A i \in 1..n : h[i] \in Ratios
  BY LenProperties, ElementOfSeq, DepthConstants
<1>2. h \in Seq(Nat)
  <2>1. h \in [1..n -> Nat]
    BY <1>1, LenProperties DEF Ratios
  <2>. QED BY <1>1, <2>1, FunctionIsSequence
<1>3. PICK f : Sums(f, h) /\ SumOf(h) = f[n]
  BY <1>2, SumOfSums
<1>4. f \in [0..n -> Nat] /\ f[0] = 0 /\ \A i \in 1..n : f[i] = f[i - 1] + h[i]
  BY <1>3 DEF Sums
<1>. DEFINE T == {i \in 0..n : f[i] <= i * Units /\ (full => f[i] = i * Units)}
<1>5. 0 \in T
  BY <1>1, <1>4
<1>6. ASSUME NEW i \in 1..n, i - 1 \in T PROVE i \in T
  <2>1. i - 1 \in 0..n /\ i \in 0..n /\ f[i - 1] \in Nat /\ h[i] \in 0..Units
    BY <1>1, <1>4 DEF Ratios
  <2>2. f[i] = f[i - 1] + h[i] /\ i * Units = (i - 1) * Units + Units
    BY <1>1, <1>4
  <2>3. f[i - 1] <= (i - 1) * Units /\ (full => f[i - 1] = (i - 1) * Units)
    BY <1>6
  <2>. DEFINE m == (i - 1) * Units
  <2>4. m \in Int
    BY <1>1
  <2>. HIDE DEF m, full
  <2>5. f[i] <= m + Units
    BY <1>1, <2>1, <2>2, <2>3, <2>4 DEF m
  <2>6. full => f[i] = m + Units
    <3>1. full => h[i] = Units
      BY DEF full
    <3>. QED BY <2>2, <2>3, <3>1 DEF m
  <2>. QED BY <2>1, <2>2, <2>5, <2>6 DEF m
<1>7. n \in T
  <2>1. 0..n \subseteq T
    <3>. HIDE DEF T, n
    <3>. QED BY <1>1, <1>5, <1>6, IntervalInduction
  <2>. QED BY <1>1, <2>1, n \in 0..n
<1>8. f[n] \in Nat
  BY <1>1, <1>4
<1>. QED BY <1>1, <1>2, <1>3, <1>7, <1>8
-----------------------------------------------------------------------------
(***************************************************************************)
(* Depths                                                                  *)
(***************************************************************************)

\* Products keep the order, and give it back.
LEMMA Products ==
    ASSUME NEW a \in Int, NEW b \in Int
    PROVE  /\ \A c \in Nat : a <= b => a * c <= b * c
           /\ \A c \in Nat \ {0} : a * c <= b * c => a <= b
<1>1. ASSUME NEW c \in Nat, a <= b PROVE a * c <= b * c
  <2>1. (b - a) * c \in Nat /\ b * c = a * c + (b - a) * c /\ a * c \in Int
    BY <1>1, SMTT(30)
  <2>. QED BY <2>1
<1>2. ASSUME NEW c \in Nat \ {0}, a > b PROVE a * c > b * c
  <2>1. (a - b) * c \in Nat \ {0}
    BY <1>2, SMTT(30)
  <2>2. a * c = b * c + (a - b) * c /\ b * c \in Int
    BY SMTT(30)
  <2>. QED BY <2>1, <2>2
<1>3. ASSUME NEW c \in Nat \ {0}, a * c <= b * c PROVE a <= b
  <2>1. a * c \in Int /\ b * c \in Int
    OBVIOUS
  <2>. QED BY <1>2, <1>3, <2>1
<1>. QED BY <1>1, <1>3

\* x / y <= u / v, for positive denominators.
AtMost(x, y, u, v) == x * v <= u * y

\* Between fractions in order, a bound m / 2 from below goes up and one from
\* above goes down.
LEMMA HalfUp ==
    ASSUME NEW m \in Int, NEW x \in Nat, NEW y \in Nat \ {0}, NEW u \in Nat, NEW v \in Nat \ {0},
           AtMost(x, y, u, v), m * y <= 2 * x
    PROVE  m * v <= 2 * u
<1>1. (m * y) * v <= (2 * x) * v
  BY Products
<1>2. (m * y) * v = (m * v) * y /\ (2 * x) * v = 2 * (x * v) /\ (2 * u) * y = 2 * (u * y)
  BY SMTT(30)
<1>3. x * v <= u * y /\ x * v \in Nat /\ u * y \in Nat
  BY DEF AtMost
<1>4. (m * v) * y <= (2 * u) * y
  <2>. DEFINE a == x * v
              b == u * y
              c == (m * v) * y
  <2>1. c \in Int /\ c <= 2 * a /\ a <= b /\ a \in Nat /\ b \in Nat
    BY <1>1, <1>2, <1>3
  <2>. HIDE DEF a, b, c
  <2>2. c <= 2 * b
    BY <2>1
  <2>. QED BY <1>2, <2>2 DEF b, c
<1>5. m * v \in Int /\ 2 * u \in Int
  OBVIOUS
<1>. QED BY <1>4, <1>5, Products

\* The other way.
LEMMA HalfDown ==
    ASSUME NEW m \in Int, NEW x \in Nat, NEW y \in Nat \ {0}, NEW u \in Nat, NEW v \in Nat \ {0},
           AtMost(x, y, u, v), 2 * u <= m * v
    PROVE  2 * x <= m * y
<1>1. (2 * u) * y <= (m * v) * y
  BY Products
<1>2. (m * v) * y = (m * y) * v /\ (2 * x) * v = 2 * (x * v) /\ (2 * u) * y = 2 * (u * y)
  BY SMTT(30)
<1>3. x * v <= u * y /\ x * v \in Nat /\ u * y \in Nat
  BY DEF AtMost
<1>4. (2 * x) * v <= (m * y) * v
  <2>. DEFINE a == x * v
              b == u * y
              c == (m * v) * y
  <2>1. c \in Int /\ 2 * b <= c /\ a <= b /\ a \in Nat /\ b \in Nat
    BY <1>1, <1>2, <1>3
  <2>. HIDE DEF a, b, c
  <2>2. 2 * a <= c
    BY <2>1
  <2>. QED BY <1>2, <2>2 DEF a, c
<1>5. m * y \in Int /\ 2 * x \in Int
  OBVIOUS
<1>. QED BY <1>4, <1>5, Products

\* k is a whole number nearest to x / y: a value of llround.
LEMMA RoundedMembers ==
    ASSUME NEW x \in Nat, NEW y \in Nat \ {0}
    PROVE  /\ \A k \in Int : k \in Rounded(x, y) <=>
                k >= 0 /\ (2 * k - 1) * y <= 2 * x /\ 2 * x <= (2 * k + 1) * y
           /\ Rounded(x, y) # {}
<1>. DEFINE q == x \div y
            r == x % y
<1>1. q \in Nat /\ r \in 0..(y - 1) /\ x = y * q + r
  OBVIOUS
<1>. HIDE DEF q, r
<1>2. ASSUME NEW k \in Int
      PROVE  /\ (2 * k - 1) * y = 2 * (k * y) - y /\ (2 * k + 1) * y = 2 * (k * y) + y
             /\ 2 * k * y = 2 * (k * y) /\ k * y \in Int
  BY SMTT(30)
<1>3. ASSUME NEW k \in Int, (2 * k - 1) * y <= 2 * x PROVE k <= q + 1
  <2>. SUFFICES ASSUME k > q + 1 PROVE FALSE
    BY <1>1
  <2>1. (q + 2) * y <= k * y
    BY <1>1, Products
  <2>2. (q + 2) * y = y * q + 2 * y /\ y * q \in Int
    BY <1>1, SMTT(30)
  <2>. DEFINE a == y * q
              b == k * y
  <2>3. a + 2 * y <= b /\ 2 * b - y <= 2 * x /\ x = a + r /\ a \in Int /\ b \in Int
    BY <1>1, <1>2, <1>3, <2>1, <2>2
  <2>. HIDE DEF a, b
  <2>. QED BY <1>1, <2>3
<1>4. ASSUME NEW k \in Int
      PROVE  k \in Rounded(x, y) <=>
                k >= 0 /\ (2 * k - 1) * y <= 2 * x /\ 2 * x <= (2 * k + 1) * y
  <2>. DEFINE b == k * y
  <2>1. k \in Rounded(x, y) <=> k \in 0..(q + 1) /\ 2 * b - 2 * x <= y /\ 2 * x - 2 * b <= y
    BY <1>2, Zenon DEF Rounded, q
  <2>2. /\ b \in Int
        /\ ((2 * k - 1) * y <= 2 * x) <=> (2 * b - y <= 2 * x)
        /\ (2 * x <= (2 * k + 1) * y) <=> (2 * x <= 2 * b + y)
    BY <1>2
  <2>. HIDE DEF b
  <2>. QED BY <1>1, <1>3, <2>1, <2>2
<1>5. Rounded(x, y) # {}
  <2>. DEFINE a == y * q
  <2>1. /\ a \in Nat /\ x = a + r
        /\ (2 * q - 1) * y = 2 * a - y /\ (2 * q + 1) * y = 2 * a + y
        /\ (2 * (q + 1) - 1) * y = 2 * a + y /\ (2 * (q + 1) + 1) * y = 2 * a + 3 * y
    BY <1>1, SMTT(30)
  <2>. HIDE DEF a
  <2>2. CASE 2 * r <= y
    <3>1. q \in Int /\ q >= 0 /\ (2 * q - 1) * y <= 2 * x /\ 2 * x <= (2 * q + 1) * y
      BY <1>1, <2>1, <2>2
    <3>. QED BY <1>4, <3>1, Zenon
  <2>3. CASE 2 * r > y
    <3>1. /\ q + 1 \in Int /\ q + 1 >= 0 /\ (2 * (q + 1) - 1) * y <= 2 * x
          /\ 2 * x <= (2 * (q + 1) + 1) * y
      BY <1>1, <2>1, <2>3
    <3>. QED BY <1>4, <3>1, Zenon
  <2>. QED BY <1>1, <2>2, <2>3
<1>. QED BY <1>4, <1>5

\* No element of the lower set is above all of the upper, and no element of the
\* upper below all of the lower.
Climbs(lower, upper) ==
    /\ \A k \in lower : \E j \in upper : k <= j
    /\ \A j \in upper : \E k \in lower : k <= j

\* Rounding keeps the order of fractions.
LEMMA RoundedGrows ==
    ASSUME NEW x \in Nat, NEW y \in Nat \ {0}, NEW u \in Nat, NEW v \in Nat \ {0},
           AtMost(x, y, u, v)
    PROVE  Climbs(Rounded(x, y), Rounded(u, v))
<1>. DEFINE A == Rounded(x, y)
            B == Rounded(u, v)
            In(k, a, b) == k >= 0 /\ (2 * k - 1) * b <= 2 * a /\ 2 * a <= (2 * k + 1) * b
<1>1. A # {} /\ \A k \in Int : k \in A <=> In(k, x, y)
  BY RoundedMembers
<1>2. B # {} /\ \A k \in Int : k \in B <=> In(k, u, v)
  BY RoundedMembers
<1>3. A \subseteq Int /\ B \subseteq Int
  BY DEF Rounded
<1>. HIDE DEF A, B
<1>4. ASSUME NEW k \in A, NEW j \in B, j < k PROVE k \in B /\ j \in A
  <2>1. k \in Int /\ j \in Int /\ In(k, x, y) /\ In(j, u, v)
    BY <1>1, <1>2, <1>3
  <2>2. (2 * k - 1) * v <= 2 * u
    <3>1. 2 * k - 1 \in Int /\ (2 * k - 1) * y <= 2 * x
      BY <2>1
    <3>. QED BY <3>1, HalfUp
  <2>3. 2 * x <= (2 * j + 1) * y
    <3>1. 2 * j + 1 \in Int /\ 2 * u <= (2 * j + 1) * v
      BY <2>1
    <3>. QED BY <3>1, HalfDown
  <2>4. 2 * u <= (2 * k + 1) * v
    <3>1. 2 * j + 1 \in Int /\ 2 * k + 1 \in Int /\ 2 * j + 1 <= 2 * k + 1
      BY <1>4, <2>1
    <3>2. (2 * j + 1) * v <= (2 * k + 1) * v
      BY <3>1, Products
    <3>. DEFINE a == (2 * j + 1) * v
                b == (2 * k + 1) * v
    <3>3. a \in Int /\ b \in Int /\ a <= b /\ 2 * u <= a
      BY <2>1, <3>1, <3>2
    <3>. HIDE DEF a, b
    <3>4. 2 * u <= b
      BY <3>3
    <3>. QED BY <3>4 DEF b
  <2>5. (2 * j - 1) * y <= 2 * x
    <3>1. 2 * j - 1 \in Int /\ 2 * k - 1 \in Int /\ 2 * j - 1 <= 2 * k - 1
      BY <1>4, <2>1
    <3>2. (2 * j - 1) * y <= (2 * k - 1) * y
      BY <3>1, Products
    <3>. DEFINE a == (2 * j - 1) * y
                b == (2 * k - 1) * y
    <3>3. a \in Int /\ b \in Int /\ a <= b /\ b <= 2 * x
      BY <2>1, <3>1, <3>2
    <3>. HIDE DEF a, b
    <3>4. a <= 2 * x
      BY <3>3
    <3>. QED BY <3>4 DEF a
  <2>6. In(k, u, v) /\ In(j, x, y)
    BY <2>1, <2>2, <2>3, <2>4, <2>5
  <2>. HIDE DEF In
  <2>. QED BY <1>1, <1>2, <2>1, <2>6
<1>. HIDE DEF In
<1>5. ASSUME NEW k \in A PROVE \E j \in B : k <= j
  <2>1. PICK j \in B : TRUE
    BY <1>2
  <2>2. k \in Int /\ j \in Int /\ k <= k
    BY <1>3
  <2>. QED BY <1>4, <2>1, <2>2
<1>6. ASSUME NEW j \in B PROVE \E k \in A : k <= j
  <2>1. PICK k \in A : TRUE
    BY <1>1
  <2>2. k \in Int /\ j \in Int /\ j <= j
    BY <1>3
  <2>. QED BY <1>4, <2>1, <2>2
<1>. QED BY <1>5, <1>6 DEF Climbs, A, B

\* The factor f of choose_depth is Factor / Part, for ratios that sum to s of
\* at most one.
Factor(s, one) ==
    IF 5 * s >= 4 * one THEN one
    ELSE IF 2 * s >= one THEN 20 * s - one ELSE 3 * one + 6 * s
Part(s, one) ==
    IF 5 * s >= 4 * one THEN one ELSE IF 2 * s >= one THEN 15 * one ELSE 10 * one

\* f grows with the average, across its three segments.
LEMMA FactorGrows ==
    ASSUME NEW s \in Nat, NEW m \in Nat \ {0}, NEW t \in Nat, NEW n \in Nat \ {0}, AtMost(s, m, t, n)
    PROVE  /\ Factor(s, m) \in Nat /\ Part(s, m) \in Nat \ {0}
           /\ Factor(t, n) \in Nat /\ Part(t, n) \in Nat \ {0}
           /\ AtMost(Factor(s, m), Part(s, m), Factor(t, n), Part(t, n))
<1>. DEFINE a == s * n
            b == t * m
            c == m * n
<1>1. a \in Nat /\ b \in Nat /\ c \in Nat /\ a <= b
  BY DEF AtMost
<1>2. c > 0
  BY SMTT(30)
<1>3. /\ Factor(s, m) \in Nat /\ Part(s, m) \in Nat \ {0}
      /\ Factor(t, n) \in Nat /\ Part(t, n) \in Nat \ {0}
  BY DEF Factor, Part
<1>4. /\ 5 * s >= 4 * m <=> 5 * a >= 4 * c
      /\ 5 * t >= 4 * n <=> 5 * b >= 4 * c
      /\ 2 * s >= m <=> 2 * a >= c
      /\ 2 * t >= n <=> 2 * b >= c
  <2>1. /\ (4 * m) * n = 4 * c /\ (5 * s) * n = 5 * a /\ (2 * s) * n = 2 * a
        /\ (4 * n) * m = 4 * c /\ (5 * t) * m = 5 * b /\ (2 * t) * m = 2 * b
        /\ m * n = c /\ n * m = c
    BY SMTT(30)
  <2>2. (4 * m) * n <= (5 * s) * n <=> 4 * m <= 5 * s
    BY Products
  <2>3. (4 * n) * m <= (5 * t) * m <=> 4 * n <= 5 * t
    BY Products
  <2>4. m * n <= (2 * s) * n <=> m <= 2 * s
    BY Products
  <2>5. n * m <= (2 * t) * m <=> n <= 2 * t
    BY Products
  <2>. QED BY <2>1, <2>2, <2>3, <2>4, <2>5
<1>5. /\ m * n = c /\ n * m = c
      /\ (20 * s - m) * n = 20 * a - c /\ (3 * m + 6 * s) * n = 3 * c + 6 * a
      /\ (20 * t - n) * m = 20 * b - c /\ (3 * n + 6 * t) * m = 3 * c + 6 * b
  BY SMTT(30)
<1>6. \* Numerators times the other denominator, in units of the other's part.
      /\ Factor(s, m) * n = IF 5 * a >= 4 * c THEN c ELSE IF 2 * a >= c THEN 20 * a - c ELSE 3 * c + 6 * a
      /\ Factor(t, n) * m = IF 5 * b >= 4 * c THEN c ELSE IF 2 * b >= c THEN 20 * b - c ELSE 3 * c + 6 * b
  BY <1>4, <1>5 DEF Factor
<1>. DEFINE K(z) == IF 5 * z >= 4 * c THEN 1 ELSE IF 2 * z >= c THEN 15 ELSE 10
            F(z) == IF 5 * z >= 4 * c THEN c ELSE IF 2 * z >= c THEN 20 * z - c ELSE 3 * c + 6 * z
<1>7. Part(s, m) = K(a) * m /\ Part(t, n) = K(b) * n
  BY <1>4 DEF Part
<1>8. F(a) * K(b) <= F(b) * K(a)
  <2>. HIDE DEF a, b, c
  <2>. QED BY <1>1, <1>2
<1>9. /\ Factor(s, m) * Part(t, n) = (Factor(s, m) * n) * K(b)
      /\ Factor(t, n) * Part(s, m) = (Factor(t, n) * m) * K(a)
  <2>1. ASSUME NEW x \in Nat, NEW k \in Nat, NEW y \in Nat PROVE x * (k * y) = (x * y) * k
    BY SMTT(30)
  <2>2. K(a) \in Nat /\ K(b) \in Nat
    OBVIOUS
  <2>. HIDE DEF K
  <2>. QED BY <1>3, <1>7, <2>1, <2>2
<1>10. Factor(s, m) * n = F(a) /\ Factor(t, n) * m = F(b)
  BY <1>6
<1>. HIDE DEF F, K
<1>11. Factor(s, m) * Part(t, n) <= Factor(t, n) * Part(s, m)
  BY <1>8, <1>9, <1>10
<1>. QED BY <1>3, <1>11 DEF AtMost

\* The three segments as one rounding.
LEMMA ScaledRounded ==
    ASSUME NEW s \in Nat, NEW n \in Nat \ {0}
    PROVE  /\ n * Units \in Nat \ {0}
           /\ Scaled(s, n) = Rounded(MaxDepth * Factor(s, n * Units), Part(s, n * Units))
<1>. DEFINE one == n * Units
<1>1. one \in Nat \ {0} /\ MaxDepth \in Nat \ {0}
  <2>1. Units \in Nat \ {0} /\ MaxDepth \in Nat \ {0}
    BY DepthConstants
  <2>. QED BY <2>1, SMTT(30)
<1>2. Scaled(s, n) = IF 5 * s >= 4 * one THEN {MaxDepth}
       ELSE IF 2 * s >= one THEN Rounded(MaxDepth * (20 * s - one), 15 * one)
       ELSE Rounded(MaxDepth * (3 * one + 6 * s), 10 * one)
  BY Zenon DEF Scaled
<1>. HIDE DEF one
<1>3. Rounded(MaxDepth * one, one) = {MaxDepth}
  <2>. DEFINE x == MaxDepth * one
              R == Rounded(x, one)
  <2>1. x \in Nat
    BY <1>1
  <2>2. \A k \in Int : k \in R <=> k >= 0 /\ (2 * k - 1) * one <= 2 * x /\ 2 * x <= (2 * k + 1) * one
    <3>. HIDE DEF x
    <3>. QED BY <1>1, <2>1, RoundedMembers
  <2>3. 2 * x = (2 * MaxDepth) * one
    BY <1>1, SMTT(30)
  <2>4. ASSUME NEW k \in Int
        PROVE  /\ (2 * k - 1) * one <= (2 * MaxDepth) * one <=> 2 * k - 1 <= 2 * MaxDepth
               /\ (2 * MaxDepth) * one <= (2 * k + 1) * one <=> 2 * MaxDepth <= 2 * k + 1
    <3>1. 2 * k - 1 \in Int /\ 2 * k + 1 \in Int /\ 2 * MaxDepth \in Int
      BY <1>1
    <3>. QED BY <1>1, <3>1, Products
  <2>5. R \subseteq Int
    BY DEF Rounded
  <2>. HIDE DEF R, x
  <2>6. \A k \in Int : k \in R <=> k >= 0 /\ 2 * k - 1 <= 2 * MaxDepth /\ 2 * MaxDepth <= 2 * k + 1
    BY <2>2, <2>3, <2>4
  <2>7. \A k \in Int : k \in R <=> k = MaxDepth
    BY <1>1, <2>6
  <2>8. R = {MaxDepth}
    <3>1. MaxDepth \in Int
      BY <1>1
    <3>2. MaxDepth \in R
      BY <2>7, <3>1, Zenon
    <3>3. ASSUME NEW k \in R PROVE k = MaxDepth
      BY <2>5, <2>7, Zenon
    <3>. QED BY <3>2, <3>3, Zenon
  <2>. QED BY <2>8 DEF R, x
<1>. QED BY <1>1, <1>2, <1>3, Zenon DEF one, Factor, Part

\* The depths a history of n ratios that sum to s leads to.
Depths(s, n) == {Clamped(d) : d \in Scaled(s, n)}

\* The depth grows with the average.
LEMMA DepthsGrow ==
    ASSUME NEW s \in Nat, NEW n \in Nat \ {0}, NEW t \in Nat, NEW m \in Nat \ {0}, AtMost(s, n, t, m)
    PROVE  /\ Depths(s, n) # {} /\ Depths(s, n) \subseteq 1..MaxDepth
           /\ Depths(t, m) # {} /\ Depths(t, m) \subseteq 1..MaxDepth
           /\ Climbs(Depths(s, n), Depths(t, m))
<1>. DEFINE i == n * Units
            j == m * Units
            x == Factor(s, i)
            y == Part(s, i)
            u == Factor(t, j)
            v == Part(t, j)
<1>1. /\ i \in Nat \ {0} /\ j \in Nat \ {0}
      /\ Scaled(s, n) = Rounded(MaxDepth * x, y) /\ Scaled(t, m) = Rounded(MaxDepth * u, v)
  BY ScaledRounded
<1>2. Units \in Nat /\ MaxDepth \in Nat \ {0}
  BY DepthConstants
<1>3. AtMost(s, i, t, j)
  <2>1. s * m <= t * n
    BY DEF AtMost
  <2>2. (s * m) * Units <= (t * n) * Units
    BY <1>2, <2>1, Products
  <2>3. s * (m * Units) = (s * m) * Units /\ t * (n * Units) = (t * n) * Units
    BY <1>2, SMTT(30)
  <2>. QED BY <2>2, <2>3 DEF AtMost
<1>. HIDE DEF i, j
<1>4. x \in Nat /\ y \in Nat \ {0} /\ u \in Nat /\ v \in Nat \ {0} /\ AtMost(x, y, u, v)
  BY <1>1, <1>3, FactorGrows
<1>. HIDE DEF x, y, u, v
<1>. DEFINE p == MaxDepth * x
            q == MaxDepth * u
<1>5. p \in Nat /\ q \in Nat
  BY <1>2, <1>4
<1>6. AtMost(p, y, q, v)
  <2>1. x * v <= u * y /\ x * v \in Int /\ u * y \in Int
    BY <1>4 DEF AtMost
  <2>2. (x * v) * MaxDepth <= (u * y) * MaxDepth
    BY <1>2, <2>1, Products
  <2>3. (MaxDepth * x) * v = (x * v) * MaxDepth /\ (MaxDepth * u) * y = (u * y) * MaxDepth
    BY <1>2, <1>4, SMTT(30)
  <2>. QED BY <2>2, <2>3 DEF AtMost
<1>7. Scaled(s, n) = Rounded(p, y) /\ Scaled(t, m) = Rounded(q, v)
  BY <1>1
<1>. HIDE DEF p, q
<1>. DEFINE A == Scaled(s, n)
            B == Scaled(t, m)
<1>8. /\ Climbs(A, B) /\ A # {} /\ B # {} /\ A \subseteq Int /\ B \subseteq Int
  <2>1. Climbs(Rounded(p, y), Rounded(q, v))
    BY <1>4, <1>5, <1>6, RoundedGrows
  <2>2. Rounded(p, y) # {} /\ Rounded(q, v) # {}
    BY <1>4, <1>5, RoundedMembers
  <2>3. Rounded(p, y) \subseteq Int /\ Rounded(q, v) \subseteq Int
    BY DEF Rounded
  <2>. QED BY <1>7, <2>1, <2>2, <2>3
<1>. HIDE DEF A, B
<1>9. ASSUME NEW d \in Int PROVE Clamped(d) \in 1..MaxDepth
  BY <1>2 DEF Clamped
<1>10. ASSUME NEW d \in Int, NEW e \in Int, d <= e PROVE Clamped(d) <= Clamped(e)
  BY <1>2, <1>10 DEF Clamped
<1>. DEFINE C == {Clamped(d) : d \in A}
            D == {Clamped(d) : d \in B}
<1>11. C # {} /\ D # {} /\ C \subseteq 1..MaxDepth /\ D \subseteq 1..MaxDepth
  BY <1>8, <1>9
<1>12. ASSUME NEW k \in C PROVE \E l \in D : k <= l
  <2>1. PICK d \in A : k = Clamped(d)
    OBVIOUS
  <2>2. PICK e \in B : d <= e
    BY <1>8 DEF Climbs
  <2>3. Clamped(d) <= Clamped(e) /\ Clamped(e) \in D
    BY <1>8, <1>10, <2>2
  <2>. QED BY <2>1, <2>3
<1>13. ASSUME NEW l \in D PROVE \E k \in C : k <= l
  <2>1. PICK e \in B : l = Clamped(e)
    OBVIOUS
  <2>2. PICK d \in A : d <= e
    BY <1>8 DEF Climbs
  <2>3. Clamped(d) <= Clamped(e) /\ Clamped(d) \in C
    BY <1>8, <1>10, <2>2
  <2>. QED BY <2>1, <2>3
<1>14. Depths(s, n) = C /\ Depths(t, m) = D
  BY DEF Depths, A, B
<1>. HIDE DEF C, D
<1>15. Climbs(C, D)
  BY <1>12, <1>13 DEF Climbs
<1>. QED BY <1>11, <1>14, <1>15

\* The greatest and the least of some depths.
LEMMA Extremes ==
    ASSUME NEW A, A \subseteq 1..MaxDepth, A # {}
    PROVE  /\ Max(A) \in A /\ \A k \in A : k <= Max(A)
           /\ Min(A) \in A /\ \A k \in A : Min(A) <= k
<1>1. MaxDepth \in Nat
  BY DepthConstants
<1>0. A \subseteq Nat
  BY <1>1
<1>2. \E x \in A : \A y \in A : x <= y
  BY <1>0, LeastNatural, Zenon
<1>3. \E x \in A : \A y \in A : x >= y
  <2>. DEFINE T == {MaxDepth - x : x \in A}
  <2>1. T \subseteq Nat /\ T # {}
    <3>1. ASSUME NEW x \in A PROVE MaxDepth - x \in Nat
      <4>1. x \in 1..MaxDepth
        OBVIOUS
      <4>. QED BY <1>1, <4>1
    <3>2. PICK x : x \in A
      OBVIOUS
    <3>3. MaxDepth - x \in T
      BY <3>2
    <3>. QED BY <3>1, <3>3
  <2>2. PICK d \in T : \A y \in T : d <= y
    <3>. HIDE DEF T
    <3>. QED BY <2>1, LeastNatural
  <2>3. PICK x \in A : d = MaxDepth - x
    BY <2>2
  <2>4. ASSUME NEW y \in A PROVE x >= y
    <3>1. MaxDepth - y \in T /\ x \in Int /\ y \in Int
      BY <1>1
    <3>2. MaxDepth - x <= MaxDepth - y
      BY <2>2, <2>3, <3>1
    <3>. QED BY <1>1, <3>1, <3>2
  <2>. QED BY <2>4
<1>4. Min(A) \in A /\ \A k \in A : Min(A) <= k
  BY <1>2 DEF Min
<1>5. Max(A) \in A /\ \A k \in A : Max(A) >= k
  BY <1>3 DEF Max
<1>. QED BY <1>1, <1>4, <1>5

\* They are in order when the sets are.
LEMMA ExtremesClimb ==
    ASSUME NEW A, A \subseteq 1..MaxDepth, A # {}, NEW B, B \subseteq 1..MaxDepth, B # {}, Climbs(A, B)
    PROVE  Max(B) >= Max(A) /\ Min(A) <= Min(B)
<1>1. MaxDepth \in Nat
  BY DepthConstants
<1>2. Max(A) \in A /\ (\A k \in A : Min(A) <= k) /\ Min(A) \in A
  BY Extremes
<1>3. Min(B) \in B /\ (\A k \in B : k <= Max(B)) /\ Max(B) \in B
  BY Extremes
<1>4. PICK j \in B : Max(A) <= j
  BY <1>2 DEF Climbs
<1>5. PICK k \in A : k <= Min(B)
  BY <1>3 DEF Climbs
<1>6. j <= Max(B) /\ Min(A) <= k
  BY <1>2, <1>3
<1>7. /\ Max(A) \in Int /\ Max(B) \in Int /\ Min(A) \in Int /\ Min(B) \in Int
      /\ j \in Int /\ k \in Int
  <2>1. A \subseteq Int /\ B \subseteq Int
    OBVIOUS
  <2>. QED BY <1>2, <1>3, <2>1, Zenon
<1>8. ASSUME NEW a \in Int, NEW b \in Int, NEW c \in Int, a <= b, b <= c PROVE a <= c /\ c >= a
  BY <1>8
<1>. QED BY <1>4, <1>5, <1>6, <1>7, <1>8, Zenon
-----------------------------------------------------------------------------
(***************************************************************************)
(* The window                                                              *)
(***************************************************************************)

\* The ratios of h after the oldest k, then r, are those of g.
Recorded(g, h, k, r) ==
    /\ g \in Seq(Ratios) /\ Len(g) = Len(h) + 1 - k /\ g[Len(g)] = r
    /\ \A i \in 1..(Len(h) - k) : g[i] = h[i + k]

\* record drops the oldest ratio of a full window, and no other.
LEMMA PushRecords ==
    ASSUME NEW h \in Seq(Ratios), Len(h) <= Window, NEW r \in Ratios
    PROVE  /\ Len(h) < Window => Recorded(Push(h, r), h, 0, r) /\ SumOf(Push(h, r)) = SumOf(h) + r
           /\ ~(Len(h) < Window) => /\ Recorded(Push(h, r), h, 1, r) /\ h[1] \in Ratios
                                    /\ SumOf(h) + r = h[1] + SumOf(Push(h, r))
<1>. DEFINE n == Len(h)
            g == Append(h, r)
<1>1. n \in Nat /\ Window \in Nat \ {0} /\ Units \in Nat /\ r \in Nat /\ h \in Seq(Nat)
  BY SumBounds, DepthConstants DEF Ratios
<1>2. /\ g \in Seq(Ratios) /\ Len(g) = n + 1 /\ g[n + 1] = r
      /\ \A i \in 1..n : g[i] = h[i]
  BY AppendProperties
<1>3. SumOf(g) = SumOf(h) + r
  BY <1>1, SumAppend
<1>4. Push(h, r) = IF n + 1 > Window THEN Tail(g) ELSE g
  BY <1>2 DEF Push
<1>. HIDE DEF g
<1>5. CASE n < Window
  <2>1. Push(h, r) = g
    BY <1>1, <1>4, <1>5
  <2>2. Recorded(g, h, 0, r)
    BY <1>1, <1>2 DEF Recorded
  <2>. QED BY <1>3, <1>5, <2>1, <2>2
<1>6. CASE ~(n < Window)
  <2>. DEFINE t == Tail(g)
  <2>1. Push(h, r) = t /\ n >= 1
    BY <1>1, <1>4, <1>6
  <2>2. /\ g \in Seq(Nat) /\ g # <<>>
    BY <1>1, <1>2, SumBounds
  <2>3. SumOf(g) = g[1] + SumOf(t)
    BY <1>1, <1>2, <2>2, SumTail
  <2>4. /\ t \in Seq(Ratios) /\ Len(t) = n /\ \A i \in 1..n : t[i] = g[i + 1]
    <3>1. /\ t \in Seq(Ratios) /\ Len(t) = Len(g) - 1
          /\ \A i \in 1..Len(t) : t[i] = g[i + 1]
      BY <1>2, <2>2, HeadTailProperties
    <3>. QED BY <1>1, <1>2, <3>1
  <2>5. g[1] = h[1] /\ h[1] \in Ratios
    BY <1>1, <1>2, <2>1, ElementOfSeq
  <2>. HIDE DEF t
  <2>6. Recorded(t, h, 1, r)
    <3>1. Len(t) = n + 1 - 1 /\ t[Len(t)] = r
      BY <1>1, <1>2, <2>1, <2>4
    <3>2. ASSUME NEW i \in 1..(n - 1) PROVE t[i] = h[i + 1]
      BY <1>1, <1>2, <2>4, SMTT(30)
    <3>. QED BY <2>4, <3>1, <3>2 DEF Recorded
  <2>. QED BY <1>3, <1>6, <2>1, <2>3, <2>5, <2>6
<1>. QED BY <1>5, <1>6

\* The average choose_depth works from; with no history it is 1.
Total(h) == IF h = <<>> THEN Units ELSE SumOf(h)
Count(h) == IF h = <<>> THEN 1 ELSE Len(h)

\* choose_depth in those terms.
LEMMA ChoiceIsDepths ==
    ASSUME NEW h \in Seq(Ratios)
    PROVE  Total(h) \in Nat /\ Count(h) \in Nat \ {0} /\ ChooseDepth(h) = Depths(Total(h), Count(h))
<1>1. Len(h) \in Nat /\ SumOf(h) \in Nat /\ Units \in Nat \ {0} /\ MaxDepth \in Nat \ {0}
  BY SumBounds, DepthConstants
<1>2. CASE h = <<>>
  <2>1. ChooseDepth(h) = {MaxDepth} /\ Total(h) = Units /\ Count(h) = 1
    BY <1>2 DEF ChooseDepth, Total, Count
  <2>2. Scaled(Units, 1) = {MaxDepth}
    <3>1. 5 * Units >= 4 * (1 * Units)
      BY <1>1
    <3>. QED BY <3>1, Zenon DEF Scaled
  <2>3. Depths(Units, 1) = {Clamped(MaxDepth)}
    BY <2>2 DEF Depths
  <2>4. Clamped(MaxDepth) = MaxDepth
    BY <1>1 DEF Clamped
  <2>. QED BY <1>1, <2>1, <2>3, <2>4
<1>3. CASE h # <<>>
  <2>1. ChooseDepth(h) = Depths(SumOf(h), Len(h)) /\ Total(h) = SumOf(h) /\ Count(h) = Len(h)
    BY <1>3, Zenon DEF ChooseDepth, Depths, Total, Count
  <2>2. Len(h) # 0
    BY <1>3, EmptySeq
  <2>. QED BY <1>1, <2>1, <2>2
<1>. QED BY <1>2, <1>3

\* A ratio of 1 does not lower the average, one of 0 does not raise it.
LEMMA AverageFollows ==
    ASSUME NEW h \in Seq(Ratios), Len(h) <= Window, NEW r \in Ratios
    PROVE  LET g == Push(h, r)
           IN  /\ g \in Seq(Ratios)
               /\ r = Units => AtMost(Total(h), Count(h), Total(g), Count(g))
               /\ r = 0 => AtMost(Total(g), Count(g), Total(h), Count(h))
<1>. DEFINE n == Len(h)
            g == Push(h, r)
            s == SumOf(h)
            t == SumOf(g)
<1>1. /\ n \in Nat /\ s \in Nat /\ s <= n * Units /\ Units \in Nat \ {0} /\ Window \in Nat \ {0}
      /\ r \in 0..Units
  BY SumBounds, DepthConstants DEF Ratios
<1>2. /\ n < Window => Recorded(g, h, 0, r) /\ t = s + r
      /\ ~(n < Window) => Recorded(g, h, 1, r) /\ h[1] \in Ratios /\ s + r = h[1] + t
  BY PushRecords
<1>. HIDE DEF g
<1>3. g \in Seq(Ratios) /\ t \in Nat /\ (n < Window => Len(g) = n + 1) /\ (~(n < Window) => Len(g) = n)
  <2>1. g \in Seq(Ratios) /\ (n < Window => Len(g) = n + 1) /\ (~(n < Window) => Len(g) = n)
    BY <1>1, <1>2 DEF Recorded
  <2>. QED BY <2>1, SumBounds
<1>4. g # <<>> /\ Total(g) = t /\ Count(g) = Len(g)
  <2>1. Len(g) # 0
    BY <1>1, <1>3
  <2>2. g # <<>>
    BY <2>1, EmptySeq
  <2>. QED BY <2>2 DEF Total, Count
<1>. HIDE DEF s, t, n
<1>5. CASE h = <<>>
  <2>1. n = 0 /\ Total(h) = Units /\ Count(h) = 1
    BY <1>5 DEF n, Total, Count
  <2>2. s = 0 /\ Len(g) = 1 /\ t = r
    <3>1. s = 0
      BY <1>1, <2>1
    <3>. QED BY <1>1, <1>2, <1>3, <2>1, <3>1
  <2>3. Total(g) = r /\ Count(g) = 1
    BY <1>4, <2>2, Zenon
  <2>4. (r = Units => Units * 1 <= r * 1) /\ (r = 0 => r * 1 <= Units * 1)
    BY <1>1
  <2>. QED BY <1>3, <2>1, <2>3, <2>4, Zenon DEF AtMost, g
<1>6. CASE h # <<>>
  <2>1. Total(h) = s /\ Count(h) = n
    BY <1>6 DEF Total, Count, n, s
  <2>2. CASE n < Window
    <3>1. t = s + r /\ Len(g) = n + 1
      BY <1>2, <1>3, <2>2
    <3>2. s * (n + 1) = s * n + s /\ s * n \in Nat
      BY <1>1, SMTT(30)
    <3>3. r = Units => s * (n + 1) <= (s + r) * n
      <4>. SUFFICES ASSUME r = Units PROVE s * (n + 1) <= (s + Units) * n
        OBVIOUS
      <4>1. (s + Units) * n = s * n + n * Units /\ n * Units \in Nat
        BY <1>1, SMTT(30)
      <4>. DEFINE a == s * n
                  b == n * Units
      <4>2. a \in Nat /\ b \in Nat /\ s <= b
        BY <1>1, <3>2, <4>1
      <4>. HIDE DEF a, b
      <4>3. a + s <= a + b
        BY <1>1, <4>2
      <4>. QED BY <3>2, <4>1, <4>3 DEF a, b
    <3>4. r = 0 => (s + r) * n <= s * (n + 1)
      <4>. SUFFICES ASSUME r = 0 PROVE (s + 0) * n <= s * (n + 1)
        OBVIOUS
      <4>1. (s + 0) * n = s * n
        BY <1>1
      <4>. DEFINE a == s * n
      <4>2. a \in Nat
        BY <3>2
      <4>. HIDE DEF a
      <4>3. a <= a + s
        BY <1>1, <4>2
      <4>. QED BY <3>2, <4>1, <4>3 DEF a
    <3>. QED BY <1>3, <1>4, <2>1, <3>1, <3>3, <3>4, Zenon DEF AtMost, g
  <2>3. CASE ~(n < Window)
    <3>1. s + r = h[1] + t /\ h[1] \in 0..Units /\ Len(g) = n
      BY <1>2, <1>3, <2>3 DEF Ratios
    <3>2. (r = Units => s <= t) /\ (r = 0 => t <= s)
      BY <1>1, <1>3, <3>1
    <3>3. (r = Units => s * n <= t * n) /\ (r = 0 => t * n <= s * n)
      BY <1>1, <1>3, <3>2, Products
    <3>. QED BY <1>3, <1>4, <2>1, <3>1, <3>3, Zenon DEF AtMost, g
  <2>. QED BY <2>2, <2>3
<1>. QED BY <1>5, <1>6 DEF g

\* The depth follows.
LEMMA PlanFollows ==
    ASSUME NEW h \in Seq(Ratios), Len(h) <= Window, NEW r \in Ratios
    PROVE  /\ r = Units => Max(PlanDepth(Push(h, r))) >= Max(PlanDepth(h))
           /\ r = 0 => Min(PlanDepth(Push(h, r))) <= Min(PlanDepth(h))
<1>. DEFINE g == Push(h, r)
<1>1. /\ g \in Seq(Ratios)
      /\ r = Units => AtMost(Total(h), Count(h), Total(g), Count(g))
      /\ r = 0 => AtMost(Total(g), Count(g), Total(h), Count(h))
  BY AverageFollows
<1>. HIDE DEF g
<1>2. CASE AdaptiveEnabled
  <2>1. /\ Total(h) \in Nat /\ Count(h) \in Nat \ {0} /\ PlanDepth(h) = Depths(Total(h), Count(h))
        /\ Total(g) \in Nat /\ Count(g) \in Nat \ {0} /\ PlanDepth(g) = Depths(Total(g), Count(g))
    BY <1>1, <1>2, ChoiceIsDepths DEF PlanDepth
  <2>. DEFINE A == Depths(Total(h), Count(h))
              B == Depths(Total(g), Count(g))
              OK(S) == S # {} /\ S \subseteq 1..MaxDepth
  <2>2. r = Units => OK(A) /\ OK(B) /\ Climbs(A, B)
    BY <1>1, <2>1, DepthsGrow
  <2>3. r = 0 => OK(A) /\ OK(B) /\ Climbs(B, A)
    BY <1>1, <2>1, DepthsGrow
  <2>. HIDE DEF A, B
  <2>4. r = Units => Max(B) >= Max(A)
    BY <2>2, ExtremesClimb
  <2>5. r = 0 => Min(B) <= Min(A)
    BY <2>3, ExtremesClimb
  <2>. QED BY <2>1, <2>4, <2>5 DEF A, B, g
<1>3. CASE ~AdaptiveEnabled
  <2>. DEFINE d == IF Interactive /\ MaxDepth > 2 THEN 2 ELSE MaxDepth
              A == {d}
  <2>1. PlanDepth(h) = A /\ PlanDepth(g) = A
    BY <1>3 DEF PlanDepth
  <2>2. A \subseteq 1..MaxDepth /\ A # {}
    <3>1. d \in 1..MaxDepth
      BY DepthConstants
    <3>. HIDE DEF d
    <3>. QED BY <3>1
  <2>. HIDE DEF A
  <2>3. Max(A) \in 1..MaxDepth /\ Min(A) \in 1..MaxDepth
    BY <2>2, Extremes
  <2>4. Max(A) >= Max(A) /\ Min(A) <= Min(A)
    BY <2>3
  <2>. QED BY <2>1, <2>4 DEF g
<1>. QED BY <1>2, <1>3

\* The last streak ratios of the window are 1.
WindowInv ==
    /\ history \in Seq(Ratios) /\ Len(history) <= Window
    /\ planned \in [Cycles -> 0..MaxDepth]
    /\ streak \in Nat /\ streak <= Len(history)
    /\ \A i \in 1..Len(history) : i > Len(history) - streak => history[i] = Units

\* The ratio of a cycle is at most 1, and 1 for a full acceptance.
LEMMA RatioBounds ==
    ASSUME NEW len \in 0..MaxDepth, NEW acc \in 0..len
    PROVE  Ratio(acc, len) \in Ratios /\ (acc = len /\ len # 0 => Ratio(acc, len) = Units)
<1>1. Units \in Nat \ {0} /\ \A n \in 1..MaxDepth : Units % n = 0
  BY DepthConstants
<1>2. CASE len = 0
  BY <1>1, <1>2 DEF Ratio, Ratios
<1>3. CASE len # 0
  <2>. DEFINE q == Units \div len
  <2>1. len \in Nat \ {0} /\ acc \in Nat /\ acc <= len /\ Units % len = 0
    BY <1>1, <1>3
  <2>2. q \in Nat /\ Units = len * q
    <3>1. ASSUME NEW u \in Nat, NEW k \in Nat \ {0}, u % k = 0
          PROVE  u \div k \in Nat /\ u = k * (u \div k)
      <4>. DEFINE d == u \div k
                  m == u % k
      <4>1. d \in Nat /\ m \in Int /\ u = k * d + m
        OBVIOUS
      <4>2. m = 0
        BY <3>1
      <4>. HIDE DEF d, m
      <4>3. u = k * d
        BY <4>1, <4>2
      <4>. QED BY <4>1, <4>3 DEF d
    <3>. QED BY <1>1, <2>1, <3>1, Zenon
  <2>. HIDE DEF q
  <2>3. acc * q \in Nat /\ len * q \in Nat
    BY <2>1, <2>2
  <2>4. acc * q <= len * q
    <3>1. acc \in Int /\ len \in Int /\ acc <= len
      BY <2>1
    <3>. QED BY <2>2, <3>1, Products, Zenon
  <2>5. Ratio(acc, len) = acc * q
    BY <1>3 DEF Ratio, q
  <2>6. acc * q \in 0..Units
    <3>1. ASSUME NEW a \in Nat, NEW b \in Nat, a <= b PROVE a \in 0..b
      BY <3>1
    <3>2. acc * q \in 0..(len * q)
      BY <2>3, <2>4, <3>1, Zenon
    <3>. QED BY <2>2, <3>2, Zenon
  <2>. QED BY <2>2, <2>5, <2>6, Zenon DEF Ratios
<1>. QED BY <1>2, <1>3

\* A planned depth is at most max_depth.
LEMMA PlannedDepths ==
    ASSUME NEW h \in Seq(Ratios)
    PROVE  PlanDepth(h) \subseteq 1..MaxDepth
<1>1. CASE AdaptiveEnabled
  <2>1. Total(h) \in Nat /\ Count(h) \in Nat \ {0} /\ PlanDepth(h) = Depths(Total(h), Count(h))
    BY <1>1, ChoiceIsDepths DEF PlanDepth
  <2>2. AtMost(Total(h), Count(h), Total(h), Count(h))
    BY <2>1 DEF AtMost
  <2>. QED BY <2>1, <2>2, DepthsGrow
<1>2. CASE ~AdaptiveEnabled
  BY <1>2, DepthConstants DEF PlanDepth
<1>. QED BY <1>1, <1>2

\* A settled cycle keeps it.
LEMMA WindowInvRecord ==
    ASSUME WindowInv, NEW c \in Cycles, NEW len \in 0..MaxDepth, NEW acc \in 0..len, Record(c, acc, len)
    PROVE  WindowInv'
<1>. DEFINE h == history
            n == Len(history)
            r == Ratio(acc, len)
            g == Push(history, r)
            full == acc = len /\ len # 0
<1>1. r \in Ratios /\ (full => r = Units)
  BY RatioBounds
<1>2. h \in Seq(Ratios) /\ n <= Window /\ n \in Nat /\ Window \in Nat \ {0} /\ Units \in Nat
  BY SumBounds, DepthConstants DEF WindowInv
<1>3. /\ history' = g /\ planned' = [planned EXCEPT ![c] = 0]
      /\ streak' = IF full THEN IF streak < Window THEN streak + 1 ELSE streak ELSE 0
  BY DEF Record
<1>. HIDE DEF r
<1>4. /\ n < Window => Recorded(g, h, 0, r)
      /\ ~(n < Window) => Recorded(g, h, 1, r)
  BY <1>1, <1>2, PushRecords
<1>. HIDE DEF g, full
<1>5. PICK k \in {0, 1} : Recorded(g, h, k, r) /\ (k = 0 <=> n < Window)
  BY <1>4
<1>6. /\ g \in Seq(Ratios) /\ Len(g) = n + 1 - k /\ g[Len(g)] = r
      /\ \A i \in 1..(n - k) : g[i] = h[i + k]
  BY <1>5 DEF Recorded
<1>7. Len(g) <= Window /\ Len(g) >= 1
  BY <1>2, <1>5, <1>6
<1>8. /\ streak \in Nat /\ streak <= n
      /\ \A i \in 1..n : i > n - streak => h[i] = Units
  BY DEF WindowInv
<1>9. /\ streak' \in Nat /\ streak' <= Len(g) /\ (~full => streak' = 0)
      /\ streak' <= streak + 1
  <2>1. CASE full
    BY <1>2, <1>3, <1>5, <1>6, <1>8, <2>1
  <2>2. CASE ~full
    BY <1>2, <1>3, <1>6, <1>7, <1>8, <2>2
  <2>. QED BY <2>1, <2>2
<1>10. ASSUME NEW i \in 1..Len(g), i > Len(g) - streak' PROVE g[i] = Units
  <2>1. full
    BY <1>2, <1>6, <1>7, <1>9, <1>10
  <2>2. CASE i = Len(g)
    BY <1>1, <1>6, <2>1, <2>2
  <2>3. CASE i # Len(g)
    <3>1. i \in 1..(n - k) /\ i + k \in 1..n /\ i + k > n - streak
      BY <1>2, <1>6, <1>8, <1>9, <1>10, <2>3, SMTT(30)
    <3>. QED BY <1>6, <1>8, <3>1
  <2>. QED BY <2>2, <2>3
<1>11. planned' \in [Cycles -> 0..MaxDepth]
  <2>1. planned \in [Cycles -> 0..MaxDepth] /\ 0 \in 0..MaxDepth
    BY DepthConstants DEF WindowInv
  <2>. QED BY <1>3, <2>1
<1>. QED BY <1>3, <1>6, <1>7, <1>9, <1>10, <1>11 DEF WindowInv

\* AdaptiveDepth::record keeps at most a window of ratios, each at most 1, and the
\* last ones are those of the full acceptances in a row.
THEOREM WindowInvariant == Spec => []WindowInv
<1>1. Init => WindowInv
  <2>. SUFFICES ASSUME Init PROVE WindowInv
    OBVIOUS
  <2>1. history = <<>> /\ <<>> \in Seq(Ratios) /\ Len(<<>>) = 0 /\ streak = 0
    BY EmptySeq DEF Init
  <2>2. planned \in [Cycles -> 0..MaxDepth]
    BY DepthConstants DEF Init
  <2>. QED BY <2>1, <2>2, DepthConstants DEF WindowInv
<1>2. WindowInv /\ [Next]_vars => WindowInv'
  <2>. SUFFICES ASSUME WindowInv, [Next]_vars PROVE WindowInv'
    OBVIOUS
  <2>0. history \in Seq(Ratios) /\ planned \in [Cycles -> 0..MaxDepth] /\ 0 \in 0..MaxDepth
    BY DepthConstants DEF WindowInv
  <2>1. ASSUME NEW c \in Cycles, Plan(c) PROVE WindowInv'
    <3>1. PICK d \in PlanDepth(history) : planned' = [planned EXCEPT ![c] = d]
      BY <2>1 DEF Plan
    <3>2. d \in 0..MaxDepth
      <4>1. d \in 1..MaxDepth
        BY <2>0, PlannedDepths
      <4>. QED BY <4>1
    <3>3. planned' \in [Cycles -> 0..MaxDepth]
      BY <2>0, <3>1, <3>2
    <3>. QED BY <2>1, <3>3 DEF WindowInv, Plan
  <2>2. ASSUME NEW c \in Cycles, NEW len \in 0..MaxDepth, NEW acc \in 0..len, Record(c, acc, len)
        PROVE  WindowInv'
    BY <2>2, WindowInvRecord
  <2>3. ASSUME NEW c \in Cycles, Abandon(c) PROVE WindowInv'
    <3>1. planned' \in [Cycles -> 0..MaxDepth]
      BY <2>0, <2>3 DEF Abandon
    <3>. QED BY <2>3, <3>1 DEF WindowInv, Abandon
  <2>4. CASE UNCHANGED vars
    BY <2>4 DEF vars, WindowInv
  <2>. QED BY <2>1, <2>2, <2>3, <2>4 DEF Next
<1>. QED BY <1>1, <1>2, PTL DEF Spec

\* After a whole window of full acceptances choose_depth gives max_depth again,
\* however bad the history was.
THEOREM WindowRecovers == Spec => []RecoversAfterWindow
<1>1. WindowInv => RecoversAfterWindow
  <2>. SUFFICES ASSUME WindowInv, AdaptiveEnabled, streak >= Window
       PROVE  PlanDepth(history) = ChooseDepth(<<>>)
    BY DEF RecoversAfterWindow
  <2>. DEFINE h == history
              n == Len(history)
  <2>1. /\ h \in Seq(Ratios) /\ n \in Nat /\ n = Window /\ streak = n /\ n # 0
        /\ \A i \in 1..n : h[i] = Units
    <3>1. /\ h \in Seq(Ratios) /\ n \in Nat /\ Window \in Nat \ {0} /\ n <= Window
          /\ streak \in Nat /\ streak <= n
          /\ \A i \in 1..n : i > n - streak => h[i] = Units
      BY SumBounds, DepthConstants DEF WindowInv
    <3>2. n = Window /\ streak = n
      BY <3>1
    <3>. QED BY <3>1, <3>2
  <2>2. SumOf(h) = n * Units /\ n * Units \in Nat /\ MaxDepth \in Nat \ {0}
    BY <2>1, SumBounds, DepthConstants
  <2>3. Scaled(SumOf(h), n) = {MaxDepth}
    <3>. DEFINE one == n * Units
    <3>1. 5 * SumOf(h) >= 4 * one
      <4>1. one \in Nat /\ SumOf(h) = one
        BY <2>2
      <4>. HIDE DEF one
      <4>. QED BY <4>1
    <3>. QED BY <3>1, Zenon DEF Scaled
  <2>4. Clamped(MaxDepth) = MaxDepth
    BY <2>2 DEF Clamped
  <2>5. h # <<>>
    BY <2>1, EmptySeq
  <2>6. ChooseDepth(h) = {MaxDepth}
    <3>1. ChooseDepth(h) = {Clamped(d) : d \in Scaled(SumOf(h), n)}
      BY <2>5, Zenon DEF ChooseDepth
    <3>2. {Clamped(d) : d \in {MaxDepth}} = {MaxDepth}
      BY <2>4
    <3>. QED BY <2>3, <3>1, <3>2, Zenon
  <2>. QED BY <2>6 DEF PlanDepth, ChooseDepth
<1>. QED BY <1>1, WindowInvariant, PTL

\* A recorded full acceptance never makes what choose_depth gives next shallower, a
\* total rejection never deeper, whatever ratio left the window.
THEOREM DepthFollows == Spec => DepthFollowsAcceptance
<1>. DEFINE A == history' # history =>
                   LET r == history'[Len(history')] IN
                   /\ r = Units => Max(PlanDepth(history')) >= Max(PlanDepth(history))
                   /\ r = 0     => Min(PlanDepth(history')) <= Min(PlanDepth(history))
<1>1. WindowInv /\ [Next]_vars => A
  <2>. SUFFICES ASSUME WindowInv, [Next]_vars, history' # history PROVE A
    OBVIOUS
  <2>0. PICK c \in Cycles, len \in 0..MaxDepth : \E acc \in 0..len : Record(c, acc, len)
    BY DEF Next, Plan, Abandon, vars
  <2>1. PICK acc \in 0..len : Record(c, acc, len)
    BY <2>0
  <2>. DEFINE r == Ratio(acc, len)
  <2>2. history' = Push(history, r) /\ r \in Ratios
    BY <2>1, RatioBounds DEF Record
  <2>3. history \in Seq(Ratios) /\ Len(history) <= Window
    BY DEF WindowInv
  <2>. HIDE DEF r
  <2>4. history'[Len(history')] = r
    BY <2>2, <2>3, PushRecords DEF Recorded
  <2>5. /\ r = Units => Max(PlanDepth(history')) >= Max(PlanDepth(history))
        /\ r = 0 => Min(PlanDepth(history')) <= Min(PlanDepth(history))
    BY <2>2, <2>3, PlanFollows
  <2>. QED BY <2>4, <2>5, Zenon
<1>2. WindowInv /\ [Next]_vars => [A]_vars
  <2>. HIDE DEF A
  <2>. QED BY <1>1
<1>. QED BY <1>2, WindowInvariant, PTL DEF Spec, DepthFollowsAcceptance
=============================================================================
