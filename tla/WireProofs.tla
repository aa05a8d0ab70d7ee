----------------------------- MODULE WireProofs ------------------------------
(***************************************************************************)
(* The wire protocol and a connection, proved for any byte, widths,        *)
(* limits, messages and foreign payloads, and any way the stream is cut.   *)
(*                                                                         *)
(*   1. Numbers: put_u32 and put_u64 against read_u32 and read_u64.        *)
(*   2. Fields: a run of numbers is written and read back.                 *)
(*   3. Messages: decode inverts encode, and accepts nothing else.         *)
(*   4. The connection: what was sent is what was delivered and the        *)
(*      frames still under way (ChannelInv).                               *)
(***************************************************************************)
EXTENDS FramedChannel, SequenceLemmas
-----------------------------------------------------------------------------
(***************************************************************************)
(* Numbers                                                                 *)
(***************************************************************************)

\* A number is its quotient and its last byte.
LEMMA Divided ==
    ASSUME NEW n \in Nat
    PROVE  /\ n \div ByteBase \in Nat /\ n % ByteBase \in Byte
           /\ n = (n \div ByteBase) * ByteBase + (n % ByteBase)
<1>. DEFINE q == n \div ByteBase
            m == n % ByteBase
<1>1. ByteBase \in Nat \ {0, 1}
  BY WireConstants
<1>2. q \in Nat /\ m \in Byte /\ n = ByteBase * q + m
  BY <1>1 DEF Byte
<1>. HIDE DEF q, m
<1>3. ByteBase * q = q * ByteBase
  BY <1>1, <1>2
<1>4. n = q * ByteBase + m
  BY <1>2, <1>3, Zenon
<1>5. q \in Nat /\ m \in Byte /\ n = q * ByteBase + m
  BY <1>2, <1>4
<1>. QED BY <1>5 DEF q, m

\* The quotient and the last byte are determined.
LEMMA DivisionUnique ==
    ASSUME NEW q \in Nat, NEW d \in Byte, NEW r \in Nat, NEW e \in Byte,
           q * ByteBase + d = r * ByteBase + e
    PROVE  q = r /\ d = e
<1>1. ByteBase \in Nat \ {0, 1} /\ d \in Nat /\ e \in Nat /\ d < ByteBase /\ e < ByteBase
  BY WireConstants DEF Byte
<1>2. ASSUME NEW a \in Nat, NEW b \in Nat, NEW x \in Byte, NEW y \in Byte,
             a * ByteBase + x = b * ByteBase + y
      PROVE  ~(a < b)
  <2>. SUFFICES ASSUME a < b PROVE FALSE
    OBVIOUS
  <2>1. PICK k \in Nat : b = a + 1 + k
    <3>1. b - a - 1 \in Nat /\ b = a + 1 + (b - a - 1)
      OBVIOUS
    <3>. QED BY <3>1
  <2>2. b * ByteBase = a * ByteBase + ByteBase + k * ByteBase
    BY <1>1, <2>1, SMTT(30)
  <2>3. k * ByteBase \in Nat /\ a * ByteBase \in Nat /\ b * ByteBase \in Nat
    BY <1>1
  <2>4. x < ByteBase /\ y >= 0
    BY <1>1 DEF Byte
  <2>5. ASSUME NEW p \in Nat, NEW u \in Nat, NEW w \in Nat, w = p + ByteBase + u,
               p + x = w + y
        PROVE  FALSE
    BY <1>1, <2>4, <2>5 DEF Byte
  <2>. QED BY <1>2, <2>2, <2>3, <2>5
<1>3. q = r
  <2>1. ~(q < r) /\ ~(r < q)
    BY <1>2
  <2>. QED BY <2>1
<1>4. d = e
  <2>1. q * ByteBase \in Nat
    BY <1>1
  <2>2. ASSUME NEW p \in Nat, p + d = p + e PROVE d = e
    BY <1>1, <2>2
  <2>. QED BY <1>3, <2>1, <2>2
<1>. QED BY <1>3, <1>4

\* A byte is put under a number and taken off again.
LEMMA Redivided ==
    ASSUME NEW q \in Nat, NEW d \in Byte
    PROVE  /\ q * ByteBase + d \in Nat
           /\ (q * ByteBase + d) \div ByteBase = q /\ (q * ByteBase + d) % ByteBase = d
<1>. DEFINE n == q * ByteBase + d
<1>1. n \in Nat
  BY WireConstants DEF Byte
<1>. HIDE DEF n
<1>2. /\ n \div ByteBase \in Nat /\ n % ByteBase \in Byte
      /\ n = (n \div ByteBase) * ByteBase + (n % ByteBase)
  BY <1>1, Divided
<1>3. q * ByteBase + d = (n \div ByteBase) * ByteBase + (n % ByteBase)
  BY <1>2, Zenon DEF n
<1>4. q = n \div ByteBase /\ d = n % ByteBase
  BY <1>2, <1>3, DivisionUnique, ZenonT(40)
<1>5. n \in Nat /\ n \div ByteBase = q /\ n % ByteBase = d
  BY <1>1, <1>4
<1>. QED BY <1>5, Zenon DEF n

\* A smaller number has a smaller quotient.
LEMMA DivisionGrows ==
    ASSUME NEW m \in Nat, NEW n \in Nat, m <= n
    PROVE  m \div ByteBase <= n \div ByteBase
<1>. DEFINE a == m \div ByteBase
            b == n \div ByteBase
            x == m % ByteBase
            y == n % ByteBase
<1>1. /\ a \in Nat /\ b \in Nat /\ x \in Byte /\ y \in Byte
      /\ m = a * ByteBase + x /\ n = b * ByteBase + y
  <2>1. a \in Nat /\ x \in Byte /\ m = a * ByteBase + x
    BY Divided
  <2>2. b \in Nat /\ y \in Byte /\ n = b * ByteBase + y
    BY Divided
  <2>. HIDE DEF a, b, x, y
  <2>. QED BY <2>1, <2>2
<1>. HIDE DEF a, b, x, y
<1>. SUFFICES ASSUME b < a PROVE FALSE
  BY <1>1 DEF a, b
<1>2. ByteBase \in Nat \ {0, 1} /\ x >= 0 /\ y < ByteBase /\ x \in Nat /\ y \in Nat
  BY <1>1, WireConstants DEF Byte
<1>3. PICK k \in Nat : a = b + 1 + k
  <2>1. a - b - 1 \in Nat /\ a = b + 1 + (a - b - 1)
    BY <1>1
  <2>. QED BY <2>1
<1>4. a * ByteBase = b * ByteBase + ByteBase + k * ByteBase
  BY <1>1, <1>2, <1>3, SMTT(30)
<1>5. k * ByteBase \in Nat /\ a * ByteBase \in Nat /\ b * ByteBase \in Nat
  BY <1>1, <1>2, <1>3
<1>6. ASSUME NEW p \in Nat, NEW u \in Nat, NEW w \in Nat, w = p + ByteBase + u,
             m = w + x, n = p + y
      PROVE  FALSE
  BY <1>2, <1>6
<1>. QED BY <1>1, <1>4, <1>5, <1>6

\* s is v shifted right byte by byte.
Shifts(s, v, width) ==
    /\ s \in [0..width -> Nat] /\ s[0] = v
    /\ \A i \in 1..width : s[i] = s[i - 1] \div ByteBase

\* put_u32 and put_u64 compute that.
LEMMA ShiftedShifts ==
    ASSUME NEW v \in Nat, NEW width \in Nat
    PROVE  Shifts(Shifted(v, width), v, width)
<1>. DEFINE step == [p \in (1..width) \X Nat |-> p[2] \div ByteBase]
            E(g) == [i \in 0..width |-> IF i = 0 THEN v ELSE g[i - 1] \div ByteBase]
            s == CHOOSE g : g = E(g)
<1>1. step \in [(1..width) \X Nat -> Nat]
  <2>1. ASSUME NEW p \in (1..width) \X Nat PROVE p[2] \div ByteBase \in Nat
    <3>1. p[2] \in Nat
      OBVIOUS
    <3>. QED BY <3>1, Divided
  <2>. QED BY <2>1
<1>2. PICK f : /\ f \in [0..width -> Nat] /\ f[0] = v
               /\ \A i \in 1..width : f[i] = step[<<i, f[i - 1]>>]
  <2>. HIDE DEF step
  <2>1. \E f : Computes(f, width, Nat, v, step)
    BY <1>1, IntervalRecursion
  <2>. QED BY <2>1 DEF Computes
<1>3. ASSUME NEW i \in 1..width PROVE f[i] = f[i - 1] \div ByteBase
  <2>0. i - 1 \in 0..width
    OBVIOUS
  <2>1. <<i, f[i - 1]>> \in (1..width) \X Nat
    BY <1>2, <2>0
  <2>. QED BY <1>2, <2>1
<1>4. f = E(f)
  <2>1. ASSUME NEW i \in 0..width PROVE f[i] = E(f)[i]
    <3>1. CASE i = 0
      BY <1>2, <3>1
    <3>2. CASE i # 0
      <4>1. i \in 1..width
        BY <3>2
      <4>. QED BY <1>3, <3>2, <4>1
    <3>. QED BY <3>1, <3>2
  <2>. QED BY <1>2, <2>1
<1>5. s = E(s)
  <2>. HIDE DEF E
  <2>. QED BY <1>4
<1>6. Shifted(v, width) = s
  BY Zenon DEF Shifted
<1>. HIDE DEF s
<1>7. s[0] = v /\ \A i \in 1..width : s[i] = s[i - 1] \div ByteBase
  <2>1. s[0] = v
    BY <1>5, 0 \in 0..width
  <2>2. ASSUME NEW i \in 1..width PROVE s[i] = s[i - 1] \div ByteBase
    <3>1. i \in 0..width /\ i # 0
      OBVIOUS
    <3>. QED BY <1>5, <3>1
  <2>. QED BY <2>1, <2>2
<1>. DEFINE T == {i \in 0..width : s[i] \in Nat}
<1>8. 0 \in T
  BY <1>7
<1>9. ASSUME NEW i \in 1..width, i - 1 \in T PROVE i \in T
  <2>1. s[i - 1] \in Nat /\ i \in 0..width
    BY <1>9
  <2>. QED BY <1>7, <2>1, Divided
<1>10. 0..width \subseteq T
  <2>. HIDE DEF T
  <2>. QED BY <1>8, <1>9, IntervalInduction
<1>11. DOMAIN s = 0..width /\ s = [i \in 0..width |-> s[i]]
  BY <1>5
<1>12. s \in [0..width -> Nat]
  BY <1>10, <1>11
<1>. QED BY <1>6, <1>7, <1>12 DEF Shifts

\* f[i] is what the last i bytes of b are worth.
Values(f, b) ==
    /\ f \in [0..Len(b) -> Nat] /\ f[0] = 0
    /\ \A i \in 1..Len(b) : f[i] = f[i - 1] * ByteBase + b[Len(b) + 1 - i]

\* read_u32 and read_u64 compute the last of them.
LEMMA ValueValues ==
    ASSUME NEW b \in Seq(Byte)
    PROVE  \E f : Values(f, b) /\ Value(b) = f[Len(b)]
<1>. DEFINE n == Len(b)
            step == [p \in (1..n) \X Nat |-> p[2] * ByteBase + b[n + 1 - p[1]]]
            E(g) == [i \in 0..n |-> IF i = 0 THEN 0 ELSE g[i - 1] * ByteBase + b[n + 1 - i]]
            s == CHOOSE g : g = E(g)
<1>1. n \in Nat /\ \A i \in 1..n : b[n + 1 - i] \in Byte
  <2>1. n \in Nat /\ \A i \in 1..n : b[i] \in Byte
    BY LenProperties, ElementOfSeq
  <2>2. ASSUME NEW i \in 1..n PROVE n + 1 - i \in 1..n
    BY <2>1
  <2>. QED BY <2>1, <2>2
<1>2. step \in [(1..n) \X Nat -> Nat]
  <2>1. ASSUME NEW p \in (1..n) \X Nat PROVE p[2] * ByteBase + b[n + 1 - p[1]] \in Nat
    <3>1. p[2] \in Nat /\ p[1] \in 1..n
      OBVIOUS
    <3>2. b[n + 1 - p[1]] \in Byte
      BY <1>1, <3>1
    <3>. QED BY <3>1, <3>2, Redivided
  <2>. HIDE DEF n
  <2>. QED BY <2>1
<1>3. PICK f : /\ f \in [0..n -> Nat] /\ f[0] = 0
               /\ \A i \in 1..n : f[i] = step[<<i, f[i - 1]>>]
  <2>. HIDE DEF n, step
  <2>1. \E f : Computes(f, n, Nat, 0, step)
    BY <1>1, <1>2, IntervalRecursion
  <2>. QED BY <2>1 DEF Computes
<1>. HIDE DEF n
<1>4. ASSUME NEW i \in 1..n PROVE f[i] = f[i - 1] * ByteBase + b[n + 1 - i]
  <2>0. i - 1 \in 0..n
    BY <1>1
  <2>1. <<i, f[i - 1]>> \in (1..n) \X Nat
    BY <1>3, <2>0
  <2>. QED BY <1>3, <2>1
<1>5. f = E(f)
  <2>1. ASSUME NEW i \in 0..n PROVE f[i] = E(f)[i]
    <3>1. CASE i = 0
      BY <1>3, <3>1
    <3>2. CASE i # 0
      <4>1. i \in 1..n
        BY <1>1, <3>2
      <4>. QED BY <1>4, <3>2, <4>1
    <3>. QED BY <3>1, <3>2
  <2>. QED BY <1>3, <2>1
<1>6. s = E(s)
  <2>. HIDE DEF E
  <2>. QED BY <1>5
<1>7. Value(b) = s[n]
  BY Zenon DEF Value, n
<1>. HIDE DEF s
<1>. DEFINE T == {i \in 0..n : s[i] = f[i]}
<1>8. 0 \in T
  BY <1>1, <1>3, <1>6
<1>9. ASSUME NEW i \in 1..n, i - 1 \in T PROVE i \in T
  <2>1. i \in 0..n /\ i # 0 /\ s[i - 1] = f[i - 1]
    BY <1>1, <1>9
  <2>2. s[i] = s[i - 1] * ByteBase + b[n + 1 - i]
    BY <1>6, <2>1
  <2>. QED BY <1>4, <2>1, <2>2
<1>10. n \in T
  <2>1. 0..n \subseteq T
    <3>. HIDE DEF T
    <3>. QED BY <1>1, <1>8, <1>9, IntervalInduction
  <2>. QED BY <1>1, <2>1, n \in 0..n
<1>11. Values(f, b)
  BY <1>3, <1>4 DEF Values, n
<1>12. s[n] = f[n]
  BY <1>10
<1>. QED BY <1>7, <1>11, <1>12, Zenon DEF n

\* The bytes put are the last bytes of the shifted number.
LEMMA PutBytes ==
    ASSUME NEW v \in Nat, NEW width \in Nat, NEW s, s = Shifted(v, width),
           Shifts(s, v, width)
    PROVE  /\ Put(v, width) \in Seq(Byte) /\ Len(Put(v, width)) = width
           /\ \A i \in 1..width : Put(v, width)[i] = s[i - 1] % ByteBase
<1>1. s \in [0..width -> Nat]
  BY DEF Shifts
<1>2. Put(v, width) = [i \in 1..width |-> s[i - 1] % ByteBase]
  BY DEF Put
<1>3. ASSUME NEW i \in 1..width PROVE s[i - 1] % ByteBase \in Byte
  <2>1. i - 1 \in 0..width
    OBVIOUS
  <2>2. s[i - 1] \in Nat
    BY <1>1, <2>1
  <2>. QED BY <2>2, Divided
<1>4. /\ Put(v, width) \in [1..width -> Byte]
      /\ \A i \in 1..width : Put(v, width)[i] = s[i - 1] % ByteBase
  BY <1>2, <1>3
<1>. QED BY <1>4, FunctionIsSequence

\* A number that fits is read as it was put.
LEMMA ValuePut ==
    ASSUME NEW width \in Nat, NEW v \in UInt(width)
    PROVE  /\ Put(v, width) \in Seq(Byte) /\ Len(Put(v, width)) = width
           /\ Value(Put(v, width)) = v
<1>. DEFINE s == Shifted(v, width)
            b == Put(v, width)
<1>1. v \in Nat /\ s[width] = 0
  BY DEF UInt
<1>2. Shifts(s, v, width)
  BY <1>1, ShiftedShifts
<1>3. /\ b \in Seq(Byte) /\ Len(b) = width
      /\ \A i \in 1..width : b[i] = s[i - 1] % ByteBase
  BY <1>1, <1>2, PutBytes
<1>. HIDE DEF s, b
<1>4. PICK f : Values(f, b) /\ Value(b) = f[Len(b)]
  BY <1>3, ValueValues
<1>5. /\ s \in [0..width -> Nat] /\ s[0] = v
      /\ \A i \in 1..width : s[i] = s[i - 1] \div ByteBase
  BY <1>2 DEF Shifts
<1>6. /\ f \in [0..width -> Nat] /\ f[0] = 0
      /\ \A i \in 1..width : f[i] = f[i - 1] * ByteBase + b[width + 1 - i]
  BY <1>3, <1>4 DEF Values
<1>. DEFINE T == {i \in 0..width : f[i] = s[width - i]}
<1>7. 0 \in T
  <2>1. width - 0 = width /\ 0 \in 0..width
    OBVIOUS
  <2>. QED BY <1>1, <1>6, <2>1
<1>8. ASSUME NEW i \in 1..width, i - 1 \in T PROVE i \in T
  <2>. DEFINE j == width + 1 - i
  <2>1. /\ j \in 1..width /\ j = width - (i - 1) /\ j - 1 = width - i /\ j - 1 \in 0..width
        /\ i \in 0..width
    OBVIOUS
  <2>2. f[i - 1] = s[j]
    BY <1>8, <2>1
  <2>3. f[i] = f[i - 1] * ByteBase + b[j]
    BY <1>6
  <2>. HIDE DEF j
  <2>4. s[j] = s[j - 1] \div ByteBase /\ b[j] = s[j - 1] % ByteBase /\ s[j - 1] \in Nat
    BY <1>3, <1>5, <2>1
  <2>. DEFINE x == s[j - 1]
  <2>5. x = (x \div ByteBase) * ByteBase + (x % ByteBase)
    BY <2>4, Divided
  <2>6. f[i] = x
    BY <2>2, <2>3, <2>4, <2>5, Zenon
  <2>. QED BY <2>1, <2>6
<1>9. width \in T
  <2>1. 0..width \subseteq T
    <3>. HIDE DEF T
    <3>. QED BY <1>7, <1>8, IntervalInduction
  <2>. QED BY <2>1, width \in 0..width
<1>10. f[width] = s[0]
  <2>1. width - width = 0
    OBVIOUS
  <2>. QED BY <1>9, <2>1
<1>. QED BY <1>3, <1>4, <1>5, <1>10 DEF b

\* Bytes that are read are put again: every number has one form.
LEMMA PutValue ==
    ASSUME NEW b \in Seq(Byte)
    PROVE  Value(b) \in UInt(Len(b)) /\ Put(Value(b), Len(b)) = b
<1>. DEFINE n == Len(b)
            v == Value(b)
            s == Shifted(v, n)
<1>1. n \in Nat /\ \A i \in 1..n : b[i] \in Byte
  BY LenProperties, ElementOfSeq
<1>2. PICK f : Values(f, b) /\ v = f[n]
  BY ValueValues
<1>3. /\ f \in [0..n -> Nat] /\ f[0] = 0
      /\ \A i \in 1..n : f[i] = f[i - 1] * ByteBase + b[n + 1 - i]
  BY <1>2 DEF Values
<1>. HIDE DEF n, v
<1>4. v \in Nat
  BY <1>1, <1>2, <1>3, n \in 0..n
<1>5. Shifts(s, v, n)
  BY <1>1, <1>4, ShiftedShifts
<1>6. /\ Put(v, n) \in Seq(Byte) /\ Len(Put(v, n)) = n
      /\ \A i \in 1..n : Put(v, n)[i] = s[i - 1] % ByteBase
  BY <1>1, <1>4, <1>5, PutBytes
<1>. HIDE DEF s
<1>7. s[0] = v /\ \A i \in 1..n : s[i] = s[i - 1] \div ByteBase
  BY <1>5 DEF Shifts
<1>8. ASSUME NEW i \in 1..n, s[i - 1] = f[n - (i - 1)]
      PROVE  s[i] = f[n - i] /\ s[i - 1] % ByteBase = b[i]
  <2>. DEFINE j == n + 1 - i
  <2>1. j \in 1..n /\ j = n - (i - 1) /\ j - 1 = n - i /\ n + 1 - j = i /\ j - 1 \in 0..n
    BY <1>1
  <2>. HIDE DEF j
  <2>2. s[i - 1] = f[j - 1] * ByteBase + b[i]
    BY <1>3, <1>8, <2>1
  <2>3. f[j - 1] \in Nat /\ b[i] \in Byte
    BY <1>1, <1>3, <2>1
  <2>4. s[i - 1] \div ByteBase = f[j - 1] /\ s[i - 1] % ByteBase = b[i]
    BY <2>2, <2>3, Redivided
  <2>. QED BY <1>7, <2>1, <2>4
<1>. DEFINE T == {i \in 0..n : s[i] = f[n - i]}
<1>9. 0 \in T
  <2>1. n - 0 = n /\ 0 \in 0..n
    BY <1>1
  <2>. QED BY <1>2, <1>7, <2>1
<1>10. ASSUME NEW i \in 1..n, i - 1 \in T PROVE i \in T
  BY <1>1, <1>8, <1>10
<1>11. 0..n \subseteq T
  <2>. HIDE DEF T
  <2>. QED BY <1>1, <1>9, <1>10, IntervalInduction
<1>12. ASSUME NEW i \in 1..n PROVE Put(v, n)[i] = b[i]
  <2>1. i - 1 \in T
    <3>1. i - 1 \in 0..n
      BY <1>1
    <3>. QED BY <1>11, <3>1
  <2>. QED BY <1>6, <1>8, <2>1
<1>13. Put(v, n) = b
  BY <1>1, <1>6, <1>12, SeqEqual DEF n
<1>14. s[n] = 0
  <2>1. n \in T /\ n - n = 0
    BY <1>1, <1>11
  <2>. QED BY <1>3, <2>1
<1>15. v \in UInt(n)
  BY <1>4, <1>14 DEF UInt, s
<1>. QED BY <1>13, <1>15 DEF n, v

\* What is less than a number that fits fits.
LEMMA UIntDown ==
    ASSUME NEW width \in Nat, NEW v \in UInt(width), NEW u \in Nat, u <= v
    PROVE  u \in UInt(width)
<1>. DEFINE s == Shifted(v, width)
            t == Shifted(u, width)
            T == {i \in 0..width : t[i] <= s[i]}
<1>1. v \in Nat /\ s[width] = 0
  BY DEF UInt
<1>2. Shifts(s, v, width) /\ Shifts(t, u, width)
  BY <1>1, ShiftedShifts
<1>. HIDE DEF s, t
<1>3. /\ s \in [0..width -> Nat] /\ s[0] = v
      /\ \A i \in 1..width : s[i] = s[i - 1] \div ByteBase
  BY <1>2 DEF Shifts
<1>4. /\ t \in [0..width -> Nat] /\ t[0] = u
      /\ \A i \in 1..width : t[i] = t[i - 1] \div ByteBase
  BY <1>2 DEF Shifts
<1>5. 0 \in T
  BY <1>3, <1>4
<1>6. ASSUME NEW i \in 1..width, i - 1 \in T PROVE i \in T
  <2>1. i - 1 \in 0..width /\ i \in 0..width
    OBVIOUS
  <2>2. s[i - 1] \in Nat /\ t[i - 1] \in Nat /\ t[i - 1] <= s[i - 1]
    BY <1>3, <1>4, <1>6, <2>1
  <2>3. t[i - 1] \div ByteBase <= s[i - 1] \div ByteBase
    BY <2>2, DivisionGrows
  <2>. QED BY <1>3, <1>4, <2>1, <2>3
<1>7. width \in T
  <2>1. 0..width \subseteq T
    <3>. HIDE DEF T
    <3>. QED BY <1>5, <1>6, IntervalInduction
  <2>. QED BY <2>1, width \in 0..width
<1>8. t[width] = 0
  BY <1>1, <1>3, <1>4, <1>7, width \in 0..width
<1>. QED BY <1>8 DEF t, UInt
-----------------------------------------------------------------------------
(***************************************************************************)
(* Fields                                                                  *)
(***************************************************************************)

\* n bytes of p, after its first k.
Part(p, k, n) == SubSeq(p, k + 1, k + n)

\* p is n bytes.
Bytes(p, n) == p \in Seq(Byte) /\ Len(p) = n

\* p has the n bytes of t after its first k.
Holds(p, k, t, n) == \A j \in 1..n : p[k + j] = t[j]

LEMMA PartBytes ==
    ASSUME NEW p \in Seq(Byte), NEW k \in Nat, NEW n \in Nat, k + n <= Len(p)
    PROVE  Bytes(Part(p, k, n), n) /\ Holds(p, k, Part(p, k, n), n)
<1>1. Len(p) \in Nat /\ k + 1 \in 1..(Len(p) + 1) /\ k + n \in ((k + 1) - 1)..Len(p)
  BY LenProperties
<1>. DEFINE s == SubSeq(p, k + 1, k + n)
<1>2. /\ s \in Seq(Byte)
      /\ Len(s) = IF k + 1 <= k + n THEN (k + n) - (k + 1) + 1 ELSE 0
      /\ \A i \in 1..((k + n) - (k + 1) + 1) : s[i] = p[(k + 1) + i - 1]
  BY <1>1, SubSeqProperties
<1>. HIDE DEF s
<1>3. Len(s) = n /\ \A i \in 1..n : s[i] = p[k + i]
  <2>1. (k + n) - (k + 1) + 1 = n /\ (k + 1 <= k + n <=> n # 0)
    OBVIOUS
  <2>2. ASSUME NEW i \in 1..n PROVE s[i] = p[k + i]
    <3>1. (k + 1) + i - 1 = k + i
      OBVIOUS
    <3>. QED BY <1>2, <2>1, <3>1
  <2>. QED BY <1>2, <2>1, <2>2
<1>. QED BY <1>2, <1>3 DEF s, Part, Bytes, Holds

\* The bytes of a part are determined by what p holds.
LEMMA PartIs ==
    ASSUME NEW p \in Seq(Byte), NEW k \in Nat, NEW n \in Nat, k + n <= Len(p),
           NEW t, Bytes(t, n), Holds(p, k, t, n)
    PROVE  Part(p, k, n) = t
<1>1. Bytes(Part(p, k, n), n) /\ Holds(p, k, Part(p, k, n), n)
  BY PartBytes
<1>. DEFINE s == Part(p, k, n)
<1>. HIDE DEF s
<1>2. s \in Seq(Byte) /\ t \in Seq(Byte) /\ Len(s) = n /\ Len(t) = n
  BY <1>1 DEF Bytes, s
<1>3. \A i \in 1..n : s[i] = t[i]
  BY <1>1 DEF Holds, s
<1>4. s = t
  BY <1>2, <1>3, SeqEqual
<1>. QED BY <1>4 DEF s

\* Two parts side by side are a part.
LEMMA PartsJoin ==
    ASSUME NEW p \in Seq(Byte), NEW k \in Nat, NEW m \in Nat, NEW n \in Nat,
           k + m + n <= Len(p)
    PROVE  Part(p, k, m) \o Part(p, k + m, n) = Part(p, k, m + n)
<1>. DEFINE s == Part(p, k, m)
            t == Part(p, k + m, n)
<1>1. Bytes(s, m) /\ Holds(p, k, s, m)
  <2>1. k + m <= Len(p)
    BY LenProperties
  <2>. QED BY <2>1, PartBytes
<1>2. Bytes(t, n) /\ Holds(p, k + m, t, n)
  <2>1. k + m \in Nat /\ (k + m) + n <= Len(p)
    OBVIOUS
  <2>. QED BY <2>1, PartBytes
<1>. HIDE DEF s, t
<1>3. s \in Seq(Byte) /\ t \in Seq(Byte) /\ Len(s) = m /\ Len(t) = n
  BY <1>1, <1>2 DEF Bytes
<1>. DEFINE q == s \o t
<1>4. /\ q \in Seq(Byte) /\ Len(q) = m + n
      /\ \A i \in 1..m : q[i] = s[i]
      /\ \A i \in 1..n : q[m + i] = t[i]
  <2>1. /\ q \in Seq(Byte) /\ Len(q) = Len(s) + Len(t)
        /\ \A i \in 1..Len(s) : q[i] = s[i]
        /\ \A i \in 1..Len(t) : q[Len(s) + i] = t[i]
    <3>1. s \in Seq(Byte) /\ t \in Seq(Byte)
      BY <1>3
    <3>. QED BY <3>1, ConcatParts
  <2>. HIDE DEF q
  <2>. QED BY <1>3, <2>1
<1>. HIDE DEF q
<1>5. Bytes(q, m + n)
  BY <1>4 DEF Bytes, q
<1>6. Holds(p, k, q, m + n)
  <2>1. ASSUME NEW j \in 1..(m + n) PROVE p[k + j] = q[j]
    <3>1. CASE j <= m
      <4>1. j \in 1..m
        BY <3>1
      <4>2. q[j] = s[j]
        BY <1>4, <4>1 DEF q
      <4>3. p[k + j] = s[j]
        BY <1>1, <4>1 DEF Holds
      <4>. QED BY <4>2, <4>3
    <3>2. CASE j > m
      <4>. DEFINE i == j - m
      <4>1. i \in 1..n /\ m + i = j /\ (k + m) + i = k + j
        BY <3>2
      <4>. HIDE DEF i
      <4>2. q[m + i] = t[i]
        BY <1>4, <4>1 DEF q
      <4>3. p[(k + m) + i] = t[i]
        BY <1>2, <4>1 DEF Holds
      <4>. QED BY <4>1, <4>2, <4>3
    <3>. QED BY <3>1, <3>2
  <2>. QED BY <2>1 DEF Holds
<1>7. Part(p, k, m + n) = q
  <2>1. m + n \in Nat /\ k + (m + n) <= Len(p)
    BY LenProperties
  <2>. QED BY <1>5, <1>6, <2>1, PartIs
<1>. QED BY <1>7, Zenon DEF q, s, t

\* Where the fields of a run end.
LEMMA Strides ==
    ASSUME NEW n \in Nat, NEW w \in Nat, NEW i \in 1..n
    PROVE  /\ (i - 1) * w \in Nat /\ i * w \in Nat /\ n * w \in Nat
           /\ (i - 1) * w + w = i * w /\ i * w <= n * w
<1>1. i \in Nat /\ i - 1 \in Nat /\ n - i \in Nat
  OBVIOUS
<1>2. /\ (i - 1) * w \in Nat /\ i * w \in Nat /\ n * w \in Nat /\ (n - i) * w \in Nat
  BY <1>1
<1>3. (i - 1) * w + w = i * w
  BY SMTT(30)
<1>4. n * w = i * w + (n - i) * w
  BY SMTT(30)
<1>5. i * w <= n * w
  <2>1. ASSUME NEW a \in Nat, NEW b \in Nat, NEW c \in Nat, c = a + b PROVE a <= c
    BY <2>1
  <2>. QED BY <1>2, <1>4, <2>1
<1>. QED BY <1>2, <1>3, <1>5

\* A run of numbers, each put.
LEMMA PutsBytes ==
    ASSUME NEW w \in Nat, NEW vs \in Seq(UInt(w))
    PROVE  LET ss == [i \in 1..Len(vs) |-> Put(vs[i], w)]
           IN  /\ ss \in Seq(Seq(Byte)) /\ Len(ss) = Len(vs) /\ Fields(vs, w) = FlattenSeq(ss)
               /\ \A i \in 1..Len(vs) : ss[i] = Put(vs[i], w) /\ Bytes(ss[i], w)
<1>. DEFINE n == Len(vs)
            ss == [i \in 1..n |-> Put(vs[i], w)]
<1>1. n \in Nat /\ \A i \in 1..n : vs[i] \in UInt(w)
  BY LenProperties, ElementOfSeq
<1>2. ASSUME NEW i \in 1..n PROVE Bytes(Put(vs[i], w), w)
  BY <1>1, ValuePut DEF Bytes
<1>3. ss \in [1..n -> Seq(Byte)] /\ \A i \in 1..n : ss[i] = Put(vs[i], w)
  BY <1>2 DEF Bytes
<1>4. ss \in Seq(Seq(Byte)) /\ Len(ss) = n
  <2>. HIDE DEF ss, n
  <2>. QED BY <1>1, <1>3, FunctionIsSequence
<1>5. Fields(vs, w) = FlattenSeq(ss)
  BY DEF Fields
<1>. QED BY <1>2, <1>3, <1>4, <1>5

\* The first i of sequences of one length.
LEMMA PrefixLength ==
    ASSUME NEW w \in Nat, NEW ss \in Seq(Seq(Byte)),
           \A i \in 1..Len(ss) : Len(ss[i]) = w
    PROVE  \A i \in 0..Len(ss) : Len(FlattenSeq(SubSeq(ss, 1, i))) = i * w
<1>. DEFINE n == Len(ss)
            L(i) == Len(FlattenSeq(SubSeq(ss, 1, i)))
            T == {i \in 0..n : L(i) = i * w}
<1>1. n \in Nat
  BY LenProperties
<1>2. 0 \in T
  <2>1. SubSeq(ss, 1, 0) = <<>>
    BY SubSeqEmpty
  <2>2. L(0) = 0
    BY <2>1, FlattenEmpty, SomeSequences, Zenon
  <2>3. 0 * w = 0 /\ 0 \in 0..n
    BY <1>1
  <2>. QED BY <2>2, <2>3
<1>3. ASSUME NEW i \in 1..n, i - 1 \in T PROVE i \in T
  <2>. DEFINE k == i - 1
  <2>1. k \in Nat /\ k < n /\ k + 1 = i /\ i \in 0..n
    BY <1>1
  <2>. HIDE DEF k
  <2>2. L(k + 1) = L(k) + Len(ss[k + 1])
    <3>1. k \in Nat /\ k < Len(ss)
      BY <2>1
    <3>. QED BY <3>1, FlattenPart
  <2>3. L(k) = k * w
    BY <1>3 DEF k
  <2>4. Len(ss[k + 1]) = w
    BY <2>1
  <2>5. (i - 1) * w + w = i * w
    BY <1>1, Strides
  <2>. HIDE DEF L
  <2>6. L(i) = k * w + w
    BY <2>1, <2>2, <2>3, <2>4
  <2>7. L(i) = i * w
    BY <2>5, <2>6 DEF k
  <2>. QED BY <2>1, <2>7
<1>4. 0..n \subseteq T
  <2>. HIDE DEF T
  <2>. QED BY <1>1, <1>2, <1>3, IntervalInduction
<1>. QED BY <1>4

\* The bytes of a run: those of its i-th number are where the decoder looks.
LEMMA FieldsBytes ==
    ASSUME NEW w \in Nat, NEW vs \in Seq(UInt(w))
    PROVE  /\ Bytes(Fields(vs, w), Len(vs) * w)
           /\ \A i \in 1..Len(vs) : Holds(Fields(vs, w), (i - 1) * w, Put(vs[i], w), w)
<1>. DEFINE n == Len(vs)
            ss == [i \in 1..n |-> Put(vs[i], w)]
            L(i) == Len(FlattenSeq(SubSeq(ss, 1, i)))
            flat == FlattenSeq(ss)
<1>1. /\ ss \in Seq(Seq(Byte)) /\ Len(ss) = n /\ Fields(vs, w) = flat
      /\ \A i \in 1..n : ss[i] = Put(vs[i], w) /\ Bytes(ss[i], w)
  BY PutsBytes
<1>. HIDE DEF ss
<1>2. n \in Nat
  BY LenProperties
<1>3. \A i \in 1..Len(ss) : Len(ss[i]) = w
  BY <1>1 DEF Bytes
<1>4. \A i \in 0..n : L(i) = i * w
  <2>1. \A i \in 0..Len(ss) : L(i) = i * w
    BY <1>1, <1>3, PrefixLength
  <2>. QED BY <1>1, <2>1
<1>5. flat \in Seq(Byte) /\ Len(flat) = n * w
  <2>1. SubSeq(ss, 1, Len(ss)) = ss
    BY <1>1, SubSeqFull
  <2>2. L(n) = n * w
    BY <1>2, <1>4, n \in 0..n
  <2>3. flat = FlattenSeq(SubSeq(ss, 1, n))
    BY <1>1, <2>1
  <2>4. n \in 0..Len(ss)
    BY <1>1, <1>2
  <2>5. flat \in Seq(Byte)
    BY <1>1, <2>4, FlattenPrefix
  <2>. QED BY <2>2, <2>3, <2>5
<1>6. ASSUME NEW i \in 1..n PROVE Holds(flat, (i - 1) * w, Put(vs[i], w), w)
  <2>. DEFINE k == i - 1
  <2>1. k \in Nat /\ k < Len(ss) /\ k + 1 = i /\ k \in 0..n
    BY <1>1, <1>2
  <2>. HIDE DEF k
  <2>2. \A j \in 1..Len(ss[k + 1]) : flat[L(k) + j] = ss[k + 1][j]
    BY <1>1, <2>1, FlattenPart
  <2>3. L(k) = k * w /\ ss[k + 1] = Put(vs[i], w) /\ Len(ss[k + 1]) = w
    BY <1>1, <1>3, <1>4, <2>1
  <2>. HIDE DEF L, flat
  <2>4. \A j \in 1..w : flat[k * w + j] = Put(vs[i], w)[j]
    BY <2>2, <2>3
  <2>. QED BY <2>4 DEF Holds, k
<1>. HIDE DEF flat
<1>. QED BY <1>1, <1>5, <1>6 DEF Bytes

\* The i-th of the numbers read is that of its own w bytes.
LEMMA ReadPart ==
    ASSUME NEW p \in Seq(Byte), NEW k \in Nat, NEW n \in Nat, NEW w \in Nat,
           k + n * w <= Len(p), NEW i \in 1..n
    PROVE  /\ k + (i - 1) * w \in Nat /\ (k + (i - 1) * w) + w <= Len(p)
           /\ Bytes(Part(p, k + (i - 1) * w, w), w)
           /\ Read(p, k, n, w)[i] = Value(Part(p, k + (i - 1) * w, w))
<1>. DEFINE a == (i - 1) * w
            b == i * w
            c == n * w
<1>1. a \in Nat /\ b \in Nat /\ c \in Nat /\ a + w = b /\ b <= c
  BY Strides
<1>2. k + c <= Len(p)
  OBVIOUS
<1>3. Read(p, k, n, w)[i] = Value(SubSeq(p, k + a + 1, k + b))
  BY DEF Read
<1>. HIDE DEF a, b, c
<1>4. Len(p) \in Nat
  BY LenProperties
<1>5. k + a \in Nat /\ (k + a) + w <= Len(p) /\ k + b = (k + a) + w
  BY <1>1, <1>2, <1>4
<1>6. Bytes(Part(p, k + a, w), w)
  BY <1>5, PartBytes
<1>7. Read(p, k, n, w)[i] = Value(Part(p, k + a, w))
  BY <1>3, <1>5, Zenon DEF Part
<1>. QED BY <1>5, <1>6, <1>7 DEF a

\* A run that was written is read.
LEMMA ReadFields ==
    ASSUME NEW w \in Nat, NEW vs \in Seq(UInt(w)), NEW p \in Seq(Byte), NEW k \in Nat,
           k + Len(vs) * w <= Len(p), Holds(p, k, Fields(vs, w), Len(vs) * w)
    PROVE  Read(p, k, Len(vs), w) = vs
<1>. DEFINE n == Len(vs)
            t == Fields(vs, w)
<1>1. n \in Nat /\ \A i \in 1..n : vs[i] \in UInt(w)
  BY LenProperties, ElementOfSeq
<1>2. \A i \in 1..n : Holds(t, (i - 1) * w, Put(vs[i], w), w)
  BY FieldsBytes
<1>3. Holds(p, k, t, n * w) /\ k + n * w <= Len(p)
  OBVIOUS
<1>. HIDE DEF n, t
<1>4. ASSUME NEW i \in 1..n PROVE Read(p, k, n, w)[i] = vs[i]
  <2>. DEFINE a == (i - 1) * w
              b == i * w
              c == n * w
              u == Put(vs[i], w)
  <2>1. /\ k + a \in Nat /\ (k + a) + w <= Len(p)
        /\ Read(p, k, n, w)[i] = Value(Part(p, k + a, w))
    BY <1>1, <1>3, ReadPart
  <2>2. Bytes(u, w) /\ Value(u) = vs[i]
    BY <1>1, ValuePut DEF Bytes
  <2>3. a \in Nat /\ b \in Nat /\ c \in Nat /\ a + w = b /\ b <= c
    BY <1>1, Strides
  <2>4. Holds(t, a, u, w) /\ Holds(p, k, t, c)
    BY <1>2, <1>3
  <2>. HIDE DEF a, b, c, u
  <2>5. ASSUME NEW j \in 1..w PROVE p[(k + a) + j] = u[j]
    <3>1. a + j \in 1..c /\ k + (a + j) = (k + a) + j
      BY <2>3
    <3>2. p[k + (a + j)] = t[a + j] /\ t[a + j] = u[j]
      BY <2>4, <3>1, Zenon DEF Holds
    <3>. QED BY <3>1, <3>2
  <2>6. Holds(p, k + a, u, w)
    BY <2>5 DEF Holds
  <2>7. Part(p, k + a, w) = u
    BY <2>1, <2>2, <2>6, PartIs
  <2>. QED BY <2>1, <2>2, <2>7
<1>5. Read(p, k, n, w) = [i \in 1..n |-> Read(p, k, n, w)[i]]
  BY DEF Read
<1>6. Read(p, k, n, w) = [i \in 1..n |-> vs[i]]
  BY <1>4, <1>5
<1>7. vs = [i \in 1..n |-> vs[i]]
  BY SeqDef, LenProperties DEF n
<1>. QED BY <1>6, <1>7 DEF n

\* A run that is read would be written with the same bytes.
LEMMA FieldsRead ==
    ASSUME NEW p \in Seq(Byte), NEW k \in Nat, NEW n \in Nat, NEW w \in Nat,
           k + n * w <= Len(p)
    PROVE  /\ Read(p, k, n, w) \in Seq(UInt(w)) /\ Len(Read(p, k, n, w)) = n
           /\ Fields(Read(p, k, n, w), w) = Part(p, k, n * w)
<1>. DEFINE rs == Read(p, k, n, w)
            ss == [i \in 1..Len(rs) |-> Put(rs[i], w)]
            P(i) == Part(p, k + (i - 1) * w, w)
<1>1. ASSUME NEW i \in 1..n PROVE rs[i] \in UInt(w) /\ Put(rs[i], w) = P(i) /\ Bytes(P(i), w)
  <2>1. Bytes(P(i), w) /\ rs[i] = Value(P(i))
    BY ReadPart
  <2>. HIDE DEF P, rs
  <2>2. P(i) \in Seq(Byte) /\ Len(P(i)) = w
    BY <2>1 DEF Bytes
  <2>3. Value(P(i)) \in UInt(w) /\ Put(Value(P(i)), w) = P(i)
    BY <2>2, PutValue
  <2>. QED BY <2>1, <2>3
<1>2. rs = [i \in 1..n |-> rs[i]]
  BY DEF Read
<1>. HIDE DEF rs, P
<1>3. rs \in Seq(UInt(w)) /\ Len(rs) = n
  <2>1. rs \in [1..n -> UInt(w)]
    BY <1>1, <1>2
  <2>. QED BY <2>1, FunctionIsSequence
<1>4. /\ ss \in Seq(Seq(Byte)) /\ Len(ss) = n /\ Fields(rs, w) = FlattenSeq(ss)
      /\ \A i \in 1..n : ss[i] = Put(rs[i], w)
  BY <1>3, PutsBytes
<1>. HIDE DEF ss
<1>. DEFINE F(i) == FlattenSeq(SubSeq(ss, 1, i))
            T == {i \in 0..n : F(i) = Part(p, k, i * w)}
<1>5. Len(p) \in Nat
  BY LenProperties
<1>6. 0 \in T
  <2>1. SubSeq(ss, 1, 0) = <<>>
    BY SubSeqEmpty
  <2>2. F(0) = <<>>
    BY <2>1, FlattenEmpty
  <2>3. Part(p, k, 0) = <<>>
    BY SubSeqEmpty DEF Part
  <2>4. 0 * w = 0 /\ 0 \in 0..n
    OBVIOUS
  <2>. QED BY <2>2, <2>3, <2>4
<1>7. ASSUME NEW i \in 1..n, i - 1 \in T PROVE i \in T
  <2>. DEFINE a == (i - 1) * w
              b == i * w
              c == n * w
              h == i - 1
  <2>1. a \in Nat /\ b \in Nat /\ c \in Nat /\ a + w = b /\ b <= c /\ k + c <= Len(p)
    BY Strides
  <2>2. F(h) = Part(p, k, a)
    BY <1>7
  <2>3. h \in Nat /\ h < Len(ss) /\ h + 1 = i /\ i \in 0..n
    BY <1>4
  <2>4. P(i) = Part(p, k + a, w)
    BY DEF P
  <2>. HIDE DEF a, b, c, h
  <2>5. F(h + 1) = F(h) \o ss[h + 1]
    BY <1>4, <2>3, FlattenNext
  <2>6. ss[h + 1] = P(i)
    BY <1>1, <1>4, <2>3
  <2>. HIDE DEF F
  <2>7. Part(p, k, a) \o Part(p, k + a, w) = Part(p, k, a + w)
    <3>1. k + a + w <= Len(p)
      BY <1>5, <2>1
    <3>. QED BY <2>1, <3>1, PartsJoin
  <2>8. F(i) = Part(p, k, b)
    BY <2>1, <2>2, <2>3, <2>4, <2>5, <2>6, <2>7
  <2>. QED BY <2>3, <2>8 DEF b
<1>8. F(n) = Part(p, k, n * w)
  <2>1. 0..n \subseteq T
    <3>. HIDE DEF T
    <3>. QED BY <1>6, <1>7, IntervalInduction
  <2>2. n \in T
    BY <2>1, n \in 0..n
  <2>. QED BY <2>2
<1>9. F(n) = FlattenSeq(ss)
  <2>1. SubSeq(ss, 1, Len(ss)) = ss
    BY <1>4, SubSeqFull
  <2>. QED BY <1>4, <2>1
<1>10. Fields(rs, w) = Part(p, k, n * w)
  <2>. HIDE DEF F
  <2>. QED BY <1>4, <1>8, <1>9, Zenon
<1>. QED BY <1>3, <1>10 DEF rs
-----------------------------------------------------------------------------
(***************************************************************************)
(* Messages                                                                *)
(***************************************************************************)

\* What a blob holds, what it begins holds.
LEMMA JoinedBytes ==
    ASSUME NEW k \in Nat, NEW n \in Nat, NEW s, NEW t, Bytes(s, k), Bytes(t, n)
    PROVE  /\ Bytes(s \o t, k + n) /\ Holds(s \o t, k, t, n)
           /\ \A x \in Nat, y \in Nat : \A u :
                 x + y <= k /\ Holds(s, x, u, y) => Holds(s \o t, x, u, y)
<1>. DEFINE q == s \o t
<1>1. s \in Seq(Byte) /\ t \in Seq(Byte)
  BY DEF Bytes
<1>2. /\ q \in Seq(Byte) /\ Len(q) = Len(s) + Len(t)
      /\ \A i \in 1..Len(s) : q[i] = s[i]
      /\ \A i \in 1..Len(t) : q[Len(s) + i] = t[i]
  BY <1>1, ConcatParts
<1>. HIDE DEF q
<1>3. Len(s) = k /\ Len(t) = n
  BY DEF Bytes
<1>4. Bytes(q, k + n) /\ Holds(q, k, t, n)
  BY <1>2, <1>3 DEF Bytes, Holds
<1>5. ASSUME NEW x \in Nat, NEW y \in Nat, NEW u, x + y <= k, Holds(s, x, u, y)
      PROVE  Holds(q, x, u, y)
  <2>1. ASSUME NEW j \in 1..y PROVE q[x + j] = u[j]
    <3>1. x + j \in 1..k
      BY <1>5
    <3>2. q[x + j] = s[x + j]
      BY <1>2, <1>3, <3>1
    <3>3. s[x + j] = u[j]
      BY <1>5 DEF Holds
    <3>. QED BY <3>2, <3>3
  <2>. QED BY <2>1 DEF Holds
<1>. QED BY <1>4, <1>5 DEF q

\* A blob holds itself.
LEMMA HoldsItself ==
    ASSUME NEW s, NEW n \in Nat
    PROVE  Holds(s, 0, s, n)
<1>1. \A j \in 1..n : 0 + j = j
  OBVIOUS
<1>. QED BY <1>1 DEF Holds

\* The numbers of the header.
HeaderOf(m) == <<kProtocolVersion, m.type, Len(m.u64), Len(m.u32), Len(m.body)>>

\* They fit, and are put in five times four bytes.
LEMMA HeaderBytes ==
    ASSUME NEW m \in MessageType, Encodable(m)
    PROVE  /\ HeaderOf(m) \in Seq(UInt(U32Bytes)) /\ Len(HeaderOf(m)) = 5
           /\ Bytes(Fields(HeaderOf(m), U32Bytes), 5 * U32Bytes)
           /\ Len(m.u64) \in Nat /\ Len(m.u32) \in Nat /\ Len(m.body) \in Nat
<1>1. /\ U32Bytes \in Nat /\ LastType \in UInt(U32Bytes) \ {0}
      /\ MaxFields \in UInt(U32Bytes) /\ MaxBody \in UInt(U32Bytes)
  BY WireConstants
<1>2. LastType \in Nat /\ MaxFields \in Nat /\ MaxBody \in Nat /\ 1 <= LastType
  BY <1>1 DEF UInt
<1>3. /\ m.type \in 0..LastType /\ m.u64 \in Seq(UInt(U64Bytes))
      /\ m.u32 \in Seq(UInt(U32Bytes)) /\ m.body \in Seq(Byte)
  BY DEF MessageType
<1>4. Len(m.u64) \in Nat /\ Len(m.u32) \in Nat /\ Len(m.body) \in Nat
  BY <1>3, LenProperties
<1>5. Len(m.u64) <= MaxFields /\ Len(m.u32) <= MaxFields /\ Len(m.body) <= MaxBody
  BY DEF Encodable
<1>6. Len(m.u64) \in UInt(U32Bytes) /\ Len(m.u32) \in UInt(U32Bytes)
  BY <1>1, <1>4, <1>5, UIntDown
<1>7. Len(m.body) \in UInt(U32Bytes)
  BY <1>1, <1>4, <1>5, UIntDown
<1>8. 1 \in UInt(U32Bytes)
  BY <1>1, <1>2, UIntDown
<1>9. m.type \in UInt(U32Bytes)
  <2>1. m.type \in Nat /\ m.type <= LastType
    BY <1>2, <1>3
  <2>. QED BY <1>1, <2>1, UIntDown
<1>10. HeaderOf(m) \in Seq(UInt(U32Bytes)) /\ Len(HeaderOf(m)) = 5
  <2>. DEFINE a == m.type
              b == Len(m.u64)
              c == Len(m.u32)
              d == Len(m.body)
              S == UInt(U32Bytes)
  <2>1. 1 \in S /\ a \in S /\ b \in S /\ c \in S /\ d \in S
    BY <1>6, <1>7, <1>8, <1>9
  <2>2. HeaderOf(m) = <<1, a, b, c, d>>
    BY DEF HeaderOf, kProtocolVersion
  <2>. HIDE DEF a, b, c, d, S
  <2>3. <<1, a, b, c, d>> \in Seq(S) /\ Len(<<1, a, b, c, d>>) = 5
    BY <2>1
  <2>. QED BY <2>2, <2>3 DEF S
<1>11. Bytes(Fields(HeaderOf(m), U32Bytes), 5 * U32Bytes)
  <2>1. Bytes(Fields(HeaderOf(m), U32Bytes), Len(HeaderOf(m)) * U32Bytes)
    BY <1>1, <1>10, FieldsBytes
  <2>. QED BY <1>10, <2>1
<1>. QED BY <1>4, <1>10, <1>11

\* An encoded message, by the parts the decoder looks at.
LEMMA EncodedParts ==
    ASSUME NEW m \in MessageType, Encodable(m)
    PROVE  LET p == Encode(m).value
               h == 5 * U32Bytes
               u == h + Len(m.u64) * U64Bytes
               b == u + Len(m.u32) * U32Bytes
           IN  /\ Encode(m) = Ok(p) /\ h \in Nat /\ u \in Nat /\ b \in Nat
               /\ Len(m.body) \in Nat /\ Bytes(p, b + Len(m.body))
               /\ h <= u /\ u <= b
               /\ Holds(p, 0, Fields(HeaderOf(m), U32Bytes), h)
               /\ Holds(p, h, Fields(m.u64, U64Bytes), Len(m.u64) * U64Bytes)
               /\ Holds(p, u, Fields(m.u32, U32Bytes), Len(m.u32) * U32Bytes)
               /\ Holds(p, b, m.body, Len(m.body))
<1>. DEFINE f1 == Fields(HeaderOf(m), U32Bytes)
            f2 == Fields(m.u64, U64Bytes)
            f3 == Fields(m.u32, U32Bytes)
            f4 == m.body
            h == 5 * U32Bytes
            n2 == Len(m.u64) * U64Bytes
            n3 == Len(m.u32) * U32Bytes
            n4 == Len(m.body)
<1>1. Encode(m) = Ok(((f1 \o f2) \o f3) \o f4)
  BY DEF Encode, HeaderOf
<1>2. /\ Bytes(f1, h) /\ Len(m.u64) \in Nat /\ Len(m.u32) \in Nat /\ n4 \in Nat
  BY HeaderBytes
<1>3. /\ U32Bytes \in Nat /\ U64Bytes \in Nat
      /\ m.u64 \in Seq(UInt(U64Bytes)) /\ m.u32 \in Seq(UInt(U32Bytes)) /\ f4 \in Seq(Byte)
  BY WireConstants DEF MessageType
<1>4. h \in Nat /\ n2 \in Nat /\ n3 \in Nat
  BY <1>2, <1>3
<1>5. Bytes(f2, n2) /\ Bytes(f3, n3)
  BY <1>3, FieldsBytes
<1>6. Bytes(f4, n4)
  BY <1>3 DEF Bytes
<1>. HIDE DEF f1, f2, f3, f4, h, n2, n3, n4
<1>. DEFINE q2 == f1 \o f2
            q3 == q2 \o f3
            q4 == q3 \o f4
            u == h + n2
            b == u + n3
<1>7. u \in Nat /\ b \in Nat /\ h <= u /\ u <= b /\ 0 + h <= h /\ h + n2 <= u /\ u + n3 <= b
      /\ 0 + h <= u /\ 0 + h <= b /\ h + n2 <= b
  BY <1>4
<1>8. /\ Bytes(q2, u) /\ Holds(q2, h, f2, n2) /\ Holds(q2, 0, f1, h)
  <2>1. Holds(f1, 0, f1, h)
    BY <1>4, HoldsItself
  <2>. QED BY <1>2, <1>4, <1>5, <1>7, <2>1, JoinedBytes
<1>. HIDE DEF q2, u
<1>9. /\ Bytes(q3, b) /\ Holds(q3, u, f3, n3) /\ Holds(q3, h, f2, n2) /\ Holds(q3, 0, f1, h)
  BY <1>4, <1>5, <1>7, <1>8, JoinedBytes
<1>. HIDE DEF q3, b
<1>10. /\ Bytes(q4, b + n4) /\ Holds(q4, b, f4, n4) /\ Holds(q4, u, f3, n3)
       /\ Holds(q4, h, f2, n2) /\ Holds(q4, 0, f1, h)
  BY <1>2, <1>4, <1>6, <1>7, <1>9, JoinedBytes
<1>11. Encode(m) = Ok(q4)
  BY <1>1, Zenon DEF q4, q3, q2
<1>. HIDE DEF q4
<1>12. Encode(m).value = q4
  BY <1>11 DEF Ok
<1>. QED BY <1>2, <1>4, <1>7, <1>10, <1>11, <1>12, Zenon
         DEF f1, f2, f3, f4, h, n2, n3, n4, u, b

\* decode gives back the message encode was given.
THEOREM DecodeInvertsEncode ==
    ASSUME NEW m \in MessageType, Encodable(m)
    PROVE  /\ Encode(m).ok /\ Encode(m).value \in Seq(Byte)
           /\ Decode(Encode(m).value) = Ok(m)
<1>. DEFINE p == Encode(m).value
            n64 == Len(m.u64)
            n32 == Len(m.u32)
            nb == Len(m.body)
            hd == 5 * U32Bytes
            u == hd + n64 * U64Bytes
            b == u + n32 * U32Bytes
            h == Read(p, 0, 5, U32Bytes)
<1>1. /\ Encode(m) = Ok(p) /\ hd \in Nat /\ u \in Nat /\ b \in Nat
      /\ nb \in Nat /\ Bytes(p, b + nb) /\ hd <= u /\ u <= b
  BY EncodedParts, Zenon
<1>2. /\ Holds(p, 0, Fields(HeaderOf(m), U32Bytes), hd)
      /\ Holds(p, hd, Fields(m.u64, U64Bytes), n64 * U64Bytes)
      /\ Holds(p, u, Fields(m.u32, U32Bytes), n32 * U32Bytes)
      /\ Holds(p, b, m.body, nb)
  BY EncodedParts, Zenon
<1>. HIDE DEF p
<1>3. p \in Seq(Byte) /\ Len(p) = b + nb
  BY <1>1 DEF Bytes
<1>4. /\ m.type \in 0..LastType /\ m.u64 \in Seq(UInt(U64Bytes))
      /\ m.u32 \in Seq(UInt(U32Bytes)) /\ m.body \in Seq(Byte)
      /\ U32Bytes \in Nat /\ U64Bytes \in Nat /\ n64 \in Nat /\ n32 \in Nat
  BY WireConstants, LenProperties DEF MessageType
<1>5. h = HeaderOf(m)
  <2>1. HeaderOf(m) \in Seq(UInt(U32Bytes)) /\ Len(HeaderOf(m)) = 5
    BY HeaderBytes
  <2>2. 0 + 5 * U32Bytes <= Len(p)
    <3>. HIDE DEF u, b
    <3>. QED BY <1>1, <1>3
  <2>3. Holds(p, 0, Fields(HeaderOf(m), U32Bytes), 5 * U32Bytes)
    BY <1>2
  <2>. DEFINE vs == HeaderOf(m)
  <2>. HIDE DEF vs
  <2>4. Read(p, 0, Len(vs), U32Bytes) = vs
    <3>1. vs \in Seq(UInt(U32Bytes)) /\ 0 \in Nat
      BY <2>1 DEF vs
    <3>2. 0 + Len(vs) * U32Bytes <= Len(p)
      BY <2>1, <2>2 DEF vs
    <3>3. Holds(p, 0, Fields(vs, U32Bytes), Len(vs) * U32Bytes)
      BY <2>1, <2>3, Zenon DEF vs
    <3>. QED BY <1>3, <1>4, <3>1, <3>2, <3>3, ReadFields
  <2>. QED BY <2>1, <2>4, Zenon DEF vs
<1>6. Read(p, hd, n64, U64Bytes) = m.u64
  <2>1. hd + n64 * U64Bytes <= Len(p)
    <3>1. u <= Len(p)
      <4>. HIDE DEF u, b
      <4>. QED BY <1>1, <1>3
    <3>. QED BY <3>1
  <2>. HIDE DEF hd
  <2>. QED BY <1>1, <1>2, <1>3, <1>4, <2>1, ReadFields
<1>7. Read(p, u, n32, U32Bytes) = m.u32
  <2>1. u + n32 * U32Bytes <= Len(p)
    <3>1. b <= Len(p)
      <4>. HIDE DEF b
      <4>. QED BY <1>1, <1>3
    <3>. QED BY <3>1
  <2>. HIDE DEF u
  <2>. QED BY <1>1, <1>2, <1>3, <1>4, <2>1, ReadFields
<1>8. SubSeq(p, b + 1, b + nb) = m.body
  <2>. HIDE DEF b
  <2>1. b + nb <= Len(p)
    BY <1>1, <1>3
  <2>2. Bytes(m.body, nb)
    BY <1>4 DEF Bytes
  <2>3. Part(p, b, nb) = m.body
    BY <1>1, <1>2, <1>3, <2>1, <2>2, PartIs
  <2>. QED BY <2>3 DEF Part
<1>9. /\ h[1] = kProtocolVersion /\ h[2] = m.type /\ h[3] = n64 /\ h[4] = n32 /\ h[5] = nb
  BY <1>5 DEF HeaderOf
<1>. HIDE DEF h
<1>10. h[2] \in 1..LastType /\ WithinLimits(h[3], h[4], h[5])
  <2>1. LastType \in Nat /\ m.type # 0 /\ n64 <= MaxFields /\ n32 <= MaxFields /\ nb <= MaxBody
    BY WireConstants DEF Encodable, UInt
  <2>. QED BY <1>4, <1>9, <2>1 DEF WithinLimits
<1>11. ~(Len(p) < hd) /\ AllConsumed(p, b + nb)
  <2>. HIDE DEF u, b, hd
  <2>. QED BY <1>1, <1>3 DEF AllConsumed
<1>12. Decode(p) = Ok(Message(m.type, m.u64, m.u32, m.body))
  <2>. DEFINE u1 == hd + h[3] * U64Bytes
              b1 == u1 + h[4] * U32Bytes
  <2>1. u1 = u /\ b1 = b
    BY <1>9
  <2>. DEFINE bad == \/ Len(p) < hd
                     \/ h[1] # kProtocolVersion
                     \/ h[2] \notin 1..LastType
                     \/ ~WithinLimits(h[3], h[4], h[5])
                     \/ ~AllConsumed(p, b1 + h[5])
  <2>2. Decode(p) = IF bad THEN Err
                    ELSE Ok(Message(h[2], Read(p, hd, h[3], U64Bytes),
                                    Read(p, u1, h[4], U32Bytes),
                                    SubSeq(p, b1 + 1, b1 + h[5])))
    BY Zenon DEF Decode, h
  <2>. HIDE DEF u1, b1, u, b, hd
  <2>3. ~bad
    BY <1>9, <1>10, <1>11, <2>1
  <2>4. Decode(p) = Ok(Message(h[2], Read(p, hd, h[3], U64Bytes),
                               Read(p, u1, h[4], U32Bytes),
                               SubSeq(p, b1 + 1, b1 + h[5])))
    <3>. HIDE DEF bad
    <3>. QED BY <2>2, <2>3, Zenon
  <2>. QED BY <1>6, <1>7, <1>8, <1>9, <2>1, <2>4, Zenon
<1>13. m = Message(m.type, m.u64, m.u32, m.body)
  BY DEF MessageType, Message
<1>14. Decode(p) = Ok(m)
  BY <1>12, <1>13, Zenon
<1>15. Encode(m).ok
  BY <1>1 DEF Ok
<1>. QED BY <1>3, <1>14, <1>15, Zenon DEF p

\* What is read, written again.
ReadBack(p, k, n, w) ==
    /\ Read(p, k, n, w) \in Seq(UInt(w)) /\ Len(Read(p, k, n, w)) = n
    /\ Fields(Read(p, k, n, w), w) = Part(p, k, n * w)

\* decode accepts nothing but what encode makes of a message: neither truncated
\* nor trailing bytes, and no other number of fields, type or version.
THEOREM DecodeAcceptsEncodings ==
    ASSUME NEW p \in Seq(Byte), Decode(p).ok
    PROVE  /\ Decode(p).value \in MessageType /\ Decode(p) = Ok(Decode(p).value)
           /\ Encode(Decode(p).value) = Ok(p)
<1>. DEFINE hd == 5 * U32Bytes
            h == Read(p, 0, 5, U32Bytes)
            u == hd + h[3] * U64Bytes
            b == u + h[4] * U32Bytes
            u64 == Read(p, hd, h[3], U64Bytes)
            u32 == Read(p, u, h[4], U32Bytes)
            body == SubSeq(p, b + 1, b + h[5])
            d == Message(h[2], u64, u32, body)
            bad == \/ Len(p) < hd
                   \/ h[1] # kProtocolVersion
                   \/ h[2] \notin 1..LastType
                   \/ ~WithinLimits(h[3], h[4], h[5])
                   \/ ~AllConsumed(p, b + h[5])
<1>1. Decode(p) = IF bad THEN Err ELSE Ok(d)
  BY Zenon DEF Decode
<1>2. ~bad /\ Decode(p) = Ok(d)
  <2>. HIDE DEF bad, d
  <2>1. ~bad
    BY <1>1 DEF Err
  <2>. QED BY <1>1, <2>1
<1>3. /\ ~(Len(p) < hd) /\ h[1] = kProtocolVersion /\ h[2] \in 1..LastType
      /\ WithinLimits(h[3], h[4], h[5]) /\ AllConsumed(p, b + h[5])
  BY <1>2, Zenon
<1>4. Len(p) \in Nat /\ U32Bytes \in Nat /\ U64Bytes \in Nat /\ hd \in Nat
  BY WireConstants, LenProperties
<1>reads. ASSUME NEW k \in Nat, NEW n \in Nat, NEW w \in Nat, k + n * w <= Len(p)
          PROVE  ReadBack(p, k, n, w)
  BY <1>reads, FieldsRead DEF ReadBack
<1>5. /\ h \in Seq(UInt(U32Bytes)) /\ Len(h) = 5 /\ Fields(h, U32Bytes) = Part(p, 0, hd)
  <2>1. 0 + 5 * U32Bytes <= Len(p)
    BY <1>3, <1>4
  <2>2. U32Bytes \in Nat /\ 5 \in Nat /\ 0 \in Nat
    BY <1>4
  <2>3. ReadBack(p, 0, 5, U32Bytes)
    BY <1>reads, <2>1, <2>2
  <2>. QED BY <2>3, Zenon DEF ReadBack
<1>. HIDE DEF h
<1>6. h[3] \in Nat /\ h[4] \in Nat /\ h[5] \in Nat
  <2>1. \A i \in 1..5 : h[i] \in UInt(U32Bytes)
    BY <1>5, ElementOfSeq
  <2>. QED BY <2>1 DEF UInt
<1>. DEFINE n2 == h[3] * U64Bytes
            n3 == h[4] * U32Bytes
            n4 == h[5]
<1>7. n2 \in Nat /\ n3 \in Nat /\ n4 \in Nat
  BY <1>4, <1>6
<1>8. Len(p) = b + n4
  BY <1>3 DEF AllConsumed
<1>9. u = hd + n2 /\ b = u + n3
  OBVIOUS
<1>10. /\ u \in Nat /\ b \in Nat /\ hd + n2 <= Len(p) /\ u + n3 <= Len(p) /\ b + n4 <= Len(p)
       /\ 0 + hd + n2 <= Len(p) /\ 0 + u + n3 <= Len(p) /\ 0 + b + n4 <= Len(p)
  <2>. HIDE DEF hd, n2, n3, n4, u, b
  <2>. QED BY <1>4, <1>7, <1>8, <1>9
<1>11. /\ u64 \in Seq(UInt(U64Bytes)) /\ Len(u64) = h[3]
       /\ Fields(u64, U64Bytes) = Part(p, hd, n2)
  <2>1. hd \in Nat /\ h[3] \in Nat /\ U64Bytes \in Nat /\ hd + h[3] * U64Bytes <= Len(p)
    BY <1>4, <1>6, <1>10, Zenon
  <2>. HIDE DEF hd
  <2>2. ReadBack(p, hd, h[3], U64Bytes)
    BY <1>reads, <2>1
  <2>. QED BY <2>2, Zenon DEF ReadBack
<1>12. /\ u32 \in Seq(UInt(U32Bytes)) /\ Len(u32) = h[4]
       /\ Fields(u32, U32Bytes) = Part(p, u, n3)
  <2>1. u \in Nat /\ h[4] \in Nat /\ U32Bytes \in Nat /\ u + h[4] * U32Bytes <= Len(p)
    BY <1>4, <1>6, <1>10, Zenon
  <2>. HIDE DEF u
  <2>2. ReadBack(p, u, h[4], U32Bytes)
    BY <1>reads, <2>1
  <2>. QED BY <2>2, Zenon DEF ReadBack
<1>13. body \in Seq(Byte) /\ Len(body) = h[5] /\ body = Part(p, b, n4)
  <2>. HIDE DEF b
  <2>1. Bytes(Part(p, b, n4), n4)
    BY <1>7, <1>10, PartBytes
  <2>2. body = Part(p, b, n4)
    BY DEF Part
  <2>. QED BY <2>1, <2>2 DEF Bytes
<1>. HIDE DEF u64, u32, body
<1>14. d.type = h[2] /\ d.u64 = u64 /\ d.u32 = u32 /\ d.body = body
  BY DEF Message
<1>15. d \in MessageType
  <2>1. h[2] \in 0..LastType
    BY <1>3, WireConstants DEF UInt
  <2>. QED BY <1>11, <1>12, <1>13, <2>1, SMTT(30) DEF MessageType, Message
<1>16. Encodable(d)
  BY <1>3, <1>11, <1>12, <1>13, <1>14, SMTT(30) DEF Encodable, WithinLimits
<1>17. HeaderOf(d) = h
  <2>1. HeaderOf(d) = <<h[1], h[2], h[3], h[4], h[5]>>
    BY <1>3, <1>11, <1>12, <1>13, <1>14 DEF HeaderOf
  <2>. DEFINE g == <<h[1], h[2], h[3], h[4], h[5]>>
              S == UInt(U32Bytes)
  <2>2. \A i \in 1..5 : h[i] \in S
    BY <1>5, ElementOfSeq
  <2>. HIDE DEF S
  <2>3. g \in Seq(S) /\ Len(g) = 5 /\ \A i \in 1..5 : g[i] = h[i]
    BY <2>2
  <2>4. h \in Seq(S)
    BY <1>5 DEF S
  <2>. HIDE DEF g
  <2>5. g = h
    BY <1>5, <2>3, <2>4, SeqEqual
  <2>. QED BY <2>1, <2>5, Zenon DEF g
<1>. DEFINE P(k, n) == Part(p, k, n)
<1>18. Encode(d) = Ok(((P(0, hd) \o P(hd, n2)) \o P(u, n3)) \o P(b, n4))
  <2>1. Encode(d) = Ok(((Fields(HeaderOf(d), U32Bytes) \o Fields(d.u64, U64Bytes))
                         \o Fields(d.u32, U32Bytes)) \o d.body)
    <3>. HIDE DEF d
    <3>. QED BY <1>16 DEF Encode, HeaderOf
  <2>. HIDE DEF d, hd, n2, n3, n4, u, b
  <2>. QED BY <1>5, <1>11, <1>12, <1>13, <1>14, <1>17, <2>1, Zenon
<1>19. P(0, hd) \o P(hd, n2) = P(0, u)
  <2>. HIDE DEF hd, n2, u
  <2>1. P(0, hd) \o P(0 + hd, n2) = P(0, hd + n2)
    <3>1. 0 \in Nat /\ hd \in Nat /\ n2 \in Nat /\ 0 + hd + n2 <= Len(p)
      BY <1>4, <1>7, <1>10
    <3>. QED BY <3>1, PartsJoin, Zenon
  <2>2. 0 + hd = hd
    BY <1>4
  <2>. QED BY <1>9, <2>1, <2>2, Zenon
<1>20. P(0, u) \o P(u, n3) = P(0, b)
  <2>. HIDE DEF n3, u, b
  <2>1. P(0, u) \o P(0 + u, n3) = P(0, u + n3)
    BY <1>7, <1>10, 0 \in Nat, PartsJoin
  <2>2. 0 + u = u
    BY <1>10
  <2>. QED BY <1>9, <2>1, <2>2, Zenon
<1>21. P(0, b) \o P(b, n4) = p
  <2>. HIDE DEF n4, b
  <2>1. P(0, b) \o P(0 + b, n4) = P(0, b + n4)
    BY <1>7, <1>10, 0 \in Nat, PartsJoin, SMTT(30)
  <2>2. 0 + b = b /\ b + n4 \in Nat
    BY <1>7, <1>10
  <2>3. P(0, b + n4) = p
    <3>. DEFINE n == b + n4
    <3>1. Bytes(p, n) /\ Holds(p, 0, p, n) /\ 0 + n <= Len(p)
      BY <1>4, <1>8, <2>2, HoldsItself DEF Bytes
    <3>. HIDE DEF n
    <3>2. P(0, n) = p
      BY <2>2, <3>1, 0 \in Nat, PartIs DEF n
    <3>. QED BY <3>2 DEF n
  <2>. QED BY <2>1, <2>2, <2>3, Zenon
<1>22. Encode(d) = Ok(p)
  <2>. HIDE DEF P, d, hd, n2, n3, n4, u, b
  <2>. QED BY <1>18, <1>19, <1>20, <1>21, Zenon
<1>23. Decode(p).value = d
  <2>. HIDE DEF d
  <2>. QED BY <1>2 DEF Ok
<1>. HIDE DEF d
<1>. QED BY <1>2, <1>15, <1>22, <1>23, Zenon
-----------------------------------------------------------------------------
(***************************************************************************)
(* Frames under way                                                        *)
(***************************************************************************)

\* What a frame may carry, its bytes, and the messages a receiver finds in it.
Payload == {p \in Seq(Byte) : Len(p) <= MaxFrame}
FrameOf == [p \in Payload |-> Put(Len(p), U32Bytes) \o p]
CarriedBy == [p \in Payload |-> IF Decode(p).ok THEN <<Decode(p).value>> ELSE <<>>]

Framed(ps) == FlattenSeq(Image(FrameOf, ps))
Carried(ps) == FlattenSeq(Image(CarriedBy, ps))

\* The length of a payload fits its prefix; an empty payload carries nothing.
LEMMA PayloadFrame ==
    ASSUME NEW p \in Payload
    PROVE  /\ p \in Seq(Byte) /\ Len(p) \in UInt(U32Bytes) /\ Len(p) \in Nat
           /\ Bytes(Put(Len(p), U32Bytes), U32Bytes) /\ Value(Put(Len(p), U32Bytes)) = Len(p)
           /\ FrameOf[p] = Put(Len(p), U32Bytes) \o p /\ FrameOf[p] \in Seq(Byte)
           /\ CarriedBy[p] \in Seq(MessageType)
           /\ Len(p) = 0 => CarriedBy[p] = <<>>
<1>1. p \in Seq(Byte) /\ Len(p) <= MaxFrame /\ Len(p) \in Nat
  BY LenProperties DEF Payload
<1>2. U32Bytes \in Nat \ {0} /\ MaxFrame \in UInt(U32Bytes)
  BY WireConstants
<1>3. Len(p) \in UInt(U32Bytes)
  BY <1>1, <1>2, UIntDown
<1>4. Bytes(Put(Len(p), U32Bytes), U32Bytes) /\ Value(Put(Len(p), U32Bytes)) = Len(p)
  BY <1>2, <1>3, ValuePut DEF Bytes
<1>5. FrameOf[p] = Put(Len(p), U32Bytes) \o p
  BY Zenon DEF FrameOf
<1>6. FrameOf[p] \in Seq(Byte)
  BY <1>1, <1>4, <1>5, ConcatParts DEF Bytes
<1>7. CarriedBy[p] = IF Decode(p).ok THEN <<Decode(p).value>> ELSE <<>>
  BY Zenon DEF CarriedBy
<1>8. CarriedBy[p] \in Seq(MessageType)
  <2>1. CASE Decode(p).ok
    <3>1. Decode(p).value \in MessageType
      BY <1>1, <2>1, DecodeAcceptsEncodings
    <3>. QED BY <1>7, <2>1, <3>1
  <2>2. CASE ~Decode(p).ok
    BY <1>7, <2>2
  <2>. QED BY <2>1, <2>2
<1>9. ASSUME Len(p) = 0 PROVE CarriedBy[p] = <<>>
  <2>1. Len(p) < 5 * U32Bytes
    BY <1>2, <1>9
  <2>2. Decode(p) = Err
    BY <2>1 DEF Decode
  <2>3. ~Decode(p).ok
    BY <2>2 DEF Err
  <2>. QED BY <1>7, <2>3
<1>. QED BY <1>1, <1>3, <1>4, <1>5, <1>6, <1>8, <1>9

LEMMA FrameFunctions ==
    Maps(FrameOf, Payload, Seq(Byte)) /\ Maps(CarriedBy, Payload, Seq(MessageType))
<1>1. FrameOf = [p \in Payload |-> FrameOf[p]] /\ CarriedBy = [p \in Payload |-> CarriedBy[p]]
  BY DEF FrameOf, CarriedBy
<1>2. \A p \in Payload : FrameOf[p] \in Seq(Byte) /\ CarriedBy[p] \in Seq(MessageType)
  BY PayloadFrame
<1>. QED BY <1>1, <1>2 DEF Maps

\* One more frame is sent.
LEMMA FrameLast ==
    ASSUME NEW ps \in Seq(Payload), NEW p \in Payload
    PROVE  /\ Append(ps, p) \in Seq(Payload)
           /\ Framed(ps) \in Seq(Byte) /\ Carried(ps) \in Seq(MessageType)
           /\ Framed(Append(ps, p)) = Framed(ps) \o FrameOf[p]
           /\ Carried(Append(ps, p)) = Carried(ps) \o CarriedBy[p]
<1>. DEFINE a == Image(FrameOf, ps)
            b == Image(CarriedBy, ps)
<1>1. /\ a \in Seq(Seq(Byte)) /\ FrameOf[p] \in Seq(Byte)
      /\ Image(FrameOf, Append(ps, p)) = Append(a, FrameOf[p])
  BY FrameFunctions, ImageAppend
<1>2. /\ b \in Seq(Seq(MessageType)) /\ CarriedBy[p] \in Seq(MessageType)
      /\ Image(CarriedBy, Append(ps, p)) = Append(b, CarriedBy[p])
  BY FrameFunctions, ImageAppend
<1>. HIDE DEF a, b
<1>3. FlattenSeq(a) \in Seq(Byte) /\ FlattenSeq(Append(a, FrameOf[p])) = FlattenSeq(a) \o FrameOf[p]
  BY <1>1, FlattenAppend
<1>4. /\ FlattenSeq(b) \in Seq(MessageType)
      /\ FlattenSeq(Append(b, CarriedBy[p])) = FlattenSeq(b) \o CarriedBy[p]
  BY <1>2, FlattenAppend
<1>5. Append(ps, p) \in Seq(Payload)
  BY AppendProperties
<1>. QED BY <1>1, <1>2, <1>3, <1>4, <1>5, Zenon DEF Framed, Carried, a, b

\* The frames begin with the first.
LEMMA FrameFirst ==
    ASSUME NEW ps \in Seq(Payload), ps # <<>>
    PROVE  /\ ps[1] \in Payload /\ Tail(ps) \in Seq(Payload)
           /\ Framed(Tail(ps)) \in Seq(Byte) /\ Carried(Tail(ps)) \in Seq(MessageType)
           /\ Framed(ps) = FrameOf[ps[1]] \o Framed(Tail(ps))
           /\ Carried(ps) = CarriedBy[ps[1]] \o Carried(Tail(ps))
<1>. DEFINE p == ps[1]
            qs == Tail(ps)
            a == Image(FrameOf, qs)
            b == Image(CarriedBy, qs)
<1>1. /\ qs \in Seq(Payload) /\ p \in Payload /\ a \in Seq(Seq(Byte)) /\ FrameOf[p] \in Seq(Byte)
      /\ Image(FrameOf, ps) = <<FrameOf[p]>> \o a
  BY FrameFunctions, ImageFirst
<1>2. /\ b \in Seq(Seq(MessageType)) /\ CarriedBy[p] \in Seq(MessageType)
      /\ Image(CarriedBy, ps) = <<CarriedBy[p]>> \o b
  BY FrameFunctions, ImageFirst
<1>. HIDE DEF p, qs
<1>3. Framed(qs) \in Seq(Byte) /\ Carried(qs) \in Seq(MessageType)
  BY <1>1, FrameLast
<1>. HIDE DEF a, b
<1>4. FlattenSeq(<<FrameOf[p]>> \o a) = FrameOf[p] \o FlattenSeq(a)
  BY <1>1, FlattenFirst
<1>5. FlattenSeq(<<CarriedBy[p]>> \o b) = CarriedBy[p] \o FlattenSeq(b)
  BY <1>2, FlattenFirst
<1>6. Framed(ps) = FrameOf[p] \o Framed(qs) /\ Carried(ps) = CarriedBy[p] \o Carried(qs)
  BY <1>1, <1>2, <1>4, <1>5, Zenon DEF Framed, Carried, a, b
<1>. QED BY <1>1, <1>3, <1>6, Zenon DEF p, qs

LEMMA NoFrames == Framed(<<>>) = <<>> /\ Carried(<<>>) = <<>>
<1>1. ASSUME NEW f PROVE Image(f, <<>>) = <<>>
  <2>1. Len(<<>>) = 0 /\ 1..0 = {}
    OBVIOUS
  <2>. QED BY <2>1 DEF Image
<1>2. Image(FrameOf, <<>>) = <<>> /\ Image(CarriedBy, <<>>) = <<>>
  BY <1>1, Zenon
<1>. QED BY <1>2, FlattenEmpty, Zenon DEF Framed, Carried

\* `bytes' are those of some frames, up to the ones `lost' at their end; with the
\* messages in these frames, the messages `done' are all messages.  Nothing is
\* lost of a `whole' stream.
Accounts(bytes, done, all, whole) ==
    \E ps \in Seq(Payload), lost \in Seq(Byte) :
        /\ Framed(ps) = bytes \o lost /\ all = done \o Carried(ps)
        /\ whole => lost = <<>>

\* Concatenation is associative.
LEMMA Regroup ==
    ASSUME NEW S, NEW a \in Seq(S), NEW b \in Seq(S), NEW c \in Seq(S)
    PROVE  /\ (a \o b) \o c = a \o (b \o c)
           /\ a \o b \in Seq(S) /\ b \o c \in Seq(S) /\ (a \o b) \o c \in Seq(S)
           /\ a \o <<>> = a /\ <<>> \o a = a /\ <<>> \in Seq(S)
BY ConcatProperties, ConcatAssociative, ConcatEmptySeq, EmptySeq

Text == Seq(Byte)

LEMMA RegroupBytes ==
    /\ \A a, b, c \in Text : (a \o b) \o c = a \o (b \o c)
    /\ \A a, b \in Text : a \o b \in Text
BY Regroup DEF Text

\* Nothing is under way.
LEMMA AccountsNothing == Accounts(<<>>, <<>>, <<>>, TRUE)
<1>1. <<>> \in Seq(Payload) /\ <<>> \in Seq(Byte)
  OBVIOUS
<1>2. <<>> \o <<>> = <<>>
  OBVIOUS
<1>3. Framed(<<>>) = <<>> \o <<>> /\ <<>> = <<>> \o Carried(<<>>)
  BY <1>2, NoFrames, Zenon
<1>. QED BY <1>1, <1>3, Zenon DEF Accounts

\* A frame is sent behind the others.
LEMMA AccountsSend ==
    ASSUME NEW bytes \in Seq(Byte), NEW done \in Seq(MessageType), NEW all,
           Accounts(bytes, done, all, TRUE), NEW p \in Payload
    PROVE  Accounts(bytes \o FrameOf[p], done, all \o CarriedBy[p], TRUE)
<1>1. PICK ps \in Seq(Payload), lost \in Seq(Byte) :
          Framed(ps) = bytes \o lost /\ all = done \o Carried(ps) /\ lost = <<>>
  BY DEF Accounts
<1>. DEFINE qs == Append(ps, p)
            f == FrameOf[p]
            c == CarriedBy[p]
<1>2. /\ qs \in Seq(Payload) /\ Carried(ps) \in Seq(MessageType)
      /\ Framed(qs) = Framed(ps) \o f /\ Carried(qs) = Carried(ps) \o c
  BY FrameLast, Zenon
<1>3. f \in Seq(Byte) /\ c \in Seq(MessageType)
  BY PayloadFrame
<1>. HIDE DEF qs, f, c
<1>4. Framed(ps) = bytes
  BY <1>1, Regroup
<1>5. bytes \o f \in Seq(Byte) /\ (bytes \o f) \o <<>> = bytes \o f
  BY <1>3, Regroup
<1>6. all \o c = done \o (Carried(ps) \o c)
  <2>. DEFINE k == Carried(ps)
  <2>1. k \in Seq(MessageType) /\ all = done \o k
    BY <1>1, <1>2
  <2>. HIDE DEF k
  <2>2. (done \o k) \o c = done \o (k \o c)
    BY <1>3, <2>1, Regroup, SMTT(30)
  <2>. QED BY <2>1, <2>2, Zenon DEF k
<1>7. Framed(qs) = (bytes \o f) \o <<>> /\ all \o c = done \o Carried(qs)
  BY <1>2, <1>4, <1>5, <1>6, Zenon
<1>8. <<>> \in Seq(Byte)
  OBVIOUS
<1>9. Accounts(bytes \o f, done, all \o c, TRUE)
  BY <1>2, <1>7, <1>8, Zenon DEF Accounts
<1>. QED BY <1>9 DEF f, c

\* The end of the stream is lost.
LEMMA AccountsLose ==
    ASSUME NEW b \in Seq(Byte), NEW c \in Seq(Byte), NEW done, NEW all, NEW whole,
           Accounts(b \o c, done, all, whole)
    PROVE  Accounts(b, done, all, FALSE)
<1>1. PICK ps \in Seq(Payload), lost \in Seq(Byte) :
          Framed(ps) = (b \o c) \o lost /\ all = done \o Carried(ps)
  BY DEF Accounts
<1>2. (b \o c) \o lost = b \o (c \o lost) /\ c \o lost \in Seq(Byte)
  BY Regroup
<1>3. Framed(ps) = b \o (c \o lost)
  BY <1>1, <1>2, Zenon
<1>. QED BY <1>1, <1>2, <1>3, Zenon DEF Accounts

\* What has been delivered is the beginning of what was sent.
LEMMA AccountsPrefix ==
    ASSUME NEW bytes, NEW done \in Seq(MessageType), NEW all, NEW whole,
           Accounts(bytes, done, all, whole)
    PROVE  IsPrefix(done, all)
<1>1. PICK ps \in Seq(Payload) : all = done \o Carried(ps)
  BY DEF Accounts
<1>. DEFINE c == Carried(ps)
<1>2. c \in Seq(MessageType)
  <2>1. CASE ps = <<>>
    <3>1. c = <<>>
      BY <2>1, NoFrames
    <3>. QED BY <3>1
  <2>2. CASE ps # <<>>
    <3>1. ps[1] \in Payload
      BY <2>2, FrameFirst
    <3>. QED BY <3>1, FrameLast
  <2>. QED BY <2>1, <2>2
<1>. HIDE DEF c
<1>3. /\ Len(all) = Len(done) + Len(c) /\ Len(done) \in Nat /\ Len(c) \in Nat
      /\ \A i \in 1..Len(done) : all[i] = done[i]
  BY <1>1, <1>2, ConcatParts DEF c
<1>4. \A i \in 1..Len(done) : done[i] \in MessageType
  BY ElementOfSeq
<1>. QED BY <1>3, <1>4, SMT DEF IsPrefix

\* A byte is under way only if a frame is; the first is taken with what it carries.
LEMMA AccountsFirst ==
    ASSUME NEW bytes \in Seq(Byte), bytes # <<>>, NEW done \in Seq(MessageType), NEW all,
           NEW whole, Accounts(bytes, done, all, whole)
    PROVE  \E p \in Payload, rest \in Seq(Byte), lost \in Seq(Byte) :
              /\ bytes \o lost = (Put(Len(p), U32Bytes) \o p) \o rest
              /\ \A r : rest = r \o lost => Accounts(r, done \o CarriedBy[p], all, whole)
<1>1. PICK ps \in Seq(Payload), lost \in Seq(Byte) :
          /\ Framed(ps) = bytes \o lost /\ all = done \o Carried(ps)
          /\ whole => lost = <<>>
  BY DEF Accounts
<1>2. ps # <<>>
  <2>. SUFFICES ASSUME ps = <<>> PROVE FALSE
    OBVIOUS
  <2>1. bytes \o lost = <<>>
    BY <1>1, NoFrames
  <2>2. Len(bytes \o lost) = Len(bytes) + Len(lost) /\ Len(bytes) \in Nat /\ Len(lost) \in Nat
    BY ConcatParts
  <2>3. Len(<<>>) = 0 /\ Len(bytes) # 0
    BY EmptySeq
  <2>. QED BY <2>1, <2>2, <2>3
<1>. DEFINE p == ps[1]
            qs == Tail(ps)
            rest == Framed(qs)
            c == CarriedBy[p]
            k == Carried(qs)
<1>3. /\ p \in Payload /\ qs \in Seq(Payload) /\ rest \in Seq(Byte) /\ k \in Seq(MessageType)
      /\ Framed(ps) = FrameOf[p] \o rest /\ Carried(ps) = c \o k
  BY <1>2, FrameFirst, Zenon
<1>. HIDE DEF p, qs
<1>4. FrameOf[p] = Put(Len(p), U32Bytes) \o p /\ c \in Seq(MessageType)
  BY <1>3, PayloadFrame
<1>5. bytes \o lost = (Put(Len(p), U32Bytes) \o p) \o rest
  BY <1>1, <1>3, <1>4, Zenon
<1>6. all = (done \o c) \o k
  <2>. HIDE DEF c, k
  <2>1. (done \o c) \o k = done \o (c \o k)
    <3>1. c \in Seq(MessageType) /\ k \in Seq(MessageType)
      BY <1>3, <1>4
    <3>. QED BY <3>1, Regroup
  <2>. QED BY <1>1, <1>3, <2>1, Zenon
<1>7. ASSUME NEW r, rest = r \o lost PROVE Accounts(r, done \o c, all, whole)
  <2>1. /\ Framed(qs) = r \o lost /\ all = (done \o c) \o Carried(qs)
        /\ whole => lost = <<>>
    BY <1>1, <1>6, <1>7, Zenon
  <2>. HIDE DEF c
  <2>. QED BY <1>3, <2>1, Zenon DEF Accounts
<1>. HIDE DEF rest
<1>. QED BY <1>3, <1>5, <1>7, Zenon

\* A concatenation has bytes when its first part has.
LEMMA NotEmpty ==
    ASSUME NEW g \in Seq(Byte), NEW r \in Seq(Byte), Len(g) # 0
    PROVE  g \o r \in Seq(Byte) /\ g \o r # <<>>
<1>1. /\ g \o r \in Seq(Byte) /\ Len(g \o r) = Len(g) + Len(r)
      /\ Len(g) \in Nat /\ Len(r) \in Nat
  BY ConcatParts
<1>2. Len(g \o r) # 0
  BY <1>1
<1>. QED BY <1>1, <1>2, EmptySeq

\* The first four bytes of a stream of frames are the length of the first; when
\* it is empty, the next begins behind them.
LEMMA AccountsLength ==
    ASSUME NEW g, Bytes(g, U32Bytes), NEW r \in Seq(Byte), NEW done \in Seq(MessageType),
           NEW all, NEW whole, Accounts(g \o r, done, all, whole)
    PROVE  \E p \in Payload : /\ g = Put(Len(p), U32Bytes) /\ Value(g) = Len(p)
                              /\ Len(p) = 0 => Accounts(r, done, all, whole)
<1>1. g \in Seq(Byte) /\ Len(g) = U32Bytes /\ Len(g) # 0
  BY WireConstants DEF Bytes
<1>2. g \o r \in Seq(Byte) /\ g \o r # <<>>
  BY <1>1, NotEmpty
<1>3. PICK p \in Payload, rest \in Seq(Byte), lost \in Seq(Byte) :
          /\ (g \o r) \o lost = (Put(Len(p), U32Bytes) \o p) \o rest
          /\ \A x : rest = x \o lost => Accounts(x, done \o CarriedBy[p], all, whole)
  BY <1>2, AccountsFirst, Zenon
<1>. DEFINE h == Put(Len(p), U32Bytes)
<1>4. p \in Seq(Byte) /\ h \in Seq(Byte) /\ Len(h) = U32Bytes /\ Value(h) = Len(p)
  BY PayloadFrame DEF Bytes
<1>. HIDE DEF h
<1>5. (g \o r) \o lost = g \o (r \o lost) /\ r \o lost \in Seq(Byte)
  <2>1. g \in Text /\ r \in Text /\ lost \in Text
    BY <1>1 DEF Text
  <2>2. (g \o r) \o lost = g \o (r \o lost)
    BY <2>1, RegroupBytes, SMTT(30)
  <2>3. r \o lost \in Text
    BY <2>1, RegroupBytes, SMTT(30)
  <2>. QED BY <2>2, <2>3 DEF Text
<1>6. (h \o p) \o rest = h \o (p \o rest) /\ p \o rest \in Seq(Byte)
  <2>1. h \in Text /\ p \in Text /\ rest \in Text
    BY <1>4 DEF Text
  <2>2. (h \o p) \o rest = h \o (p \o rest)
    BY <2>1, RegroupBytes, SMTT(30)
  <2>3. p \o rest \in Text
    BY <2>1, RegroupBytes, SMTT(30)
  <2>. QED BY <2>2, <2>3 DEF Text
<1>7. g \o (r \o lost) = h \o (p \o rest)
  BY <1>3, <1>5, <1>6, Zenon DEF h
<1>. DEFINE y == r \o lost
            z == p \o rest
<1>8. y \in Seq(Byte) /\ z \in Seq(Byte) /\ g \o y = h \o z /\ Len(g) = Len(h)
  BY <1>1, <1>4, <1>5, <1>6, <1>7
<1>. HIDE DEF y, z
<1>9. g = h /\ y = z
  BY <1>1, <1>4, <1>8, ConcatCancel, ZenonT(40)
<1>10. ASSUME Len(p) = 0 PROVE Accounts(r, done, all, whole)
  <2>1. p = <<>>
    BY <1>4, <1>10, EmptySeq
  <2>2. z = rest
    BY <2>1, Regroup DEF z
  <2>3. Accounts(r, done \o CarriedBy[p], all, whole)
    BY <1>3, <1>9, <2>2, Zenon DEF y
  <2>4. CarriedBy[p] = <<>>
    BY <1>10, PayloadFrame
  <2>5. done \o <<>> = done
    BY Regroup
  <2>. QED BY <2>3, <2>4, <2>5, Zenon
<1>. QED BY <1>4, <1>9, <1>10 DEF h

\* The bytes behind a length are the payload.
LEMMA AccountsPayload ==
    ASSUME NEW n \in UInt(U32Bytes), NEW g, Bytes(g, n), NEW r \in Seq(Byte),
           NEW done \in Seq(MessageType), NEW all, NEW whole,
           Accounts((Put(n, U32Bytes) \o g) \o r, done, all, whole)
    PROVE  g \in Payload /\ Accounts(r, done \o CarriedBy[g], all, whole)
<1>. DEFINE e == Put(n, U32Bytes)
<1>1. U32Bytes \in Nat \ {0} /\ g \in Seq(Byte) /\ Len(g) = n
  BY WireConstants DEF Bytes
<1>2. e \in Seq(Byte) /\ Len(e) = U32Bytes /\ Value(e) = n /\ Len(e) # 0
  BY <1>1, ValuePut
<1>3. Accounts((e \o g) \o r, done, all, whole)
  OBVIOUS
<1>. HIDE DEF e
<1>. DEFINE s == g \o r
<1>4. s \in Seq(Byte) /\ (e \o g) \o r = e \o s
  BY <1>1, <1>2, Regroup, SMTT(30)
<1>. HIDE DEF s
<1>5. e \o s \in Seq(Byte) /\ e \o s # <<>>
  BY <1>2, <1>4, NotEmpty
<1>6. Accounts(e \o s, done, all, whole)
  BY <1>3, <1>4, Zenon
<1>7. PICK p \in Payload, rest \in Seq(Byte), lost \in Seq(Byte) :
          /\ (e \o s) \o lost = (Put(Len(p), U32Bytes) \o p) \o rest
          /\ \A x : rest = x \o lost => Accounts(x, done \o CarriedBy[p], all, whole)
  BY <1>5, <1>6, AccountsFirst, Zenon
<1>. DEFINE h == Put(Len(p), U32Bytes)
<1>8. p \in Seq(Byte) /\ h \in Seq(Byte) /\ Len(h) = U32Bytes /\ Value(h) = Len(p)
  BY PayloadFrame DEF Bytes
<1>. HIDE DEF h
<1>. DEFINE y == s \o lost
            z == p \o rest
<1>9. (e \o s) \o lost = e \o y /\ y \in Seq(Byte)
  <2>1. e \in Text /\ s \in Text /\ lost \in Text
    BY <1>2, <1>4 DEF Text
  <2>2. (e \o s) \o lost = e \o y
    BY <2>1, RegroupBytes, SMTT(30)
  <2>3. y \in Text
    BY <2>1, RegroupBytes, SMTT(30)
  <2>. QED BY <2>2, <2>3 DEF Text
<1>10. (h \o p) \o rest = h \o z /\ z \in Seq(Byte)
  <2>1. h \in Text /\ p \in Text /\ rest \in Text
    BY <1>8 DEF Text
  <2>2. (h \o p) \o rest = h \o z
    BY <2>1, RegroupBytes, SMTT(30)
  <2>3. z \in Text
    BY <2>1, RegroupBytes, SMTT(30)
  <2>. QED BY <2>2, <2>3 DEF Text
<1>11. e \o y = h \o z
  <2>. HIDE DEF y, z
  <2>. QED BY <1>7, <1>9, <1>10, Zenon DEF h
<1>. HIDE DEF y, z
<1>12. Len(e) = Len(h)
  BY <1>2, <1>8
<1>13. e = h /\ y = z
  BY <1>2, <1>8, <1>9, <1>10, <1>11, <1>12, ConcatCancel, ZenonT(40)
<1>14. Len(p) = n
  BY <1>2, <1>8, <1>13
<1>. DEFINE x == r \o lost
<1>15. y = g \o x /\ x \in Seq(Byte)
  <2>1. g \in Text /\ r \in Text /\ lost \in Text
    BY <1>1 DEF Text
  <2>2. (g \o r) \o lost = g \o (r \o lost) /\ r \o lost \in Text
    BY <2>1, RegroupBytes, SMTT(30)
  <2>. QED BY <2>2, Zenon DEF y, s, Text
<1>. HIDE DEF x
<1>16. g \o x = p \o rest /\ Len(g) = Len(p)
  BY <1>1, <1>13, <1>14, <1>15 DEF z
<1>17. g = p /\ x = rest
  BY <1>1, <1>8, <1>15, <1>16, ConcatCancel
<1>18. Accounts(r, done \o CarriedBy[p], all, whole)
  BY <1>7, <1>17, Zenon DEF x
<1>. QED BY <1>17, <1>18, Zenon
-----------------------------------------------------------------------------
(***************************************************************************)
(* The connection                                                          *)
(***************************************************************************)

\* The length recv_frame already took, and all bytes from there to the sender.
Taken == IF receiver = "payload" THEN Put(want, U32Bytes) ELSE <<>>
Pending == ((Taken \o got) \o stream) \o toSend

ChannelType ==
    /\ toSend \in Seq(Byte) /\ stream \in Seq(Byte) /\ got \in Seq(Byte)
    /\ sent \in Seq(MessageType) /\ delivered \in Seq(MessageType)
    /\ receiver \in {"length", "payload", "closed"}
    /\ receiver = "length" => want = U32Bytes
    /\ receiver = "payload" => want \in UInt(U32Bytes)

\* As long as no frame boundary is lost, every message sent has been delivered
\* or is in the frames under way, in this order.
InTransit ==
    ~cut /\ receiver # "closed" => Accounts(Pending, delivered, sent, sender = "up")

ChannelInv == ChannelType /\ DeliveredInOrder /\ InTransit

\* What send_frame hands to the socket carries its message.
LEMMA SendableFrame ==
    ASSUME NEW m \in Messages, Encode(m).ok, AddFramePrefix(Encode(m).value).ok
    PROVE  LET p == Encode(m).value
           IN  /\ m \in MessageType /\ p \in Payload
               /\ AddFramePrefix(p).value = FrameOf[p] /\ CarriedBy[p] = <<m>>
<1>. DEFINE p == Encode(m).value
<1>1. m \in MessageType
  BY ChannelConstants
<1>2. Encodable(m)
  BY DEF Encode, Err
<1>3. p \in Seq(Byte) /\ Decode(p) = Ok(m)
  BY <1>1, <1>2, DecodeInvertsEncode
<1>. HIDE DEF p
<1>4. AddFramePrefix(p).ok
  BY DEF p
<1>5. ~(Len(p) > MaxFrame) /\ AddFramePrefix(p) = Ok(Put(Len(p), U32Bytes) \o p)
  BY <1>4 DEF AddFramePrefix, Err
<1>6. p \in Payload
  <2>1. Len(p) \in Nat /\ MaxFrame \in Nat
    BY <1>3, LenProperties, WireConstants DEF UInt
  <2>. QED BY <1>3, <1>5, <2>1 DEF Payload
<1>7. AddFramePrefix(p).value = FrameOf[p]
  BY <1>5, <1>6, PayloadFrame DEF Ok
<1>8. CarriedBy[p] = <<m>>
  <2>1. Decode(p).ok /\ Decode(p).value = m
    BY <1>3 DEF Ok
  <2>2. CarriedBy[p] = IF Decode(p).ok THEN <<Decode(p).value>> ELSE <<>>
    BY <1>6, Zenon DEF CarriedBy
  <2>. QED BY <2>1, <2>2
<1>. QED BY <1>1, <1>6, <1>7, <1>8 DEF p

\* A foreign payload is a frame, or too long for one.
LEMMA ForeignFrame ==
    ASSUME NEW p \in Foreign
    PROVE  \/ p \in Payload /\ AddFramePrefix(p).value = FrameOf[p]
           \/ AddFramePrefix(p).value = <<>>
<1>1. p \in Seq(Byte)
  BY ChannelConstants
<1>2. Len(p) \in Nat /\ MaxFrame \in Nat
  BY <1>1, LenProperties, WireConstants DEF UInt
<1>3. CASE Len(p) > MaxFrame
  <2>1. AddFramePrefix(p) = Err
    BY <1>3 DEF AddFramePrefix
  <2>. QED BY <2>1 DEF Err
<1>4. CASE ~(Len(p) > MaxFrame)
  <2>1. p \in Payload
    BY <1>1, <1>2, <1>4 DEF Payload
  <2>2. AddFramePrefix(p) = Ok(Put(Len(p), U32Bytes) \o p)
    BY <1>4 DEF AddFramePrefix
  <2>. QED BY <2>1, <2>2, PayloadFrame DEF Ok
<1>. QED BY <1>3, <1>4

\* Nothing is delivered from it.
LEMMA ForeignSilent ==
    ASSUME NEW p \in Foreign, p \in Payload
    PROVE  CarriedBy[p] = <<>>
<1>1. p \in Seq(Byte)
  BY ChannelConstants
<1>2. ~Decode(p).ok
  <2>. SUFFICES ASSUME Decode(p).ok PROVE FALSE
    OBVIOUS
  <2>1. Encode(Decode(p).value) = Ok(p)
    BY <1>1, DecodeAcceptsEncodings
  <2>. QED BY <2>1, ChannelConstants
<1>3. CarriedBy[p] = IF Decode(p).ok THEN <<Decode(p).value>> ELSE <<>>
  BY Zenon DEF CarriedBy
<1>. QED BY <1>2, <1>3

\* A round of send or recv moves k bytes.
LEMMA MovedBytes ==
    ASSUME NEW a \in Seq(Byte), NEW k \in 0..Len(a)
    PROVE  /\ SubSeq(a, 1, k) \in Seq(Byte) /\ SubSeq(a, k + 1, Len(a)) \in Seq(Byte)
           /\ SubSeq(a, 1, k) \o SubSeq(a, k + 1, Len(a)) = a
BY ConcatSplit

\* Every action keeps the types.
LEMMA TypeStep == ChannelType /\ [Next]_vars => ChannelType'
<1>. SUFFICES ASSUME ChannelType, [Next]_vars PROVE ChannelType'
  OBVIOUS
<1>types. /\ toSend \in Seq(Byte) /\ stream \in Seq(Byte) /\ got \in Seq(Byte)
      /\ sent \in Seq(MessageType) /\ delivered \in Seq(MessageType)
  BY DEF ChannelType
<1>empty. <<>> \in Seq(Byte)
  OBVIOUS
<1>1. ASSUME NEW m \in Messages, SendFrame(m) PROVE ChannelType'
  <2>. DEFINE p == Encode(m).value
  <2>1. m \in MessageType /\ p \in Payload /\ AddFramePrefix(p).value = FrameOf[p]
    BY <1>1, SendableFrame DEF SendFrame
  <2>2. FrameOf[p] \in Seq(Byte)
    BY <2>1, PayloadFrame
  <2>3. toSend' = AddFramePrefix(p).value /\ sent' = Append(sent, m)
    BY <1>1 DEF SendFrame
  <2>. HIDE DEF p
  <2>4. toSend' \in Seq(Byte)
    BY <2>1, <2>2, <2>3
  <2>5. sent' \in Seq(MessageType)
    BY <1>types, <2>1, <2>3, AppendProperties
  <2>6. UNCHANGED <<stream, receiver, want, got, delivered>>
    BY <1>1 DEF SendFrame
  <2>. QED BY <2>4, <2>5, <2>6 DEF ChannelType
<1>2. ASSUME NEW p \in Foreign, SendForeign(p) PROVE ChannelType'
  <2>1. AddFramePrefix(p).value \in Seq(Byte)
    <3>1. CASE p \in Payload /\ AddFramePrefix(p).value = FrameOf[p]
      BY <3>1, PayloadFrame
    <3>2. CASE AddFramePrefix(p).value = <<>>
      BY <3>2, <1>empty
    <3>. QED BY <3>1, <3>2, ForeignFrame
  <2>2. toSend' = AddFramePrefix(p).value
    BY <1>2 DEF SendForeign
  <2>3. toSend' \in Seq(Byte)
    BY <2>1, <2>2
  <2>4. UNCHANGED <<sent, stream, receiver, want, got, delivered>>
    BY <1>2 DEF SendForeign
  <2>. QED BY <2>3, <2>4 DEF ChannelType
<1>3. ASSUME SendBytes PROVE ChannelType'
  <2>1. PICK k \in 1..Len(toSend) : /\ stream' = stream \o SubSeq(toSend, 1, k)
                                    /\ toSend' = SubSeq(toSend, k + 1, Len(toSend))
    BY <1>3 DEF SendBytes
  <2>2. k \in 0..Len(toSend)
    BY <1>types, LenProperties
  <2>3. SubSeq(toSend, 1, k) \in Seq(Byte) /\ SubSeq(toSend, k + 1, Len(toSend)) \in Seq(Byte)
    BY <1>types, <2>2, MovedBytes
  <2>4. stream' \in Seq(Byte) /\ toSend' \in Seq(Byte)
    BY <1>types, <2>1, <2>3, ConcatParts
  <2>5. UNCHANGED <<sent, receiver, want, got, delivered>>
    BY <1>3 DEF SendBytes
  <2>. QED BY <2>4, <2>5 DEF ChannelType
<1>4. ASSUME SenderDies PROVE ChannelType'
  <2>1. PICK k \in {0, Len(stream) \div 2, Len(stream)} : stream' = SubSeq(stream, 1, k)
    BY <1>4 DEF SenderDies
  <2>2. k \in 0..Len(stream)
    BY <1>types, LenProperties
  <2>3. stream' \in Seq(Byte)
    BY <1>types, <2>1, <2>2, MovedBytes
  <2>4. toSend' = <<>> /\ UNCHANGED <<sent, receiver, want, got, delivered>>
    BY <1>4 DEF SenderDies
  <2>. QED BY <1>empty, <2>3, <2>4 DEF ChannelType
<1>5. ASSUME RecvBytes PROVE ChannelType'
  <2>1. PICK k \in 1..Len(stream) : /\ got' = got \o SubSeq(stream, 1, k)
                                    /\ stream' = SubSeq(stream, k + 1, Len(stream))
    BY <1>5 DEF RecvBytes
  <2>2. k \in 0..Len(stream)
    BY <1>types, LenProperties
  <2>3. SubSeq(stream, 1, k) \in Seq(Byte) /\ SubSeq(stream, k + 1, Len(stream)) \in Seq(Byte)
    BY <1>types, <2>2, MovedBytes
  <2>4. got' \in Seq(Byte) /\ stream' \in Seq(Byte)
    BY <1>types, <2>1, <2>3, ConcatParts
  <2>5. UNCHANGED <<sent, toSend, receiver, want, delivered>>
    BY <1>5 DEF RecvBytes, sending
  <2>. QED BY <2>4, <2>5 DEF ChannelType
<1>6. ASSUME FailsFrame, UNCHANGED <<toSend, stream, sent, delivered>> PROVE ChannelType'
  <2>1. CASE persistent
    BY <1>6, <1>empty, <2>1 DEF FailsFrame, AwaitsFrame, ChannelType
  <2>2. CASE ~persistent
    BY <1>6, <2>2 DEF FailsFrame, ChannelType
  <2>. QED BY <2>1, <2>2
<1>7. ASSUME TakeLength PROVE ChannelType'
  <2>1. UNCHANGED <<toSend, stream, sent, delivered>>
    BY <1>7 DEF TakeLength, sending
  <2>2. CASE LengthAccepted(Value(got))
    <3>1. receiver' = "payload" /\ want' = Value(got) /\ got' = <<>>
      BY <1>7, <2>2 DEF TakeLength
    <3>2. Len(got) = U32Bytes
      BY <1>7 DEF TakeLength, ChannelType
    <3>3. Value(got) \in UInt(U32Bytes)
      BY <1>types, <3>2, PutValue
    <3>. QED BY <1>empty, <2>1, <3>1, <3>3 DEF ChannelType
  <2>3. CASE ~LengthAccepted(Value(got))
    <3>1. FailsFrame
      BY <1>7, <2>3 DEF TakeLength
    <3>. QED BY <1>6, <2>1, <3>1
  <2>. QED BY <2>2, <2>3
<1>8. ASSUME TakePayload PROVE ChannelType'
  <2>1. /\ receiver' = "length" /\ want' = U32Bytes /\ got' = <<>>
        /\ UNCHANGED <<toSend, stream, sent>>
    BY <1>8 DEF TakePayload, AwaitsFrame, sending
  <2>2. delivered' \in Seq(MessageType)
    <3>1. delivered' = IF Decode(got).ok THEN Append(delivered, Decode(got).value) ELSE delivered
      BY <1>8 DEF TakePayload
    <3>2. CASE Decode(got).ok
      <4>1. Decode(got).value \in MessageType
        BY <1>types, <3>2, DecodeAcceptsEncodings
      <4>. QED BY <1>types, <3>1, <3>2, <4>1, AppendProperties
    <3>3. CASE ~Decode(got).ok
      BY <1>types, <3>1, <3>3
    <3>. QED BY <3>2, <3>3
  <2>. QED BY <1>empty, <2>1, <2>2 DEF ChannelType
<1>9. ASSUME RecvFails PROVE ChannelType'
  <2>1. FailsFrame /\ UNCHANGED <<toSend, stream, sent, delivered>>
    BY <1>9 DEF RecvFails, sending
  <2>. QED BY <1>6, <2>1
<1>10. ASSUME UNCHANGED vars PROVE ChannelType'
  BY <1>10 DEF vars, ChannelType
<1>. QED BY <1>1, <1>2, <1>3, <1>4, <1>5, <1>7, <1>8, <1>9, <1>10 DEF Next, Receive

\* Bytes move from one part of the stream to the next.
Join(a, b) == a \o b

LEMMA Shunt ==
    /\ \A a, b, x, y \in Text : Join(Join(a, Join(b, x)), y) = Join(Join(a, b), Join(x, y))
    /\ \A a \in Text : a \o <<>> = a /\ <<>> \o a = a
    /\ <<>> \in Text
<1>1. \A a \in Text : a \o <<>> = a /\ <<>> \o a = a
  BY ConcatEmptySeq DEF Text
<1>2. <<>> \in Text
  BY DEF Text
<1>3. /\ \A a, b, c \in Text : Join(Join(a, b), c) = Join(a, Join(b, c))
      /\ \A a, b \in Text : Join(a, b) \in Text
  BY RegroupBytes DEF Join
<1>4. \A a, b, x, y \in Text : Join(Join(a, Join(b, x)), y) = Join(Join(a, b), Join(x, y))
  BY <1>3
<1>. QED BY <1>1, <1>2, <1>4

LEMMA AccountsWhole ==
    ASSUME NEW b, NEW d, NEW a, NEW w, NEW v, Accounts(b, d, a, w), v => w
    PROVE  Accounts(b, d, a, v)
BY Zenon DEF Accounts

\* All that is under way are bytes.
LEMMA PendingBytes ==
    ASSUME ChannelType
    PROVE  /\ Taken \in Text /\ got \in Text /\ stream \in Text /\ toSend \in Text
           /\ Taken \o got \in Text /\ (Taken \o got) \o stream \in Text
<1>1. got \in Text /\ stream \in Text /\ toSend \in Text
  BY DEF ChannelType, Text
<1>2. Taken \in Text
  <2>1. CASE receiver = "payload"
    <3>1. want \in UInt(U32Bytes) /\ U32Bytes \in Nat
      BY <2>1, WireConstants DEF ChannelType
    <3>2. Put(want, U32Bytes) \in Seq(Byte)
      BY <3>1, ValuePut
    <3>. QED BY <2>1, <3>2 DEF Taken, Text
  <2>2. CASE receiver # "payload"
    BY <2>2 DEF Taken, Text
  <2>. QED BY <2>1, <2>2
<1>. DEFINE t == Taken
<1>. HIDE DEF t
<1>3. t \o got \in Text
  BY <1>1, <1>2, RegroupBytes DEF t
<1>. DEFINE u == t \o got
<1>. HIDE DEF u
<1>4. u \o stream \in Text
  BY <1>1, <1>3, RegroupBytes DEF u
<1>. QED BY <1>1, <1>2, <1>3, <1>4 DEF t, u

\* The hypotheses of the steps below.
Running == ChannelType /\ ~cut /\ receiver # "closed" /\ InTransit

LEMMA Transit ==
    ASSUME Running
    PROVE  Accounts(Pending, delivered, sent, sender = "up") /\ ChannelType
BY DEF Running, InTransit

\* A frame is handed to an idle socket.
LEMMA TransitSend ==
    ASSUME Running, sender = "up", toSend = <<>>, NEW p \in Payload, toSend' = FrameOf[p],
           sent' = sent \o CarriedBy[p],
           UNCHANGED <<sender, stream, receiver, want, got, delivered>>
    PROVE  Accounts(Pending, delivered, sent, sender = "up")'
<1>. DEFINE b == (Taken \o got) \o stream
<1>1. b \in Text
  BY Transit, PendingBytes
<1>2. Taken' = Taken
  BY DEF Taken
<1>3. Pending = b \o <<>> /\ Pending' = b \o FrameOf[p]
  BY <1>2 DEF Pending
<1>. HIDE DEF b
<1>4. Pending = b
  BY <1>1, <1>3, Shunt
<1>5. Accounts(b, delivered, sent, TRUE)
  <2>1. Accounts(b, delivered, sent, sender = "up")
    BY <1>4, Transit
  <2>. QED BY <2>1, AccountsWhole, Zenon
<1>6. b \in Seq(Byte) /\ delivered \in Seq(MessageType)
  BY <1>1, Transit DEF Text, ChannelType
<1>7. Accounts(b \o FrameOf[p], delivered, sent \o CarriedBy[p], TRUE)
  BY <1>5, <1>6, AccountsSend
<1>8. Accounts(Pending', delivered', sent', TRUE)
  BY <1>3, <1>7
<1>9. Accounts(Pending', delivered', sent', sender' = "up")
  BY <1>8, AccountsWhole, Zenon
<1>. QED BY <1>9

\* Bytes go from the sender to the socket.
LEMMA TransitSendBytes ==
    ASSUME Running, SendBytes
    PROVE  Accounts(Pending, delivered, sent, sender = "up")'
<1>1. PICK k \in 1..Len(toSend) : /\ stream' = stream \o SubSeq(toSend, 1, k)
                                  /\ toSend' = SubSeq(toSend, k + 1, Len(toSend))
  BY DEF SendBytes
<1>. DEFINE a == Taken \o got
            x == SubSeq(toSend, 1, k)
            y == SubSeq(toSend, k + 1, Len(toSend))
<1>2. x \in Text /\ y \in Text /\ x \o y = toSend
  <2>1. toSend \in Seq(Byte) /\ k \in 0..Len(toSend)
    BY Transit, LenProperties DEF ChannelType
  <2>. QED BY <2>1, MovedBytes DEF Text
<1>3. UNCHANGED <<sender, sent, receiver, want, got, delivered>>
  BY DEF SendBytes
<1>4. a \in Text /\ stream \in Text
  BY Transit, PendingBytes
<1>5. Pending = (a \o stream) \o toSend /\ Pending' = (a \o (stream \o x)) \o y
  <2>1. Taken' = Taken /\ got' = got
    BY <1>3 DEF Taken
  <2>. QED BY <1>1, <2>1 DEF Pending
<1>. HIDE DEF a, x, y
<1>6. Pending' = (a \o stream) \o (x \o y)
  <2>1. a \in Text /\ stream \in Text /\ x \in Text /\ y \in Text
    BY <1>2, <1>4
  <2>2. (a \o (stream \o x)) \o y = (a \o stream) \o (x \o y)
    <3>1. Join(Join(a, Join(stream, x)), y) = Join(Join(a, stream), Join(x, y))
      BY <2>1, Shunt
    <3>. QED BY <3>1, Zenon DEF Join
  <2>. QED BY <1>5, <2>2, Zenon
<1>7. Pending' = Pending
  BY <1>2, <1>5, <1>6, Zenon
<1>. QED BY <1>3, <1>7, Transit

\* The sender dies with some of them.
LEMMA TransitDies ==
    ASSUME Running, SenderDies
    PROVE  Accounts(Pending, delivered, sent, sender = "up")'
<1>1. PICK k \in {0, Len(stream) \div 2, Len(stream)} : stream' = SubSeq(stream, 1, k)
  BY DEF SenderDies
<1>. DEFINE a == Taken \o got
            x == SubSeq(stream, 1, k)
            y == SubSeq(stream, k + 1, Len(stream))
            z == y \o toSend
<1>2. x \in Text /\ y \in Text /\ x \o y = stream
  <2>1. stream \in Seq(Byte) /\ k \in 0..Len(stream)
    BY Transit, LenProperties DEF ChannelType
  <2>. QED BY <2>1, MovedBytes DEF Text
<1>3. /\ sender' = "gone" /\ toSend' = <<>>
      /\ UNCHANGED <<sent, receiver, want, got, delivered>>
  BY DEF SenderDies
<1>4. a \in Text /\ toSend \in Text
  BY Transit, PendingBytes
<1>5. Pending = (a \o stream) \o toSend /\ Pending' = (a \o x) \o <<>>
  <2>1. Taken' = Taken /\ got' = got
    BY <1>3 DEF Taken
  <2>. QED BY <1>1, <1>3, <2>1 DEF Pending
<1>. HIDE DEF a, x, y
<1>6. a \o x \in Text /\ z \in Text
  BY <1>2, <1>4, RegroupBytes
<1>7. Pending' = a \o x
  <2>. DEFINE c == a \o x
  <2>. HIDE DEF c
  <2>1. c \o <<>> = c
    BY <1>6, Shunt DEF c
  <2>. QED BY <1>5, <2>1 DEF c
<1>8. Pending = (a \o x) \o z
  <2>1. (a \o (x \o y)) \o toSend = (a \o x) \o (y \o toSend)
    <3>1. a \in Text /\ toSend \in Text /\ x \in Text /\ y \in Text
      BY <1>2, <1>4
    <3>2. Join(Join(a, Join(x, y)), toSend) = Join(Join(a, x), Join(y, toSend))
      BY <3>1, Shunt
    <3>. QED BY <3>2, Zenon DEF Join
  <2>. QED BY <1>2, <1>5, <2>1, Zenon
<1>. HIDE DEF z
<1>9. Accounts((a \o x) \o z, delivered, sent, sender = "up")
  BY <1>8, Transit
<1>. DEFINE c == a \o x
<1>10. c \in Seq(Byte) /\ z \in Seq(Byte)
  BY <1>6 DEF Text
<1>. HIDE DEF c
<1>11. Accounts(c, delivered, sent, FALSE)
  BY <1>9, <1>10, AccountsLose DEF c
<1>12. ~(sender' = "up")
  BY <1>3
<1>13. Accounts(c, delivered, sent, sender' = "up")
  BY <1>11, <1>12, AccountsWhole, Zenon
<1>. QED BY <1>3, <1>7, <1>13 DEF c

\* Bytes go from the socket to the receiver.
LEMMA TransitRecvBytes ==
    ASSUME Running, RecvBytes
    PROVE  Accounts(Pending, delivered, sent, sender = "up")'
<1>1. PICK k \in 1..Len(stream) : /\ got' = got \o SubSeq(stream, 1, k)
                                  /\ stream' = SubSeq(stream, k + 1, Len(stream))
  BY DEF RecvBytes
<1>. DEFINE x == SubSeq(stream, 1, k)
            y == SubSeq(stream, k + 1, Len(stream))
            t == Taken
<1>2. x \in Text /\ y \in Text /\ x \o y = stream
  <2>1. stream \in Seq(Byte) /\ k \in 0..Len(stream)
    BY Transit, LenProperties DEF ChannelType
  <2>. QED BY <2>1, MovedBytes DEF Text
<1>3. UNCHANGED <<sender, sent, toSend, receiver, want, delivered>>
  BY DEF RecvBytes, sending
<1>4. t \in Text /\ got \in Text
  BY Transit, PendingBytes
<1>5. Pending = ((t \o got) \o stream) \o toSend /\ Pending' = ((t \o (got \o x)) \o y) \o toSend
  <2>1. Taken' = Taken
    BY <1>3 DEF Taken
  <2>. QED BY <1>1, <1>3, <2>1 DEF Pending
<1>. HIDE DEF x, y, t
<1>6. (t \o (got \o x)) \o y = (t \o got) \o (x \o y)
  <2>1. t \in Text /\ got \in Text /\ x \in Text /\ y \in Text
    BY <1>2, <1>4
  <2>2. Join(Join(t, Join(got, x)), y) = Join(Join(t, got), Join(x, y))
    BY <2>1, Shunt
  <2>. QED BY <2>2, Zenon DEF Join
<1>7. Pending' = Pending
  BY <1>2, <1>5, <1>6, Zenon
<1>. QED BY <1>3, <1>7, Transit

\* The stream behind what the receiver has.
LEMMA PendingBehind ==
    ASSUME ChannelType
    PROVE  /\ stream \o toSend \in Text
           /\ Pending = (Taken \o got) \o (stream \o toSend)
           /\ receiver # "payload" => Pending = got \o (stream \o toSend)
<1>. DEFINE a == Taken \o got
<1>1. a \in Text /\ got \in Text /\ stream \in Text /\ toSend \in Text
  BY PendingBytes
<1>2. Pending = (a \o stream) \o toSend
  BY DEF Pending
<1>3. ASSUME receiver # "payload" PROVE a = got
  <2>1. Taken = <<>>
    BY <1>3 DEF Taken
  <2>. QED BY <1>1, <2>1, Shunt
<1>. HIDE DEF a
<1>4. stream \o toSend \in Text /\ (a \o stream) \o toSend = a \o (stream \o toSend)
  <2>1. Join(stream, toSend) \in Text
    BY <1>1, RegroupBytes DEF Join
  <2>2. (a \o stream) \o toSend = a \o (stream \o toSend)
    BY <1>1, RegroupBytes
  <2>. QED BY <2>1, <2>2 DEF Join
<1>5. Pending = a \o (stream \o toSend)
  BY <1>2, <1>4, Zenon
<1>6. receiver # "payload" => Pending = got \o (stream \o toSend)
  BY <1>3, <1>5, Zenon
<1>. QED BY <1>4, <1>5, <1>6 DEF a

\* The receiver has a length: that of the first frame.  The frame is empty when
\* recv_frame refuses it.
LEMMA TransitLength ==
    ASSUME Running, TakeLength, receiver' # "closed"
    PROVE  Accounts(Pending, delivered, sent, sender = "up")'
<1>. DEFINE r == stream \o toSend
<1>1. /\ receiver = "length" /\ Len(got) = U32Bytes
      /\ UNCHANGED <<sender, stream, toSend, sent, delivered>>
  BY Transit DEF TakeLength, ChannelType, sending
<1>2. r \in Text /\ Pending = got \o r
  BY <1>1, Transit, PendingBehind
<1>3. ASSUME NEW t \in Text, Taken' = t, got' = <<>> PROVE Pending' = t \o r
  <2>1. stream \in Text /\ toSend \in Text
    BY Transit, PendingBytes
  <2>2. Pending' = ((t \o <<>>) \o stream) \o toSend
    BY <1>1, <1>3 DEF Pending
  <2>3. t \o <<>> = t
    BY Shunt
  <2>4. (t \o stream) \o toSend = t \o r
    BY <2>1, RegroupBytes, SMTT(30)
  <2>. QED BY <2>2, <2>3, <2>4, Zenon
<1>. HIDE DEF r
<1>4. /\ Bytes(got, U32Bytes) /\ r \in Seq(Byte) /\ delivered \in Seq(MessageType)
      /\ Accounts(got \o r, delivered, sent, sender = "up")
  BY <1>1, <1>2, Transit DEF ChannelType, Bytes, Text
<1>5. PICK p \in Payload : /\ got = Put(Len(p), U32Bytes) /\ Value(got) = Len(p)
                           /\ Len(p) = 0 => Accounts(r, delivered, sent, sender = "up")
  BY <1>4, AccountsLength
<1>6. CASE LengthAccepted(Value(got))
  <2>1. receiver' = "payload" /\ want' = Value(got) /\ got' = <<>>
    BY <1>6 DEF TakeLength
  <2>2. Taken' = got
    BY <1>5, <2>1 DEF Taken
  <2>3. got \in Text
    BY <1>4 DEF Bytes, Text
  <2>4. Pending' = got \o r
    BY <1>3, <2>1, <2>2, <2>3
  <2>. QED BY <1>1, <1>4, <2>4
<1>7. CASE ~LengthAccepted(Value(got))
  <2>1. Len(p) = 0
    <3>1. Len(p) \in Nat /\ Len(p) <= MaxFrame
      BY PayloadFrame DEF Payload
    <3>. QED BY <1>5, <1>7, <3>1 DEF LengthAccepted
  <2>2. receiver' = "length" /\ got' = <<>>
    BY <1>7 DEF TakeLength, FailsFrame, AwaitsFrame
  <2>3. Taken' = <<>> /\ <<>> \in Text
    BY <2>2, Shunt DEF Taken
  <2>4. Pending' = <<>> \o r
    BY <1>3, <2>2, <2>3
  <2>5. Pending' = r
    BY <1>2, <2>4, Shunt
  <2>. QED BY <1>1, <1>5, <2>1, <2>5
<1>. QED BY <1>6, <1>7

\* The receiver has a payload: that of the first frame.
LEMMA TransitPayload ==
    ASSUME Running, TakePayload
    PROVE  Accounts(Pending, delivered, sent, sender = "up")'
<1>. DEFINE r == stream \o toSend
<1>1. /\ receiver = "payload" /\ Len(got) = want /\ receiver' = "length" /\ got' = <<>>
      /\ UNCHANGED <<sender, stream, toSend, sent>>
      /\ delivered' = IF Decode(got).ok THEN Append(delivered, Decode(got).value)
                      ELSE delivered
  BY DEF TakePayload, AwaitsFrame, sending
<1>2. r \in Text /\ Pending = (Put(want, U32Bytes) \o got) \o r
  <2>1. Taken = Put(want, U32Bytes)
    BY <1>1 DEF Taken
  <2>. QED BY <2>1, Transit, PendingBehind
<1>3. Pending' = <<>> \o r
  <2>1. stream \in Text /\ toSend \in Text /\ <<>> \in Text
    BY Transit, PendingBytes, Shunt
  <2>2. Taken' = <<>>
    BY <1>1 DEF Taken
  <2>3. Pending' = ((<<>> \o <<>>) \o stream) \o toSend
    BY <1>1, <2>2 DEF Pending
  <2>4. <<>> \o <<>> = <<>>
    BY <2>1, Shunt
  <2>5. (<<>> \o stream) \o toSend = <<>> \o r
    BY <2>1, RegroupBytes, SMTT(30)
  <2>. QED BY <2>3, <2>4, <2>5, Zenon
<1>. HIDE DEF r
<1>4. Pending' = r
  BY <1>2, <1>3, Shunt
<1>5. /\ want \in UInt(U32Bytes) /\ Bytes(got, want) /\ r \in Seq(Byte)
      /\ delivered \in Seq(MessageType)
  BY <1>1, <1>2, Transit DEF ChannelType, Bytes, Text
<1>6. Accounts((Put(want, U32Bytes) \o got) \o r, delivered, sent, sender = "up")
  BY <1>2, Transit
<1>7. got \in Payload /\ Accounts(r, delivered \o CarriedBy[got], sent, sender = "up")
  BY <1>5, <1>6, AccountsPayload
<1>8. delivered' = delivered \o CarriedBy[got]
  <2>1. CarriedBy[got] = IF Decode(got).ok THEN <<Decode(got).value>> ELSE <<>>
    BY <1>7, Zenon DEF CarriedBy
  <2>2. CASE Decode(got).ok
    <3>. DEFINE d == Decode(got).value
    <3>1. d \in MessageType
      BY <1>5, <2>2, DecodeAcceptsEncodings DEF Bytes
    <3>2. delivered' = Append(delivered, d) /\ CarriedBy[got] = <<d>>
      BY <1>1, <2>1, <2>2
    <3>. HIDE DEF d
    <3>3. Append(delivered, d) = delivered \o <<d>>
      BY <1>5, <3>1, AppendIsConcat
    <3>. QED BY <3>2, <3>3
  <2>3. CASE ~Decode(got).ok
    BY <1>1, <1>5, <2>1, <2>3, Regroup
  <2>. QED BY <2>2, <2>3
<1>. QED BY <1>1, <1>4, <1>7, <1>8

\* No action disturbs what is under way, unless it loses a frame boundary or ends
\* the connection.
LEMMA TransitStep ==
    ASSUME Running, Next, ~cut', receiver' # "closed"
    PROVE  Accounts(Pending, delivered, sent, sender = "up")'
<1>1. ASSUME NEW m \in Messages, SendFrame(m)
      PROVE  Accounts(Pending, delivered, sent, sender = "up")'
  <2>. DEFINE p == Encode(m).value
  <2>1. /\ m \in MessageType /\ p \in Payload /\ AddFramePrefix(p).value = FrameOf[p]
        /\ CarriedBy[p] = <<m>>
    BY <1>1, SendableFrame DEF SendFrame
  <2>2. /\ sender = "up" /\ toSend = <<>> /\ toSend' = AddFramePrefix(p).value
        /\ sent' = Append(sent, m)
        /\ UNCHANGED <<sender, stream, receiver, want, got, delivered>>
    BY <1>1 DEF SendFrame
  <2>. HIDE DEF p
  <2>3. Append(sent, m) = sent \o <<m>>
    <3>1. sent \in Seq(MessageType)
      BY Transit DEF ChannelType
    <3>. QED BY <2>1, <3>1, AppendIsConcat
  <2>4. toSend' = FrameOf[p] /\ sent' = sent \o CarriedBy[p]
    BY <2>1, <2>2, <2>3
  <2>. QED BY <2>1, <2>2, <2>4, TransitSend
<1>2. ASSUME NEW p \in Foreign, SendForeign(p)
      PROVE  Accounts(Pending, delivered, sent, sender = "up")'
  <2>1. /\ sender = "up" /\ toSend = <<>> /\ toSend' = AddFramePrefix(p).value
        /\ UNCHANGED <<sender, sent, stream, receiver, want, got, delivered>>
    BY <1>2 DEF SendForeign
  <2>2. CASE p \in Payload /\ AddFramePrefix(p).value = FrameOf[p]
    <3>1. sent \in Seq(MessageType)
      BY Transit DEF ChannelType
    <3>2. sent \o <<>> = sent
      BY <3>1, ConcatEmptySeq
    <3>3. CarriedBy[p] = <<>>
      BY <2>2, ForeignSilent
    <3>4. toSend' = FrameOf[p] /\ sent' = sent \o CarriedBy[p]
      BY <2>1, <2>2, <3>2, <3>3, Zenon
    <3>. QED BY <2>1, <2>2, <3>4, TransitSend
  <2>3. CASE AddFramePrefix(p).value = <<>>
    <3>1. Taken' = Taken
      BY <2>1 DEF Taken
    <3>2. Pending' = Pending
      BY <2>1, <2>3, <3>1 DEF Pending
    <3>. QED BY <2>1, <3>2, Transit
  <2>. QED BY <2>2, <2>3, ForeignFrame
<1>3. CASE SendBytes
  BY <1>3, TransitSendBytes
<1>4. CASE SenderDies
  BY <1>4, TransitDies
<1>5. CASE RecvBytes
  BY <1>5, TransitRecvBytes
<1>6. CASE TakeLength
  BY <1>6, TransitLength
<1>7. CASE TakePayload
  BY <1>7, TransitPayload
<1>8. CASE RecvFails
  <2>1. persistent
    BY <1>8 DEF RecvFails, FailsFrame
  <2>2. receiver = "length" /\ got = <<>>
    BY <1>8, <2>1, Transit DEF RecvFails, Running, ChannelType
  <2>3. receiver' = "length" /\ got' = <<>>
    BY <1>8, <2>1 DEF RecvFails, FailsFrame, AwaitsFrame
  <2>4. UNCHANGED <<sender, stream, toSend, sent, delivered>>
    BY <1>8 DEF RecvFails, sending
  <2>5. Taken' = <<>> /\ Taken = <<>>
    BY <2>2, <2>3 DEF Taken
  <2>6. Pending' = Pending
    BY <2>2, <2>3, <2>4, <2>5 DEF Pending
  <2>. QED BY <2>4, <2>6, Transit
<1>. QED BY <1>1, <1>2, <1>3, <1>4, <1>5, <1>6, <1>7, <1>8 DEF Next, Receive

\* A prefix stays one when a message is sent.
LEMMA PrefixAppended ==
    ASSUME NEW S, NEW d \in Seq(S), NEW s \in Seq(S), NEW e \in S, IsPrefix(d, s)
    PROVE  IsPrefix(d, Append(s, e))
<1>1. Len(d) \in Nat /\ Len(s) \in Nat /\ Len(Append(s, e)) = Len(s) + 1
  BY LenProperties, AppendProperties
<1>2. Len(d) <= Len(s) /\ SubSeq(d, 1, Len(d)) = SubSeq(s, 1, Len(d))
  BY DEF IsPrefix
<1>3. SubSeq(Append(s, e), 1, Len(d)) = SubSeq(s, 1, Len(d))
  BY <1>1, <1>2, PrefixOfAppend
<1>. QED BY <1>1, <1>2, <1>3 DEF IsPrefix

\* While the connection is closed or a boundary is lost, DeliveredInOrder is not at
\* risk: a closed receiver delivers nothing.
LEMMA ClosedStep ==
    ASSUME ChannelType, DeliveredInOrder, Next, ~cut', receiver = "closed" \/ receiver' = "closed"
    PROVE  DeliveredInOrder'
<1>1. ~cut
  BY DEF Next, Receive, SendFrame, SendForeign, SendBytes, SenderDies, RecvBytes, TakeLength,
         TakePayload, RecvFails
<1>2. IsPrefix(delivered, sent)
  BY <1>1 DEF DeliveredInOrder
<1>3. delivered' = delivered
  <2>1. CASE TakePayload
    BY <2>1 DEF TakePayload, AwaitsFrame
  <2>2. CASE ~TakePayload
    BY <2>2 DEF Next, Receive, SendFrame, SendForeign, SendBytes, SenderDies, RecvBytes,
                TakeLength, RecvFails
  <2>. QED BY <2>1, <2>2
<1>4. sent' = sent \/ \E m \in Messages : sent' = Append(sent, m)
  BY DEF Next, Receive, SendFrame, SendForeign, SendBytes, SenderDies, RecvBytes,
         TakeLength, TakePayload, RecvFails, sending
<1>5. IsPrefix(delivered, sent')
  <2>1. CASE sent' = sent
    BY <1>2, <2>1
  <2>2. ASSUME NEW m \in Messages, sent' = Append(sent, m)
        PROVE  IsPrefix(delivered, sent')
    <3>1. /\ delivered \in Seq(MessageType) /\ sent \in Seq(MessageType)
          /\ m \in MessageType
      BY ChannelConstants DEF ChannelType
    <3>. QED BY <1>2, <2>2, <3>1, PrefixAppended
  <2>. QED BY <1>4, <2>1, <2>2
<1>. QED BY <1>3, <1>5 DEF DeliveredInOrder

\* The invariant is inductive.
LEMMA ChannelStart == Init => ChannelInv
<1>. SUFFICES ASSUME Init PROVE ChannelInv
  OBVIOUS
<1>1. /\ sender = "up" /\ toSend = <<>> /\ stream = <<>> /\ receiver = "length"
      /\ want = U32Bytes /\ got = <<>> /\ sent = <<>> /\ delivered = <<>>
  BY DEF Init
<1>2. ChannelType
  BY <1>1 DEF ChannelType
<1>3. Pending = <<>>
  <2>1. Taken = <<>>
    BY <1>1 DEF Taken
  <2>2. <<>> \o <<>> = <<>>
    OBVIOUS
  <2>3. Pending = ((<<>> \o <<>>) \o <<>>) \o <<>>
    BY <1>1, <2>1 DEF Pending
  <2>. QED BY <2>2, <2>3, Zenon
<1>4. Accounts(Pending, delivered, sent, sender = "up")
  <2>1. Accounts(<<>>, <<>>, <<>>, sender = "up")
    BY AccountsNothing, AccountsWhole, Zenon
  <2>. QED BY <1>1, <1>3, <2>1
<1>5. IsPrefix(delivered, sent)
  BY <1>2, <1>4, AccountsPrefix DEF ChannelType
<1>. QED BY <1>2, <1>4, <1>5 DEF ChannelInv, InTransit, DeliveredInOrder

LEMMA ChannelStep == ChannelInv /\ [Next]_vars => ChannelInv'
<1>. SUFFICES ASSUME ChannelInv, [Next]_vars PROVE ChannelInv'
  OBVIOUS
<1>1. ChannelType /\ ChannelType' /\ DeliveredInOrder /\ InTransit
  BY TypeStep DEF ChannelInv
<1>2. CASE Next
  <2>1. ~cut' => ~cut
    BY <1>2 DEF Next, Receive, SendFrame, SendForeign, SendBytes, SenderDies, RecvBytes,
                TakeLength, TakePayload, RecvFails
  <2>2. receiver = "closed" => receiver' = "closed"
    BY <1>2 DEF Next, Receive, SendFrame, SendForeign, SendBytes, SenderDies, RecvBytes,
                TakeLength, TakePayload, RecvFails
  <2>3. CASE ~cut' /\ receiver' # "closed"
    <3>1. Running
      BY <1>1, <2>1, <2>2, <2>3 DEF Running
    <3>2. Accounts(Pending, delivered, sent, sender = "up")'
      BY <1>2, <2>3, <3>1, TransitStep
    <3>3. delivered' \in Seq(MessageType)
      BY <1>1 DEF ChannelType
    <3>4. IsPrefix(delivered', sent')
      BY <3>2, <3>3, AccountsPrefix
    <3>. QED BY <1>1, <3>2, <3>4 DEF ChannelInv, InTransit, DeliveredInOrder
  <2>4. CASE ~cut' /\ receiver' = "closed"
    <3>1. DeliveredInOrder'
      BY <1>1, <1>2, <2>4, ClosedStep
    <3>. QED BY <1>1, <2>4, <3>1 DEF ChannelInv, InTransit
  <2>5. CASE cut'
    BY <1>1, <2>5 DEF ChannelInv, InTransit, DeliveredInOrder
  <2>. QED BY <2>3, <2>4, <2>5
<1>3. CASE UNCHANGED vars
  BY <1>1, <1>3 DEF vars, ChannelInv, InTransit, DeliveredInOrder, Pending, Taken
<1>. QED BY <1>2, <1>3

\* On every connection, whatever messages are sent and wherever TCP cuts the bytes
\* of send_all and recv_exact: until a receive timeout loses a frame boundary, the
\* bytes from the receiver back to the sender are a sequence of frames, the last one
\* cut off only by the sender's death, and what they carry is what has been sent and
\* not yet delivered.
THEOREM ChannelInvariant == Spec => []ChannelInv
<1>. QED BY ChannelStart, ChannelStep, PTL DEF Spec

\* recvm delivers the messages of sendm unchanged and in order, none twice and none
\* left out, unless the receive timeout of the driver strikes inside a frame.
THEOREM InOrder == Spec => []DeliveredInOrder
<1>1. ChannelInv => DeliveredInOrder
  BY DEF ChannelInv
<1>. QED BY <1>1, ChannelInvariant, PTL

\* A payload recv_frame returns is accepted by decode only if it is byte for byte
\* what encode makes of the decoded message, also when the boundary of a frame was
\* lost and the payload is the middle of one.
THEOREM EncodingsOnly == Spec => []OnlyEncodingsAccepted
<1>1. ChannelInv => OnlyEncodingsAccepted
  <2>. SUFFICES ASSUME ChannelInv, Decode(got).ok PROVE Encode(Decode(got).value) = Ok(got)
    BY DEF OnlyEncodingsAccepted
  <2>1. got \in Seq(Byte)
    BY DEF ChannelInv, ChannelType
  <2>. QED BY <2>1, DecodeAcceptsEncodings
<1>. QED BY <1>1, ChannelInvariant, PTL
=============================================================================
