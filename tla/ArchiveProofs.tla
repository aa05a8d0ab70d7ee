---------------------------- MODULE ArchiveProofs ----------------------------
(***************************************************************************)
(* FileStore and the archive format, proved for any word size, limits,     *)
(* ids and archives, and any sequence of saves, crashes, short writes and  *)
(* damaged units.                                                          *)
(*                                                                         *)
(*   1. The format: deserialize_archive inverts serialize_archive.  Its    *)
(*      loop is followed from request to request (ReadSoFar).              *)
(*   2. The file: only an untouched, complete file ends with the checksum  *)
(*      of the rest of it (FileInv).                                       *)
(***************************************************************************)
EXTENDS ArchiveStore, SequenceLemmas

\* What the fields of an archive may hold.
Word == 0..(WordBase - 1)
DoubleWord == 0..(WordBase * WordBase - 1)
Unit == {"w"} \X Word
Committed == {s \in Seq(Unit) : Len(s) < WordBase}
Request == [id : DoubleWord, sequence : DoubleWord, attempt : DoubleWord, epoch : DoubleWord,
            auth_gen : DoubleWord, state_id : DoubleWord, state_gen : DoubleWord,
            committed : Committed]
Archive == [epoch : DoubleWord, requests : {s \in Seq(Request) : Len(s) < WordBase}]

Serialized(a) == [i \in 1..Len(a.requests) |-> SerializeRequest(a.requests[i])]
Payload(a) == Header(1, a.epoch, Len(a.requests)) \o FlattenSeq(Serialized(a))

\* Whatever a file may consist of.
AnyUnit == Unit \cup {Torn} \cup {Crc(p) : p \in Seq(Unit)}
-----------------------------------------------------------------------------
(***************************************************************************)
(* Numbers                                                                 *)
(***************************************************************************)

\* Both halves of a 64-bit number are words, and give it back.
LEMMA Halves ==
    ASSUME NEW n \in DoubleWord
    PROVE  /\ n % WordBase \in Word /\ (n \div WordBase) % WordBase \in Word
           /\ (n % WordBase) + WordBase * ((n \div WordBase) % WordBase) = n
<1>. DEFINE q == n \div WordBase
            m == n % WordBase
<1>1. WordBase \in Nat \ {0, 1} /\ n \in Nat /\ n < WordBase * WordBase
  BY FormatConstants DEF DoubleWord
<1>2. q \in Nat /\ m \in Word /\ n = WordBase * q + m
  BY <1>1 DEF Word
<1>. HIDE DEF q, m
<1>3. q < WordBase
  <2>1. WordBase * q < WordBase * WordBase
    BY <1>1, <1>2 DEF Word
  <2>. QED BY <1>1, <1>2, <2>1
<1>4. q % WordBase = q
  BY <1>1, <1>2, <1>3
<1>. QED BY <1>1, <1>2, <1>3, <1>4 DEF q, m, Word

\* A unit of data reads as the word in it.
LEMMA WordUnit ==
    ASSUME NEW n \in Nat
    PROVE  /\ <<"w", n % WordBase>> \in Unit
           /\ U32(n) = <<<<"w", n % WordBase>>>>
           /\ Number(<<"w", n % WordBase>>) = n % WordBase
           /\ n < WordBase => n % WordBase = n
BY FormatConstants DEF Unit, Word, U32, Number

\* A 64-bit number is two units.
LEMMA DoubleUnit ==
    ASSUME NEW n \in DoubleWord
    PROVE  /\ U64(n) \in Seq(Unit) /\ Len(U64(n)) = 2
           /\ Number(U64(n)[1]) + WordBase * Number(U64(n)[2]) = n
<1>. DEFINE x == <<"w", n % WordBase>>
            y == <<"w", (n \div WordBase) % WordBase>>
<1>1. n \in Nat /\ n \div WordBase \in Nat
  BY FormatConstants DEF DoubleWord
<1>2. x \in Unit /\ y \in Unit
  BY <1>1, WordUnit
<1>3. U64(n) = <<x>> \o <<y>>
  BY DEF U64, U32
<1>4. Number(x) = n % WordBase /\ Number(y) = (n \div WordBase) % WordBase
  BY DEF Number
<1>. HIDE DEF x, y
<1>5. <<x>> \in Seq(Unit) /\ <<y>> \in Seq(Unit) /\ Len(<<x>>) = 1 /\ Len(<<y>>) = 1
  BY <1>2
<1>6. /\ U64(n) \in Seq(Unit) /\ Len(U64(n)) = 2
      /\ U64(n)[1] = <<x>>[1] /\ U64(n)[2] = <<y>>[1]
  BY <1>3, <1>5, ConcatProperties
<1>. QED BY <1>4, <1>6, Halves

\* p is k units of data.
Blob(p, k) == p \in Seq(Unit) /\ Len(p) = k

\* The first k units of q are those of p.
Kept(q, p, k) ==
    /\ \A i \in 1..k : q[i] = p[i]
    /\ \A i \in 1..(k - 1) : Number64(q, i) = Number64(p, i)

\* The m units after the first k of q are t.
Follows(q, k, t, m) == \A i \in 1..m : q[k + i] = t[i]

\* Numbers are read alike from a blob and from anything it begins.
LEMMA NumbersKept ==
    ASSUME NEW k \in Nat, NEW m \in Nat, NEW p, NEW t, Blob(p, k), Blob(t, m)
    PROVE  /\ Blob(p \o t, k + m) /\ Kept(p \o t, p, k)
           /\ Follows(p \o t, k, t, m)
<1>1. /\ p \o t \in Seq(Unit) /\ Len(p \o t) = Len(p) + Len(t)
      /\ \A i \in 1..Len(p) : (p \o t)[i] = p[i]
      /\ \A i \in 1..Len(t) : (p \o t)[Len(p) + i] = t[i]
  <2>1. p \in Seq(Unit) /\ t \in Seq(Unit)
    BY DEF Blob
  <2>. QED BY <2>1, ConcatParts
<1>2. Len(p) = k /\ Len(t) = m
  BY DEF Blob
<1>. DEFINE q == p \o t
<1>3. \A i \in 1..k : q[i] = p[i]
  BY <1>1, <1>2, Zenon
<1>. HIDE DEF q
<1>4. ASSUME NEW i \in 1..(k - 1) PROVE Number64(q, i) = Number64(p, i)
  <2>1. i \in 1..k /\ i + 1 \in 1..k
    OBVIOUS
  <2>2. q[i] = p[i] /\ q[i + 1] = p[i + 1]
    BY <1>3, <2>1
  <2>. QED BY <2>2 DEF Number64
<1>5. Kept(q, p, k)
  BY <1>3, <1>4 DEF Kept
<1>. QED BY <1>1, <1>2, <1>5, Zenon DEF q, Blob, Follows

\* A 64-bit field is read after what precedes it.
LEMMA NextDouble ==
    ASSUME NEW k \in Nat, NEW p, Blob(p, k), NEW n \in DoubleWord
    PROVE  /\ Blob(p \o U64(n), k + 2) /\ Kept(p \o U64(n), p, k)
           /\ Number64(p \o U64(n), k + 1) = n
<1>. DEFINE t == U64(n)
            q == p \o t
<1>1. Blob(t, 2) /\ Number(t[1]) + WordBase * Number(t[2]) = n
  BY DoubleUnit DEF Blob
<1>. HIDE DEF t
<1>2. Blob(q, k + 2) /\ Kept(q, p, k) /\ Follows(q, k, t, 2)
  BY <1>1, NumbersKept
<1>. HIDE DEF q
<1>3. q[k + 1] = t[1] /\ q[(k + 1) + 1] = t[2]
  <2>1. 1 \in 1..2 /\ 2 \in 1..2 /\ (k + 1) + 1 = k + 2
    OBVIOUS
  <2>. QED BY <1>2, <2>1, Zenon DEF Follows
<1>4. Number64(q, k + 1) = n
  BY <1>1, <1>3 DEF Number64
<1>. QED BY <1>2, <1>4 DEF t, q

\* A 32-bit field is read after what precedes it.
LEMMA NextWord ==
    ASSUME NEW k \in Nat, NEW p, Blob(p, k), NEW n \in Word
    PROVE  /\ Blob(p \o U32(n), k + 1) /\ Kept(p \o U32(n), p, k)
           /\ Number((p \o U32(n))[k + 1]) = n
<1>. DEFINE u == <<"w", n % WordBase>>
            q == p \o U32(n)
<1>1. n \in Nat /\ n < WordBase
  BY FormatConstants DEF Word
<1>2. U32(n) = <<u>> /\ u \in Unit /\ Number(u) = n
  BY <1>1, WordUnit
<1>. HIDE DEF u
<1>3. Blob(<<u>>, 1) /\ <<u>>[1] = u
  BY <1>2 DEF Blob
<1>4. q = p \o <<u>>
  BY <1>2
<1>. HIDE DEF q
<1>5. Blob(q, k + 1) /\ Kept(q, p, k) /\ Follows(q, k, <<u>>, 1)
  BY <1>3, <1>4, NumbersKept
<1>6. q[k + 1] = u
  BY <1>3, <1>5, 1 \in 1..1, Zenon DEF Follows
<1>. QED BY <1>2, <1>5, <1>6 DEF q
-----------------------------------------------------------------------------
(***************************************************************************)
(* One request                                                             *)
(***************************************************************************)

\* Where the fields of a serialized request are.
Fields(s, r) ==
    /\ Number64(s, 1) = r.id /\ Number64(s, 3) = r.sequence /\ Number64(s, 5) = r.attempt
    /\ Number64(s, 7) = r.epoch /\ Number64(s, 9) = r.auth_gen
    /\ Number64(s, 11) = r.state_id /\ Number64(s, 13) = r.state_gen

\* A serialized request has its fields there, then its tokens.
LEMMA RequestUnits ==
    ASSUME NEW r \in Request
    PROVE  LET s == SerializeRequest(r)
               n == Len(r.committed)
           IN  /\ n \in Word /\ Blob(s, 15 + n)
               /\ Fields(s, r) /\ Number(s[15]) = n
               /\ Follows(s, 15, r.committed, n)
<1>. DEFINE n == Len(r.committed)
            p1 == U64(r.id)
            p2 == p1 \o U64(r.sequence)
            p3 == p2 \o U64(r.attempt)
            p4 == p3 \o U64(r.epoch)
            p5 == p4 \o U64(r.auth_gen)
            p6 == p5 \o U64(r.state_id)
            p7 == p6 \o U64(r.state_gen)
            p8 == p7 \o U32(n)
            p9 == p8 \o r.committed
<1>1. /\ r.id \in DoubleWord /\ r.sequence \in DoubleWord /\ r.attempt \in DoubleWord
      /\ r.epoch \in DoubleWord /\ r.auth_gen \in DoubleWord
      /\ r.state_id \in DoubleWord /\ r.state_gen \in DoubleWord
  BY DEF Request
<1>2. Blob(r.committed, n) /\ n \in Nat /\ n \in Word
  <2>1. r.committed \in Seq(Unit) /\ n < WordBase
    BY DEF Request, Committed
  <2>2. n \in Nat
    BY <2>1, LenProperties
  <2>. QED BY <2>1, <2>2, FormatConstants DEF Word, Blob
<1>3. SerializeRequest(r) = p9
  BY DEF SerializeRequest
<1>4. Blob(p1, 2) /\ Number64(p1, 1) = r.id
  BY <1>1, DoubleUnit DEF Number64, Blob
<1>. HIDE DEF n, p1
<1>5. Blob(p2, 4) /\ Kept(p2, p1, 2) /\ Number64(p2, 3) = r.sequence
  BY <1>1, <1>4, NextDouble
<1>. HIDE DEF p2
<1>6. Blob(p3, 6) /\ Kept(p3, p2, 4) /\ Number64(p3, 5) = r.attempt
  BY <1>1, <1>5, NextDouble
<1>. HIDE DEF p3
<1>7. Blob(p4, 8) /\ Kept(p4, p3, 6) /\ Number64(p4, 7) = r.epoch
  BY <1>1, <1>6, NextDouble
<1>. HIDE DEF p4
<1>8. Blob(p5, 10) /\ Kept(p5, p4, 8) /\ Number64(p5, 9) = r.auth_gen
  BY <1>1, <1>7, NextDouble
<1>. HIDE DEF p5
<1>9. Blob(p6, 12) /\ Kept(p6, p5, 10) /\ Number64(p6, 11) = r.state_id
  BY <1>1, <1>8, NextDouble
<1>. HIDE DEF p6
<1>10. Blob(p7, 14) /\ Kept(p7, p6, 12) /\ Number64(p7, 13) = r.state_gen
  BY <1>1, <1>9, NextDouble
<1>. HIDE DEF p7
<1>11. Blob(p8, 15) /\ Kept(p8, p7, 14) /\ Number(p8[15]) = n
  <2>1. Blob(p8, 14 + 1) /\ Kept(p8, p7, 14) /\ Number(p8[14 + 1]) = n
    BY <1>2, <1>10, 14 \in Nat, NextWord, Zenon
  <2>. HIDE DEF p8
  <2>. QED BY <2>1
<1>. HIDE DEF p8
<1>12. Blob(p9, 15 + n) /\ Kept(p9, p8, 15) /\ Follows(p9, 15, r.committed, n)
  BY <1>2, <1>11, NumbersKept
<1>. HIDE DEF p9
<1>13. Number64(p7, 1) = r.id /\ Number64(p7, 3) = r.sequence /\ Number64(p7, 5) = r.attempt
  BY <1>4, <1>5, <1>6, <1>7, <1>8, <1>9, <1>10 DEF Kept
<1>14. Number64(p7, 7) = r.epoch /\ Number64(p7, 9) = r.auth_gen /\ Number64(p7, 11) = r.state_id
  BY <1>7, <1>8, <1>9, <1>10 DEF Kept
<1>15. ASSUME NEW i \in 1..13 PROVE Number64(p9, i) = Number64(p7, i)
  BY <1>11, <1>12 DEF Kept
<1>16. Fields(p9, r)
  BY <1>10, <1>13, <1>14, <1>15 DEF Fields
<1>17. Number(p9[15]) = n
  BY <1>11, <1>12 DEF Kept
<1>. QED BY <1>2, <1>3, <1>12, <1>16, <1>17 DEF n
-----------------------------------------------------------------------------
(***************************************************************************)
(* The whole archive                                                       *)
(***************************************************************************)

\* Where the fields of the header are.
LEMMA HeaderUnits ==
    ASSUME NEW e \in DoubleWord, NEW c \in Word
    PROVE  LET h == Header(1, e, c)
           IN  /\ Blob(h, 5) /\ h[1] = Magic /\ Number(h[2]) = 1
               /\ Number64(h, 3) = e /\ Number(h[5]) = c
<1>. DEFINE p1 == <<Magic>>
            p2 == p1 \o U32(1)
            p3 == p2 \o U64(e)
            p4 == p3 \o U32(c)
<1>1. Blob(p1, 1) /\ p1[1] = Magic
  BY FormatConstants DEF Blob, Magic, Unit, Word
<1>2. 1 \in Word
  BY FormatConstants DEF Word
<1>3. Header(1, e, c) = p4
  BY DEF Header
<1>. HIDE DEF p1
<1>4. Blob(p2, 2) /\ Kept(p2, p1, 1) /\ Number(p2[2]) = 1
  <2>1. Blob(p2, 1 + 1) /\ Kept(p2, p1, 1) /\ Number(p2[1 + 1]) = 1
    BY <1>1, <1>2, 1 \in Nat, NextWord, Zenon
  <2>. HIDE DEF p2
  <2>. QED BY <2>1
<1>. HIDE DEF p2
<1>5. Blob(p3, 4) /\ Kept(p3, p2, 2) /\ Number64(p3, 3) = e
  BY <1>4, NextDouble
<1>. HIDE DEF p3
<1>6. Blob(p4, 5) /\ Kept(p4, p3, 4) /\ Number(p4[5]) = c
  <2>1. Blob(p4, 4 + 1) /\ Kept(p4, p3, 4) /\ Number(p4[4 + 1]) = c
    BY <1>5, 4 \in Nat, NextWord, Zenon
  <2>. HIDE DEF p4
  <2>. QED BY <2>1
<1>. HIDE DEF p4
<1>7. p4[1] = Magic /\ Number(p4[2]) = 1 /\ Number64(p4, 3) = e
  BY <1>1, <1>4, <1>5, <1>6 DEF Kept
<1>. QED BY <1>3, <1>6, <1>7

\* The requests of an archive, serialized one by one.
LEMMA SerializedRequests ==
    ASSUME NEW a \in Archive
    PROVE  /\ Serialized(a) \in Seq(Seq(Unit)) /\ Len(Serialized(a)) = Len(a.requests)
           /\ Len(a.requests) \in Word /\ a.requests \in Seq(Request)
           /\ \A i \in 1..Len(a.requests) :
                 a.requests[i] \in Request /\ Serialized(a)[i] = SerializeRequest(a.requests[i])
<1>. DEFINE n == Len(a.requests)
<1>1. a.requests \in Seq(Request) /\ n < WordBase
  BY DEF Archive
<1>2. n \in Nat /\ \A i \in 1..n : a.requests[i] \in Request
  BY <1>1, LenProperties, ElementOfSeq
<1>3. n \in Word
  BY <1>1, <1>2, FormatConstants DEF Word
<1>4. ASSUME NEW i \in 1..n PROVE SerializeRequest(a.requests[i]) \in Seq(Unit)
  <2>1. Blob(SerializeRequest(a.requests[i]), 15 + Len(a.requests[i].committed))
    BY <1>2, RequestUnits
  <2>. QED BY <2>1 DEF Blob
<1>5. /\ Serialized(a) \in [1..n -> Seq(Unit)]
      /\ \A i \in 1..n : Serialized(a)[i] = SerializeRequest(a.requests[i])
  BY <1>4 DEF Serialized
<1>. QED BY <1>1, <1>2, <1>3, <1>5, FunctionIsSequence

\* Units of the archive before request i + 1.
Before(a, i) == 5 + Len(FlattenSeq(SubSeq(Serialized(a), 1, i)))

\* The payload is the header and what the serialized requests make.
LEMMA PayloadUnits ==
    ASSUME NEW a \in Archive
    PROVE  LET h == Header(1, a.epoch, Len(a.requests))
               flat == FlattenSeq(Serialized(a))
           IN  /\ flat \in Seq(Unit) /\ Len(flat) \in Nat
               /\ Blob(Payload(a), 5 + Len(flat))
               /\ Kept(Payload(a), h, 5) /\ Follows(Payload(a), 5, flat, Len(flat))
               /\ Payload(a)[1] = Magic /\ Number(Payload(a)[2]) = 1
               /\ Number64(Payload(a), 3) = a.epoch /\ Number(Payload(a)[5]) = Len(a.requests)
<1>. DEFINE h == Header(1, a.epoch, Len(a.requests))
            flat == FlattenSeq(Serialized(a))
            ss == Serialized(a)
<1>1. flat \in Seq(Unit) /\ Len(flat) \in Nat
  <2>1. ss \in Seq(Seq(Unit)) /\ <<>> \in Seq(Unit)
    BY SerializedRequests, EmptySeq
  <2>. HIDE DEF ss
  <2>2. FlattenSeq(ss) \in Seq(Unit)
    BY <2>1, FlattenAppend
  <2>. QED BY <2>2, LenProperties DEF ss
<1>2. a.epoch \in DoubleWord /\ Len(a.requests) \in Word
  BY SerializedRequests DEF Archive
<1>3. /\ Blob(h, 5) /\ h[1] = Magic /\ Number(h[2]) = 1
      /\ Number64(h, 3) = a.epoch /\ Number(h[5]) = Len(a.requests)
  BY <1>2, HeaderUnits
<1>4. Payload(a) = h \o flat
  BY DEF Payload
<1>. HIDE DEF h, flat
<1>5. Blob(flat, Len(flat))
  BY <1>1 DEF Blob
<1>6. Blob(Payload(a), 5 + Len(flat)) /\ Kept(Payload(a), h, 5) /\ Follows(Payload(a), 5, flat, Len(flat))
  BY <1>1, <1>3, <1>4, <1>5, NumbersKept
<1>7. /\ Payload(a)[1] = Magic /\ Number(Payload(a)[2]) = 1
      /\ Number64(Payload(a), 3) = a.epoch /\ Number(Payload(a)[5]) = Len(a.requests)
  BY <1>3, <1>6 DEF Kept
<1>. QED BY <1>1, <1>6, <1>7 DEF h, flat

\* Sealing adds the checksum, which is no unit of data.
LEMMA SealedUnits ==
    ASSUME NEW a \in Archive
    PROVE  LET b == SerializeArchive(a)
               n == Len(Payload(a))
           IN  /\ b = Sealed(Payload(a)) /\ Payload(a) \in Seq(Unit) /\ n \in Nat /\ n >= 5
               /\ b \in Seq(AnyUnit) /\ Len(b) = n + 1 /\ b # <<>>
               /\ \A i \in 1..n : b[i] = Payload(a)[i]
               /\ b[n + 1] = Crc(Payload(a)) /\ Readable(b) = n + 1
<1>. DEFINE p == Payload(a)
            b == SerializeArchive(a)
            n == Len(p)
<1>1. b = Append(p, Crc(p)) /\ b = Sealed(p)
  BY DEF SerializeArchive, Payload, Serialized, Sealed
<1>2. p \in Seq(Unit) /\ n \in Nat /\ n >= 5
  <2>1. Blob(p, 5 + Len(FlattenSeq(Serialized(a)))) /\ Len(FlattenSeq(Serialized(a))) \in Nat
    BY PayloadUnits
  <2>. QED BY <2>1 DEF Blob
<1>. HIDE DEF p
<1>3. p \in Seq(AnyUnit) /\ Crc(p) \in AnyUnit
  <2>1. Unit \subseteq AnyUnit /\ Crc(p) \in AnyUnit
    BY <1>2 DEF AnyUnit
  <2>2. \A i \in 1..n : p[i] \in AnyUnit
    BY <1>2, <2>1, ElementOfSeq
  <2>3. p \in [1..n -> AnyUnit]
    BY <1>2, <2>2, LenProperties
  <2>. QED BY <1>2, <2>1, <2>3, FunctionIsSequence
<1>4. /\ b \in Seq(AnyUnit) /\ b # <<>> /\ Len(b) = n + 1
      /\ \A i \in 1..n : b[i] = p[i]
      /\ b[n + 1] = Crc(p)
  <2>. DEFINE c == Crc(p)
  <2>1. b = Append(p, c) /\ c \in AnyUnit
    BY <1>1, <1>3
  <2>. HIDE DEF c, b
  <2>. QED BY <1>3, <2>1, AppendProperties DEF c
<1>5. Crc(p) # Torn
  <2>1. Crc(p)[1] = "crc" /\ Torn[1] = "torn"
    BY DEF Crc, Torn
  <2>. QED BY <2>1
<1>6. Readable(b) = n + 1
  BY <1>2, <1>4, <1>5 DEF Readable, Last
<1>. QED BY <1>1, <1>2, <1>4, <1>6 DEF p

\* A 64-bit number within a part of a blob.
LEMMA NumberWithin ==
    ASSUME NEW k \in Nat, NEW m \in Nat, NEW q, NEW s, Follows(q, k, s, m), NEW j \in 1..(m - 1)
    PROVE  Number64(q, k + j) = Number64(s, j)
<1>1. j \in 1..m /\ j + 1 \in 1..m /\ k + (j + 1) = (k + j) + 1
  OBVIOUS
<1>2. q[k + j] = s[j] /\ q[k + (j + 1)] = s[j + 1]
  BY <1>1, Zenon DEF Follows
<1>3. q[(k + j) + 1] = s[j + 1]
  BY <1>1, <1>2, Zenon
<1>. QED BY <1>2, <1>3, Zenon DEF Number64

\* Where request i + 1 is in the archive.
LEMMA RequestPlace ==
    ASSUME NEW a \in Archive, NEW i \in Nat, i < Len(a.requests)
    PROVE  LET r == a.requests[i + 1]
               n == Len(r.committed)
               b == SerializeArchive(a)
           IN  /\ r \in Request /\ n \in Nat /\ Before(a, i) \in Nat
               /\ Before(a, i + 1) = Before(a, i) + 15 + n
               /\ Before(a, i) + 15 + n < Len(b)
               /\ Follows(b, Before(a, i), SerializeRequest(r), 15 + n)
<1>. DEFINE r == a.requests[i + 1]
            n == Len(r.committed)
            b == SerializeArchive(a)
            s == SerializeRequest(r)
            ss == Serialized(a)
            flat == FlattenSeq(ss)
            before == Len(FlattenSeq(SubSeq(ss, 1, i)))
            after == Len(FlattenSeq(SubSeq(ss, 1, i + 1)))
            p == Payload(a)
<1>1. i + 1 \in 1..Len(a.requests)
  BY SerializedRequests DEF Word
<1>2. r \in Request /\ ss[i + 1] = s
  BY <1>1, SerializedRequests
<1>3. n \in Nat /\ Blob(s, 15 + n)
  BY <1>2, RequestUnits DEF Word
<1>4. Len(s) = 15 + n
  BY <1>3 DEF Blob
<1>5. /\ before \in Nat /\ after = before + Len(s)
      /\ before + Len(s) <= Len(flat)
      /\ \A j \in 1..Len(s) : flat[before + j] = s[j]
  <2>1. ss \in Seq(Seq(Unit)) /\ i < Len(ss)
    BY SerializedRequests
  <2>. HIDE DEF ss
  <2>2. /\ before \in Nat /\ after = before + Len(ss[i + 1])
        /\ before + Len(ss[i + 1]) <= Len(flat)
        /\ \A j \in 1..Len(ss[i + 1]) : flat[before + j] = ss[i + 1][j]
    BY <2>1, FlattenPart
  <2>. HIDE DEF before, after, flat, s
  <2>. QED BY <1>2, <2>2
<1>6. Len(flat) \in Nat /\ Blob(p, 5 + Len(flat)) /\ Follows(p, 5, flat, Len(flat))
  BY PayloadUnits
<1>7. Len(p) = 5 + Len(flat) /\ Len(b) = Len(p) + 1 /\ \A j \in 1..Len(p) : b[j] = p[j]
  BY <1>6, SealedUnits DEF Blob
<1>8. Before(a, i) = 5 + before /\ Before(a, i + 1) = 5 + after
  BY DEF Before
<1>. HIDE DEF r, n, b, s, ss, flat, before, after, p
<1>9. ASSUME NEW j \in 1..(15 + n) PROVE b[(5 + before) + j] = s[j]
  <2>1. /\ before + j \in 1..Len(flat) /\ 5 + (before + j) = (5 + before) + j
        /\ (5 + before) + j \in 1..Len(p) /\ j \in 1..Len(s)
    BY <1>3, <1>4, <1>5, <1>6, <1>7
  <2>2. flat[before + j] = s[j] /\ p[5 + (before + j)] = flat[before + j]
    BY <1>5, <1>6, <2>1, Zenon DEF Follows
  <2>. QED BY <1>7, <2>1, <2>2
<1>10. Follows(b, Before(a, i), s, 15 + n)
  BY <1>8, <1>9, Zenon DEF Follows
<1>11. /\ Before(a, i) \in Nat /\ Before(a, i + 1) = Before(a, i) + 15 + n
       /\ Before(a, i) + 15 + n < Len(b)
  BY <1>3, <1>4, <1>5, <1>6, <1>7, <1>8
<1>. QED BY <1>2, <1>3, <1>10, <1>11 DEF r, n, b, s
-----------------------------------------------------------------------------
(***************************************************************************)
(* deserialize_archive                                                     *)
(***************************************************************************)

\* The state of the loop after the first i requests.
ReadSoFar(a, i, code) ==
    [pos |-> Before(a, i), code |-> code, requests |-> SubSeq(a.requests, 1, i)]

\* One round of the loop reads the next request, or refuses its token count.
LEMMA ReadNext ==
    ASSUME NEW a \in Archive, NEW i \in Nat, i < Len(a.requests)
    PROVE  ReadRequest(SerializeArchive(a), ReadSoFar(a, i, "")) =
             IF Len(a.requests[i + 1].committed) > MaxTokens
             THEN ReadSoFar(a, i, "out_of_range")
             ELSE ReadSoFar(a, i + 1, "")
<1>. DEFINE b == SerializeArchive(a)
            r == a.requests[i + 1]
            n == Len(r.committed)
            p == Before(a, i)
            s == SerializeRequest(r)
            st == ReadSoFar(a, i, "")
<1>1. /\ r \in Request /\ n \in Nat /\ p \in Nat /\ Before(a, i + 1) = p + 15 + n
      /\ p + 15 + n < Len(b) /\ Follows(b, p, s, 15 + n)
  BY RequestPlace
<1>2. Blob(s, 15 + n) /\ Fields(s, r) /\ Number(s[15]) = n /\ Follows(s, 15, r.committed, n)
  BY <1>1, RequestUnits
<1>3. Len(b) \in Nat /\ Readable(b) = Len(b)
  BY SealedUnits
<1>4. st.pos = p /\ st.code = "" /\ st.requests = SubSeq(a.requests, 1, i)
  BY DEF ReadSoFar
<1>. HIDE DEF b, p, s, n
<1>5. Number(b[p + 15]) = n
  <2>1. 15 \in 1..(15 + n)
    BY <1>1
  <2>2. b[p + 15] = s[15]
    BY <1>1, <2>1, Zenon DEF Follows
  <2>. QED BY <1>2, <2>2
<1>6. ASSUME NEW j \in 1..14 PROVE Number64(b, p + j) = Number64(s, j)
  <2>0. n \in Nat
    BY <1>1
  <2>1. 15 + n \in Nat /\ j \in 1..((15 + n) - 1)
    BY <2>0
  <2>2. p \in Nat /\ Follows(b, p, s, 15 + n)
    BY <1>1
  <2>. QED BY <2>1, <2>2, NumberWithin
<1>7. /\ Number64(b, p + 1) = r.id /\ Number64(b, p + 3) = r.sequence
      /\ Number64(b, p + 5) = r.attempt /\ Number64(b, p + 7) = r.epoch
      /\ Number64(b, p + 9) = r.auth_gen /\ Number64(b, p + 11) = r.state_id
      /\ Number64(b, p + 13) = r.state_gen
  BY <1>2, <1>6, SMTT(30) DEF Fields
<1>8. Tokens(b, p + 16, n) = r.committed
  <2>. DEFINE c == r.committed
              t == Tokens(b, p + 16, n)
  <2>1. c \in Seq(Unit) /\ Len(c) = n
    BY <1>1 DEF Request, Committed, n
  <2>2. ASSUME NEW j \in 1..n PROVE b[p + 15 + j] = c[j] /\ c[j] \in Unit
    <3>1. 15 + j \in 1..(15 + n) /\ p + (15 + j) = p + 15 + j /\ j \in 1..Len(c)
      BY <1>1, <2>1
    <3>2. b[p + (15 + j)] = s[15 + j] /\ s[15 + j] = c[j]
      BY <1>1, <1>2, <3>1, Zenon DEF Follows
    <3>. QED BY <2>1, <3>1, <3>2, ElementOfSeq
  <2>. HIDE DEF c
  <2>. DEFINE lo == p + 16
              hi == (p + 16) + n - 1
  <2>3. \A k \in lo..hi : b[k] \in Unit
    <3>1. ASSUME NEW k \in lo..hi PROVE b[k] \in Unit
      <4>1. k - (p + 15) \in 1..n /\ p + 15 + (k - (p + 15)) = k
        BY <1>1
      <4>. QED BY <2>2, <4>1
    <3>. QED BY <3>1
  <2>4. lo \in Int /\ hi \in Int /\ hi - lo + 1 = n /\ (IF lo <= hi THEN hi - lo + 1 ELSE 0) = n
    BY <1>1
  <2>5. t = SubSeq(b, lo, hi)
    BY DEF Tokens
  <2>6. \A j \in 1..n : lo + j - 1 = p + 15 + j
    BY <1>1
  <2>. HIDE DEF lo, hi, t
  <2>7. t \in Seq(Unit) /\ Len(t) = n /\ \A j \in 1..n : t[j] = b[lo + j - 1]
    BY <2>3, <2>4, <2>5, SubSeqProperties
  <2>8. \A j \in 1..n : t[j] = c[j]
    BY <2>2, <2>6, <2>7
  <2>9. t = c
    BY <2>1, <2>7, <2>8, SeqEqual
  <2>. QED BY <2>9 DEF t, c
<1>9. PersistedRequest(Number64(b, p + 1), Number64(b, p + 3), Number64(b, p + 5),
                       Number64(b, p + 7), Number64(b, p + 9), Number64(b, p + 11),
                       Number64(b, p + 13), Tokens(b, p + 16, n)) = r
  <2>1. PersistedRequest(r.id, r.sequence, r.attempt, r.epoch, r.auth_gen, r.state_id,
                         r.state_gen, r.committed) = r
    BY <1>1 DEF PersistedRequest, Request
  <2>. QED BY <1>7, <1>8, <2>1
<1>10. Append(SubSeq(a.requests, 1, i), r) = SubSeq(a.requests, 1, i + 1)
  BY SerializedRequests, NextPrefix
<1>11. ~(p + 15 > Readable(b)) /\ ~(p + 15 + n > Readable(b))
  BY <1>1, <1>3
<1>12. ReadRequest(b, st) =
         IF n > MaxTokens THEN [st EXCEPT !.code = "out_of_range"]
         ELSE [pos |-> p + 15 + n, code |-> "", requests |-> SubSeq(a.requests, 1, i + 1)]
  <2>. HIDE DEF st, r
  <2>1. ReadRequest(b, st) =
         IF n > MaxTokens THEN [st EXCEPT !.code = "out_of_range"]
         ELSE [pos |-> p + 15 + n, code |-> "", requests |-> Append(st.requests, r)]
    BY <1>4, <1>5, <1>9, <1>11, Zenon DEF ReadRequest
  <2>. QED BY <1>4, <1>10, <2>1
<1>13. [st EXCEPT !.code = "out_of_range"] = ReadSoFar(a, i, "out_of_range")
  <2>1. ASSUME NEW x, NEW y
        PROVE  [[pos |-> x, code |-> "", requests |-> y] EXCEPT !.code = "out_of_range"]
                 = [pos |-> x, code |-> "out_of_range", requests |-> y]
    <3>. DEFINE c == [[pos |-> x, code |-> "", requests |-> y] EXCEPT !.code = "out_of_range"]
    <3>1. /\ c \in [pos : {x}, code : {"", "out_of_range"}, requests : {y}]
          /\ c.pos = x /\ c.code = "out_of_range" /\ c.requests = y
      OBVIOUS
    <3>. HIDE DEF c
    <3>2. c = [pos |-> c.pos, code |-> c.code, requests |-> c.requests]
      BY <3>1
    <3>. QED BY <3>1, <3>2 DEF c
  <2>. QED BY <2>1, Zenon DEF ReadSoFar, p
<1>14. [pos |-> p + 15 + n, code |-> "", requests |-> SubSeq(a.requests, 1, i + 1)] =
         ReadSoFar(a, i + 1, "")
  BY <1>1 DEF ReadSoFar
<1>. HIDE DEF st, r
<1>. QED BY <1>12, <1>13, <1>14 DEF b, st, r, n

\* The requests up to the first whose token count is refused.
Limit(a, f) ==
    /\ f \in 1..(Len(a.requests) + 1)
    /\ \A i \in 1..Len(a.requests) : i < f => ~(Len(a.requests[i].committed) > MaxTokens)
    /\ f <= Len(a.requests) => Len(a.requests[f].committed) > MaxTokens

\* There is such a place.
LEMMA LimitExists ==
    ASSUME NEW a \in Archive
    PROVE  \E f : Limit(a, f)
<1>. DEFINE n == Len(a.requests)
            Bad == {i \in 1..n : Len(a.requests[i].committed) > MaxTokens}
<1>1. n \in Nat
  BY SerializedRequests DEF Word
<1>2. CASE Bad = {}
  <2>1. Limit(a, n + 1)
    BY <1>1, <1>2 DEF Limit
  <2>. QED BY <2>1
<1>3. CASE Bad # {}
  <2>1. Bad \subseteq Nat
    BY <1>1
  <2>2. PICK f \in Bad : \A y \in Bad : f <= y
    <3>. HIDE DEF Bad
    <3>. QED BY <1>3, <2>1, LeastNatural
  <2>3. f \in 1..n /\ Len(a.requests[f].committed) > MaxTokens
    BY <2>2
  <2>4. ASSUME NEW i \in 1..n, i < f PROVE ~(Len(a.requests[i].committed) > MaxTokens)
    BY <2>2, <2>3, <2>4
  <2>5. Limit(a, f)
    BY <1>1, <2>3, <2>4 DEF Limit
  <2>. QED BY <2>5
<1>. QED BY <1>2, <1>3

\* The loop reads the requests one after the other up to that one.
LEMMA ReadAll ==
    ASSUME NEW a \in Archive, NEW f, Limit(a, f)
    PROVE  ReadRequests(SerializeArchive(a), Len(a.requests)) =
             IF Len(a.requests) < f THEN ReadSoFar(a, Len(a.requests), "")
             ELSE ReadSoFar(a, f - 1, "out_of_range")
<1>. DEFINE n == Len(a.requests)
            b == SerializeArchive(a)
            State(i) == IF i < f THEN ReadSoFar(a, i, "") ELSE ReadSoFar(a, f - 1, "out_of_range")
            E(h) == [i \in 0..n |-> IF i = 0 THEN [pos |-> 5, code |-> "", requests |-> <<>>]
                                    ELSE ReadRequest(b, h[i - 1])]
            g == [i \in 0..n |-> State(i)]
            read == CHOOSE h : h = E(h)
<1>1. n \in Nat /\ f \in 1..(n + 1)
  BY SerializedRequests DEF Word, Limit
<1>2. State(0) = [pos |-> 5, code |-> "", requests |-> <<>>]
  <2>. DEFINE ss == Serialized(a)
  <2>1. SubSeq(ss, 1, 0) = <<>> /\ SubSeq(a.requests, 1, 0) = <<>>
    BY SubSeqEmpty
  <2>. HIDE DEF ss
  <2>2. Len(FlattenSeq(SubSeq(ss, 1, 0))) = 0
    <3>1. FlattenSeq(SubSeq(ss, 1, 0)) = <<>>
      BY <2>1, FlattenEmpty, Zenon
    <3>2. Len(<<>>) = 0
      OBVIOUS
    <3>. QED BY <3>1, <3>2, Zenon
  <2>3. Before(a, 0) = 5 + Len(FlattenSeq(SubSeq(ss, 1, 0)))
    BY Zenon DEF Before, ss
  <2>4. Before(a, 0) = 5
    <3>1. Before(a, 0) = 5 + 0
      BY <2>2, <2>3, Zenon
    <3>. QED BY <3>1
  <2>5. State(0) = ReadSoFar(a, 0, "")
    <3>1. 0 < f
      BY <1>1
    <3>. QED BY <3>1, Zenon
  <2>6. ReadSoFar(a, 0, "") = [pos |-> 5, code |-> "", requests |-> <<>>]
    BY <2>1, <2>4, Zenon DEF ReadSoFar
  <2>. QED BY <2>5, <2>6, Zenon
<1>3. ASSUME NEW i \in 1..n PROVE ReadRequest(b, State(i - 1)) = State(i)
  <2>1. i - 1 \in Nat /\ i - 1 < Len(a.requests) /\ (i - 1) + 1 = i
    BY <1>1
  <2>2. ReadRequest(b, ReadSoFar(a, i - 1, "")) =
          IF Len(a.requests[i].committed) > MaxTokens
          THEN ReadSoFar(a, i - 1, "out_of_range") ELSE ReadSoFar(a, i, "")
    <3>1. ReadRequest(b, ReadSoFar(a, i - 1, "")) =
            IF Len(a.requests[(i - 1) + 1].committed) > MaxTokens
            THEN ReadSoFar(a, i - 1, "out_of_range") ELSE ReadSoFar(a, (i - 1) + 1, "")
      BY <2>1, ReadNext
    <3>. QED BY <2>1, <3>1
  <2>3. CASE i < f
    <3>1. ~(Len(a.requests[i].committed) > MaxTokens)
      BY <2>3 DEF Limit
    <3>2. i - 1 < f
      BY <1>1, <2>3
    <3>. QED BY <2>2, <2>3, <3>1, <3>2
  <2>4. CASE i = f
    <3>1. Len(a.requests[i].committed) > MaxTokens
      BY <1>1, <2>4 DEF Limit
    <3>2. i - 1 < f /\ ~(i < f) /\ i - 1 = f - 1
      BY <1>1, <2>4
    <3>. QED BY <2>2, <3>1, <3>2
  <2>5. CASE i > f
    <3>1. ~(i - 1 < f) /\ ~(i < f)
      BY <1>1, <2>5
    <3>. DEFINE s == ReadSoFar(a, f - 1, "out_of_range")
    <3>2. s.code # ""
      BY DEF ReadSoFar
    <3>3. ReadRequest(b, s) = s
      <4>. HIDE DEF s
      <4>. QED BY <3>2, Zenon DEF ReadRequest
    <3>. QED BY <3>1, <3>3
  <2>6. i < f \/ i = f \/ i > f
    BY <1>1
  <2>. QED BY <2>3, <2>4, <2>5, <2>6, Zenon
<1>. HIDE DEF State
<1>4. g = E(g)
  <2>1. ASSUME NEW i \in 0..n PROVE g[i] = E(g)[i]
    <3>1. CASE i = 0
      BY <1>2, <3>1
    <3>2. CASE i # 0
      <4>1. i \in 1..n /\ i - 1 \in 0..n
        BY <1>1, <3>2
      <4>2. g[i - 1] = State(i - 1) /\ g[i] = State(i)
        BY <4>1
      <4>3. E(g)[i] = ReadRequest(b, g[i - 1])
        <5>. HIDE DEF g
        <5>. QED BY <3>2
      <4>. HIDE DEF g, E
      <4>. QED BY <1>3, <4>1, <4>2, <4>3
    <3>. QED BY <3>1, <3>2
  <2>. QED BY <2>1
<1>5. read = E(read)
  <2>. HIDE DEF E, g
  <2>. QED BY <1>4
<1>6. ReadRequests(b, n) = read[n]
  BY Zenon DEF ReadRequests
<1>. HIDE DEF read
<1>. DEFINE T == {i \in 0..n : read[i] = State(i)}
<1>7. 0 \in T
  <2>1. read[0] = [pos |-> 5, code |-> "", requests |-> <<>>]
    <3>. DEFINE first == [pos |-> 5, code |-> "", requests |-> <<>>]
    <3>0. 0 \in 0..n
      BY <1>1
    <3>1. ASSUME NEW h PROVE E(h)[0] = first
      BY <3>0, Zenon
    <3>. HIDE DEF first, E
    <3>2. read[0] = first
      BY <1>5, <3>1, Zenon
    <3>. QED BY <3>2 DEF first
  <2>2. 0 \in 0..n
    BY <1>1
  <2>3. read[0] = State(0)
    BY <1>2, <2>1, Zenon
  <2>. QED BY <2>2, <2>3
<1>8. ASSUME NEW i \in 1..n, i - 1 \in T PROVE i \in T
  <2>1. i \in 0..n /\ i # 0 /\ read[i - 1] = State(i - 1)
    BY <1>1, <1>8
  <2>2. read[i] = ReadRequest(b, read[i - 1])
    BY <1>5, <2>1
  <2>. QED BY <1>3, <2>1, <2>2
<1>9. n \in T
  <2>1. 0..n \subseteq T
    <3>. HIDE DEF T, n
    <3>. QED BY <1>1, <1>7, <1>8, IntervalInduction
  <2>. QED BY <1>1, <2>1, n \in 0..n
<1>. QED BY <1>6, <1>9 DEF State

\* What serialize_archive writes is refused or read back as it was, and read
\* back whenever its counts are within the limits.
LEMMA Roundtrip ==
    ASSUME NEW a \in Archive
    PROVE  LET d == DeserializeArchive(SerializeArchive(a))
           IN  /\ d.ok => d.archive = a
               /\ WithinLimits(a) => d = [ok |-> TRUE, archive |-> a]
<1>. DEFINE b == SerializeArchive(a)
            n == Len(a.requests)
            p == Payload(a)
            end == ReadRequests(b, n)
            d == DeserializeArchive(b)
<1>1. PICK f : Limit(a, f)
  BY LimitExists
<1>2. end = IF n < f THEN ReadSoFar(a, n, "") ELSE ReadSoFar(a, f - 1, "out_of_range")
  BY <1>1, ReadAll
<1>3. /\ p[1] = Magic /\ Number(p[2]) = 1 /\ Number64(p, 3) = a.epoch /\ Number(p[5]) = n
  BY PayloadUnits
<1>4. /\ p \in Seq(Unit) /\ Len(p) \in Nat /\ Len(p) >= 5
      /\ b \in Seq(AnyUnit) /\ Len(b) = Len(p) + 1
      /\ \A i \in 1..Len(p) : b[i] = p[i]
      /\ b[Len(p) + 1] = Crc(p) /\ Readable(b) = Len(p) + 1
  BY SealedUnits
<1>5. n \in Nat /\ a.requests \in Seq(Request)
  BY SerializedRequests DEF Word
<1>. HIDE DEF b, p, end, d
<1>6. /\ b[1] = Magic /\ Number(b[2]) = 1 /\ Number64(b, 3) = a.epoch /\ Number(b[5]) = n
  <2>1. b[1] = p[1] /\ b[2] = p[2] /\ b[3] = p[3] /\ b[4] = p[4] /\ b[5] = p[5] /\ 3 + 1 = 4
    BY <1>4
  <2>. QED BY <1>3, <2>1 DEF Number64
<1>7. ChecksumHolds(b)
  <2>1. Front(b) \in Seq(Unit) /\ Len(Front(b)) = Len(p) /\ \A i \in 1..Len(p) : Front(b)[i] = p[i]
    <3>1. Front(b) = SubSeq(b, 1, Len(p))
      BY <1>4 DEF Front
    <3>2. \A i \in 1..Len(p) : b[i] \in Unit
      BY <1>4, ElementOfSeq
    <3>. QED BY <1>4, <3>1, <3>2, SubSeqProperties
  <2>2. Front(b) = p
    BY <1>4, <2>1, SeqEqual
  <2>3. Last(b) = Crc(p)
    BY <1>4 DEF Last
  <2>. QED BY <2>2, <2>3 DEF ChecksumHolds
<1>8. ~(Readable(b) < 6)
  BY <1>4
<1>9. d = IF n > MaxRequests THEN Rejected("out_of_range")
          ELSE IF end.code # "" THEN Rejected(end.code)
          ELSE [ok |-> TRUE, archive |-> StateArchive(a.epoch, end.requests)]
  BY <1>6, <1>7, <1>8, Zenon DEF DeserializeArchive, d, end
<1>10. CASE n < f
  <2>1. end = ReadSoFar(a, n, "")
    BY <1>2, <1>10, Zenon
  <2>2. end.code = "" /\ end.requests = SubSeq(a.requests, 1, n)
    BY <2>1 DEF ReadSoFar
  <2>3. SubSeq(a.requests, 1, n) = a.requests
    BY <1>5, SubSeqFull
  <2>4. StateArchive(a.epoch, a.requests) = a
    BY DEF StateArchive, Archive
  <2>5. d = IF n > MaxRequests THEN Rejected("out_of_range") ELSE [ok |-> TRUE, archive |-> a]
    BY <1>9, <2>2, <2>3, <2>4, Zenon
  <2>6. WithinLimits(a) => ~(n > MaxRequests)
    BY <1>5, FormatConstants DEF WithinLimits
  <2>7. d.ok => d.archive = a
    BY <2>5 DEF Rejected
  <2>. QED BY <2>5, <2>6, <2>7, Zenon DEF d, b
<1>11. CASE ~(n < f)
  <2>1. end = ReadSoFar(a, f - 1, "out_of_range")
    BY <1>2, <1>11, Zenon
  <2>2. end.code = "out_of_range"
    BY <2>1 DEF ReadSoFar
  <2>3. d = Rejected("out_of_range")
    BY <1>9, <2>2
  <2>4. ~d.ok
    BY <2>3 DEF Rejected
  <2>5. ~WithinLimits(a)
    <3>1. f \in 1..n /\ Len(a.requests[f].committed) > MaxTokens
      BY <1>1, <1>5, <1>11 DEF Limit
    <3>2. Len(a.requests[f].committed) \in Nat
      <4>1. a.requests[f] \in Request
        BY <3>1, SerializedRequests
      <4>2. a.requests[f].committed \in Seq(Unit)
        BY <4>1 DEF Request, Committed
      <4>. QED BY <4>2, LenProperties
    <3>3. ~(Len(a.requests[f].committed) <= MaxTokens)
      BY <3>1, <3>2, FormatConstants
    <3>. QED BY <3>1, <3>3, Zenon DEF WithinLimits
  <2>. QED BY <2>4, <2>5 DEF d, b
<1>. QED BY <1>10, <1>11
-----------------------------------------------------------------------------
(***************************************************************************)
(* The file                                                                *)
(***************************************************************************)

\* A file that ends with a checksum ends with that of an archive handed to
\* save, one of saved.
FileOK(d, saved) ==
    /\ d \in Seq(AnyUnit)
    /\ d # <<>> => Last(d) \in Unit \cup {Torn} \/ \E a \in saved : Last(d) = Crc(Payload(a))

\* deserialize_archive accepts nothing else than archives handed to save.
LEMMA OnlySealed ==
    ASSUME NEW b, NEW saved, FileOK(b, saved), saved \subseteq Archive, DeserializeArchive(b).ok
    PROVE  \E a \in saved : b = SerializeArchive(a)
<1>1. ChecksumHolds(b) /\ ~(Readable(b) < 6)
  <2>1. ASSUME NEW c PROVE ~Rejected(c).ok
    BY DEF Rejected
  <2>. QED BY <2>1, Zenon DEF DeserializeArchive
<1>. DEFINE n == Len(b)
            front == Front(b)
<1>2. b \in Seq(AnyUnit) /\ n \in Nat /\ \A i \in 1..n : b[i] \in AnyUnit
  BY LenProperties, ElementOfSeq DEF FileOK
<1>3. b # <<>> /\ n >= 1
  <2>1. b # <<>>
    <3>1. Readable(<<>>) = 0
      BY DEF Readable
    <3>. QED BY <1>1, <3>1
  <2>. QED BY <1>2, <2>1, EmptySeq
<1>4. Last(b) = Crc(front)
  BY <1>1 DEF ChecksumHolds
<1>5. b = Append(front, Crc(front))
  <2>. DEFINE m == n - 1
  <2>1. m \in Nat /\ m < Len(b) /\ m + 1 = n
    BY <1>2, <1>3
  <2>. HIDE DEF m
  <2>2. SubSeq(b, 1, m + 1) = Append(SubSeq(b, 1, m), b[m + 1])
    BY <1>2, <2>1, NextPrefix
  <2>3. SubSeq(b, 1, n) = b
    BY <1>2, SubSeqFull
  <2>4. front = SubSeq(b, 1, m) /\ Last(b) = b[n]
    BY DEF Front, Last, m
  <2>. QED BY <1>4, <2>1, <2>2, <2>3, <2>4, Zenon
<1>. HIDE DEF front
<1>6. Crc(front)[1] = "crc" /\ Crc(front)[2] = front
  BY DEF Crc
<1>7. Last(b) \notin Unit \cup {Torn}
  <2>1. \A u \in Unit : u[1] = "w"
    BY DEF Unit
  <2>2. Torn[1] = "torn"
    BY DEF Torn
  <2>. QED BY <1>4, <1>6, <2>1, <2>2
<1>8. PICK a \in saved : Last(b) = Crc(Payload(a))
  BY <1>3, <1>7 DEF FileOK
<1>9. front = Payload(a)
  <2>1. Crc(Payload(a))[2] = Payload(a)
    BY DEF Crc
  <2>. QED BY <1>4, <1>6, <1>8, <2>1
<1>10. SerializeArchive(a) = Sealed(Payload(a))
  BY <1>8, SealedUnits
<1>. QED BY <1>5, <1>8, <1>9, <1>10 DEF Sealed

\* What is in memory, on disk and remembered fits together.
FileInv ==
    /\ live \in Archive /\ offered \subseteq Archive
    /\ pc = "saving" => writing = SerializeArchive(live) /\ live \in offered /\ durable = None
                          /\ FileOK(disk, offered)
    /\ disk = None \/ FileOK(disk, offered)
    /\ durable # None => durable \in Archive /\ disk = SerializeArchive(durable)
    /\ RecoveredWasSaved

\* An archive without requests, and numbers of a request.
LEMMA EmptyArchive ==
    /\ Empty \in Archive /\ 0 \in DoubleWord /\ 1 \in DoubleWord /\ Word \subseteq DoubleWord
    /\ \A id \in Ids : id \in DoubleWord /\ id + 1 \in DoubleWord
<1>1. WordBase \in Nat \ {0, 1}
  BY FormatConstants
<1>2. ASSUME NEW w \in Nat \ {0, 1} PROVE w * w \in Nat /\ w * w >= w /\ w * w >= 2
  <2>1. w >= 2 /\ w * w >= 2 * w
    BY SMTT(30)
  <2>. QED BY <2>1
<1>. DEFINE sq == WordBase * WordBase
<1>3. sq \in Nat /\ sq >= WordBase /\ sq >= 2
  BY <1>1, <1>2
<1>4. Ids \subseteq 0..(sq - 2) /\ DoubleWord = 0..(sq - 1)
  BY StoreConstants DEF DoubleWord
<1>. HIDE DEF sq
<1>5. 0 \in DoubleWord /\ 1 \in DoubleWord /\ Word \subseteq DoubleWord
  BY <1>1, <1>3, <1>4 DEF Word
<1>6. \A id \in Ids : id \in DoubleWord /\ id + 1 \in DoubleWord
  BY <1>3, <1>4
<1>7. <<>> \in Seq(Request) /\ Len(<<>>) = 0
  BY EmptySeq
<1>8. Empty \in Archive
  BY <1>1, <1>5, <1>7 DEF Empty, StateArchive, Archive
<1>. QED BY <1>5, <1>6, <1>8

\* The process starts with an empty archive and no file.
LEMMA FileInvInit == Init => FileInv
BY EmptyArchive DEF Init, FileInv, RecoveredWasSaved

\* Nothing but what is in memory changes.
LEMMA FileInvLive ==
    ASSUME FileInv, live' \in Archive, pc' # "saving",
           UNCHANGED <<disk, recovered, offered, durable>>
    PROVE  FileInv'
BY DEF FileInv, RecoveredWasSaved

\* A registered request fits the format.
LEMMA FileInvRegister == FileInv /\ Register => FileInv'
<1>. SUFFICES ASSUME FileInv, Register PROVE FileInv'
  OBVIOUS
<1>. DEFINE reqs == live.requests
<1>1. /\ live \in Archive /\ live.epoch \in DoubleWord
      /\ reqs \in Seq(Request) /\ Len(reqs) < WordBase - 1
  BY DEF FileInv, Archive, Register
<1>2. PICK id \in Ids :
        live' = StateArchive(live.epoch, Append(reqs, PersistedRequest(id, id + 1, 1, 1, 0, id, 0, <<>>)))
  BY DEF Register
<1>. DEFINE r == PersistedRequest(id, id + 1, 1, 1, 0, id, 0, <<>>)
<1>3. r \in Request
  <2>1. <<>> \in Committed
    BY FormatConstants, EmptySeq DEF Committed
  <2>. QED BY <2>1, EmptyArchive DEF PersistedRequest, Request
<1>. HIDE DEF r, reqs
<1>4. Append(reqs, r) \in Seq(Request) /\ Len(Append(reqs, r)) = Len(reqs) + 1 /\ Len(reqs) \in Nat
  BY <1>1, <1>3, AppendProperties, LenProperties
<1>5. live' = StateArchive(live.epoch, Append(reqs, r))
  BY <1>2 DEF r
<1>6. Len(Append(reqs, r)) < WordBase
  BY <1>1, <1>4, FormatConstants
<1>7. live' \in Archive
  <2>. DEFINE s == Append(reqs, r)
  <2>1. s \in {x \in Seq(Request) : Len(x) < WordBase} /\ live' = StateArchive(live.epoch, s)
    BY <1>4, <1>5, <1>6
  <2>. HIDE DEF s
  <2>. QED BY <1>1, <2>1 DEF StateArchive, Archive
<1>. QED BY <1>7, FileInvLive DEF Register

\* A committed token fits the format.
LEMMA FileInvCommit == FileInv /\ Commit => FileInv'
<1>. SUFFICES ASSUME FileInv, Commit PROVE FileInv'
  OBVIOUS
<1>. DEFINE reqs == live.requests
<1>1. /\ live \in Archive /\ live.epoch \in DoubleWord
      /\ reqs \in Seq(Request) /\ Len(reqs) < WordBase /\ Len(reqs) \in Nat
  BY LenProperties DEF FileInv, Archive
<1>2. PICK i \in 1..Len(reqs) :
        /\ Len(reqs[i].committed) < MaxCommits
        /\ live' = StateArchive(live.epoch, [reqs EXCEPT ![i] =
             PersistedRequest(reqs[i].id, reqs[i].sequence, reqs[i].attempt, reqs[i].epoch,
               Len(reqs[i].committed) + 1, reqs[i].state_id, Len(reqs[i].committed) + 1,
               reqs[i].committed \o U32(Len(reqs[i].committed)))])
  BY Zenon DEF Commit
<1>. DEFINE r == reqs[i]
            n == Len(r.committed)
            c == r.committed \o U32(n)
            q == PersistedRequest(r.id, r.sequence, r.attempt, r.epoch, n + 1, r.state_id, n + 1, c)
            s == [reqs EXCEPT ![i] = q]
<1>3. r \in Request /\ r.committed \in Seq(Unit) /\ n \in Nat
  <2>1. r \in Request
    BY <1>1, ElementOfSeq
  <2>2. r.committed \in Seq(Unit)
    BY <2>1 DEF Request, Committed
  <2>. QED BY <2>1, <2>2, LenProperties
<1>4. n < MaxCommits /\ MaxCommits \in 0..(WordBase - 1) /\ WordBase \in Nat
  BY <1>2, FormatConstants, StoreConstants
<1>5. live' = StateArchive(live.epoch, s)
  BY <1>2
<1>. HIDE DEF reqs, n
<1>6. n \in Word /\ n + 1 \in DoubleWord /\ n + 1 < WordBase
  <2>1. n \in Word /\ n + 1 \in Word /\ n + 1 < WordBase
    BY <1>3, <1>4 DEF Word
  <2>. QED BY <2>1, EmptyArchive
<1>7. c \in Committed
  <2>1. Blob(r.committed, n)
    BY <1>3 DEF Blob, n
  <2>2. Blob(c, n + 1)
    BY <1>3, <1>6, <2>1, NextWord
  <2>. HIDE DEF c
  <2>. QED BY <1>6, <2>2 DEF Blob, Committed
<1>. HIDE DEF c, r
<1>8. q \in Request
  BY <1>3, <1>6, <1>7 DEF PersistedRequest, Request
<1>. HIDE DEF q
<1>9. s \in Seq(Request) /\ Len(s) = Len(reqs)
  <2>1. s \in [1..Len(reqs) -> Request]
    BY <1>1, <1>2, <1>8, LenProperties
  <2>. HIDE DEF s
  <2>. QED BY <1>1, <2>1, FunctionIsSequence
<1>. HIDE DEF s
<1>10. live' \in Archive
  BY <1>1, <1>5, <1>9 DEF StateArchive, Archive
<1>. QED BY <1>10, FileInvLive DEF Commit

\* A truncated file is in order.
LEMMA FileInvSaveOpen == FileInv /\ SaveOpen => FileInv'
<1>. SUFFICES ASSUME FileInv, SaveOpen PROVE FileInv'
  OBVIOUS
<1>1. FileOK(<<>>, offered')
  BY EmptySeq DEF FileOK
<1>2. /\ pc' = "saving" /\ disk' = <<>> /\ writing' = SerializeArchive(live) /\ live' = live
      /\ offered' = offered \cup {live} /\ durable' = None /\ recovered' = recovered
  BY DEF SaveOpen
<1>3. live \in Archive /\ offered \subseteq Archive /\ RecoveredWasSaved
  BY DEF FileInv
<1>4. RecoveredWasSaved'
  BY <1>2, <1>3 DEF RecoveredWasSaved
<1>. QED BY <1>1, <1>2, <1>3, <1>4 DEF FileInv

\* Any part of a blob that save writes, cut anywhere, is in order.
LEMMA PartsOfBlob ==
    ASSUME NEW a \in Archive, NEW saved, a \in saved,
           NEW n \in 1..Len(SerializeArchive(a))
    PROVE  /\ FileOK(SubSeq(SerializeArchive(a), 1, n), saved)
           /\ FileOK(Append(SubSeq(SerializeArchive(a), 1, n - 1), Torn), saved)
<1>. DEFINE b == SerializeArchive(a)
            p == Payload(a)
            d == SubSeq(b, 1, n)
            e == SubSeq(b, 1, n - 1)
            f == Append(e, Torn)
<1>1. /\ p \in Seq(Unit) /\ Len(p) \in Nat /\ b \in Seq(AnyUnit) /\ Len(b) = Len(p) + 1
      /\ \A i \in 1..Len(p) : b[i] = p[i]
      /\ b[Len(p) + 1] = Crc(p)
  BY SealedUnits
<1>. HIDE DEF b, p
<1>2. n \in 1..Len(b) /\ n \in Nat /\ n - 1 \in Nat /\ \A i \in 1..Len(b) : b[i] \in AnyUnit
  BY <1>1, ElementOfSeq DEF b
<1>3. d \in Seq(AnyUnit) /\ Len(d) = n /\ d[n] = b[n]
  <2>1. \A i \in 1..n : b[i] \in AnyUnit
    BY <1>1, <1>2
  <2>. QED BY <1>2, <2>1, SubSeqProperties
<1>4. e \in Seq(AnyUnit)
  <2>1. \A i \in 1..(n - 1) : b[i] \in AnyUnit
    BY <1>1, <1>2
  <2>. QED BY <1>2, <2>1, SubSeqProperties
<1>5. Torn \in AnyUnit
  BY DEF AnyUnit
<1>. HIDE DEF d, e
<1>6. f \in Seq(AnyUnit) /\ Last(f) = Torn
  <2>1. Len(f) = Len(e) + 1 /\ f[Len(e) + 1] = Torn /\ f \in Seq(AnyUnit)
    BY <1>4, <1>5, AppendProperties
  <2>. HIDE DEF f
  <2>. QED BY <2>1 DEF Last
<1>7. FileOK(f, saved)
  BY <1>6 DEF FileOK
<1>8. Last(d) \in Unit \/ Last(d) = Crc(p)
  <2>1. Last(d) = b[n]
    BY <1>3 DEF Last
  <2>2. CASE n \in 1..Len(p)
    BY <1>1, <2>1, <2>2, ElementOfSeq
  <2>3. CASE n = Len(p) + 1
    BY <1>1, <2>1, <2>3
  <2>. QED BY <1>1, <1>2, <2>2, <2>3
<1>9. FileOK(d, saved)
  BY <1>3, <1>8 DEF FileOK, p
<1>. QED BY <1>7, <1>9 DEF b, d, e

\* So is whatever the system took of the blob.
LEMMA FileInvSaveWrite == FileInv /\ SaveWrite => FileInv'
<1>. SUFFICES ASSUME FileInv, SaveWrite PROVE FileInv'
  OBVIOUS
<1>1. /\ live \in Archive /\ offered \subseteq Archive /\ writing = SerializeArchive(live)
      /\ live \in offered /\ durable = None /\ FileOK(disk, offered) /\ RecoveredWasSaved
  BY DEF FileInv, SaveWrite
<1>2. /\ pc' = pc /\ live' = live /\ writing' = writing /\ recovered' = recovered
      /\ offered' = offered /\ durable' = durable
  BY DEF SaveWrite
<1>3. PICK n \in (Readable(disk) + 1)..Len(writing) :
        disk' \in {SubSeq(writing, 1, n), Append(SubSeq(writing, 1, n - 1), Torn)}
  BY DEF SaveWrite
<1>4. n \in 1..Len(writing)
  <2>1. Len(disk) \in Nat /\ (disk # <<>> => Len(disk) > 0)
    BY <1>1, LenProperties, EmptySeq DEF FileOK
  <2>2. Readable(disk) \in Nat
    BY <2>1 DEF Readable
  <2>3. Len(writing) \in Nat
    BY <1>1, SealedUnits
  <2>. QED BY <1>3, <2>2, <2>3
<1>5. FileOK(disk', offered)
  <2>1. /\ FileOK(SubSeq(writing, 1, n), offered)
        /\ FileOK(Append(SubSeq(writing, 1, n - 1), Torn), offered)
    BY <1>1, <1>4, PartsOfBlob
  <2>. QED BY <1>3, <2>1
<1>6. FileOK(disk', offered')
  BY <1>2, <1>5
<1>7. RecoveredWasSaved'
  BY <1>1, <1>2 DEF RecoveredWasSaved
<1>. QED BY <1>1, <1>2, <1>6, <1>7 DEF FileInv

\* A save that returns ok has left the archive in the file.
LEMMA FileInvSaveReturns == FileInv /\ SaveReturns => FileInv'
<1>. SUFFICES ASSUME FileInv, SaveReturns PROVE FileInv'
  OBVIOUS
<1>1. /\ live \in Archive /\ offered \subseteq Archive /\ writing = SerializeArchive(live)
      /\ FileOK(disk, offered) /\ RecoveredWasSaved /\ disk = writing
  BY DEF FileInv, SaveReturns, Written
<1>2. /\ pc' = "up" /\ durable' = live /\ live' = live /\ disk' = disk /\ recovered' = recovered
      /\ offered' = offered
  BY DEF SaveReturns
<1>3. FileOK(disk', offered') /\ RecoveredWasSaved'
  BY <1>1, <1>2 DEF RecoveredWasSaved
<1>. QED BY <1>1, <1>2, <1>3 DEF FileInv

\* A save that fails leaves a part of it.
LEMMA FileInvSaveFails == FileInv /\ SaveFails => FileInv'
BY FileInvLive DEF FileInv, SaveFails

\* A killed process leaves the file as it is.
LEMMA FileInvCrash == FileInv /\ Crash => FileInv'
BY EmptyArchive, FileInvLive DEF FileInv, Crash

\* Recovery yields an archive handed to save, or nothing.
LEMMA FileInvRecover == FileInv /\ Recover => FileInv'
<1>. SUFFICES ASSUME FileInv, Recover PROVE FileInv'
  OBVIOUS
<1>1. /\ offered \subseteq Archive /\ (disk = None \/ FileOK(disk, offered))
      /\ (durable # None => durable \in Archive /\ disk = SerializeArchive(durable))
  BY DEF FileInv
<1>2. /\ pc' = "up" /\ disk' = disk /\ offered' = offered /\ durable' = durable
      /\ recovered' = IF disk = None THEN Rejected("not_found") ELSE DeserializeArchive(disk)
      /\ live' = IF recovered'.ok THEN recovered'.archive ELSE Empty
  BY DEF Recover
<1>3. recovered'.ok => recovered'.archive \in offered
  <2>1. CASE disk = None
    BY <1>2, <2>1 DEF Rejected
  <2>2. CASE disk # None /\ DeserializeArchive(disk).ok
    <3>1. PICK a \in offered : disk = SerializeArchive(a)
      BY <1>1, <2>2, OnlySealed
    <3>2. a \in Archive
      BY <1>1
    <3>3. DeserializeArchive(disk).archive = a
      BY <2>2, <3>1, <3>2, Roundtrip
    <3>. QED BY <1>2, <2>2, <3>3
  <2>3. CASE disk # None /\ ~DeserializeArchive(disk).ok
    BY <1>2, <2>3
  <2>. QED BY <2>1, <2>2, <2>3
<1>4. live' \in Archive
  BY <1>1, <1>2, <1>3, EmptyArchive
<1>5. RecoveredWasSaved'
  BY <1>2, <1>3 DEF RecoveredWasSaved
<1>6. disk' = None \/ FileOK(disk', offered')
  BY <1>1, <1>2
<1>. QED BY <1>1, <1>2, <1>4, <1>5, <1>6 DEF FileInv

\* A damaged unit of data is no checksum.
LEMMA FileInvDamage == FileInv /\ Damage => FileInv'
<1>. SUFFICES ASSUME FileInv, Damage PROVE FileInv'
  OBVIOUS
<1>1. live \in Archive /\ offered \subseteq Archive /\ FileOK(disk, offered) /\ RecoveredWasSaved
  BY DEF FileInv, Damage
<1>2. /\ pc' = "down" /\ live' = live /\ recovered' = recovered
      /\ offered' = offered /\ durable' = None
  BY DEF Damage
<1>3. PICK i \in 1..Len(disk), n \in 0..(WordBase - 1) : disk' = [disk EXCEPT ![i] = <<"w", n>>]
  BY DEF Damage
<1>. DEFINE u == <<"w", n>>
<1>4. disk \in Seq(AnyUnit) /\ Len(disk) \in Nat /\ disk \in [1..Len(disk) -> AnyUnit]
  BY <1>1, LenProperties DEF FileOK
<1>5. u \in Unit /\ u \in AnyUnit
  BY DEF Unit, Word, AnyUnit
<1>. HIDE DEF u
<1>6. disk' = [disk EXCEPT ![i] = u]
  BY <1>3 DEF u
<1>7. disk' \in [1..Len(disk) -> AnyUnit]
  BY <1>4, <1>5, <1>6
<1>8. disk' \in Seq(AnyUnit) /\ Len(disk') = Len(disk)
  BY <1>4, <1>7, FunctionIsSequence
<1>9. Last(disk') = u \/ Last(disk') = Last(disk)
  <2>1. Last(disk') = disk'[Len(disk)] /\ Last(disk) = disk[Len(disk)] /\ Len(disk) \in 1..Len(disk)
    BY <1>3, <1>4, <1>8 DEF Last
  <2>. QED BY <1>4, <1>6, <2>1
<1>10. disk # <<>>
  BY DEF Damage
<1>11. FileOK(disk', offered)
  BY <1>1, <1>5, <1>8, <1>9, <1>10 DEF FileOK
<1>12. FileOK(disk', offered') /\ RecoveredWasSaved'
  BY <1>1, <1>2, <1>11 DEF RecoveredWasSaved
<1>. QED BY <1>1, <1>2, <1>12 DEF FileInv
-----------------------------------------------------------------------------
\* Whatever FileStore::save, a crash inside it, a short write or damage leaves in the
\* file: if it ends with a checksum, that is the checksum of an archive once handed
\* to save, and after a save that returned ok the file is its whole encoding.
THEOREM FileInvariant == Spec => []FileInv
<1>1. Init => FileInv
  BY FileInvInit
<1>2. FileInv /\ [Next]_vars => FileInv'
  <2>. SUFFICES ASSUME FileInv, [Next]_vars PROVE FileInv'
    OBVIOUS
  <2>1. CASE Next
    BY <2>1, FileInvRegister, FileInvCommit, FileInvSaveOpen, FileInvSaveWrite,
       FileInvSaveReturns, FileInvSaveFails, FileInvCrash, FileInvRecover, FileInvDamage DEF Next
  <2>2. CASE UNCHANGED vars
    BY <2>2 DEF vars, FileInv, FileOK, RecoveredWasSaved
  <2>. QED BY <2>1, <2>2
<1>. QED BY <1>1, <1>2, PTL DEF Spec

\* Whatever deserialize_archive accepts, after any crashes, short writes and damaged
\* units, is an archive once handed to save.
THEOREM RecoveredSafe == Spec => []RecoveredWasSaved
<1>1. FileInv => RecoveredWasSaved
  BY DEF FileInv
<1>. QED BY <1>1, FileInvariant, PTL

\* An archive whose save returned ok, and whose file nothing touched, is
\* recovered whole, if its counts are within the limits.
THEOREM SavedSafe == Spec => []SavedIsRecoverable
<1>1. FileInv => SavedIsRecoverable
  <2>. SUFFICES ASSUME FileInv, durable # None, WithinLimits(durable)
       PROVE  DeserializeArchive(disk) = [ok |-> TRUE, archive |-> durable]
    BY DEF SavedIsRecoverable
  <2>1. durable \in Archive /\ disk = SerializeArchive(durable)
    BY DEF FileInv
  <2>2. DeserializeArchive(SerializeArchive(durable)) = [ok |-> TRUE, archive |-> durable]
    BY <2>1, Roundtrip
  <2>. QED BY <2>1, <2>2, Zenon
<1>. QED BY <1>1, FileInvariant, PTL
=============================================================================
