-------------------------------- MODULE Wire --------------------------------
(***************************************************************************)
(* The framed wire protocol (src/core/wire.cpp): messages to bytes and     *)
(* back.  A byte is a digit in base ByteBase, least significant first, so  *)
(* that the widths and limits of the protocol can be small numbers.        *)
(***************************************************************************)
EXTENDS Integers, Sequences, SequencesExt

CONSTANTS
    ByteBase,           \* the values of a byte (256)
    U32Bytes, U64Bytes, \* the widths of the two integer types (4, 8)
    LastType,           \* Msg::Shutdown, the last message type (11)
    MaxFields,          \* the limit on the fields of each type (64)
    MaxBody,            \* the limit on the body (1 MiB)
    MaxFrame            \* kMaxFrameSize (16 MiB)

Byte == 0..(ByteBase - 1)

\* v shifted right by 0, 1, ... `width' bytes.
Shifted(v, width) ==
    LET rest[i \in 0..width] == IF i = 0 THEN v ELSE rest[i - 1] \div ByteBase
    IN rest

\* put_u32 and put_u64
Put(v, width) == [i \in 1..width |-> Shifted(v, width)[i - 1] % ByteBase]

\* read_u32 and read_u64: what the last i bytes are worth, from the last to all.
Value(bytes) ==
    LET n == Len(bytes)
        value[i \in 0..n] == IF i = 0 THEN 0 ELSE value[i - 1] * ByteBase + bytes[n + 1 - i]
    IN value[n]

\* uint32_t and uint64_t: the numbers that leave nothing when all their bytes are
\* shifted out.
UInt(width) == {v \in Nat : Shifted(v, width)[width] = 0}

ASSUME WireConstants ==
    /\ ByteBase \in Nat \ {0, 1} /\ U32Bytes \in Nat \ {0} /\ U64Bytes \in Nat \ {0}
    /\ LastType \in UInt(U32Bytes) \ {0} /\ MaxFrame \in UInt(U32Bytes) \ {0}
    /\ MaxFields \in UInt(U32Bytes) /\ MaxBody \in UInt(U32Bytes)

kProtocolVersion == 1

Message(type, u64, u32, body) == [type |-> type, u64 |-> u64, u32 |-> u32, body |-> body]

\* A message of this protocol version; its type is an enumerator or unset.
MessageType ==
    [type : 0..LastType, u64 : Seq(UInt(U64Bytes)), u32 : Seq(UInt(U32Bytes)),
     body : Seq(Byte)]

\* Result
Ok(v) == [ok |-> TRUE, value |-> v]
Err == [ok |-> FALSE, value |-> <<>>]

Fields(vs, width) == FlattenSeq([i \in 1..Len(vs) |-> Put(vs[i], width)])

\* The limits the encoder keeps.
Encodable(m) ==
    /\ m.type # 0
    /\ Len(m.u64) <= MaxFields /\ Len(m.u32) <= MaxFields /\ Len(m.body) <= MaxBody

\* encode, for a message of this protocol version.
Encode(m) ==
    IF ~Encodable(m) THEN Err
    ELSE Ok(Fields(<<kProtocolVersion, m.type, Len(m.u64), Len(m.u32), Len(m.body)>>, U32Bytes)
            \o Fields(m.u64, U64Bytes) \o Fields(m.u32, U32Bytes) \o m.body)

\* n integers of a width, beginning after the first `from' bytes.
Read(bytes, from, n, width) ==
    [i \in 1..n |-> Value(SubSeq(bytes, from + (i - 1) * width + 1, from + i * width))]

\* Mutant: one field less than the encoder sends.
WithinLimitsStrict(n64, n32, blen) == n64 < MaxFields /\ n32 < MaxFields /\ blen <= MaxBody
\* The limits the decoder keeps.
WithinLimits(n64, n32, blen) == n64 <= MaxFields /\ n32 <= MaxFields /\ blen <= MaxBody

\* Mutant: what follows the body is not looked at.
AllConsumedLoose(payload, end) == Len(payload) >= end
\* Neither a truncated field nor trailing bytes.
AllConsumed(payload, end) == Len(payload) = end

Decode(payload) ==
    LET header == 5 * U32Bytes
        h      == Read(payload, 0, 5, U32Bytes)   \* version, type, n64, n32, blen
        u32At  == header + h[3] * U64Bytes
        bodyAt == u32At + h[4] * U32Bytes
    IN IF \/ Len(payload) < header
          \/ h[1] # kProtocolVersion
          \/ h[2] \notin 1..LastType
          \/ ~WithinLimits(h[3], h[4], h[5])
          \/ ~AllConsumed(payload, bodyAt + h[5])
       THEN Err
       ELSE Ok(Message(h[2], Read(payload, header, h[3], U64Bytes),
                       Read(payload, u32At, h[4], U32Bytes),
                       SubSeq(payload, bodyAt + 1, bodyAt + h[5])))

\* add_frame_prefix
AddFramePrefix(payload) ==
    IF Len(payload) > MaxFrame THEN Err ELSE Ok(Put(Len(payload), U32Bytes) \o payload)
=============================================================================
