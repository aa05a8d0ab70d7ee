---------------------------- MODULE ArchiveFormat ----------------------------
(***************************************************************************)
(* The binary archive of src/core/persistence.cpp: serialize_archive and   *)
(* deserialize_archive.                                                    *)
(*                                                                         *)
(* A blob is a sequence of units of four bytes, the width of every u32     *)
(* field; a u64 is two units, low half first.  A unit of data is           *)
(* <<"w", n>> with n < WordBase.  The CRC-32 of a payload is the unit      *)
(* <<"crc", payload>>: two payloads never share a checksum here, and no    *)
(* data unit equals one (the code's collide with probability 2^-32).  A    *)
(* unit cut in its middle is Torn, and can only be the last of a blob.     *)
(***************************************************************************)
EXTENDS Integers, Sequences, SequencesExt

CONSTANTS
    WordBase,       \* 2^32 in the code
    MaxRequests,    \* kMaxRequests
    MaxTokens       \* kMaxTokensPerRequest

ASSUME FormatConstants ==
    /\ WordBase \in Nat \ {0, 1}
    /\ MaxRequests \in 0..(WordBase - 1) /\ MaxTokens \in 0..(WordBase - 1)

U32(n) == <<<<"w", n % WordBase>>>>
U64(n) == U32(n) \o U32(n \div WordBase)
Magic == <<"w", 0>>
Torn == <<"torn">>
Crc(payload) == <<"crc", payload>>

\* PersistedRequest and StateArchive.  A token is kept as the unit that holds it.
PersistedRequest(id, sequence, attempt, epoch, gen, stateId, stateGen, committed) ==
    [id |-> id, sequence |-> sequence, attempt |-> attempt, epoch |-> epoch,
     auth_gen |-> gen, state_id |-> stateId, state_gen |-> stateGen, committed |-> committed]
StateArchive(epoch, requests) == [epoch |-> epoch, requests |-> requests]

SerializeRequest(r) ==
    U64(r.id) \o U64(r.sequence) \o U64(r.attempt) \o U64(r.epoch) \o U64(r.auth_gen)
        \o U64(r.state_id) \o U64(r.state_gen) \o U32(Len(r.committed)) \o r.committed

Header(version, epoch, count) == <<Magic>> \o U32(version) \o U64(epoch) \o U32(count)

Sealed(payload) == Append(payload, Crc(payload))

\* serialize_archive: no count is checked against its limit.
SerializeArchive(a) ==
    Sealed(Header(1, a.epoch, Len(a.requests))
             \o FlattenSeq([i \in 1..Len(a.requests) |-> SerializeRequest(a.requests[i])]))
-----------------------------------------------------------------------------
(* deserialize_archive.  The Reader runs over the whole blob, the checksum *)
(* unit included.                                                          *)

\* A u32 read from a unit.  A checksum read as a number is taken to exceed
\* both limits, as almost every 32-bit value does.
Number(u) == IF u[1] = "w" THEN u[2] ELSE WordBase - 1

\* Mutant: identities go through 32 bits.
Number64Low(b, i) == Number(b[i])

Number64(b, i) == Number(b[i]) + WordBase * Number(b[i + 1])

\* Units that can be read: a torn last one cannot.
Readable(b) == IF b # <<>> /\ Last(b) = Torn THEN Len(b) - 1 ELSE Len(b)

Rejected(code) == [ok |-> FALSE, code |-> code]

\* Mutant: the stored checksum is not compared.
ChecksumIgnored(b) == TRUE

ChecksumHolds(b) == Last(b) = Crc(Front(b))

Tokens(b, first, count) == SubSeq(b, first, first + count - 1)

\* One round of the loop over requests, from the unit after s.pos.
ReadRequest(b, s) ==
    IF s.code # "" THEN s
    ELSE IF s.pos + 15 > Readable(b) THEN [s EXCEPT !.code = "truncated_frame"]
    ELSE LET p == s.pos
             count == Number(b[p + 15])
         IN IF count > MaxTokens THEN [s EXCEPT !.code = "out_of_range"]
            ELSE IF p + 15 + count > Readable(b) THEN [s EXCEPT !.code = "truncated_frame"]
            ELSE [pos |-> p + 15 + count, code |-> "",
                  requests |-> Append(s.requests,
                     PersistedRequest(Number64(b, p + 1), Number64(b, p + 3),
                       Number64(b, p + 5), Number64(b, p + 7), Number64(b, p + 9),
                       Number64(b, p + 11), Number64(b, p + 13),
                       Tokens(b, p + 16, count)))]

ReadRequests(b, count) ==
    LET read[n \in 0..count] ==
          IF n = 0 THEN [pos |-> 5, code |-> "", requests |-> <<>>]
          ELSE ReadRequest(b, read[n - 1])
    IN read[count]

DeserializeArchive(b) ==
    LET count == Number(b[5])
        end == ReadRequests(b, count)
    IN IF Readable(b) < 6 THEN Rejected("truncated_frame")
       ELSE IF ~ChecksumHolds(b) THEN Rejected("corrupt")
       ELSE IF b[1] # Magic THEN Rejected("malformed")
       ELSE IF Number(b[2]) # 1 THEN Rejected("unknown_protocol_version")
       ELSE IF count > MaxRequests THEN Rejected("out_of_range")
       ELSE IF end.code # "" THEN Rejected(end.code)
       ELSE [ok |-> TRUE, archive |-> StateArchive(Number64(b, 3), end.requests)]
=============================================================================
