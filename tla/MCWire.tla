------------------------------- MODULE MCWire -------------------------------
(***************************************************************************)
(* A connection with messages at both ends of the protocol's limits.       *)
(***************************************************************************)
EXTENDS FramedChannel

Empty == Message(1, <<>>, <<>>, <<>>)
Full == Message(LastType, <<ByteBase^3 + 2>>, <<ByteBase + 1>>, <<ByteBase - 1>>)
TooMany == Message(1, <<1, 2>>, <<>>, <<>>)
MCMessages == {Empty, Full, TooMany}

\* An empty payload, one with a byte more, of the next version, of an unknown type.
MCForeign ==
    LET p == Encode(Empty).value IN
    {<<>>, Append(p, 0), [p EXCEPT ![1] = 2], [p EXCEPT ![U32Bytes + 1] = LastType + 1]}
=============================================================================
