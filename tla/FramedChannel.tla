---------------------------- MODULE FramedChannel ----------------------------
(***************************************************************************)
(* One direction of a connection of the control plane: a process that      *)
(* sends messages as frames and one that receives them (tools/sockutil.h,  *)
(* sendm and recvm of tools/sf_driver.cpp).  TCP carries bytes: a send or  *)
(* a receive moves any number of them, so frames are cut anywhere.         *)
(*                                                                         *)
(* A payload that does not decode is skipped by every receiver.  When a    *)
(* receive fails, a worker ends and the coordinator closes the driver's    *)
(* connection; the driver ignores it and goes on with its next receive,    *)
(* and its socket has a receive timeout (`persistent').                    *)
(***************************************************************************)
EXTENDS Wire

CONSTANTS
    Messages,           \* the messages the sender has to send
    Foreign,            \* payloads of a peer that speaks another version
    MaxFrames           \* bound: frames sent on the connection

\* A foreign payload is not the encoding of what it could be read as.
ASSUME ChannelConstants ==
    /\ MaxFrames \in Nat
    /\ \A m \in Messages : m \in MessageType
    /\ \A p \in Foreign :
          p \in Seq(Byte) /\ (Decode(p).ok => Encode(Decode(p).value) # Ok(p))

VARIABLES
    persistent,         \* the receiver is the driver: it goes on after a failed receive
    sender,             \* "up" or "gone"
    toSend,             \* what send_all has not yet handed to the socket
    stream,             \* bytes on their way
    receiver,           \* the part of recv_frame it is in, or "closed"
    want,               \* the bytes recv_exact was asked for
    got,                \* those it has
    frames,             \* history: frames sent
    sent,               \* history: messages sent
    delivered,          \* history: messages received
    cut                 \* history: a receive timed out inside a frame

vars == <<persistent, sender, toSend, stream, receiver, want, got, frames, sent,
          delivered, cut>>
sending == <<persistent, sender, toSend, frames, sent>>

Init ==
    /\ persistent \in BOOLEAN
    /\ sender = "up" /\ toSend = <<>> /\ stream = <<>>
    /\ receiver = "length" /\ want = U32Bytes /\ got = <<>>
    /\ frames = 0 /\ sent = <<>> /\ delivered = <<>> /\ cut = FALSE
-----------------------------------------------------------------------------
\* send_frame: a message that cannot be encoded is not sent at all.  This is the
\* driver's sendm; coordinator and worker take the value of encode unasked,
\* which is undefined for such a message.
SendFrame(m) ==
    /\ sender = "up" /\ toSend = <<>> /\ frames < MaxFrames
    /\ Encode(m).ok /\ AddFramePrefix(Encode(m).value).ok
    /\ toSend' = AddFramePrefix(Encode(m).value).value
    /\ sent' = Append(sent, m) /\ frames' = frames + 1
    /\ UNCHANGED <<persistent, sender, stream, receiver, want, got, delivered, cut>>

SendForeign(p) ==
    /\ sender = "up" /\ toSend = <<>> /\ frames < MaxFrames
    /\ toSend' = AddFramePrefix(p).value /\ frames' = frames + 1
    /\ UNCHANGED <<persistent, sender, sent, stream, receiver, want, got, delivered, cut>>

\* One round of send_all: the socket takes some of the bytes.
SendBytes ==
    /\ sender = "up"
    /\ \E k \in 1..Len(toSend) :
          /\ stream' = stream \o SubSeq(toSend, 1, k)
          /\ toSend' = SubSeq(toSend, k + 1, Len(toSend))
    /\ UNCHANGED <<persistent, sender, frames, sent, receiver, want, got, delivered, cut>>

\* The sender dies: what is on its way arrives, or only a part of it.
SenderDies ==
    /\ sender = "up"
    /\ sender' = "gone" /\ toSend' = <<>>
    /\ \E k \in {0, Len(stream) \div 2, Len(stream)} : stream' = SubSeq(stream, 1, k)
    /\ UNCHANGED <<persistent, frames, sent, receiver, want, got, delivered, cut>>

\* One round of recv_exact.
RecvBytes ==
    /\ receiver # "closed"
    /\ \E k \in 1..Len(stream) :
          /\ Len(got) + k <= want
          /\ got' = got \o SubSeq(stream, 1, k)
          /\ stream' = SubSeq(stream, k + 1, Len(stream))
    /\ UNCHANGED <<sending, receiver, want, delivered, cut>>

\* The next recv_frame begins with a length.
AwaitsFrame == receiver' = "length" /\ want' = U32Bytes /\ got' = <<>>

\* recv_frame returns false.  The worker leaves its loop and the
\* driver receives again.  The coordinator abandons the cycle and keeps the
\* socket; as it sets no timeout there, the worker is gone or has sent a length
\* no worker sends, and what it would still read is not followed here.
FailsFrame == IF persistent THEN AwaitsFrame
              ELSE receiver' = "closed" /\ UNCHANGED <<want, got>>

LengthAccepted(len) == len # 0 /\ len <= MaxFrame

\* recv_frame has the length.
TakeLength ==
    /\ receiver = "length" /\ Len(got) = want
    /\ IF LengthAccepted(Value(got))
       THEN receiver' = "payload" /\ want' = Value(got) /\ got' = <<>>
       ELSE FailsFrame
    /\ UNCHANGED <<sending, stream, delivered, cut>>

\* recv_frame has the payload; it is decoded, or skipped.
TakePayload ==
    /\ receiver = "payload" /\ Len(got) = want
    /\ AwaitsFrame
    /\ delivered' = IF Decode(got).ok THEN Append(delivered, Decode(got).value)
                    ELSE delivered
    /\ UNCHANGED <<sending, stream, cut>>

\* recv fails: the end of a stream whose sender is gone, or the timeout of the
\* driver's socket.  The bytes recv_exact already has are forgotten.
RecvFails ==
    /\ receiver # "closed" /\ stream = <<>> /\ Len(got) < want
    /\ sender = "gone" \/ persistent
    /\ cut' = (cut \/ (persistent /\ (receiver = "payload" \/ got # <<>>)))
    /\ FailsFrame
    /\ UNCHANGED <<sending, stream, delivered>>

Receive == RecvBytes \/ TakeLength \/ TakePayload

Next ==
    \/ \E m \in Messages : SendFrame(m)
    \/ \E p \in Foreign : SendForeign(p)
    \/ SendBytes \/ SenderDies
    \/ Receive \/ RecvFails

\* The sockets of two live processes move bytes, and the receiver receives.
Spec == Init /\ [][Next]_vars /\ WF_vars(SendBytes) /\ WF_vars(Receive)
-----------------------------------------------------------------------------
(***************************************************************************)
(* Properties                                                              *)
(***************************************************************************)

\* Messages are delivered unchanged, in the order they were sent, none twice
\* and none left out, wherever the stream was cut into pieces, frames of
\* another version in between, the sender dying in the middle of one: unless
\* the receive timeout of the driver struck inside a frame, after which the
\* next frame is looked for in the middle of this one.
DeliveredInOrder ==
    ~cut => IsPrefix(delivered, sent)

\* A payload is accepted only if it is byte for byte the encoding of the
\* message it is decoded to: nothing truncated, nothing trailing, no field
\* count, type or version out of range, even when a lost frame boundary
\* presents the middle of a frame as a payload.
OnlyEncodingsAccepted ==
    receiver = "payload" /\ Len(got) = want =>
        LET d == Decode(got) IN d.ok => Encode(d.value) = Ok(got)

Broken == sender = "gone" \/ receiver = "closed" \/ cut

\* Every message send_frame took is delivered, whatever pieces send and recv move
\* and whatever foreign frames lie in between, unless the connection breaks: what
\* the encoder's limits let through, the decoder's do too.
MessagesArrive ==
    \A n \in 1..MaxFrames : Len(sent) >= n ~> (Len(delivered) >= n \/ Broken)
=============================================================================
