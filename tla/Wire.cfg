\* Bytes of base 5, integers of two and four of them, two frames.
CONSTANTS
    ByteBase = 5
    U32Bytes = 2
    U64Bytes = 4
    LastType = 3
    MaxFields = 1
    MaxBody = 1
    MaxFrame = 20
    Messages <- MCMessages
    Foreign <- MCForeign
    MaxFrames = 2
SPECIFICATION Spec
INVARIANT DeliveredInOrder
INVARIANT OnlyEncodingsAccepted
PROPERTY MessagesArrive
CHECK_DEADLOCK FALSE
