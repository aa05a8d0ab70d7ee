\* Both backends, calls without end; a block of three threads, drafts of up to two tokens.
CONSTANTS
    VocabSize = 3
    ModelBound = 2
    MaxDepth = 3
    Branches = {0, 1}
    Words = 3
    Taps = {0, 2}
SPECIFICATION DeviceSpec
INVARIANT DeviceTypeOK
INVARIANT DivergesAtAlignment
INVARIANT ReadsOfOneStep
INVARIANT MirrorsReference
INVARIANT StaleErrorIsOfLastDraft
PROPERTY CallsReturn
CHECK_DEADLOCK FALSE
