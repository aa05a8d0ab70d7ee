\* One proposal of up to three tokens over three words, and its verification.
CONSTANTS
    VocabSize = 3
    ModelBound = 3
    MaxDepth = 4
    Branches = {0, 1}
SPECIFICATION Spec
INVARIANT AcceptedPrefixIsAccepted
CHECK_DEADLOCK FALSE
