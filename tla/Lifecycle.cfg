SPECIFICATION Spec
INVARIANT AcceptanceNeedsVerification
INVARIANT CommitAtMostOnce
PROPERTY TerminalIsFinal
