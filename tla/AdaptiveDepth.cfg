\* Two overlapping cycles and a window of three ratios.
CONSTANTS
    Cycles = {c1, c2}
    MaxDepth = 4
    Window = 3
    AdaptiveEnabled = TRUE
    Interactive = TRUE
    Units = 12
SPECIFICATION Spec
INVARIANT RecoversAfterWindow
PROPERTY DepthFollowsAcceptance
