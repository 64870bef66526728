SPECIFICATION Spec
CONSTANTS
    Names = {"a", "b"}
    Roots = {"m", "n"}
    Mounts = {"m", "n"}
    MaxSteps = 12
    ROOT <- MCRoot
    Given0 <- TwoOverlays
    Targets <- TwoTargets
    MaxDepth = 2
    MaxId = 5
    MaxIno = 4
INVARIANT NoOverlayWaits
CHECK_DEADLOCK FALSE
