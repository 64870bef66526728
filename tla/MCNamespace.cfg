SPECIFICATION Spec
CONSTANTS
    Names = {"a", "b"}
    Roots = {"m", "x"}
    Mounts = {"m"}
    MaxSteps = 12
    ROOT <- MCRoot
    Given0 <- OneOverlay
    Targets <- OneTargets
    MaxDepth = 2
    MaxId = 6
    MaxIno = 4
CONSTRAINT NotMisled
INVARIANT BackendNeverWaits
INVARIANT NumbersKeepTheirObject
INVARIANT LinkedSecretIsServed
CHECK_DEADLOCK FALSE
