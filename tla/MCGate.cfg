SPECIFICATION FairSpec
CONSTANTS
    Overlays = {o1, o2}
    NoOverlay = NoOverlay
    MaxCalls = 3
    Components <- MCComponents
    Paths <- MCPaths
    Preapproved <- MCPreapproved
INVARIANT OneQuestion
INVARIANT DecidedOnce
PROPERTY CallsReturn
PROPERTY ImplementsAtomicGate
CHECK_DEADLOCK FALSE
