SPECIFICATION FairSpec
CONSTANTS
    Paths <- MCPaths
    Clis <- MCClis
    NoHome = NoHome
    NoName = NoName
    MayFail <- AllSteps
INVARIANT ChildIsContained
INVARIANT TargetsNeverNest
INVARIANT CleansUp
INVARIANT PolicyApplied
PROPERTY Ends
CHECK_DEADLOCK FALSE
