SPECIFICATION Spec
CONSTANTS
    Lower <- MCLower
    HostOf <- MCHostOf
    PatternOf <- MCPatternOf
    Rules <- MCRules
    MAX_HEADERS = 3
    Plans <- MCPlans
    LIMIT = 7
    CHUNK = 3
    MaxFails = 2
INVARIANT UpstreamGetsStream
INVARIANT HeadRewrittenByName
INVARIANT EveryRequestRewritten
INVARIANT HeadLimit
INVARIANT OneCertificate
PROPERTY EveryExchangeEnds
