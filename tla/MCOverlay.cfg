SPECIFICATION Spec
CONSTANTS
    Names = {".env", "key"}
    Mounted <- MountedEnv
    redacting = TRUE
    Gated = TRUE
    DiskMayFail = TRUE
    Sniff = 2
    MaxLen = 1
    MaxIno = 3
    MaxFile = 2
    MaxFh = 2
    MaxOpen = 1
    MaxHost = 1
    ROOT = "/"
    ByName <- MCByName
    HostTexts <- OneText
    Typed <- TypedOne
    Keys <- MCKeys
    Values <- MCValues
    PLACEHOLDER = "<redacted value>"
    SecretKeys = {"A"}
    HeaderKeys = {"A"}
    NormKey <- MCNormKey
    Quoted = {"<redacted value>"}
    Dollar = {}
    Backslash = {}
    Reparsed <- MCReparsed
INVARIANT TypeOK
INVARIANT NoSecretServed
INVARIANT TableConsistent
INVARIANT HandleFollowsInode
VIEW MCView
