SPECIFICATION Spec
CONSTANTS
    Names = {".env"}
    Mounted <- MountedEnv
    redacting = TRUE
    Gated = FALSE
    DiskMayFail = TRUE
    Sniff = 2
    MaxLen = 2
    MaxIno = 2
    MaxFile = 2
    MaxFh = 1
    MaxOpen = 1
    MaxHost = 0
    ROOT = "/"
    ByName <- MCByName
    HostTexts <- EnvTexts
    Typed <- MCTyped
    Keys <- MCKeys
    Values <- MCValues
    PLACEHOLDER = "<redacted value>"
    SecretKeys = {"A"}
    HeaderKeys = {"A"}
    NormKey <- MCNormKey
    Quoted = {"<redacted value>"}
    Dollar = {}
    Backslash = {}
    Reparsed <- MCReparsed
PROPERTY ErrorKeepsOriginal
VIEW MCView
