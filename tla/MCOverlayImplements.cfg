SPECIFICATION Spec
CONSTANTS
    Secret = ".env"
    Names = {".env"}
    Mounted <- MountedEnv
    redacting = TRUE
    Gated = FALSE
    DiskMayFail = FALSE
    Sniff = 2
    MaxLen = 2
    MaxIno = 2
    MaxFile = 1
    MaxFh = 2
    MaxOpen = 2
    MaxHost = 0
    ROOT = "/"
    ByName <- MCByName
    HostTexts <- EnvTexts
    Typed <- TypedOne
    Keys <- MCKeys
    Values <- MCValues
    PLACEHOLDER = "<redacted value>"
    SecretKeys = {"A"}
    HeaderKeys = {"A"}
    NormKey <- MCNormKey
    Quoted = {"<redacted value>"}
    Dollar = {}
    Backslash = {}
    Reparsed <- MCReparsed
PROPERTY HandlerErrorKeepsOriginal
PROPERTY ImplementsSecretFile
VIEW MCView
