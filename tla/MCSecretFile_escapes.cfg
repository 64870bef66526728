SPECIFICATION Spec
CONSTANTS
    Editors = {1}
    Odd = {"bs", "esc", "bs q", "dollar"}
    MaxLen = 3
    Keys <- MCKeys
    Values <- MCValues
    PLACEHOLDER = "<redacted value>"
    SecretKeys <- MCSecretKeys
    HeaderKeys = {}
    NormKey <- MCNormKey
    Quoted = {"", "bs q", "<redacted value>"}
    Dollar = {"dollar"}
    Backslash = {"bs", "esc", "bs q"}
    Reparsed <- MCReparsed
    Originals <- MCOriginals
    Typed <- MCTyped
PROPERTY EveryValueSurvives
