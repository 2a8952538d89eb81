SPECIFICATION Spec
CONSTANTS
    Sessions <- OptionSessions
    Misreported = {}
    Binary = {}
    Base64 = {}
    Generated <- Ids
    Resp3Bytes = "numbers"
    MaxLen = 2
    MaxCount = 2
PROPERTIES
    ArgumentsKept
