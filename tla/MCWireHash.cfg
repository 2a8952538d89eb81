SPECIFICATION Spec
CONSTANTS
    Sessions <- HashSessions
    Misreported = {}
    Binary = {}
    Base64 = {}
    Generated = {}
    Resp3Bytes = "numbers"
    MaxLen = 0
    MaxCount = 0
PROPERTIES
    HashResultsAreTrue
