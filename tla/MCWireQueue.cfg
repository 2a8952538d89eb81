SPECIFICATION Spec
CONSTANTS
    Sessions <- QueueSessions
    Misreported = {}
    Binary = {}
    Base64 = {}
    Generated = {}
    Resp3Bytes = "text"
    MaxLen = 1
    MaxCount = 1
PROPERTIES
    NoneMeansEmpty
