SPECIFICATION Spec
CONSTANTS
    Sessions <- WorkingSessions
    Misreported = {"hash.set", "hash.del"}
    Binary = {"bin"}
    Base64 = {}
    Generated <- Ids
    Resp3Bytes = "numbers"
    MaxLen = 2
    MaxCount = 2
INVARIANTS
    TypeOK
PROPERTIES
    ImplementsDataService
