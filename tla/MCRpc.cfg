SPECIFICATION LiveSpec
CONSTANTS
    Calls = {k1, k2, k3}
    Clients = {c1, c2, c3}
    NoCall = NoCall
    NoClient = NoClient
    Prompt = {k2, k3}
INVARIANTS
    TypeOK
    NoLeakedClient
    AtMostOnce
PROPERTIES
    ImplementsCallService
    PromptCallsReturn
