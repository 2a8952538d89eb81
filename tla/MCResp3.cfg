SPECIFICATION LiveSpec
CONSTANTS
    Calls = {k1, k2, k3}
    Conns = {n1, n2, n3}
    NoCall = NoCall
    NoConn = NoConn
    Shapes <- CleanShapes
INVARIANTS
    TypeOK
    ReplyIsOwn
    QuietWhenFree
    NoLeakedSocket
    ExecutedAsAnswered
PROPERTIES
    ImplementsCallService
    EveryCallReturns
