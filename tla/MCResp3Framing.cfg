SPECIFICATION Spec
CONSTANTS
    Calls = {k1, k2}
    Conns = {n1, n2}
    NoCall = NoCall
    NoConn = NoConn
    Shapes <- NestedErrorShapes
INVARIANTS
    ReplyIsOwn
