SPECIFICATION Spec
CONSTANTS
    Calls = {k1}
    Conns = {n1, n2}
    NoCall = NoCall
    NoConn = NoConn
    Shapes <- CleanShapes
INVARIANTS
    ExecutedAtMostOnce
