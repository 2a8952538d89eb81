SPECIFICATION Spec
CONSTANTS
    Txs = {t1}
    Base = Base
    NoTx = NoTx
    Keys = {x}
    MaxOps <- OpsPerClient
    MaxExecutions = 1
INVARIANTS
    TypeOK
    ScopesAreSeparate
    OutcomeIsTrue
    ConflictAborts
PROPERTIES
    OutcomeIsFinal
CHECK_DEADLOCK FALSE
