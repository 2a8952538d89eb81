SPECIFICATION Spec
CONSTANTS
    Limit = 2
    MaxEvents = 3
    MaxRooms = 3
    MaxFailures = 1
INVARIANTS
    TypeOK
    NothingSkipped
    RedeliveredOnce
PROPERTIES
    EveryEventArrives
