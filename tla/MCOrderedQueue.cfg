SPECIFICATION Spec
CONSTANTS
    MaxRequests = 4
    MaxRequeues = 2
    Kinds = {"fs", "barrier", "empty", "pc"}
    Modes <- MCModes
INVARIANTS TypeOK StagesInTurn BarrierOrder BarriersInOrder ErrorReported
PROPERTIES EverythingEnds
CHECK_DEADLOCK FALSE
