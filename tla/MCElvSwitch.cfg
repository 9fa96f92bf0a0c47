SPECIFICATION Spec
CONSTANTS
    BLKDEV_MIN_RQ = 2
    BLKDEV_MAX_RQ = 2
    Writers = {t1}
    Drivers = {t2}
    Batch = 1
    NrInputs = {2, 3}
    MaxSync = 8
    MaxAsync = 1
    Threads <- MCThreads
    Calls <- MCCalls
    MaxHeld <- MCMaxHeld
INVARIANTS CountsExact FlagsExact NoIdleSlot PrivMatches ElevatorLife
PROPERTIES SleepersWoken SwitchEnds
