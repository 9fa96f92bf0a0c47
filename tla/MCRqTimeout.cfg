SPECIFICATION Spec
CONSTANTS
    Requests = {r1, r2}
    HZ = 2
    Timeouts = {1, 3}
    MaxResets = 1
CHECK_DEADLOCK FALSE
INVARIANTS OneOwner TimersExact TimerCovers
PROPERTIES RequestsComeBack
