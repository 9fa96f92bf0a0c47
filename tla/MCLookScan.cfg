SPECIFICATION Spec
CONSTANTS
    MaxLen = 4
    Sectors = 4
    Lists <- MCLists
    Positions <- MCPositions
PROPERTY ScanChoosesNext
CHECK_DEADLOCK FALSE
