SPECIFICATION Spec
CONSTANTS
    Requests = {r1, r2, r3}
    Capacity = 4
    BioSizes = {1}
    MaxSectors = 3
INVARIANT LinkedOnce
PROPERTIES UpSweepAscends NothingSkipped ImplementsIoSched UpSweepEnds
