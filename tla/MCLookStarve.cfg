SPECIFICATION Spec
CONSTANTS
    Requests = {r1, r2}
    Capacity = 5
    BioSizes = {1, 2}
    MaxSectors = 3
PROPERTY DownSweepEnds
