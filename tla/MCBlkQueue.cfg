SPECIFICATION Spec
CONSTANTS
    Bios = {1, 2, 3}
    Pcs = {p1, p2}
    NULL = NULL
    Workloads <- MCWorkloads
    Sent <- MCSent
    Capacity = 4
    MaxSectors = 3
    UnplugThresh = 3
    Depth = 2
    HashBlock = 2
    HashEntries = 2
INVARIANTS NoStall OnePlace MergesSound MergeCachesFresh BackInsertIsBarrier
PROPERTIES ImplementsLook DispatchedIsFrozen EverythingCompletes
