SPECIFICATION LiveSpec
CONSTANTS
    Instances = {i1, i2}
    Env = {"pause", "delete", "rotate", "restart"}
    MaxRestarts = 1
    MaxOverlaps = 1
INVARIANTS Monitored NoOrphan MemoryMatches
PROPERTIES StatusCatchesUp
CHECK_DEADLOCK FALSE
