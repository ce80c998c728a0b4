SPECIFICATION Spec
CONSTANTS
    Instances = {i1, i2}
    Env = {"pause", "timeout"}
    MaxRestarts = 0
    MaxOverlaps = 1
PROPERTIES PauseSticks
CHECK_DEADLOCK FALSE
