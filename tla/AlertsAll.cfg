SPECIFICATION Spec
CONSTANTS
    Alerts = {a1, a2}
    Infos = {i1, i2}
    Env = {"pause", "edit", "delete", "crash"}
    MaxCrashes = 1
SYMMETRY Symmetry
INVARIANTS PendingHasTimer
CHECK_DEADLOCK FALSE
