SPECIFICATION LiveSpec
CONSTANTS
    Alerts = {a1}
    Infos = {i1, i2, i3}
    Env = {"crash"}
    MaxCrashes = 2
INVARIANTS CacheInSync NotifiedOnce UpHasNoPending
PROPERTIES DownReported
CHECK_DEADLOCK FALSE
