SPECIFICATION LiveSpec
CONSTANTS
    Reqs = {r1, r2}
    LegacyAgent = TRUE
INVARIANTS ReaderNeverBlocked ClosedOnce
PROPERTIES CallsEnd
CHECK_DEADLOCK FALSE
