SPECIFICATION LiveSpec
CONSTANTS
    Dialers = {d1, d2}
    Conns = {c1, c2}
INVARIANTS NeverGivesUp EndIsReported
PROPERTIES KeepsDialing
CHECK_DEADLOCK FALSE
