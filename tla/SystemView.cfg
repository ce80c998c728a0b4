SPECIFICATION LiveSpec
CONSTANTS
    a = a
    b = b
    Systems = {a, b}
    Slugs = {a}
    Times = {"1h", "12h"}
    Default = "1h"
    MaxLen = 2
    MaxLive = 2
    MaxTime = 3
    MaxRequests = 3
    MaxMoves = 3
INVARIANTS AnswersOwned AxisFits
PROPERTIES LoadingEnds
CHECK_DEADLOCK FALSE
