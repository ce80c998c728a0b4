SPECIFICATION LiveSpec
CONSTANTS
    Systems = {s1, s2}
    Known = {s1}
    Handlers = {h1, h2}
    Workers = {w1, w2}
    MaxClients = 2
    CountLimit = 4
    MaxOverlaps = 1
INVARIANTS TypeOK TableExact NoLostWorker
PROPERTIES ContinuouslyFetched WorkersStop
CHECK_DEADLOCK FALSE
