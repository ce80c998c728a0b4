SPECIFICATION Spec
CONSTANTS
    Systems = {s1, s2}
    Known = {s1}
    Handlers = {h1, h2}
    Workers = {w1, w2}
    MaxClients = 2
    CountLimit = 256
    MaxOverlaps = 1
SYMMETRY Symmetry
INVARIANTS SubscribedHasWorker
CHECK_DEADLOCK FALSE
