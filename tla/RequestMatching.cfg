SPECIFICATION Spec
CONSTANTS
    Reqs = {r1, r2, r3}
    LegacyAgent = FALSE
SYMMETRY Symmetry
INVARIANTS Matching PendingOwned
PROPERTIES ImplementsRpc
CHECK_DEADLOCK FALSE
