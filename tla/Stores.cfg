SPECIFICATION Spec
CONSTANTS
    s1 = s1
    s2 = s2
    Ids = {s1, s2}
    Names = {"short", "long"}
    Width <- MCWidth
    MaxChanges = 3
    Systems = {s1, s2}
    AlertNames = {"CPU", "Memory"}
    Vals = {1}
    Copies <- MCCopies
    MaxAlertChanges = 3
INVARIANTS StoresAgree Synced BatchLossless ActiveSystemsShown
PROPERTIES ChangesShown
CHECK_DEADLOCK FALSE
