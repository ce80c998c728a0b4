SPECIFICATION Spec
CONSTANTS
    Ids = {1, 2, 3}
    Columns = {"disk", "net", "loadAverage"}
    MaxEvents = 4
    Containers = {1, 2}
    SystemOf <- MCSystemOf
    Exposed = {1}
    Matching = {2}
    MaxTime = 2
    MaxOpened = 3
    MaxRecords = 3
    BatchMax = 0
    PageSizes = {1, 2}
    Spans <- MCSpans
    MaxSteps = 4
    Hosts = {1, 2}
    Kinds = {"Status", "CPU"}
    Single = {"Status"}
    Limited = {"CPU"}
    Top = 2
    MaxEdits = 3
    Points <- MCPoints
    Versions <- MCVersions
    MaxPoints = 2
    MaxLaid = 5
    Data = {1, 2}
    Label <- MCLabel
    Series <- MCSeries
    Bars = {1, 2}
    Texts = {1}
    MaxActs = 5
    Agents = {1, 2}
    UserIds = {7}
    ToastLimit = 1
    MaxClicks = 4
INVARIANTS TypeOK MemosFresh AnswersPlaced EditsReach ShownIsThere
PROPERTIES RemovesAsked Settles
CHECK_DEADLOCK FALSE
