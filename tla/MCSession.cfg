CONSTANTS
    Kinds = {"c", "py"}
    MaxSize = 2
SPECIFICATION Spec
CHECK_DEADLOCK FALSE
INVARIANTS TypeOK InStep ReportsAreTrue
PROPERTIES NoLivelock RunsEnd SessionsEnd
