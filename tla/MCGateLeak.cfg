\* As MCGate.cfg, for the wait at the gate.
CONSTANTS
    Conn = {c1, c2, c3, c4, c5}
    MAX_CLIENTS = 2
    Backlog = 2
    None = None
SPECIFICATION Spec
INVARIANTS WaitsOnlyForSlot
