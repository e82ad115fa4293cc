\* Five clients, two slots and a backlog of two.
CONSTANTS
    Conn = {c1, c2, c3, c4, c5}
    MAX_CLIENTS = 2
    Backlog = 2
    None = None
SPECIFICATION FairSpec
INVARIANTS TypeOK PermitsExact SessionsCapped
PROPERTIES WaitingServed
