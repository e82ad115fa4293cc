\* Retrying two names, one of them too long to have a partial, after losses, kills,
\* damage and replacement by a file of another size.
CONSTANTS
    py1 = py1
    c1 = c1
    name = name
    other = other
    None = None
    Client = {py1, c1}
    Kind <- MCKind
    Exclusive = TRUE
    Remote = {r1}
    Content <- MCSmallContent
    Dest = {name, other}
    LongDest = {other}
    Extends = {}
    Token = {"t1", "t2"}
    TokenOf <- MCTokenOf
    Sha <- MCSha
    ChunkSize = 2
    Inode = {i1, i2}
    Garbage = 9
    Zero = 0
    Unstable = TRUE
    RemoveFaults = FALSE
SPECIFICATION FairSpec
INVARIANTS TypeOK PartialIsPrefix AtMostOnePartial
PROPERTIES PartialsOnlyGrow OnlyOversizeStalls
