\* Two C clients at one local name.
CONSTANTS
    py1 = py1
    c1 = c1
    name = name
    other = other
    None = None
    Client = {c1, c2}
    Kind <- MCKind
    Exclusive = FALSE
    Remote = {r1}
    Content <- MCOneContent
    Dest = {name}
    LongDest = {}
    Extends = {}
    Token = {"t1"}
    TokenOf <- MCTokenOf
    Sha <- MCSha
    ChunkSize = 2
    Inode = {i1, i2, i3}
    Garbage = 9
    Zero = 0
    Unstable = FALSE
    RemoveFaults = FALSE
SPECIFICATION Spec
VIEW View
CONSTRAINT Worst
INVARIANTS DestVerified
