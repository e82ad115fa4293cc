\* The Python and the C client fetch a file under two local names, one of which
\* extends the other, whatever is lost, killed, damaged, removed or not removed.
CONSTANTS
    py1 = py1
    c1 = c1
    name = name
    other = other
    None = None
    Client = {py1, c1}
    Kind <- MCKind
    Exclusive = TRUE
    Remote = {r1}
    Content <- MCPairContent
    Dest = {name, other}
    LongDest = {}
    Extends <- MCExtends
    Token = {"t1"}
    TokenOf <- MCTokenOf
    Sha <- MCSha
    ChunkSize = 2
    Inode = {i1, i2, i3}
    Garbage = 9
    Zero = 0
    Unstable = TRUE
    RemoveFaults = TRUE
SPECIFICATION Spec
VIEW View
CONSTRAINT Worst
INVARIANTS DestVerified
PROPERTIES FilesSpec
