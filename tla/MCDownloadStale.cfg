\* Fetching a smaller file to a name at which a larger one was interrupted.
CONSTANTS
    py1 = py1
    c1 = c1
    name = name
    other = other
    None = None
    Client = {py1}
    Kind <- MCKind
    Exclusive = TRUE
    Remote = {r1, r2}
    Content <- MCContent
    Dest = {name}
    LongDest = {}
    Extends = {}
    Token = {"t1", "t2"}
    TokenOf <- MCTokenOf
    Sha <- MCSha
    ChunkSize = 2
    Inode = {i1}
    Garbage = 9
    Zero = 0
    Unstable = FALSE
    RemoveFaults = FALSE
SPECIFICATION FairSpec
PROPERTIES DownloadFinishes
