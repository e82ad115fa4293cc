\* A legal name that looks like another upload's partial.
CONSTANTS
    a = a
    bad = bad
    long = long
    None = None
    Session = {s1, s2}
    Name <- MCPartialLikeName
    LegalName <- MCPartialLikeName
    LongName = {}
    Digest = {"d1"}
    Token = {"t1"}
    TokenOf <- MCOneToken
    Byte = {0}
    FileSize = {1}
    MAX_FILE_SIZE = 2
    ChunkSize = 2
    Inode = {i1, i2, i3, i4}
    DiskFaults = FALSE
    UnlinkFaults = FALSE
    Sha <- MCSha
SPECIFICATION Spec
SYMMETRY Symmetry
VIEW View
INVARIANTS AcknowledgedIsStored
