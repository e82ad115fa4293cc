\* Liveness: two threads uploading the same content under a plain name and under
\* one whose partial's name is too long; published partials that cannot be removed.
CONSTANTS
    a = a
    bad = bad
    long = long
    None = None
    Session = {s1, s2}
    Name <- MCOddName
    LegalName <- MCOddName
    LongName <- MCLongName
    Digest = {"d1"}
    Token = {"t1"}
    TokenOf <- MCOneToken
    Byte = {0}
    FileSize = {1, 2}
    MAX_FILE_SIZE = 2
    ChunkSize = 2
    Inode = {i1, i2}
    DiskFaults = TRUE
    UnlinkFaults = TRUE
    Sha <- MCSha
SPECIFICATION FairSpec
INVARIANTS ClaimsAreExact AcknowledgedNotOpen AcknowledgedIsStored
PROPERTIES UploadsEnd
