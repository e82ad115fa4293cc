\* Two uploading threads, one name, two contents.
CONSTANTS
    a = a
    bad = bad
    long = long
    None = None
    Session = {s1, s2}
    Name <- MCName
    LegalName <- MCLegalName
    LongName = {}
    Digest <- MCDigest
    Token <- MCToken
    TokenOf <- MCTokenOf
    Byte = {0, 1}
    FileSize = {1, 2, 3}
    MAX_FILE_SIZE = 2
    ChunkSize = 2
    Inode = {i1, i2, i3}
    DiskFaults = TRUE
    UnlinkFaults = FALSE
    Sha <- MCSha
SPECIFICATION Spec
SYMMETRY Symmetry
INVARIANTS TypeOK ClaimsAreExact ReceivedBytesAccounted PublishedNotOpen AcknowledgedIsStored
PROPERTIES InterruptedBytesKept StoreSpec
VIEW View
