\* A u64 of four bytes, a hash of three and a token of two keep the frames short;
\* the longest request is exactly as large as the cap and one listing is larger.
CONSTANTS
    Requests <- MCRequests
    Replies <- MCReplies
    MaxMessages = 2
    Segment = {1, 3, 10}
    LongSize = 4
    HashSize = 3
    TokenSize = 2
    Cap = 11
SPECIFICATION Spec
CHECK_DEADLOCK FALSE
INVARIANTS TypeOK MessagesIntact OnlyJustRefusals
PROPERTIES AllArrive ChannelSpec
