CONSTANTS
    Feeds <- MCFeeds
    MaxEmpty = 1
    MaxEventBytes = 7
    MaxLineBytes = 4
    MaxFieldsPerEvent = 2
    MaxChunkBytes = 5
    MaxBytesPerPoll = 2
    MaxChunksPerPoll = 2
SPECIFICATION FairSpec
INVARIANTS
    FramingMatchesReference
    LimitsMatchReference
    BufferIsBounded
PROPERTY
    ChunksAreDecoded
CHECK_DEADLOCK FALSE
