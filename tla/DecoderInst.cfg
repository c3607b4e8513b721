SPECIFICATION FairSpec
CONSTANTS
    KINDS = {"c", "python"}
    STARTS <- MCStarts
    TOTAL = 6
    MAX_CHUNK = 3
    NoChunk = NoChunk
    Closed = Closed
INVARIANTS TypeOK BufferLent ChunkAccepted
PROPERTIES SkipsOnlyFirst ImplementsLoan CallReturns JoinReturns
CHECK_DEADLOCK FALSE
