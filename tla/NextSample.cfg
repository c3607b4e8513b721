SPECIFICATION Spec
CONSTANTS
    KINDS = {"c", "python"}
    STARTS <- MCStarts
    TOTAL = 6
    MAX_CHUNK = 3
    NoChunk = NoChunk
    Closed = Closed
INVARIANTS NextSampleExamined
CHECK_DEADLOCK FALSE
