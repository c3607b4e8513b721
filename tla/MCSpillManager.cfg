SPECIFICATION FairSpec
CONSTANTS
    NCH = 2
    NBLK = 2
    PARTS = 1
    MAX_QUEUE_DEPTH = 1
    DISK_LIMIT = 1
    INIT_OUTCOMES = {"wait", "absent"}
    NoBlock = NoBlock
    NoImage = NoImage
    Lost = Lost
INVARIANTS TypeOK QueuedOnce CompletedIsIndexed DiskOvershoot
PROPERTIES DestructorReturns QueuedIsWritten
CHECK_DEADLOCK FALSE
