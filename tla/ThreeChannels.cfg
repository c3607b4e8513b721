SPECIFICATION LSpec
CONSTANTS
    NCH = 3
    NBLK = 2
    PARTS = 2
    MAX_QUEUE_DEPTH = 1
    DISK_LIMIT = 0
    RAM_LIMIT = 2
    TOTAL = 4
    MAX_PACKET = 3
    Decoders = {d1}
    DecoderChannel <- MCSecondChannel
    DECODE_FIRST = TRUE
    INIT_OUTCOMES = {"wait"}
    NoBlock = NoBlock
    NoImage = NoImage
    Lost = Lost
INVARIANTS SpilledIsIndexed PendingIsUnderWay NullIsWhole UniformReaderSafe
CHECK_DEADLOCK FALSE
