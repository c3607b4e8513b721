SPECIFICATION LSpec
CONSTANTS
    NCH = 1
    NBLK = 4
    PARTS = 2
    MAX_QUEUE_DEPTH = 1
    DISK_LIMIT = 0
    RAM_LIMIT = 1
    TOTAL = 7
    MAX_PACKET = 3
    Decoders = {d1}
    DecoderChannel <- MCFirstChannel
    DECODE_FIRST = TRUE
    INIT_OUTCOMES = {"wait"}
    NoBlock = NoBlock
    NoImage = NoImage
    Lost = Lost
INVARIANTS ReaderSafe
CHECK_DEADLOCK FALSE
