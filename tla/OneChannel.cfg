SPECIFICATION LFairSpec
CONSTANTS
    NCH = 1
    NBLK = 7
    PARTS = 2
    MAX_QUEUE_DEPTH = 1
    DISK_LIMIT = 5
    RAM_LIMIT = 1
    TOTAL = 13
    MAX_PACKET = 3
    Decoders = {}
    DecoderChannel <- MCFirstChannel
    DECODE_FIRST = TRUE
    INIT_OUTCOMES = {"wait"}
    NoBlock = NoBlock
    NoImage = NoImage
    Lost = Lost
INVARIANTS LTypeOK NoDataLoss JobsAlive RamAccounting RamBounded TailInRam
PROPERTIES ImplementsStore CaptureEnds
CHECK_DEADLOCK FALSE
