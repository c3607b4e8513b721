SPECIFICATION FairSpec
CONSTANTS
    Tasks <- MCTasks
    Plugins = {}
    SCALE = 2
    LIMIT = 2
    BLOCK = 2
    PACKETS = {2}
    STREAM_MODES = {TRUE}
    MAX_USES = 2
    Ended = Ended
    Failed = Failed
PROPERTY GuiReturns
CHECK_DEADLOCK FALSE
