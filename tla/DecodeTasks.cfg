SPECIFICATION FairSpec
CONSTANTS
    Tasks <- MCTasks
    Plugins <- MCPlugins
    SCALE = 2
    LIMIT = 4
    BLOCK = 2
    PACKETS = {2}
    STREAM_MODES = {TRUE, FALSE}
    MAX_USES = 2
    Ended = Ended
    Failed = Failed
INVARIANTS TypeOK CountIsActive QuietMeansDone CountedWhileRunning ThreadHasTrace FetchCaptured
PROPERTIES OneThreadPerTask StopReturns
CHECK_DEADLOCK FALSE
