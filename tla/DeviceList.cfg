SPECIFICATION FairSpec
CONSTANTS
    Handles = {h1, h2}
    Demo = Demo
    None = None
    PORTS = 1
    AT_START = {h1}
    CHOSEN = {h1, h2}
    CAPTURED = {h1}
    MAX_STARTS = 1
    RECONNECT = 2
    POLL = TRUE
INVARIANTS TypeOK ListSound
PROPERTIES CollectorOwns ListFollowsBus StopHeard
CHECK_DEADLOCK FALSE
