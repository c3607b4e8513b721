SPECIFICATION FairSpec
CONSTANTS
    Handles = {h1}
    Demo = Demo
    None = None
    PORTS = 1
    AT_START = {h1}
    CHOSEN = {h1}
    CAPTURED = {h1}
    MAX_STARTS = 1
    RECONNECT = 1
    POLL = TRUE
PROPERTY CancelDispatched
CHECK_DEADLOCK FALSE
