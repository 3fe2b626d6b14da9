SPECIFICATION FairSpec
CONSTANTS
    Clients = {c1, c2}
    Background = {c1, c2}
    MaxOpenConns = 1
    None = None
PROPERTIES
    CallsReturn
CHECK_DEADLOCK FALSE
