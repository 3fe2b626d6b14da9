SPECIFICATION FairSpec
CONSTANTS
    Clients = {c1, c2, c3}
    Background = {c1}
    MaxOpenConns = 2
    None = None
INVARIANTS
    TypeOK
    WritesSerialized
    NoOtherDeadlock
PROPERTIES
    CallsReturnOrDeadlock
CHECK_DEADLOCK FALSE
