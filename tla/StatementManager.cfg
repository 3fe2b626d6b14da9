SPECIFICATION FairSpec
CONSTANTS
    Handles = {h1}
    None = None
INVARIANTS
    TypeOK
    TerminalRowIsTrue
    FinishedRowIsLast
    CanceledReplyIsTrue
PROPERTIES
    MemoryReclaimed
