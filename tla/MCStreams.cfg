SPECIFICATION Spec
CONSTANTS
    Clients = {c1, c2}
    MaxRow = 2
    MaxStream = 2
    MaxTable = 2
    MatchedRows = {0}
    NoStream = NoStream
SYMMETRY Symmetry
INVARIANTS TypeOK NotReturnedAgain NoRowSkipped
