SPECIFICATION Spec
CONSTANTS
    Clients = {c1}
    MaxRow = 1
    MaxStream = 1
    MaxTable = 1
    MatchedRows = {}
    NoStream = NoStream
PROPERTY MergeLosesNoRow
