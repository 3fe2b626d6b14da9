SPECIFICATION Spec
CONSTANTS
    Clients = {c1, c2}
    Public = Public
    A = A
    T = T
    Schemas <- CollidingSchemas
    DefaultSchema <- Default
    Tables <- CollidingTables
    MaxDatabase = 2
    MaxSchema = 3
    MaxTable = 2
    MaxTorn = 0
SYMMETRY Symmetry
INVARIANT RowHasStorage
