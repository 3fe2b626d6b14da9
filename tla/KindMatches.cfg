SPECIFICATION Spec
CONSTANTS
    Clients = {c1, c2}
    Public = Public
    A = A
    T = T
    Schemas <- TwoSchemas
    DefaultSchema <- Default
    Tables <- OneTable
    MaxDatabase = 2
    MaxSchema = 3
    MaxTable = 2
    MaxTorn = 0
SYMMETRY Symmetry
INVARIANT KindMatches
