SPECIFICATION FairSpec
CONSTANTS
    Tables = {x, y}
    Clients = {c1}
    Scheduler = Scheduler
    Warehouses = {w}
    WarehouseOf <- OneWarehouse
    Lag = 2
    MaxDefinition = 2
    MaxWait = 0
    ClientOps = {"create", "replace", "refresh", "drop", "dml", "table if not exists"}
    ProcedureOps = {"refresh", "drop", "dml"}
    None = None
INVARIANTS TypeOK DefinitionMatches
PROPERTIES DueIsAttempted
