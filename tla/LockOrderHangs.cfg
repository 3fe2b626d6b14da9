SPECIFICATION Spec
CONSTANTS
    Tables = {x}
    Clients = {c1, c2}
    Scheduler = Scheduler
    Warehouses = {w}
    WarehouseOf <- OneWarehouse
    Lag = 2
    MaxDefinition = 1
    MaxWait = 0
    ClientOps = {"create", "drop table"}
    ProcedureOps = {"drop"}
    None = None
INVARIANT NoDeadlock
