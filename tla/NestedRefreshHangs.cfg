SPECIFICATION Spec
CONSTANTS
    Tables = {x}
    Clients = {c1}
    Scheduler = Scheduler
    Warehouses = {w}
    WarehouseOf <- OneWarehouse
    Lag = 2
    MaxDefinition = 1
    MaxWait = 0
    ClientOps = {"create"}
    ProcedureOps = {"refresh"}
    None = None
INVARIANT NoDeadlock
