SPECIFICATION Spec
CONSTANTS
    Tables = {x, y}
    Clients = {c1}
    Scheduler = Scheduler
    Warehouses = {w}
    WarehouseOf <- OneWarehouse
    Lag = 2
    MaxDefinition = 2
    MaxWait = 0
    ClientOps = {"create", "table if not exists", "dml"}
    ProcedureOps = {"drop"}
    None = None
PROPERTIES OrdinaryLeavesDynamic
