SPECIFICATION FairSpec
CONSTANTS
    Tasks = {t1, t2}
    Clients = {c1}
    Scheduler = Scheduler
    Interval = 1
    MaxId = 3
    None = None
INVARIANTS TypeOK OwnIncarnation AtMostOneLateRun
PROPERTIES StartedTasksRun
