\* A pool is destroyed while its workers leave.
SPECIFICATION TasksSpec
CONSTANTS
    nPeriodic = 2
    onceQueueSize = 2
    Callers = {c1, c2}
    exitOnce = exitOnce
    Clients = {"c1", "c2"}
    Jobs = {"j1", "j2"}
    Pools <- SmallPools
    Timers = {"t1", "t2"}
    HalfQuantum = 1
    MaxClock = 3
    Queues <- SmallQueues
INVARIANTS
    WorkersStopped
CHECK_DEADLOCK FALSE
