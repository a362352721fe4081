\* Two periods, two requests and a queue of two, IOCs follow each other; pools of up to three
\* workers, two jobs and two clients; queues of two timers.  Calls and time are bounded: a
\* behaviour may stop.
SPECIFICATION TasksSpec
CONSTANTS
    nPeriodic = 2
    onceQueueSize = 2
    Callers = {c1, c2}
    exitOnce = exitOnce
    Clients = {"c1", "c2"}
    Jobs = {"j1", "j2"}
    Pools <- SmallPools
    Timers = {"t1", "t2"}
    HalfQuantum = 1
    MaxClock = 3
    Queues <- SmallQueues
INVARIANTS
    Consistent
    PoolConsistent
    TimersConsistent
PROPERTIES
    ScansServed
    PoolServes
    TimersServed
CHECK_DEADLOCK FALSE
