\* A client that ends while others enable, disable and offload labor; two queues,
\* and values that are posted by reference.
SPECIFICATION Spec
CONSTANTS
    Subs = {s1, s2}
    Recs = {r1}
    RefRecs = {r1}
    Clients = {c1, c2}
    c1 = c1
    c2 = c2
    Task = eventTask
    EVENTQEMPTY = EVENTQEMPTY
    canceledEvent = canceledEvent
    EVENTSPERQUE = 2
    EVENTENTRIES = 2
    NQ = 2
    MaxVal = 1
    Calls <- CloseCalls
    MaxCalls = 2
    CallbackCancels = "own"
SYMMETRY SubSymmetry
INVARIANTS
    Accounting
    NoLostWakeup
    CloseIsQuiet
    NoUseAfterFree
CHECK_DEADLOCK FALSE
