\* One client adds, cancels and switches flow control while a record posts; one
\* queue of six slots.
SPECIFICATION Spec
CONSTANTS
    Subs = {s1, s2}
    Recs = {r1}
    RefRecs = {}
    Clients = {c1}
    c1 = c1
    c2 = c2
    Task = eventTask
    EVENTQEMPTY = EVENTQEMPTY
    canceledEvent = canceledEvent
    EVENTSPERQUE = 3
    EVENTENTRIES = 2
    NQ = 1
    MaxVal = 2
    Calls <- FlowCalls
    MaxCalls = 3
    CallbackCancels = "own"
SYMMETRY SubSymmetry
INVARIANTS
    RingIntact
    RoomForEach
    NewestDelivered
PROPERTIES
    ImplementsMonitor
CHECK_DEADLOCK FALSE
