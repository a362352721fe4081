\* Two channels: two puts to one that may hang beside one to the other, a put to a link field,
\* three puts to one channel; and progress of delivery, of offloaded labor and of cancel and
\* close.  Calls are bounded: a behaviour may stop.
SPECIFICATION ServerSpec
CONSTANTS
    Channels = {"c1", "c2"}
    MaxPuts = 3
    Instances <- PutCases
    Subs = {"s1"}
    EVENTSPERQUE = 3
    EVENTENTRIES = 2
    MaxCalls = 2
INVARIANTS
    PutsConsistent
PROPERTIES
    EventsServed
    PutsEnd
CHECK_DEADLOCK FALSE
