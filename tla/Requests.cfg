\* Two requests to a chain of three records, in six cases; a subscription with small queues, with
\* and without a window, in nine.  Calls and values are bounded: a behaviour may stop.
SPECIFICATION RequestsSpec
CONSTANTS
    Notifies = {"n1", "n2"}
    Workers = {"w1", "w2"}
    Records = {1, 2, 3}
    Instances <- Cases
INVARIANTS
    Consistent
    DoneMeansDone
    MonitorConsistent
PROPERTIES
    ImplementsNotify
    RequestsEnd
    ImplementsStream
    MonitorServed
CHECK_DEADLOCK FALSE
