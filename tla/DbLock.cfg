SPECIFICATION FairSpec
CONSTANTS
    Threads = {1, 2, 3}
    Records = {1, 2, 3}
    MaxSets = 6
    Instances <- Cases
INVARIANTS
    Consistent
PROPERTIES
    ImplementsRecordLocks
    AllEnd
CHECK_DEADLOCK FALSE
