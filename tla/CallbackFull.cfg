\* The ring is drained between the push that fails and the overflow flag.
SPECIFICATION FairSpec
CONSTANTS
    NUM_CALLBACK_PRIORITIES = 1
    callbackQueueSize = 1
    threadsConfigured <- DefaultThreads
    Callbacks = {cbLow}
    cbLow = cbLow
    priority <- Priorities
    Requesters = {r1, r2}
    Timer = timer
    MaxRequests = 1
    MaxInits = 1
PROPERTIES
    FullPasses
CHECK_DEADLOCK FALSE
