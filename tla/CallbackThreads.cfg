\* One requester, the timer and two threads of one priority; the IOC is stopped
\* and started again.
SPECIFICATION FairSpec
CONSTANTS
    NUM_CALLBACK_PRIORITIES = 1
    callbackQueueSize = 2
    threadsConfigured <- MixedThreads
    Callbacks = {cbLow}
    cbLow = cbLow
    priority <- Priorities
    Requesters = {r1}
    Timer = timer
    MaxRequests = 3
    MaxInits = 2
INVARIANTS
    NoIdleWorker
    QuietAfterStop
PROPERTIES
    CallbacksServed
CHECK_DEADLOCK FALSE
