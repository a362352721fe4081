------------------------------ MODULE MCTasks -------------------------------
(* The threads of dbScan.c, a thread pool and a timer queue for TLC: each  *)
(* behaviour is one of ScanTasks, of ThreadPool or of TimerQueue, with the  *)
(* constants of the configuration.                                         *)
EXTENDS ScanTasks, TLC

CONSTANTS Clients, Jobs, Pools, Timers, HalfQuantum, MaxClock, Queues

\* Pools: initialThreads, maxThreads, whether threads may fail to be created, jobs that hang,
\* operations, and calls of the two clients and of the functions of jobs
Pool(i, m, fails, hangs, ops, nc1, nc2, nj) ==
    [initialThreads |-> i, maxThreads |-> m, fails |-> fails, hangs |-> hangs, ops |-> ops,
     calls |-> ("c1" :> nc1 @@ "c2" :> nc2 @@ "j1" :> nj @@ "j2" :> nj)]
SmallPools == {
    Pool(0, 2, FALSE, {}, {"queue", "unqueue", "destroyJob", "wait", "destroy"}, 3, 1, 1),
    Pool(1, 2, FALSE, {"j1"}, {"queue", "unqueue", "run", "add", "destroy"}, 3, 1, 0),
    Pool(1, 2, FALSE, {}, {"queue", "wait", "poll", "run", "destroy"}, 3, 1, 0),
    Pool(1, 3, FALSE, {}, {"queue", "run", "destroy"}, 4, 0, 0),
    Pool(0, 2, TRUE, {}, {"queue", "run", "wait"}, 2, 1, 1)}

\* Timer queues: operations of the two clients, and of expire(), delays, calls, and runs of a timer
Timed(ops, own, delays, nc1, nc2, nq, nr) ==
    [ops |-> ops, own |-> own, delays |-> delays,
     calls |-> ("c1" :> nc1 @@ "c2" :> nc2 @@ "queue" :> nq), runs |-> nr]
SmallQueues == {
    Timed({"start", "cancel", "destroy"}, {}, {2, 3}, 2, 1, 0, 2),
    Timed({"start", "cancel"}, {"restart"}, {2}, 2, 1, 0, 2),
    Timed({"start", "cancel", "release"}, {"start", "cancel", "destroy"}, {2}, 2, 1, 1, 2)}

VARIABLES task,    \* which of them: never changes
          inst, jobs, owned, queued, running, freewhendone, freed, threadsAreAwake,
          threadsWaking, threadsSleeping, threadsRunning, workerWakeup, shutdownEvent,
          observerWakeup, observerCount, pauseadd, pauserun, freezeopt, shutdown, worker,
          client, notify, calls, failed, gone,
          case, clock, exp, curState, pNotify, destroyed, timerList, pExpireTmr, cancelPending,
          cancelBlockingEvent, rescheduleEvent, terminateFlag, exitFlag, thread, user, uses, runs

poolVars == <<inst, jobs, owned, queued, running, freewhendone, freed, threadsAreAwake,
              threadsWaking, threadsSleeping, threadsRunning, workerWakeup, shutdownEvent,
              observerWakeup, observerCount, pauseadd, pauserun, freezeopt, shutdown, worker,
              client, notify, calls, failed, gone>>
timerVars == <<case, clock, exp, curState, pNotify, destroyed, timerList, pExpireTmr,
               cancelPending, cancelBlockingEvent, rescheduleEvent, terminateFlag, exitFlag,
               thread, user, uses, runs>>

OfPool == INSTANCE ThreadPool WITH Instances <- Pools
OfTimers == INSTANCE TimerQueue WITH
    Threads <- Clients, Cases <- Queues, freed <- destroyed, client <- user, calls <- uses

ASSUME OfPool!ThreadPoolAssumption /\ OfTimers!TimerQueueAssumption

\* One that is not checked stays where nothing it does is fair.
TasksInit ==
    /\ task \in {"scan", "pool", "timers"} /\ Init /\ OfPool!Init /\ OfTimers!Init
    /\ \/ task = "pool" \/ inst = CHOOSE i \in Pools : i.initialThreads = 0
    /\ \/ task = "timers" \/ case = CHOOSE i \in Queues : TRUE
TasksNext ==
    \/ task = "scan" /\ Next /\ UNCHANGED <<task, poolVars, timerVars>>
    \/ task = "pool" /\ OfPool!Next /\ UNCHANGED <<task, vars, timerVars>>
    \/ task = "timers" /\ OfTimers!Next /\ UNCHANGED <<task, vars, poolVars>>
TasksSpec ==
    /\ TasksInit /\ [][TasksNext]_<<task, vars, poolVars, timerVars>>
    /\ Fairness /\ OfPool!Fairness /\ OfTimers!Fairness

\* The invariant of the same name of ThreadPool: counters, lists and flags agree, no job is
\* stranded.
PoolConsistent == OfPool!PoolConsistent
\* The invariant of the same name of ThreadPool: "Blocks until all worker threads have stopped".
WorkersStopped == OfPool!WorkersStopped
\* The property of the same name of ThreadPool: jobs are run and waits end.
PoolServes == OfPool!PoolServes
\* The invariant of the same name of TimerQueue: the list is in order, its thread does not oversleep, and a
\* cancel returns when the run it found is over.
TimersConsistent == OfTimers!TimersConsistent
\* The property of the same name of TimerQueue: timers that are due expire, cancels return.
TimersServed == OfTimers!TimersServed
=============================================================================
