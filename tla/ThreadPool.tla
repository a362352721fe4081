----------------------------- MODULE ThreadPool -----------------------------
(***************************************************************************)
(* Thread pools of libCom (modules/libcom/src/pool/threadPool.c,           *)
(* poolJob.c): workers that are created when they are needed and sleep on  *)
(* one binary event, jobs that may queue or destroy themselves, clients    *)
(* that pause the pool, wait until it is idle and destroy it.  A step is a *)
(* section under the guard of the pool, or a signal outside of it.         *)
(***************************************************************************)
EXTENDS Integers, FiniteSets, SequencesExt

CONSTANTS
    Clients,
    Jobs,
    Instances     \* what is checked, and bounds:
                  \*   initialThreads, maxThreads   the pool's configuration
                  \*   fails    epicsThreadCreate may fail
                  \*   hangs    jobs whose functions may never return
                  \*   ops      what clients do
                  \*   calls    bound: calls of each client and of each job's function

None == "none"
ThreadPoolAssumption ==
    /\ None \notin Jobs /\ Jobs \cap Clients = {} /\ IsFiniteSet(Clients)
    /\ \A i \in Instances :
          /\ i.maxThreads \in Nat \ {0} /\ i.initialThreads \in 0 .. i.maxThreads
          /\ i.fails \in BOOLEAN /\ i.hangs \subseteq Jobs
          /\ i.ops \subseteq {"queue", "unqueue", "destroyJob", "add", "run", "wait", "poll",
                              "destroy"}
          /\ i.calls \in [Clients \cup Jobs -> Nat]

VARIABLES
    inst,                              \* the instance: never changes
    jobs, owned,                       \* lists of the pool
    queued, running, freewhendone,     \* flags of jobs, as the sets that have them
    freed,                             \* jobs that were freed
    threadsAreAwake, threadsWaking, threadsSleeping, threadsRunning,
    workerWakeup, shutdownEvent, observerWakeup, observerCount,
    pauseadd, pauserun, freezeopt, shutdown,
    worker,                            \* place of each worker, its job, what it read last
    client,                            \* place of each client
    notify,                            \* jobs to be told of the end of the pool
    calls,                             \* calls left
    failed,                            \* a CHECKCOUNT has failed: its thread keeps the guard
    gone                               \* the pool was freed

jobVars == <<jobs, owned, queued, running, freewhendone, freed>>
countVars == <<threadsAreAwake, threadsWaking, threadsSleeping, threadsRunning>>
observerVars == <<observerWakeup, observerCount>>
optVars == <<pauseadd, pauserun, freezeopt, shutdown>>
endVars == <<shutdownEvent, notify, gone>>
vars == <<inst, jobVars, countVars, workerWakeup, observerVars, optVars, endVars, worker, client,
          calls, failed>>

Worker(pc) == [pc |-> pc, job |-> None, nrun |-> 0, ocnt |-> 0]
Client(pc) == [pc |-> pc, then |-> "idle", timed |-> FALSE, nThr |-> 0]

\* epicsThreadPoolCreate
Init ==
    /\ inst \in Instances
    /\ jobs = <<>> /\ owned = Jobs /\ queued = {} /\ running = {} /\ freewhendone = {} /\ freed = {}
    /\ threadsAreAwake = 0 /\ threadsWaking = 0
    /\ threadsSleeping = inst.initialThreads /\ threadsRunning = inst.initialThreads
    /\ workerWakeup = FALSE /\ shutdownEvent = FALSE /\ observerWakeup = FALSE /\ observerCount = 0
    /\ pauseadd = FALSE /\ pauserun = FALSE /\ freezeopt = FALSE /\ shutdown = FALSE
    /\ worker = [w \in 1 .. inst.maxThreads |->
                    Worker(IF w <= inst.initialThreads THEN "new" ELSE "none")]
    /\ client = [c \in Clients |-> Client("idle")]
    /\ notify = {} /\ calls = inst.calls /\ failed = FALSE /\ gone = FALSE

Without(j) == RemoveFirst(jobs, j)
\* k calls of createPoolThread
CreateThreads(k) ==
    worker' = [w \in DOMAIN worker |-> IF w \in threadsRunning + 1 .. threadsRunning + k
                                       THEN Worker("new") ELSE worker[w]]
\* m workers are woken, k of them new
Wake(m, k) ==
    /\ threadsWaking' = threadsWaking + m
    /\ threadsSleeping' = threadsSleeping + k /\ threadsRunning' = threadsRunning + k
    /\ workerWakeup' = (workerWakeup \/ m > 0)
    /\ CreateThreads(k)
    /\ failed' = (threadsWaking + m > threadsSleeping + k)    \* CHECKCOUNT
    /\ UNCHANGED threadsAreAwake
-----------------------------------------------------------------------------
(* The functions of jobs, which take the guard as a whole.                 *)

Refused(j) == pauseadd \/ j \in freewhendone \/ j \in queued
\* who runs the job: a worker that sleeps, a new one, or one that is busy or woken already
Serves ==
    \/ threadsWaking < threadsSleeping /\ Wake(1, 0)
    \/ threadsWaking >= threadsSleeping /\ threadsRunning >= inst.maxThreads /\ Wake(0, 0)
    \/ threadsWaking >= threadsSleeping /\ threadsRunning < inst.maxThreads /\ Wake(1, 1)
    \/ /\ threadsWaking >= threadsSleeping /\ threadsRunning \in 1 .. inst.maxThreads - 1
       /\ inst.fails /\ Wake(1, 0)
\* "oops, we couldn't lazy create our first worker"
NoThreads == inst.fails /\ threadsRunning = 0

epicsJobQueue(j) ==
    \/ /\ Refused(j) \/ (j \notin running /\ NoThreads)
       /\ UNCHANGED <<jobVars, countVars, workerWakeup, worker, failed>>
    \/ /\ ~Refused(j) /\ j \in running
       /\ queued' = queued \cup {j}
       /\ UNCHANGED <<jobs, owned, running, freewhendone, freed, countVars, workerWakeup, worker,
                      failed>>
    \/ /\ ~Refused(j) /\ j \notin running
       /\ queued' = queued \cup {j} /\ owned' = owned \ {j} /\ jobs' = Append(jobs, j)
       /\ Serves
       /\ UNCHANGED <<running, freewhendone, freed>>

epicsJobUnqueue(j) ==
    /\ queued' = queued \ {j} /\ jobs' = Without(j)
    /\ owned' = IF j \in queued \ running THEN owned \cup {j} ELSE owned
    /\ UNCHANGED <<running, freewhendone, freed, countVars, workerWakeup, worker, failed>>

epicsJobDestroy(j) ==
    /\ queued' = queued \ {j} /\ jobs' = Without(j) /\ owned' = owned \ {j}
    /\ IF j \in running
       THEN freewhendone' = freewhendone \cup {j} /\ UNCHANGED freed
       ELSE freed' = freed \cup {j} /\ UNCHANGED freewhendone
    /\ UNCHANGED <<running, countVars, workerWakeup, worker, failed>>

Live(j) == j \notin freed \cup freewhendone
\* a job's function does something with its own job or with another
JobCalls(w) ==
    LET j == worker[w].job IN
    /\ worker[w].pc = "run" /\ calls[j] > 0
    /\ calls' = [calls EXCEPT ![j] = @ - 1]
    /\ \E k \in Jobs :
          \/ (k = j \/ Live(k)) /\ (epicsJobQueue(k) \/ epicsJobUnqueue(k))
          \/ Live(k) /\ epicsJobDestroy(k)
    /\ UNCHANGED <<inst, observerVars, optVars, endVars, client>>
-----------------------------------------------------------------------------
(* workerMain                                                              *)

WorkerBegin(w) ==
    /\ worker[w].pc = "new" /\ worker' = [worker EXCEPT ![w] = Worker("wait")]
    /\ UNCHANGED <<inst, jobVars, countVars, workerWakeup, observerVars, optVars, endVars, client,
                   calls, failed>>

WorkerWait(w) ==
    /\ worker[w].pc = "wait" /\ workerWakeup
    /\ workerWakeup' = FALSE /\ worker' = [worker EXCEPT ![w] = Worker("woken")]
    /\ UNCHANGED <<inst, jobVars, countVars, observerVars, optVars, endVars, client, calls, failed>>

\* the guard is held: the next job of list q is taken, or the worker goes to sleep
TakesFrom(w, q) ==
    IF q = <<>>
    THEN /\ jobs' = q /\ worker' = [worker EXCEPT ![w] = Worker("wait")]
         /\ observerWakeup' = (observerWakeup \/ observerCount > 0)
         /\ UNCHANGED observerCount
    ELSE /\ jobs' = Tail(q) /\ worker' = [worker EXCEPT ![w] = [Worker("run") EXCEPT !.job = Head(q)]]
         /\ UNCHANGED observerVars

\* (mutant: the signal is not passed along)
PassAlong_Not(waking) == UNCHANGED workerWakeup
\* "more threads to wakeup"
PassAlong(waking) == workerWakeup' = (workerWakeup \/ waking > 0)

\* nobody was to be woken, or the pool is paused
WorkerBack(w) ==
    /\ worker[w].pc = "woken" /\ (threadsWaking = 0 \/ (~shutdown /\ pauserun))
    /\ threadsWaking' = IF threadsWaking = 0 THEN 0 ELSE threadsWaking - 1
    /\ worker' = [worker EXCEPT ![w] = Worker("wait")]
    /\ UNCHANGED <<inst, jobVars, threadsAreAwake, threadsSleeping, threadsRunning, workerWakeup,
                   observerVars, optVars, endVars, client, calls, failed>>

WorkerServes(w) ==
    /\ worker[w].pc = "woken" /\ threadsWaking > 0 /\ ~shutdown /\ ~pauserun
    /\ threadsWaking' = threadsWaking - 1 /\ PassAlong(threadsWaking - 1)
    /\ TakesFrom(w, jobs)
    /\ IF jobs = <<>> THEN UNCHANGED <<threadsAreAwake, threadsSleeping, queued, running>>
       ELSE /\ threadsAreAwake' = threadsAreAwake + 1 /\ threadsSleeping' = threadsSleeping - 1
            /\ queued' = queued \ {Head(jobs)} /\ running' = running \cup {Head(jobs)}
    /\ UNCHANGED <<inst, owned, freewhendone, freed, threadsRunning, optVars, endVars, client, calls,
                   failed>>

\* the job's function has returned
WorkerNext(w) ==
    LET j == worker[w].job
        q == IF j \in queued \ freewhendone THEN Append(jobs, j) ELSE jobs
    IN
    /\ worker[w].pc = "run"
    /\ freed' = IF j \in freewhendone THEN freed \cup {j} ELSE freed
    /\ owned' = IF j \in queued \cup freewhendone THEN owned ELSE owned \cup {j}
    /\ TakesFrom(w, q)
    /\ IF q = <<>>
       THEN /\ running' = running \ {j} /\ UNCHANGED queued
            /\ threadsAreAwake' = threadsAreAwake - 1 /\ threadsSleeping' = threadsSleeping + 1
       ELSE /\ running' = (running \ {j}) \cup {Head(q)} /\ queued' = queued \ {Head(q)}
            /\ UNCHANGED <<threadsAreAwake, threadsSleeping>>
    /\ UNCHANGED <<inst, freewhendone, threadsWaking, threadsRunning, workerWakeup, optVars, endVars,
                   client, calls, failed>>

WorkerLeaves(w) ==
    /\ worker[w].pc = "woken" /\ threadsWaking > 0 /\ shutdown
    /\ threadsWaking' = threadsWaking - 1 /\ threadsSleeping' = threadsSleeping - 1
    /\ threadsRunning' = threadsRunning - 1
    /\ worker' = [worker EXCEPT ![w] = [pc |-> "leaving", job |-> None, nrun |-> threadsRunning - 1,
                                        ocnt |-> observerCount]]
    /\ UNCHANGED <<inst, jobVars, threadsAreAwake, workerWakeup, observerVars, optVars, endVars, client,
                   calls, failed>>

\* "pass along"
WorkerExit(w) ==
    /\ worker[w].pc = "leaving"
    /\ worker' = [worker EXCEPT ![w] = Worker("exited")]
    /\ observerWakeup' = (observerWakeup \/ worker[w].ocnt > 0)
    /\ workerWakeup' = (workerWakeup \/ worker[w].nrun > 0)
    /\ shutdownEvent' = (shutdownEvent \/ worker[w].nrun = 0)
    /\ UNCHANGED <<inst, jobVars, countVars, observerCount, optVars, notify, gone, client, calls, failed>>
-----------------------------------------------------------------------------
(* Calls of clients.  They use no job they have destroyed, and call        *)
(* nothing else once one of them destroys the pool.                        *)

Calls(c, op) ==
    /\ op \in inst.ops /\ client[c].pc = "idle" /\ calls[c] > 0 /\ ~freezeopt
    /\ calls' = [calls EXCEPT ![c] = @ - 1]

CallJob(c) == \E j \in Jobs :
    /\ Live(j)
    /\ \/ Calls(c, "queue") /\ epicsJobQueue(j)
       \/ Calls(c, "unqueue") /\ epicsJobUnqueue(j)
       \/ Calls(c, "destroyJob") /\ epicsJobDestroy(j)
    /\ UNCHANGED <<inst, observerVars, optVars, endVars, client>>

\* epicsThreadPoolControl with epicsThreadPoolQueueAdd
ControlAdd(c) ==
    /\ Calls(c, "add") /\ pauseadd' = ~pauseadd
    /\ UNCHANGED <<inst, jobVars, countVars, workerWakeup, observerVars, pauserun, freezeopt,
                   shutdown, endVars, worker, client, failed>>

Least(a, b) == IF a < b THEN a ELSE b
\* queued jobs are given to workers that sleep, and to new ones
Resume ==
    LET n == Len(jobs)
        m == Least(n, threadsSleeping - threadsWaking)
        most == Least(n - m, inst.maxThreads - threadsRunning)
    IN  \E k \in 0 .. most : (k = most \/ inst.fails) /\ Wake(m + k, k)

\* ... and with epicsThreadPoolQueueRun
ControlRun(c) ==
    /\ Calls(c, "run") /\ pauserun' = ~pauserun
    /\ IF pauserun THEN Resume ELSE UNCHANGED <<countVars, workerWakeup, worker, failed>>
    /\ UNCHANGED <<inst, jobVars, observerVars, pauseadd, freezeopt, shutdown, endVars, client>>

Busy == jobs # <<>> \/ threadsAreAwake > 0
\* epicsThreadPoolWait, without a timeout or with one
WaitBegin(c, timed) ==
    /\ \/ timed /\ Calls(c, "poll")
       \/ ~timed /\ Calls(c, "wait")
       \/ ~timed /\ client[c].pc = "drain" /\ UNCHANGED calls
    /\ IF Busy
       THEN /\ observerCount' = observerCount + 1
            /\ client' = [client EXCEPT ![c].pc = "waiting", ![c].timed = timed]
       ELSE /\ client' = [client EXCEPT ![c].pc = client[c].then] /\ UNCHANGED observerCount
    /\ UNCHANGED <<inst, jobVars, countVars, workerWakeup, observerWakeup, optVars, endVars, worker,
                   failed>>

\* (mutant: the other observers are not told)
TellObserver_Not == UNCHANGED observerWakeup
\* an observer that was woken wakes the next one
TellObserver == observerWakeup' = (observerWakeup \/ observerCount > 1)

WaitWake(c) ==
    /\ client[c].pc = "waiting" /\ observerWakeup
    /\ observerWakeup' = FALSE /\ client' = [client EXCEPT ![c].pc = "woken"]
    /\ UNCHANGED <<inst, jobVars, countVars, workerWakeup, observerCount, optVars, endVars, worker,
                   calls, failed>>

WaitTest(c) ==
    /\ client[c].pc = "woken"
    /\ TellObserver
    /\ IF Busy
       THEN client' = [client EXCEPT ![c].pc = "waiting"] /\ UNCHANGED observerCount
       ELSE client' = [client EXCEPT ![c].pc = client[c].then] /\ observerCount' = observerCount - 1
    /\ UNCHANGED <<inst, jobVars, countVars, workerWakeup, optVars, endVars, worker, calls, failed>>

WaitTimeout(c) ==
    /\ client[c].pc = "waiting" /\ client[c].timed
    /\ TellObserver /\ observerCount' = observerCount - 1
    /\ client' = [client EXCEPT ![c].pc = "idle"]
    /\ UNCHANGED <<inst, jobVars, countVars, workerWakeup, optVars, endVars, worker, calls, failed>>
-----------------------------------------------------------------------------
(* epicsThreadPoolDestroy                                                  *)

DestroyBegin(c) ==
    /\ Calls(c, "destroy") /\ \A d \in Clients : client[d].pc = "idle"
    /\ pauseadd' = TRUE /\ pauserun' = FALSE /\ freezeopt' = TRUE
    /\ IF pauserun THEN Resume ELSE UNCHANGED <<countVars, workerWakeup, worker, failed>>
    /\ client' = [client EXCEPT ![c] = [Client("drain") EXCEPT !.then = "drained",
                                                              !.nThr = threadsRunning']]
    /\ UNCHANGED <<inst, jobVars, observerVars, shutdown, endVars>>

\* "wakeup all"
DestroyShutdown(c) ==
    /\ client[c].pc = "drained"
    /\ shutdown' = TRUE
    /\ threadsWaking' = IF threadsWaking < threadsSleeping THEN threadsSleeping ELSE threadsWaking
    /\ workerWakeup' = (workerWakeup \/ threadsWaking < threadsSleeping)
    /\ notify' = owned \cup {jobs[i] : i \in DOMAIN jobs} /\ owned' = {} /\ jobs' = <<>>
    /\ client' = [client EXCEPT ![c].pc = "join"]
    /\ UNCHANGED <<inst, queued, running, freewhendone, freed, threadsAreAwake, threadsSleeping,
                   threadsRunning, observerVars, pauseadd, pauserun, freezeopt, shutdownEvent, gone,
                   worker, calls, failed>>

DestroyJoin(c) ==
    /\ client[c].pc = "join" /\ (client[c].nThr = 0 \/ shutdownEvent)
    /\ shutdownEvent' = FALSE /\ client' = [client EXCEPT ![c].pc = "cleanup"]
    /\ UNCHANGED <<inst, jobVars, countVars, workerWakeup, observerVars, optVars, notify, gone, worker,
                   calls, failed>>

\* the job's function is told, and may destroy its job; otherwise it is an orphan
DestroyNotify(c) == \E j \in notify :
    /\ client[c].pc = "cleanup"
    /\ notify' = notify \ {j}
    /\ freed' \in {freed, freed \cup {j}}
    /\ UNCHANGED <<inst, jobs, owned, queued, running, freewhendone, countVars, workerWakeup,
                   observerVars, optVars, shutdownEvent, gone, worker, client, calls, failed>>

DestroyEnd(c) ==
    /\ client[c].pc = "cleanup" /\ notify = {}
    /\ gone' = TRUE /\ client' = [client EXCEPT ![c].pc = "gone"]
    /\ UNCHANGED <<inst, jobVars, countVars, workerWakeup, observerVars, optVars, shutdownEvent, notify,
                   worker, calls, failed>>
-----------------------------------------------------------------------------
Call(c) == \/ CallJob(c) \/ ControlAdd(c) \/ ControlRun(c) \/ DestroyBegin(c)
ClientStep(c) == \/ \E timed \in BOOLEAN : WaitBegin(c, timed)
                 \/ WaitWake(c) \/ WaitTest(c) \/ WaitTimeout(c)
                 \/ DestroyShutdown(c) \/ DestroyJoin(c) \/ DestroyNotify(c) \/ DestroyEnd(c)
WorkerStep(w) == \/ WorkerBegin(w) \/ WorkerWait(w) \/ WorkerBack(w) \/ WorkerServes(w)
                 \/ WorkerLeaves(w) \/ WorkerExit(w)

Next == ~failed /\ \/ \E c \in Clients : Call(c) \/ ClientStep(c)
                   \/ \E w \in DOMAIN worker : WorkerStep(w) \/ WorkerNext(w) \/ JobCalls(w)
Spec == Init /\ [][Next]_vars

\* Workers go on, the functions of jobs return but for those that hang, and a client that
\* waits takes its signal.
WorkerGoes(w) == ~failed /\ w \in DOMAIN worker /\ WorkerStep(w)
JobReturns(w) == ~failed /\ w \in DOMAIN worker /\ worker[w].job \notin inst.hangs /\ WorkerNext(w)
ClientGoes(c) == ~failed /\ client[c].pc # "idle" /\ ClientStep(c)
Fairness ==
    /\ \A w \in UNION {1 .. i.maxThreads : i \in Instances} :
          WF_vars(WorkerGoes(w)) /\ WF_vars(JobReturns(w))
    /\ \A c \in Clients : WF_vars(ClientGoes(c))
FairSpec == Spec /\ Fairness
-----------------------------------------------------------------------------
At(pcs) == {w \in DOMAIN worker : worker[w].pc \in pcs}
\* The type of every variable.
TypeOK ==
    /\ inst \in Instances
    /\ jobs \in Seq(Jobs) /\ owned \subseteq Jobs /\ queued \subseteq Jobs /\ running \subseteq Jobs
    /\ freewhendone \subseteq Jobs /\ freed \subseteq Jobs /\ notify \subseteq Jobs
    /\ {threadsAreAwake, threadsWaking, threadsSleeping, threadsRunning} \subseteq 0 .. inst.maxThreads
    /\ observerCount \in 0 .. Cardinality(Clients)
    /\ {workerWakeup, shutdownEvent, observerWakeup, failed, gone} \subseteq BOOLEAN
    /\ {pauseadd, pauserun, freezeopt, shutdown} \subseteq BOOLEAN
    /\ \A w \in DOMAIN worker :
          /\ worker[w].pc \in {"none", "new", "wait", "woken", "run", "leaving", "exited"}
          /\ worker[w].job \in Jobs \cup {None}
    /\ \A c \in Clients : client[c].pc \in {"idle", "drain", "waiting", "woken", "drained", "join",
                                            "cleanup", "gone"}

\* The counters count the workers in each place, kept by hand in five functions; no more
\* are to be woken than sleep, unless a worker could not be created (CHECKCOUNT).
CountsAgree ==
    /\ threadsAreAwake = Cardinality(At({"run"}))
    /\ threadsSleeping = Cardinality(At({"new", "wait", "woken"}))
    /\ threadsRunning = threadsAreAwake + threadsSleeping
    /\ threadsWaking <= threadsSleeping \/ failed
    /\ observerCount = Cardinality({c \in Clients : client[c].pc \in {"waiting", "woken"}})

\* A job is in the one place its flags say: in the run queue once, with the one worker that
\* runs it, or owned; and is not freed while anybody may come to it.
JobsPlaced == \A j \in Jobs :
    LET inQueue == Cardinality({i \in DOMAIN jobs : jobs[i] = j})
        runs == Cardinality({w \in DOMAIN worker : worker[w].job = j})
    IN  /\ inQueue = (IF j \in queued \ running THEN 1 ELSE 0)
        /\ j \in freed => inQueue = 0 /\ runs = 0 /\ j \notin owned \cup notify
        /\ j \notin freed => runs = (IF j \in running THEN 1 ELSE 0)
        /\ j \in owned => inQueue = 0 /\ runs = 0

\* No job waits while every worker sleeps; and a worker that is to be woken will be, when a
\* job waits for it or no other can be woken, although the event holds one signal only.
NoneStranded ==
    /\ jobs # <<>> /\ ~pauserun /\ ~failed => threadsAreAwake > 0 \/ threadsWaking > 0
    /\ /\ threadsWaking > 0 /\ ~failed
       /\ threadsWaking = threadsSleeping \/ (jobs # <<>> /\ ~pauserun)
       => workerWakeup \/ At({"woken", "leaving"}) # {}

\* "At this point all queued jobs have run", and when the pool is freed no worker takes its
\* guard any more.
EndsClean == /\ shutdown => jobs = <<>> /\ At({"run"}) = {}
             /\ gone => At({"new", "wait", "woken"}) = {}
\* "Blocks until all worker threads have stopped", of epicsThreadPoolDestroy: when the pool is
\* freed no worker has its guard or its events left to use.
WorkersStopped == gone => At({"new", "wait", "woken", "run", "leaving"}) = {}

\* What the counters, the lists and the flags of the pool say of workers and jobs is so.
PoolConsistent == TypeOK /\ CountsAgree /\ JobsPlaced /\ NoneStranded /\ EndsClean

\* "val==0 prevents workers from running jobs": does not hold of a worker that is at work.
PausedIsQuiet == [][pauserun /\ pauserun' => running' \subseteq running]_vars

\* A job in the queue is run, without waiting for another job to end as long as a worker may
\* be had, and a wait ends, also that of epicsThreadPoolDestroy.
PoolServes ==
    /\ \A j \in Jobs :
          []<>(j \notin queued \ running \/ pauserun \/ failed \/ threadsAreAwake = inst.maxThreads)
    /\ \A c \in Clients :
          []<>(client[c].pc \in {"idle", "gone"} \/ (pauserun /\ Busy) \/ failed \/ inst.hangs # {})
=============================================================================
