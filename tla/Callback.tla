------------------------------ MODULE Callback ------------------------------
(***************************************************************************)
(* The general purpose callback tasks (modules/database/src/ioc/db/        *)
(* callback.c): one ring of requests per priority, filled by any thread    *)
(* and drained by one or more worker threads, started by callbackInit,     *)
(* stopped by callbackStop and torn down by callbackCleanup.               *)
(*                                                                         *)
(* The ring is epicsRingPointer, secured by a spinlock: each push, pop and *)
(* test for emptiness is one step.                                         *)
(***************************************************************************)
EXTENDS Integers, Sequences, FiniteSets

CONSTANTS
    NUM_CALLBACK_PRIORITIES,
    callbackQueueSize,
    threadsConfigured,      \* worker threads, by priority: the default or what
                            \* callbackParallelThreads sets before each start
    Callbacks,              \* the epicsCallback structures
    priority,               \* ... and the priority set in each
    Requesters,             \* threads that call callbackRequest
    Timer,                  \* the thread of timerQueue, for delayed requests
    MaxRequests,            \* bound: requests each thread makes
    MaxInits                \* bound: times the IOC is started

Prios   == 0 .. (NUM_CALLBACK_PRIORITIES - 1)
Callers == Requesters \cup {Timer}
NoCallback == <<>>

ASSUME CallbackAssumption ==
    /\ NUM_CALLBACK_PRIORITIES \in Nat \ {0} /\ callbackQueueSize \in Nat \ {0}
    /\ threadsConfigured \in [Prios -> Nat \ {0}]
    /\ priority \in [Callbacks -> Prios] /\ NoCallback \notin Callbacks
    /\ Timer \notin Requesters /\ MaxRequests \in Nat /\ MaxInits \in Nat

Workers == UNION {{p} \X (1 .. threadsConfigured[p]) : p \in Prios}
prio(w) == w[1]

VARIABLES
    \* callbackQueue[], by priority
    created, queue, semWakeUp, queueOverflow, shutdown, threadsRunning,
    startStopEvent,
    armed,                  \* callbacks whose timer is running
    wpc, job,               \* the workers: place, callback taken
    leaving,                \* last workers that have yet to tell callbackStop
    rpc, request, nreq,     \* the callers: place, callback, requests made
    mpc, mprio, mthr, ninit \* the thread that starts and stops the IOC

ringVars == <<created, queue, semWakeUp, queueOverflow>>
runVars  == <<shutdown, threadsRunning, startStopEvent>>
workVars == <<wpc, job, leaving>>
reqVars  == <<rpc, request, nreq, armed>>
mainVars == <<mpc, mprio, mthr, ninit>>
vars == <<ringVars, runVars, workVars, reqVars, mainVars>>

Init ==
    /\ created = [p \in Prios |-> FALSE] /\ queue = [p \in Prios |-> <<>>]
    /\ semWakeUp = [p \in Prios |-> FALSE] /\ queueOverflow = [p \in Prios |-> FALSE]
    /\ shutdown = [p \in Prios |-> FALSE] /\ threadsRunning = [p \in Prios |-> 0]
    /\ startStopEvent = FALSE
    /\ armed = {}
    /\ wpc = [w \in Workers |-> "none"] /\ job = [w \in Workers |-> NoCallback]
    /\ leaving = 0
    /\ rpc = [r \in Callers |-> "idle"] /\ request = [r \in Callers |-> NoCallback]
    /\ nreq = [r \in Callers |-> 0]
    /\ mpc = "void" /\ mprio = 0 /\ mthr = 1 /\ ninit = 0
----------------------------------------------------------------------------
(* callbackTask *)

WGoto(w, p) == wpc' = [wpc EXCEPT ![w] = p]

WorkerStart(w) ==
    /\ wpc[w] = "starting"
    /\ startStopEvent' = TRUE
    /\ WGoto(w, "loop")
    /\ UNCHANGED <<job, leaving, shutdown, threadsRunning, ringVars, reqVars, mainVars>>

\* while(!shutdown)
WorkerLoop(w) ==
    /\ wpc[w] = "loop"
    /\ WGoto(w, IF shutdown[prio(w)] THEN "exit" ELSE "check")
    /\ UNCHANGED <<job, leaving, ringVars, runVars, reqVars, mainVars>>

WorkerCheck(w) ==
    /\ wpc[w] = "check"
    /\ WGoto(w, IF queue[prio(w)] = <<>> THEN "wait" ELSE "pop")
    /\ UNCHANGED <<job, leaving, ringVars, runVars, reqVars, mainVars>>

WorkerWait(w) ==
    /\ wpc[w] = "wait" /\ semWakeUp[prio(w)]
    /\ semWakeUp' = [semWakeUp EXCEPT ![prio(w)] = FALSE]
    /\ WGoto(w, "pop")
    /\ UNCHANGED <<job, leaving, created, queue, queueOverflow, runVars, reqVars, mainVars>>

WorkerPop(w) ==
    /\ wpc[w] = "pop"
    /\ \/ /\ queue[prio(w)] = <<>>
          /\ WGoto(w, "loop") /\ UNCHANGED <<queue, job>>
       \/ /\ queue[prio(w)] # <<>>
          /\ job' = [job EXCEPT ![w] = Head(queue[prio(w)])]
          /\ queue' = [queue EXCEPT ![prio(w)] = Tail(@)]
          /\ WGoto(w, "more")
    /\ UNCHANGED <<leaving, created, semWakeUp, queueOverflow, runVars, reqVars, mainVars>>

\* (mutant: the other threads are left asleep)
MoreToDo_Never(w) == FALSE
\* there is work for another thread of the same priority
MoreToDo(w) == queue[prio(w)] # <<>>

WorkerMore(w) ==
    /\ wpc[w] = "more"
    /\ WGoto(w, IF MoreToDo(w) THEN "trigger" ELSE "clear")
    /\ UNCHANGED <<job, leaving, ringVars, runVars, reqVars, mainVars>>

WorkerTrigger(w) ==
    /\ wpc[w] = "trigger"
    /\ semWakeUp' = [semWakeUp EXCEPT ![prio(w)] = TRUE]
    /\ WGoto(w, "clear")
    /\ UNCHANGED <<job, leaving, created, queue, queueOverflow, runVars, reqVars, mainVars>>

WorkerClear(w) ==
    /\ wpc[w] = "clear"
    /\ queueOverflow' = [queueOverflow EXCEPT ![prio(w)] = FALSE]
    /\ WGoto(w, "run")
    /\ UNCHANGED <<job, leaving, created, queue, semWakeUp, runVars, reqVars, mainVars>>

\* the callback returns
WorkerRun(w) ==
    /\ wpc[w] = "run"
    /\ job' = [job EXCEPT ![w] = NoCallback]
    /\ WGoto(w, "pop")
    /\ UNCHANGED <<leaving, ringVars, runVars, reqVars, mainVars>>

\* the last thread of the priority tells callbackStop
WorkerExit(w) ==
    /\ wpc[w] = "exit"
    /\ threadsRunning' = [threadsRunning EXCEPT ![prio(w)] = @ - 1]
    /\ leaving' = IF threadsRunning[prio(w)] = 1 THEN leaving + 1 ELSE leaving
    /\ WGoto(w, "none")
    /\ UNCHANGED <<job, shutdown, startStopEvent, ringVars, reqVars, mainVars>>

WorkerLast ==
    /\ leaving > 0
    /\ leaving' = leaving - 1
    /\ startStopEvent' = TRUE
    /\ UNCHANGED <<wpc, job, shutdown, threadsRunning, ringVars, reqVars, mainVars>>

Worker(w) == \/ WorkerStart(w) \/ WorkerLoop(w) \/ WorkerCheck(w) \/ WorkerWait(w)
             \/ WorkerPop(w) \/ WorkerMore(w) \/ WorkerTrigger(w) \/ WorkerClear(w)
             \/ WorkerRun(w) \/ WorkerExit(w)
----------------------------------------------------------------------------
(* callbackRequest, callbackRequestDelayed and callbackCancelDelayed *)

\* the tests of callbackRequest, up to the push
Begin(r, c) ==
    /\ rpc[r] = "idle" /\ nreq[r] < MaxRequests
    /\ nreq' = [nreq EXCEPT ![r] = @ + 1]
    /\ IF created[priority[c]] /\ ~queueOverflow[priority[c]]
       THEN /\ rpc' = [rpc EXCEPT ![r] = "push"]
            /\ request' = [request EXCEPT ![r] = c]
       ELSE UNCHANGED <<rpc, request>>

Request(r, c) ==
    /\ Begin(r, c)
    /\ UNCHANGED <<armed, ringVars, runVars, workVars, mainVars>>

\* the timer expires: notify
Expire(c) ==
    /\ c \in armed /\ Begin(Timer, c)
    /\ armed' = armed \ {c}
    /\ UNCHANGED <<ringVars, runVars, workVars, mainVars>>

RequestDelayed(r, c) ==
    /\ rpc[r] = "idle" /\ nreq[r] < MaxRequests
    /\ nreq' = [nreq EXCEPT ![r] = @ + 1]
    /\ armed' = armed \cup {c}
    /\ UNCHANGED <<rpc, request, ringVars, runVars, workVars, mainVars>>

\* epicsTimerCancel waits for an expiration in progress
CancelDelayed(r, c) ==
    /\ rpc[r] = "idle" /\ request[Timer] # c /\ c \in armed
    /\ armed' = armed \ {c}
    /\ UNCHANGED <<rpc, request, nreq, ringVars, runVars, workVars, mainVars>>

RingFull(p) == Len(queue[p]) = callbackQueueSize

CallerPush(r) ==
    LET p == priority[request[r]] IN
    /\ rpc[r] = "push"
    /\ \/ /\ ~RingFull(p)
          /\ queue' = [queue EXCEPT ![p] = Append(@, request[r])]
          /\ rpc' = [rpc EXCEPT ![r] = "signal"]
       \/ /\ RingFull(p)
          /\ rpc' = [rpc EXCEPT ![r] = "full"] /\ UNCHANGED queue
    /\ UNCHANGED <<created, semWakeUp, queueOverflow, request, nreq, armed, runVars,
                   workVars, mainVars>>

CallerReturn(r) == /\ rpc' = [rpc EXCEPT ![r] = "idle"]
                   /\ request' = [request EXCEPT ![r] = NoCallback]
                   /\ UNCHANGED <<nreq, armed>>

\* the event set that callbackRequest signals
WakeUp(c) == priority[c]

\* (mutant: only the caller that finds its request alone in the ring signals)
CallerSignal_First(r) ==
    /\ rpc[r] = "signal"
    /\ semWakeUp' = IF Len(queue[priority[request[r]]]) = 1
                    THEN [semWakeUp EXCEPT ![WakeUp(request[r])] = TRUE] ELSE semWakeUp
    /\ CallerReturn(r)
    /\ UNCHANGED <<created, queue, queueOverflow, runVars, workVars, mainVars>>

CallerSignal(r) ==
    /\ rpc[r] = "signal"
    /\ semWakeUp' = [semWakeUp EXCEPT ![WakeUp(request[r])] = TRUE]
    /\ CallerReturn(r)
    /\ UNCHANGED <<created, queue, queueOverflow, runVars, workVars, mainVars>>

\* the ring was full when the push was tried
CallerFull(r) ==
    /\ rpc[r] = "full"
    /\ queueOverflow' = [queueOverflow EXCEPT ![priority[request[r]]] = TRUE]
    /\ CallerReturn(r)
    /\ UNCHANGED <<created, queue, semWakeUp, runVars, workVars, mainVars>>

CallerStep(r) == CallerPush(r) \/ CallerSignal(r) \/ CallerFull(r)
----------------------------------------------------------------------------
(* callbackInit, callbackStop and callbackCleanup.  cbState is cbInit in   *)
(* "void", cbStop from "flag" to "stopped" and cbRun elsewhere.            *)

InitBegin ==
    /\ mpc = "void" /\ ninit < MaxInits
    /\ mpc' = "create" /\ mprio' = 0 /\ ninit' = ninit + 1
    /\ UNCHANGED <<mthr, ringVars, runVars, workVars, reqVars>>

InitQueue ==
    /\ mpc = "create"
    /\ IF mprio \in Prios
       THEN /\ created' = [created EXCEPT ![mprio] = TRUE]
            /\ semWakeUp' = [semWakeUp EXCEPT ![mprio] = FALSE]
            /\ queueOverflow' = [queueOverflow EXCEPT ![mprio] = FALSE]
            /\ mpc' = "spawn" /\ mthr' = 1
       ELSE /\ mpc' = "running"
            /\ UNCHANGED <<created, semWakeUp, queueOverflow, mthr>>
    /\ UNCHANGED <<queue, mprio, ninit, runVars, workVars, reqVars>>

MoreThreads == mthr <= threadsConfigured[mprio]

InitSpawn ==
    /\ mpc = "spawn"
    /\ IF MoreThreads
       THEN /\ WGoto(<<mprio, mthr>>, "starting")
            /\ mpc' = "started" /\ UNCHANGED mprio
       ELSE mpc' = "create" /\ mprio' = mprio + 1 /\ UNCHANGED wpc
    /\ UNCHANGED <<job, leaving, mthr, ninit, ringVars, runVars, reqVars>>

\* wait for the thread, count it
InitStarted ==
    /\ mpc = "started" /\ startStopEvent
    /\ startStopEvent' = FALSE
    /\ threadsRunning' = [threadsRunning EXCEPT ![mprio] = @ + 1]
    /\ mpc' = "spawn" /\ mthr' = mthr + 1
    /\ UNCHANGED <<shutdown, mprio, ninit, ringVars, workVars, reqVars>>

StopBegin ==
    /\ mpc = "running"
    /\ mpc' = "flag" /\ mprio' = 0
    /\ UNCHANGED <<mthr, ninit, ringVars, runVars, workVars, reqVars>>

StopFlag ==
    /\ mpc = "flag"
    /\ shutdown' = [shutdown EXCEPT ![mprio] = TRUE]
    /\ semWakeUp' = [semWakeUp EXCEPT ![mprio] = TRUE]
    /\ IF mprio + 1 \in Prios THEN mprio' = mprio + 1 /\ UNCHANGED mpc
                              ELSE mprio' = 0 /\ mpc' = "join"
    /\ UNCHANGED <<created, queue, queueOverflow, threadsRunning, startStopEvent,
                   mthr, ninit, workVars, reqVars>>

\* (mutants: the counter is not waited for; the threads are signaled once)
Stopped_Flag(p) == shutdown[p]
Stopped(p) == threadsRunning[p] = 0

Resignal_Once(p) == UNCHANGED semWakeUp
\* callbackStop signals again each time it has waited
Resignal(p) == semWakeUp' = [semWakeUp EXCEPT ![p] = TRUE]

StopJoin ==
    /\ mpc = "join"
    /\ \/ /\ ~Stopped(mprio)
          /\ Resignal(mprio)
          /\ mpc' = "wait" /\ UNCHANGED mprio
       \/ /\ Stopped(mprio)
          /\ IF mprio + 1 \in Prios THEN mprio' = mprio + 1 /\ UNCHANGED mpc
                                    ELSE mpc' = "stopped" /\ UNCHANGED mprio
          /\ UNCHANGED semWakeUp
    /\ UNCHANGED <<created, queue, queueOverflow, mthr, ninit, runVars, workVars, reqVars>>

\* the event is taken, or 0.1 seconds pass
StopWait ==
    /\ mpc = "wait"
    /\ startStopEvent' = FALSE
    /\ mpc' = "join"
    /\ UNCHANGED <<shutdown, threadsRunning, mprio, mthr, ninit, ringVars, workVars,
                   reqVars>>

\* callbackCleanup, with no request in progress and no timer running: what
\* iocShutdown has stopped before
Cleanup ==
    /\ mpc = "stopped" /\ armed = {} /\ \A r \in Callers : rpc[r] = "idle"
    /\ created' = [p \in Prios |-> FALSE] /\ queue' = [p \in Prios |-> <<>>]
    /\ semWakeUp' = [p \in Prios |-> FALSE]
    /\ queueOverflow' = [p \in Prios |-> FALSE]
    /\ shutdown' = [p \in Prios |-> FALSE] /\ threadsRunning' = [p \in Prios |-> 0]
    /\ mpc' = "void"
    /\ UNCHANGED <<startStopEvent, mprio, mthr, ninit, workVars, reqVars>>

Main == \/ InitBegin \/ InitQueue \/ InitSpawn \/ InitStarted
        \/ StopBegin \/ StopFlag \/ StopJoin \/ StopWait \/ Cleanup

Next == \/ \E w \in Workers : Worker(w)
        \/ WorkerLast
        \/ \E r \in Requesters, c \in Callbacks :
               Request(r, c) \/ RequestDelayed(r, c) \/ CancelDelayed(r, c)
        \/ \E c \in Callbacks : Expire(c)
        \/ \E r \in Callers : CallerStep(r)
        \/ Main

Spec == Init /\ [][Next]_vars

\* Threads go on, and callbacks return; nothing has to be requested, and the
\* IOC need not be stopped.
Fairness == /\ \A w \in Workers : WF_vars(Worker(w))
            /\ WF_vars(WorkerLast)
            /\ \A r \in Callers : WF_vars(CallerStep(r))
            /\ WF_vars(InitQueue \/ InitSpawn \/ InitStarted)
            /\ WF_vars(StopFlag \/ StopJoin \/ StopWait)
FairSpec == Spec /\ Fairness
----------------------------------------------------------------------------
WorkerPlaces == {"none", "starting", "loop", "check", "wait", "pop", "more", "trigger",
                 "clear", "run", "exit"}

\* The variables keep their types, and the rings their size.
TypeOK ==
    /\ created \in [Prios -> BOOLEAN]
    /\ queue \in [Prios -> Seq(Callbacks)]
    /\ \A p \in Prios : Len(queue[p]) <= callbackQueueSize
    /\ semWakeUp \in [Prios -> BOOLEAN] /\ queueOverflow \in [Prios -> BOOLEAN]
    /\ shutdown \in [Prios -> BOOLEAN] /\ threadsRunning \in [Prios -> Int]
    /\ startStopEvent \in BOOLEAN /\ armed \subseteq Callbacks
    /\ wpc \in [Workers -> WorkerPlaces] /\ leaving \in Nat
    /\ job \in [Workers -> Callbacks \cup {NoCallback}]
    /\ rpc \in [Callers -> {"idle", "push", "signal", "full"}]
    /\ request \in [Callers -> Callbacks \cup {NoCallback}]
    /\ \A r \in Callers : rpc[r] # "idle" => request[r] \in Callbacks
    /\ nreq \in [Callers -> 0 .. MaxRequests]
    /\ mpc \in {"void", "create", "spawn", "started", "running", "flag", "join", "wait",
                "stopped"}
    /\ mprio \in 0 .. NUM_CALLBACK_PRIORITIES /\ mthr \in Nat \ {0}
    /\ mpc \in {"spawn", "started", "flag", "join", "wait"} => mprio \in Prios
    /\ mpc = "started" => <<mprio, mthr>> \in Workers
    /\ ninit \in 0 .. MaxInits

\* on the way to look into the ring, or to wake another worker
Looking == {"starting", "loop", "check", "pop", "more", "trigger"}

\* Workers of one priority run callbacks in parallel: while a request waits, a
\* worker sleeps only if it is about to be woken or another one will look into
\* the ring before it runs a callback.  (semWakeUp is binary: any number of
\* requests may have been signaled once.)
NoIdleWorker == \A p \in Prios :
    queue[p] # <<>> /\ ~shutdown[p] /\ (\E w \in Workers : prio(w) = p /\ wpc[w] = "wait")
    => \/ semWakeUp[p]
       \/ \E r \in Callers : rpc[r] = "signal" /\ priority[request[r]] = p
       \/ \E w \in Workers : prio(w) = p /\ wpc[w] \in Looking

\* the threads that callbackInit has started and that have not counted
\* themselves out
Alive(p) == {w \in Workers : prio(w) = p /\ wpc[w] # "none"}

\* When callbackStop returns no worker is left that could run a callback or
\* use the ring that callbackCleanup deletes, on the first start of the IOC and
\* on a later one.
QuietAfterStop == mpc \in {"stopped", "void"} => \A p \in Prios : Alive(p) = {}

\* the thread that callbackInit has started and not counted yet
Uncounted(p) == IF mpc = "started" /\ mprio = p THEN 1 ELSE 0

\* Why QuietAfterStop holds: the threads are started in order, each is counted
\* from then on until it leaves, and none leaves before callbackStop.
LifeCycle ==
    /\ mpc \in {"void", "create", "spawn", "started", "running"} =>
           \A p \in Prios : ~shutdown[p]
    /\ \A w \in Workers : wpc[w] = "exit" => shutdown[prio(w)]
    /\ \A p \in Prios : threadsRunning[p] = Cardinality(Alive(p)) - Uncounted(p)
    /\ mpc = "started" => wpc[<<mprio, mthr>>] # "none"
    /\ \A w \in Workers :
        \/ mpc \in {"void", "stopped"}
        \/ mpc = "create" /\ prio(w) >= mprio
        \/ mpc \in {"spawn", "started"} /\ (prio(w) > mprio \/ (prio(w) = mprio /\ w[2] > mthr))
        \/ mpc = "spawn" /\ prio(w) = mprio /\ w[2] >= mthr
        \/ mpc \in {"join", "wait"} /\ prio(w) < mprio
        => wpc[w] = "none"

\* A request that was accepted is taken by a worker, unless the IOC stops.
AcceptedRuns == \A p \in Prios : []<>(queue[p] = <<>> \/ shutdown[p])

\* callbackStop returns, whatever its workers are doing and however many of
\* them share one event.
StopReturns == []<>(mpc \notin {"flag", "join", "wait"})

\* What is asked of the callback threads is done, and they end.
CallbacksServed == AcceptedRuns /\ StopReturns

\* "Buffer full" (S_db_bufFull) passes: a worker that empties the ring makes
\* callbackRequest accept requests again.
FullPasses == \A p \in Prios : queueOverflow[p] ~> ~queueOverflow[p] \/ shutdown[p]
============================================================================
