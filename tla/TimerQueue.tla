----------------------------- MODULE TimerQueue -----------------------------
(***************************************************************************)
(* Timer queues of libCom (modules/libcom/src/timer/timer.cpp,             *)
(* timerQueue.cpp, timerQueueActive.cpp): a list of timers in the order of *)
(* their expiry, and a thread that calls expire() of those that are due    *)
(* without the lock of the queue and then sleeps until the next.  Clients, *)
(* and expire() itself, start, cancel and destroy timers meanwhile.  A     *)
(* step is a section under the lock of the queue, or a step outside of it. *)
(***************************************************************************)
EXTENDS Integers, Sequences, FiniteSets, SequencesExt

CONSTANTS
    Threads,      \* threads that use the queue
    Timers,
    HalfQuantum,  \* half of the queue's sleep quantum, in ticks of the clock
    MaxClock,     \* bound: where time ends
    Cases         \* what is checked: ops, the operations of clients; own, those of expire(); and
                  \* bounds: calls of each thread, and runs of each timer

None == "none"
Queue == "queue"               \* the queue's own thread
Never == MaxClock + 100        \* DBL_MAX
TimerQueueAssumption ==
    /\ None \notin Timers /\ HalfQuantum \in Nat /\ MaxClock \in Nat
    /\ \A i \in Cases : /\ i.delays \subseteq {d \in Nat : d > HalfQuantum}
                        /\ i.ops \cup i.own \subseteq {"start", "cancel", "destroy", "restart",
                                               "release"}
                        /\ i.calls \in [Threads \cup {Queue} -> Nat] /\ i.runs \in Nat

VARIABLES
    case, clock,
    exp, curState, pNotify,            \* of each timer; pNotify as whether there is one
    freed,                             \* timers that were destroyed
    timerList,
    pExpireTmr, cancelPending,
    cancelBlockingEvent, rescheduleEvent,
    terminateFlag, exitFlag,
    thread,                            \* the queue's thread: its place, what it knows of the time
                                       \* and how long it sleeps
    client,                            \* the place of each thread that uses the queue
    calls, runs                        \* calls left; runs of each timer

timerVars == <<exp, curState, pNotify, timerList>>
queueVars == <<pExpireTmr, cancelPending>>
flagVars == <<terminateFlag, exitFlag>>
vars == <<case, clock, timerVars, freed, queueVars, cancelBlockingEvent, rescheduleEvent, flagVars,
          thread, client, calls, runs>>

Idle == [pc |-> "idle", timer |-> None, run |-> 0, op |-> None]
Top == [pc |-> "top", now |-> 0, delay |-> 0, until |-> 0]
Init ==
    /\ case \in Cases /\ clock = 0
    /\ exp = [t \in Timers |-> 0] /\ curState = [t \in Timers |-> "limbo"]
    /\ pNotify = [t \in Timers |-> FALSE] /\ freed = {} /\ timerList = <<>>
    /\ pExpireTmr = None /\ cancelPending = FALSE
    /\ cancelBlockingEvent = FALSE /\ rescheduleEvent = FALSE
    /\ terminateFlag = FALSE /\ exitFlag = FALSE
    /\ thread = [Top EXCEPT !.pc = "none"]
    /\ client = [c \in Threads |-> Idle]
    /\ calls = case.calls /\ runs = [t \in Timers |-> 0]

\* The constructor of the queue creates its thread.  Time begins then.
Create ==
    /\ thread.pc = "none" /\ thread' = Top
    /\ UNCHANGED <<case, clock, timerVars, freed, queueVars, cancelBlockingEvent, rescheduleEvent,
                   flagVars, client, calls, runs>>

Tick ==
    /\ thread.pc # "none" /\ clock < MaxClock /\ clock' = clock + 1
    /\ UNCHANGED <<case, timerVars, freed, queueVars, cancelBlockingEvent, rescheduleEvent, flagVars,
                   thread, client, calls, runs>>
-----------------------------------------------------------------------------
(* Operations, with the lock held.                                         *)

\* Nobody uses a timer that was destroyed, or is.
Usable == Timers \ (freed \cup {client[c].timer : c \in {d \in Threads : client[d].op = "destroy"}})

\* The place of a timer that expires at e, after those that expire no later: the loop of
\* privateStart walks from the end of the list.
Place(list, e) ==
    LET before == {i \in DOMAIN list : exp[list[i]] <= e}
    IN  IF before = {} THEN 1 ELSE 1 + CHOOSE i \in before : \A k \in before : k <= i

\* timerList.remove()
Without(list, t) ==
    IF t \in Range(list) THEN RemoveAt(list, CHOOSE i \in DOMAIN list : list[i] = t) ELSE list

\* timer::privateStart; list is the list of timers
privateStart(t, list, expire) ==
    LET others == Without(list, t)
        at == Place(others, expire - HalfQuantum)
    IN  /\ exp' = [exp EXCEPT ![t] = expire - HalfQuantum]
        /\ timerList' = InsertAt(others, at, t)
        /\ rescheduleEvent' = (rescheduleEvent \/ at = 1)
start(t, expire) ==
    /\ pNotify' = [pNotify EXCEPT ![t] = TRUE]
    /\ \/ /\ curState[t] = "active" /\ exp' = [exp EXCEPT ![t] = expire - HalfQuantum]
          /\ UNCHANGED <<curState, timerList, rescheduleEvent>>
       \/ /\ curState[t] # "active" /\ curState' = [curState EXCEPT ![t] = "pending"]
          /\ privateStart(t, timerList, expire)
    /\ UNCHANGED <<queueVars, cancelBlockingEvent>>

\* timer::cancel, up to its wait
cancel(t) ==
    /\ pNotify' = [pNotify EXCEPT ![t] = FALSE]
    /\ curState' = [curState EXCEPT ![t] = "limbo"]
    /\ timerList' = Without(timerList, t)
    /\ cancelPending' = (cancelPending \/ curState[t] = "active")
    /\ UNCHANGED <<exp, pExpireTmr, cancelBlockingEvent, rescheduleEvent>>
-----------------------------------------------------------------------------
(* The thread of the queue.                                                *)

threadElse == <<case, clock, freed, client, calls>>

\* run() looks at the flag and at the time
ThreadTop ==
    /\ thread.pc = "top"
    /\ thread' = [thread EXCEPT !.pc = IF terminateFlag THEN "exited" ELSE "process", !.now = clock]
    /\ exitFlag' = terminateFlag
    /\ UNCHANGED <<threadElse, timerVars, queueVars, cancelBlockingEvent, rescheduleEvent,
                   terminateFlag, runs>>

\* process() with the list and the timers as they are now: the first timer, if it is due,
\* begins to expire
TakeDue(list, e, states, notifies) ==
    /\ exp' = e
    /\ IF list # <<>> /\ thread.now >= e[Head(list)]
       THEN LET t == Head(list) IN
            /\ timerList' = Tail(list) /\ pExpireTmr' = t
            /\ curState' = [states EXCEPT ![t] = "active"]
            /\ pNotify' = [notifies EXCEPT ![t] = FALSE]
            /\ runs' = [runs EXCEPT ![t] = @ + 1]
            /\ thread' = [thread EXCEPT !.pc = "expire"]
       ELSE /\ timerList' = list /\ pExpireTmr' = None /\ curState' = states /\ pNotify' = notifies
            /\ thread' = [thread EXCEPT !.pc = "sleep",
                             !.delay = IF list = <<>> THEN Never ELSE e[Head(list)] - thread.now]
            /\ UNCHANGED runs

ProcessBegin ==
    /\ thread.pc = "process" /\ TakeDue(timerList, exp, curState, pNotify)
    /\ UNCHANGED <<threadElse, cancelPending, cancelBlockingEvent, rescheduleEvent, flagVars>>

\* expire() uses its own timer or another; a cancel by this thread does not wait
ExpireCalls == \E t \in Usable :
    /\ thread.pc = "expire"
    /\ \/ /\ "start" \in case.own /\ runs[t] < case.runs
          /\ \E d \in case.delays : start(t, clock + d)
          /\ UNCHANGED freed
       \/ "cancel" \in case.own /\ cancel(t) /\ UNCHANGED freed
       \/ /\ "destroy" \in case.own /\ \A c \in Threads : client[c].timer # t
          /\ cancel(t) /\ freed' = freed \cup {t}
    /\ calls[Queue] > 0 /\ calls' = [calls EXCEPT ![Queue] = @ - 1]
    /\ UNCHANGED <<case, clock, client, flagVars, thread, runs>>

\* (mutant: who cancels it is not told)
TellCancel_Not == UNCHANGED cancelBlockingEvent
TellCancel == cancelBlockingEvent' = (cancelBlockingEvent \/ cancelPending)
\* "only restart if they didnt cancel() the timer while the call back was running"
Restarts(d) == ~cancelPending /\ (pNotify[pExpireTmr] \/ d # Never)

\* expire() returns, and asks for a restart after d, or not
ProcessAfter(d) ==
    LET t == pExpireTmr
        again == IF pNotify[t] THEN exp[t] ELSE thread.now + d
        at == Place(timerList, again - HalfQuantum)
    IN
    /\ thread.pc = "expire" /\ (d = Never \/ ("restart" \in case.own /\ runs[t] < case.runs))
    /\ cancelPending' = FALSE /\ TellCancel
    /\ IF Restarts(d)
       THEN /\ rescheduleEvent' = (rescheduleEvent \/ at = 1)
            /\ TakeDue(InsertAt(timerList, at, t), [exp EXCEPT ![t] = again - HalfQuantum],
                       [curState EXCEPT ![t] = "pending"], [pNotify EXCEPT ![t] = TRUE])
       ELSE /\ TakeDue(timerList, exp,
                       [curState EXCEPT ![t] = IF cancelPending THEN @ ELSE "limbo"], pNotify)
            /\ UNCHANGED rescheduleEvent
    /\ UNCHANGED <<threadElse, flagVars>>

ThreadSleep ==
    /\ thread.pc = "sleep"
    /\ thread' = [thread EXCEPT !.pc = "asleep",
                     !.until = IF thread.delay = Never THEN Never ELSE clock + thread.delay]
    /\ UNCHANGED <<threadElse, timerVars, queueVars, cancelBlockingEvent, rescheduleEvent, flagVars,
                   runs>>

\* by the event, or because of the time; time ends at MaxClock, and so does a sleep
ThreadWake ==
    /\ thread.pc = "asleep"
    /\ rescheduleEvent \/ clock >= thread.until \/ (thread.until # Never /\ clock = MaxClock)
    /\ rescheduleEvent' = FALSE /\ thread' = Top
    /\ UNCHANGED <<threadElse, timerVars, queueVars, cancelBlockingEvent, flagVars, runs>>
-----------------------------------------------------------------------------
(* Threads that use the queue.                                             *)

clientElse == <<case, clock, thread, runs>>
Calls(c, op) == /\ op \in case.ops /\ client[c].pc = "idle" /\ calls[c] > 0
                /\ thread.pc # "none" /\ ~terminateFlag
                /\ calls' = [calls EXCEPT ![c] = @ - 1]

Start(c) == \E t \in Usable, d \in case.delays :
    /\ Calls(c, "start") /\ runs[t] < case.runs
    /\ start(t, clock + d)
    /\ UNCHANGED <<clientElse, freed, flagVars, client>>

\* timer::cancel, also by timer::destroy: a timer that is active is waited for
Cancel(c, op) == \E t \in Usable :
    /\ Calls(c, op) /\ cancel(t)
    /\ op = "destroy" => \A b \in Threads : client[b].timer # t
    /\ IF curState[t] = "active"
       THEN client' = [client EXCEPT ![c] = [pc |-> "wait", timer |-> t, run |-> runs[t], op |-> op]]
       ELSE UNCHANGED client
    /\ freed' = IF op = "destroy" /\ curState[t] # "active" THEN freed \cup {t} ELSE freed
    /\ UNCHANGED <<clientElse, flagVars>>

CancelWake(c) ==
    /\ client[c].pc = "wait" /\ cancelBlockingEvent
    /\ cancelBlockingEvent' = FALSE /\ client' = [client EXCEPT ![c].pc = "test"]
    /\ UNCHANGED <<clientElse, timerVars, freed, queueVars, rescheduleEvent, flagVars, calls>>

\* (mutant: any signal ends the wait)
StillRuns_Never(t) == FALSE
StillRuns(t) == cancelPending /\ pExpireTmr = t

CancelTest(c) ==
    /\ client[c].pc = "test"
    /\ client' = [client EXCEPT ![c].pc = IF StillRuns(client[c].timer) THEN "wait" ELSE "signal"]
    /\ UNCHANGED <<clientElse, timerVars, freed, queueVars, cancelBlockingEvent, rescheduleEvent,
                   flagVars, calls>>

\* "in case other threads are waiting"; then destroy() frees the timer
CancelEnd(c) ==
    /\ client[c].pc = "signal" /\ cancelBlockingEvent' = TRUE
    /\ freed' = IF client[c].op = "destroy" THEN freed \cup {client[c].timer} ELSE freed
    /\ client' = [client EXCEPT ![c] = Idle]
    /\ UNCHANGED <<clientElse, timerVars, queueVars, rescheduleEvent, flagVars, calls>>

\* ~timerQueueActive, when nobody else uses the queue
Release(c) ==
    /\ Calls(c, "release") /\ \A b \in Threads : client[b].pc = "idle"
    /\ terminateFlag' = TRUE /\ rescheduleEvent' = TRUE
    /\ client' = [client EXCEPT ![c].pc = "release"]
    /\ UNCHANGED <<clientElse, timerVars, freed, queueVars, cancelBlockingEvent, exitFlag>>

\* ... and ~timerQueue
ReleaseEnd(c) ==
    /\ client[c].pc = "release" /\ exitFlag
    /\ curState' = [t \in Timers |-> "limbo"] /\ timerList' = <<>>
    /\ client' = [client EXCEPT ![c].pc = "gone"]
    /\ UNCHANGED <<clientElse, exp, pNotify, freed, queueVars, cancelBlockingEvent, rescheduleEvent,
                   flagVars, calls>>
-----------------------------------------------------------------------------
ThreadStep == ThreadTop \/ ProcessBegin \/ ThreadSleep \/ ThreadWake
ClientStep(c) == CancelWake(c) \/ CancelTest(c) \/ CancelEnd(c) \/ ReleaseEnd(c)
Next ==
    \/ Create \/ Tick \/ ThreadStep \/ ExpireCalls
    \/ \E d \in case.delays \cup {Never} : ProcessAfter(d)
    \/ \E c \in Threads : Start(c) \/ Cancel(c, "cancel") \/ Cancel(c, "destroy") \/ Release(c)
                          \/ ClientStep(c)
Spec == Init /\ [][Next]_vars

\* Time passes, the queue's thread and those that wait go on, and expire() returns.
Fairness ==
    /\ WF_vars(Tick) /\ WF_vars(ThreadStep)
    /\ WF_vars(\E d \in case.delays \cup {Never} : ProcessAfter(d))
    /\ \A c \in Threads : WF_vars(ClientStep(c))
FairSpec == Spec /\ Fairness
-----------------------------------------------------------------------------
Pending == {t \in Timers : curState[t] = "pending"}
\* The type of every variable.
TypeOK ==
    /\ case \in Cases /\ clock \in 0 .. MaxClock
    /\ \A t \in Timers : /\ exp[t] \in Int
                         /\ curState[t] \in {"limbo", "pending", "active"}
                         /\ pNotify[t] \in BOOLEAN /\ runs[t] \in 0 .. case.runs
    /\ freed \subseteq Timers /\ timerList \in Seq(Timers) /\ pExpireTmr \in Timers \cup {None}
    /\ {cancelPending, cancelBlockingEvent, rescheduleEvent, terminateFlag, exitFlag} \subseteq BOOLEAN
    /\ thread.pc \in {"none", "top", "process", "expire", "sleep", "asleep", "exited"}
    /\ \A c \in Threads : client[c].pc \in {"idle", "wait", "test", "signal", "release", "gone"}

\* The list holds each timer that is pending once, in the order of their expiry; the one that
\* is active is the one that expires, unless it was cancelled.
ListSorted ==
    /\ Range(timerList) = Pending /\ Len(timerList) = Cardinality(Pending)
    /\ \A i \in 1 .. Len(timerList) - 1 : exp[timerList[i]] <= exp[timerList[i + 1]]
    /\ {t \in Timers : curState[t] = "active"} = IF cancelPending THEN {} ELSE {pExpireTmr} \ {None}
    /\ pExpireTmr = None => ~cancelPending

\* process() uses a timer that was destroyed while it expired no more: it is told.
NoneFreedExpires == pExpireTmr \in freed => cancelPending

\* The queue's thread does not sleep past the first timer of the list, unless it is woken:
\* other threads put timers before it, between its look at the list and its sleep too.
NoneOverslept ==
    thread.pc \in {"sleep", "asleep"} /\ timerList # <<>> /\ ~rescheduleEvent =>
        thread.now + thread.delay <= exp[timerList[1]]

\* "make certain timer expire() does not run after cancel () returns": when a cancel that
\* found the timer active is about to return, the run it found is over.
CancelIsQuiet == \A c \in Threads : client[c].pc = "signal" =>
    ~(pExpireTmr = client[c].timer /\ runs[pExpireTmr] = client[c].run)

\* What the queue, its thread and who cancels know of the timers is so.
TimersConsistent ==
    TypeOK /\ ListSorted /\ NoneFreedExpires /\ NoneOverslept /\ CancelIsQuiet

\* A timer that is due expires or is cancelled, and a cancel and a release return.
TimersServed ==
    /\ \A t \in Timers : []<>(t \notin Pending \/ exp[t] > MaxClock)
    /\ \A c \in Threads : []<>(client[c].pc \in {"idle", "gone"})
=============================================================================
