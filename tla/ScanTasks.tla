------------------------------ MODULE ScanTasks ------------------------------
(***************************************************************************)
(* The threads of dbScan.c and their start and end: one periodicTask for   *)
(* each scan period, onceTask with its queue of scanOnce requests, and the *)
(* thread that runs scanInit, scanRun, scanPause, scanStop and scanCleanup *)
(* (iocInit.c calls them in that order, and again for the next IOC of the  *)
(* process).  All starts and ends are told by one event, startStopEvent.   *)
(* What scanList does in the meantime is the matter of ScanList, that      *)
(* entries of onceQ are put and fetched whole that of RingBytes.           *)
(***************************************************************************)
EXTENDS Naturals, Sequences

CONSTANTS nPeriodic,
          onceQueueSize,
          Callers,  \* requests that can be made of scanOnceCallback
          exitOnce  \* the entry by which scanStop ends onceTask

ASSUME ScanTasksAssumption ==
    nPeriodic \in Nat /\ onceQueueSize \in Nat /\ exitOnce \notin Callers

Periods == 1 .. nPeriodic
Ctl == {"pause", "run", "exit"}
Entries == Callers \cup {exitOnce}

VARIABLES main,     \* where the thread of iocInit and iocShutdown is
          k,        \* ... in its loop over the periods
          scanCtl, listCtl,  \* scanCtl, and that of each period
          loopEvent, startStopEvent, onceSem,  \* binary semaphores
          onceQ,
          periodic, \* by period: where its task is
          once,     \* where onceTask is
          ent,      \* ... the entry it processes
          caller    \* by caller: where its request is
events == <<loopEvent, startStopEvent, onceSem>>
control == <<main, k, scanCtl, listCtl>>
onceVars == <<once, ent>>
vars == <<control, events, onceQ, periodic, onceVars, caller>>

Init ==
    /\ main = "off" /\ k = 1
    /\ scanCtl = "pause"
    /\ listCtl = [i \in Periods |-> "pause"]
    /\ loopEvent = [i \in Periods |-> FALSE]
    /\ startStopEvent = FALSE /\ onceSem = FALSE
    /\ onceQ = <<>>
    /\ periodic = [i \in Periods |-> "none"]
    /\ once = "none" /\ ent = exitOnce
    /\ caller = [c \in Callers |-> "idle"]

Signal == startStopEvent' = TRUE

-----------------------------------------------------------------------------
(* scanOnceCallback: the entry is put, or refused, then onceTask is woken. *)

Room == Len(onceQ) < onceQueueSize
Created == main \notin {"off", "stopped"}

Queue(e) == onceQ' = IF Room THEN Append(onceQ, e) ELSE onceQ

RequestOnce(c) ==
    /\ Created /\ caller[c] = "idle"
    /\ Queue(c)
    /\ caller' = [caller EXCEPT ![c] = IF Room THEN "queued" ELSE "refused"]
    /\ UNCHANGED <<control, events, periodic, onceVars>>

(* The request may have been served before its signal comes.               *)
SignalOnce(c) ==
    /\ caller[c] \in {"queued", "refused", "served"}
    /\ onceSem' = TRUE
    /\ caller' = [caller EXCEPT ![c] = IF @ = "queued" THEN "waiting" ELSE "idle"]
    /\ UNCHANGED <<control, loopEvent, startStopEvent, onceQ, periodic, onceVars>>

-----------------------------------------------------------------------------
(* onceTask.                                                               *)

StartOnceTask ==
    /\ once = "start" /\ Signal /\ once' = "wait"
    /\ UNCHANGED <<control, loopEvent, onceSem, onceQ, periodic, ent, caller>>

WaitOnce ==
    /\ once = "wait" /\ onceSem
    /\ onceSem' = FALSE /\ once' = "get"
    /\ UNCHANGED <<control, loopEvent, startStopEvent, onceQ, periodic, ent, caller>>

GetOnce ==
    /\ once = "get"
    /\ IF onceQ = <<>>
       THEN once' = "wait" /\ UNCHANGED <<onceQ, ent>>
       ELSE /\ onceQ' = Tail(onceQ)
            /\ ent' = Head(onceQ)
            /\ once' = IF Head(onceQ) = exitOnce THEN "leave" ELSE "process"
    /\ UNCHANGED <<control, events, periodic, caller>>


(* dbProcess, then the caller's callback.                                  *)
ProcessOnce ==
    /\ once = "process"
    /\ caller' = [caller EXCEPT ![ent] = IF @ = "queued" THEN "served" ELSE "idle"]
    /\ ent' = exitOnce
    /\ once' = "get"
    /\ UNCHANGED <<control, events, onceQ, periodic>>

EndOnceTask_Silent ==
    /\ once = "leave" /\ once' = "done"
    /\ UNCHANGED <<control, events, onceQ, periodic, ent, caller>>
EndOnceTask ==
    /\ once = "leave" /\ Signal /\ once' = "done"
    /\ UNCHANGED <<control, loopEvent, onceSem, onceQ, periodic, ent, caller>>

OnceTask == StartOnceTask \/ WaitOnce \/ GetOnce \/ ProcessOnce \/ EndOnceTask

-----------------------------------------------------------------------------
(* periodicTask: it reads scanCtl of its list at the head of its loop and  *)
(* once more before it scans; it waits for loopEvent or the next period.   *)

Goes(i, from, to) == periodic[i] = from /\ periodic' = [periodic EXCEPT ![i] = to]

StartPeriodic(i) ==
    /\ Goes(i, "start", "loop") /\ Signal
    /\ UNCHANGED <<control, loopEvent, onceSem, onceQ, onceVars, caller>>

Loop(i) ==
    /\ \/ listCtl[i] # "exit" /\ Goes(i, "loop", "check")
       \/ listCtl[i] = "exit" /\ Goes(i, "loop", "leave")
       \/ listCtl[i] = "run" /\ Goes(i, "check", "scan")
       \/ listCtl[i] # "run" /\ Goes(i, "check", "wait")
       \/ Goes(i, "scan", "wait")
    /\ UNCHANGED <<control, events, onceQ, onceVars, caller>>

WaitPeriod(i) ==
    /\ Goes(i, "wait", "loop")
    /\ loopEvent' = [loopEvent EXCEPT ![i] = FALSE]
    /\ UNCHANGED <<control, startStopEvent, onceSem, onceQ, onceVars, caller>>

EndPeriodic(i) ==
    /\ Goes(i, "leave", "done") /\ Signal
    /\ UNCHANGED <<control, loopEvent, onceSem, onceQ, onceVars, caller>>

PeriodicTask(i) == StartPeriodic(i) \/ Loop(i) \/ WaitPeriod(i) \/ EndPeriodic(i)

-----------------------------------------------------------------------------
(* The thread that starts and stops the IOC.                               *)

MainGoes(from, to) == main = from /\ main' = to

(* initPeriodic and initOnce, up to the wait for onceTask.                 *)
ScanInit ==
    /\ MainGoes("off", "initOnce")
    /\ scanCtl' = "pause"
    /\ listCtl' = [i \in Periods |-> "pause"]
    /\ loopEvent' = [i \in Periods |-> FALSE]
    /\ periodic' = [i \in Periods |-> "none"]
    /\ onceQ' = <<>> /\ once' = "start" /\ k' = 1
    /\ UNCHANGED <<startStopEvent, onceSem, ent, caller>>

Awaited(from, to) == /\ MainGoes(from, to)
                     /\ startStopEvent /\ startStopEvent' = FALSE
                     /\ UNCHANGED <<scanCtl, listCtl, loopEvent, onceSem, onceQ,
                                    periodic, onceVars, caller>>

InitOnceEnds == Awaited("initOnce", "spawn") /\ UNCHANGED k

SpawnPeriodic ==
    /\ k \in Periods /\ MainGoes("spawn", "spawned")
    /\ periodic' = [periodic EXCEPT ![k] = "start"]
    /\ UNCHANGED <<k, scanCtl, listCtl, events, onceQ, onceVars, caller>>

SpawnEnds == Awaited("spawned", "spawn") /\ k' = k + 1

InitEnds == /\ k \notin Periods /\ MainGoes("spawn", "up")
            /\ UNCHANGED <<k, scanCtl, listCtl, events, onceQ, periodic, onceVars, caller>>

SetAll(c) == /\ scanCtl' = c /\ listCtl' = [i \in Periods |-> c]
             /\ UNCHANGED <<main, k, events, onceQ, periodic, onceVars, caller>>

ScanRun == main = "up" /\ SetAll("run")
ScanPause == main = "up" /\ SetAll("pause")

ScanStop ==
    /\ MainGoes("up", "stop")
    /\ scanCtl' = "exit" /\ k' = 1
    /\ UNCHANGED <<listCtl, events, onceQ, periodic, onceVars, caller>>

StopPeriodic ==
    /\ k \in Periods /\ MainGoes("stop", "stopping")
    /\ listCtl' = [listCtl EXCEPT ![k] = "exit"]
    /\ loopEvent' = [loopEvent EXCEPT ![k] = TRUE]
    /\ UNCHANGED <<k, scanCtl, startStopEvent, onceSem, onceQ, periodic, onceVars, caller>>

StopPeriodicEnds_Unawaited ==
    /\ MainGoes("stopping", "stop") /\ k' = k + 1
    /\ UNCHANGED <<scanCtl, listCtl, events, onceQ, periodic, onceVars, caller>>
StopPeriodicEnds == Awaited("stopping", "stop") /\ k' = k + 1

(* scanOnce(&exitOnce), whose result is not looked at.                     *)
StopOnce ==
    /\ k \notin Periods /\ MainGoes("stop", "signalOnce")
    /\ Queue(exitOnce)
    /\ UNCHANGED <<k, scanCtl, listCtl, events, periodic, onceVars, caller>>

StopOnceSignal ==
    /\ MainGoes("signalOnce", "stopOnce")
    /\ onceSem' = TRUE
    /\ UNCHANGED <<k, scanCtl, listCtl, loopEvent, startStopEvent, onceQ, periodic,
                   onceVars, caller>>

StopOnceEnds == Awaited("stopOnce", "stopped") /\ UNCHANGED k

(* What is left in onceQ is lost; those who wait for it wait in vain.      *)
ScanCleanup ==
    /\ MainGoes("stopped", "off")
    /\ onceQ' = <<>>
    /\ caller' = [c \in Callers |-> IF caller[c] = "waiting" THEN "idle"
                                    ELSE IF caller[c] = "queued" THEN "refused"
                                    ELSE caller[c]]
    /\ UNCHANGED <<k, scanCtl, listCtl, events, periodic, onceVars>>

Stopping == StopPeriodic \/ StopPeriodicEnds \/ StopOnce \/ StopOnceSignal \/ StopOnceEnds
Starting == InitOnceEnds \/ SpawnPeriodic \/ SpawnEnds \/ InitEnds

Next ==
    \/ \E c \in Callers : RequestOnce(c) \/ SignalOnce(c)
    \/ OnceTask
    \/ \E i \in Periods : PeriodicTask(i)
    \/ ScanInit \/ Starting \/ ScanRun \/ ScanPause \/ ScanStop \/ Stopping \/ ScanCleanup

(* Every thread that can go on does; nobody has to call scanOnce or stop   *)
(* the IOC.                                                                *)
Fairness ==
    /\ WF_vars(OnceTask) /\ WF_vars(Starting) /\ WF_vars(Stopping)
    /\ \A i \in Periods : WF_vars(PeriodicTask(i))
    /\ \A c \in Callers : WF_vars(SignalOnce(c))

Spec == Init /\ [][Next]_vars
FairSpec == Spec /\ Fairness

-----------------------------------------------------------------------------
(* Every variable holds a value of its kind.                               *)
TypeOK ==
    /\ main \in {"off", "initOnce", "spawn", "spawned", "up", "stop", "stopping",
                 "signalOnce", "stopOnce", "stopped"}
    /\ k \in 1 .. nPeriodic + 1
    /\ scanCtl \in Ctl /\ listCtl \in [Periods -> Ctl]
    /\ loopEvent \in [Periods -> BOOLEAN]
    /\ startStopEvent \in BOOLEAN /\ onceSem \in BOOLEAN
    /\ onceQ \in Seq(Entries) /\ Len(onceQ) <= onceQueueSize
    /\ periodic \in [Periods -> {"none", "start", "loop", "check", "scan", "wait",
                                 "leave", "done"}]
    /\ once \in {"none", "start", "wait", "get", "process", "leave", "done"}
    /\ ent \in Entries /\ (once = "process" => ent \in Callers)
    /\ caller \in [Callers -> {"idle", "queued", "refused", "served", "waiting"}]

Started(i) == periodic[i] \notin {"none", "start"}

(* scanInit goes on when the thread it has created runs, scanStop when the *)
(* thread it has told to leave has left, although all of them use one      *)
(* event, and use it again for the next IOC (154-174, 772, 933).           *)
Handshake ==
    /\ main \in {"spawn", "spawned"} => \A i \in 1 .. k - 1 : Started(i)
    /\ main = "up" => ~startStopEvent /\ \A i \in Periods : Started(i)
    /\ main \in {"stop", "stopping"} => \A i \in 1 .. k - 1 : periodic[i] = "done"
    /\ main \in {"signalOnce", "stopOnce"} => \A i \in Periods : periodic[i] = "done"
    /\ main \in {"stopped", "off"} => /\ ~startStopEvent
                                      /\ once \in {"none", "done"}
                                      /\ \A i \in Periods : periodic[i] \in {"none", "done"}

(* onceTask does not sleep on a request, unless the thread that has put it *)
(* is just about to wake it (676-686, 700-704).                            *)
NoLostOnce ==
    once = "wait" /\ onceQ # <<>> =>
      onceSem \/ main = "signalOnce" \/ \E c \in Callers : caller[c] \in {"queued", "served"}

(* The state of the threads, of the one event and of the queue agree.      *)
Consistent == TypeOK /\ Handshake /\ NoLostOnce

ExitTaken == exitOnce \in {onceQ[i] : i \in 1 .. Len(onceQ)} \/ once \in {"leave", "done"}
(* A request that was taken is processed, unless the IOC is stopped; and   *)
(* scanStop ends if there was room for exitOnce in the queue.              *)
ScansServed ==
    /\ \A c \in Callers : []<>(caller[c] # "waiting" \/ scanCtl = "exit")
    /\ []<>(main # "stopOnce" \/ ~ExitTaken)

(* iocInit.c:720, of the call to scanStop: "stop and "join" threads".      *)
StopJoins == main = "stop" ~> main = "stopped"
=============================================================================
