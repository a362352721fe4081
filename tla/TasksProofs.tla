----------------------------- MODULE TasksProofs -----------------------------
(***************************************************************************)
(* Theorems about ScanTasks, for every number of scan periods and callers  *)
(* of scanOnce and every size of its queue; about ThreadPool, for any      *)
(* clients, jobs and sizes of the pool; and about TimerQueue, for every    *)
(* number of timers and threads, every sequence of their operations and    *)
(* those of expire(), and any delays.                                      *)
(***************************************************************************)
EXTENDS MCTasks, SequenceTheorems, FiniteSetTheorems, WellFoundedInduction, TLAPS

USE ScanTasksAssumption DEF Periods, Ctl, Entries

LEMMA EmptyQueue == <<>> \in Seq(Entries) /\ Len(<<>>) = 0
OBVIOUS

\* A queue that an entry enters or leaves keeps its type.
LEMMA QueueTypes ==
  ASSUME NEW q \in Seq(Entries)
  PROVE  /\ Len(q) \in Nat
         /\ \A e \in Entries :
               /\ Append(q, e) \in Seq(Entries) /\ Len(Append(q, e)) = Len(q) + 1
               /\ \A i \in 1 .. Len(q) + 1 : Append(q, e)[i] = IF i <= Len(q) THEN q[i] ELSE e
         /\ q # <<>> => /\ Head(q) \in Entries /\ Head(q) = q[1] /\ 1 \in 1 .. Len(q)
                        /\ Tail(q) \in Seq(Entries) /\ Len(Tail(q)) = Len(q) - 1
                        /\ \A i \in 1 .. Len(q) - 1 : Tail(q)[i] = q[i + 1]
OBVIOUS

Serving == once \in {"wait", "get", "process"}
Working(i) == periodic[i] \in {"loop", "check", "scan", "wait"}
Untold(i) == listCtl[i] # "exit"

\* The task that is awaited has set the event, or has still to do so: the places of all threads
\* for each place of the thread that starts and stops them.
Stage ==
    /\ main \in {"off", "stopped"} =>
          /\ ~startStopEvent /\ once \in {"none", "done"}
          /\ \A i \in Periods : periodic[i] \in {"none", "done"}
    /\ main = "initOnce" =>
          /\ k = 1 /\ IF startStopEvent THEN Serving ELSE once = "start"
          /\ \A i \in Periods : periodic[i] = "none" /\ Untold(i)
    /\ main = "spawn" =>
          /\ ~startStopEvent /\ Serving
          /\ \A i \in Periods : Untold(i) /\ IF i < k THEN Working(i) ELSE periodic[i] = "none"
    /\ main = "spawned" =>
          /\ Serving /\ k \in Periods
          /\ IF startStopEvent THEN Working(k) ELSE periodic[k] = "start"
          /\ \A i \in Periods :
                /\ Untold(i) /\ (i < k => Working(i)) /\ (i > k => periodic[i] = "none")
    /\ main = "up" => ~startStopEvent /\ Serving /\ \A i \in Periods : Untold(i) /\ Working(i)
    /\ main = "stop" =>
          /\ ~startStopEvent /\ Serving
          /\ \A i \in Periods : IF i < k THEN periodic[i] = "done" ELSE Untold(i) /\ Working(i)
    /\ main = "stopping" =>
          /\ Serving /\ k \in Periods
          /\ IF startStopEvent THEN periodic[k] = "done" ELSE Working(k) \/ periodic[k] = "leave"
          /\ \A i \in Periods : /\ i < k => periodic[i] = "done"
                                /\ i > k => Untold(i) /\ Working(i)
    /\ main \in {"signalOnce", "stopOnce"} =>
          /\ IF startStopEvent THEN once = "done" ELSE Serving \/ once = "leave"
          /\ \A i \in Periods : periodic[i] = "done"

\* The entry that ends onceTask is in the queue only when scanStop has put it there.
NoExitYet == main \notin {"signalOnce", "stopOnce", "stopped"} =>
                 \A j \in 1 .. Len(onceQ) : onceQ[j] # exitOnce

\* NoLostOnce, from the moment the queue is there.
Woken ==
    once \in {"start", "wait"} /\ onceQ # <<>> =>
      onceSem \/ main = "signalOnce" \/ \E c \in Callers : caller[c] \in {"queued", "served"}

SInv == TypeOK /\ Stage /\ NoExitYet /\ Woken
----------------------------------------------------------------------------
(* Each step keeps the invariant.                                          *)

(* Types, in groups.                                                       *)

MainTypeOK ==
    /\ main \in {"off", "initOnce", "spawn", "spawned", "up", "stop", "stopping",
                 "signalOnce", "stopOnce", "stopped"}
    /\ k \in 1 .. nPeriodic + 1
    /\ scanCtl \in Ctl /\ listCtl \in [Periods -> Ctl]
EventTypeOK ==
    /\ loopEvent \in [Periods -> BOOLEAN]
    /\ startStopEvent \in BOOLEAN /\ onceSem \in BOOLEAN
QueueTypeOK == onceQ \in Seq(Entries) /\ Len(onceQ) <= onceQueueSize
TaskTypeOK ==
    /\ periodic \in [Periods -> {"none", "start", "loop", "check", "scan", "wait",
                                 "leave", "done"}]
    /\ once \in {"none", "start", "wait", "get", "process", "leave", "done"}
    /\ ent \in Entries /\ (once = "process" => ent \in Callers)
CallerTypeOK == caller \in [Callers -> {"idle", "queued", "refused", "served", "waiting"}]

LEMMA Groups ==
  /\ TypeOK <=> MainTypeOK /\ EventTypeOK /\ QueueTypeOK /\ TaskTypeOK /\ CallerTypeOK
  /\ TypeOK' <=> MainTypeOK' /\ EventTypeOK' /\ QueueTypeOK' /\ TaskTypeOK' /\ CallerTypeOK'
BY DEF TypeOK, MainTypeOK, EventTypeOK, QueueTypeOK, TaskTypeOK, CallerTypeOK

LEMMA InitHolds == Init => SInv
<1>. SUFFICES ASSUME Init PROVE SInv
  OBVIOUS
<1>1. MainTypeOK
  BY DEF Init, MainTypeOK
<1>2. EventTypeOK
  BY DEF Init, EventTypeOK
<1>3. QueueTypeOK
  BY DEF Init, QueueTypeOK
<1>4. TaskTypeOK
  BY DEF Init, TaskTypeOK
<1>5. CallerTypeOK
  BY DEF Init, CallerTypeOK
<1>6. Stage /\ NoExitYet /\ Woken
  BY DEF Init, Stage, NoExitYet, Woken
<1>. QED  BY <1>1, <1>2, <1>3, <1>4, <1>5, <1>6, Groups DEF SInv

\* A request, or its signal, leaves the threads where they are.
LEMMA CallerStep ==
  ASSUME SInv, NEW c \in Callers, RequestOnce(c) \/ SignalOnce(c)
  PROVE  SInv'
<1>. USE DEF SInv, control, events, onceVars
<1>1. TypeOK'
  <2>0. MainTypeOK /\ EventTypeOK /\ QueueTypeOK /\ TaskTypeOK /\ CallerTypeOK
    BY Groups
  <2>1. MainTypeOK'
    BY <2>0 DEF RequestOnce, SignalOnce, Queue, Room, MainTypeOK
  <2>2. EventTypeOK'
    BY <2>0 DEF RequestOnce, SignalOnce, Queue, Room, EventTypeOK
  <2>3. QueueTypeOK'
    BY <2>0, QueueTypes DEF RequestOnce, SignalOnce, Queue, Room, QueueTypeOK
  <2>4. TaskTypeOK'
    BY <2>0 DEF RequestOnce, SignalOnce, Queue, Room, TaskTypeOK
  <2>5. CallerTypeOK'
    BY <2>0 DEF RequestOnce, SignalOnce, Queue, Room, CallerTypeOK
  <2>. QED  BY <2>1, <2>2, <2>3, <2>4, <2>5, Groups
<1>2. Stage'
  BY DEF Stage, Serving, Working, Untold, RequestOnce, SignalOnce
<1>3. NoExitYet'
  BY Groups, QueueTypes, SMTT(60), ZenonT(60)
  DEF QueueTypeOK, NoExitYet, RequestOnce, SignalOnce, Queue, Room
<1>4. Woken'
  BY DEF TypeOK, Woken, RequestOnce, SignalOnce, Queue, Room
<1>. QED  BY <1>1, <1>2, <1>3, <1>4

LEMMA OnceStep ==
  ASSUME SInv, OnceTask
  PROVE  SInv'
<1>. USE DEF SInv, control, events, onceVars, OnceTask, StartOnceTask, WaitOnce, GetOnce,
             ProcessOnce, EndOnceTask, Signal
<1>1. TypeOK'
  <2>0. MainTypeOK /\ EventTypeOK /\ QueueTypeOK /\ TaskTypeOK /\ CallerTypeOK
    BY Groups
  <2>1. MainTypeOK'
    BY <2>0 DEF MainTypeOK
  <2>2. EventTypeOK'
    BY <2>0 DEF EventTypeOK
  <2>3. QueueTypeOK'
    <3>1. CASE GetOnce /\ onceQ # <<>>
      <4>1. onceQ \in Seq(Entries) /\ onceQ' = Tail(onceQ) /\ Len(onceQ) <= onceQueueSize
        BY <2>0, <3>1 DEF QueueTypeOK
      <4>. QED  BY <3>1, <4>1, QueueTypes DEF QueueTypeOK
    <3>2. CASE UNCHANGED onceQ
      BY <2>0, <3>2 DEF QueueTypeOK
    <3>. QED  BY <3>1, <3>2
  <2>4. TaskTypeOK'
    BY <2>0, QueueTypes DEF TaskTypeOK, QueueTypeOK
  <2>5. CallerTypeOK'
    BY <2>0 DEF CallerTypeOK, TaskTypeOK
  <2>. QED  BY <2>1, <2>2, <2>3, <2>4, <2>5, Groups
<1>2. Stage'
  BY Groups, QueueTypes DEF QueueTypeOK, MainTypeOK, Stage, Serving, Working, Untold, NoExitYet
<1>3. NoExitYet'
  BY Groups, QueueTypes DEF QueueTypeOK, NoExitYet
<1>4. Woken'
  BY DEF TypeOK, Woken
<1>. QED  BY <1>1, <1>2, <1>3, <1>4

LEMMA PeriodicStep ==
  ASSUME SInv, NEW i \in Periods, PeriodicTask(i)
  PROVE  SInv'
<1>. USE DEF SInv, control, events, onceVars, PeriodicTask, StartPeriodic, Loop, WaitPeriod,
             EndPeriodic, Goes, Signal
<1>1. TypeOK'
  <2>0. MainTypeOK /\ EventTypeOK /\ QueueTypeOK /\ TaskTypeOK /\ CallerTypeOK
    BY Groups
  <2>1. MainTypeOK'
    BY <2>0 DEF MainTypeOK
  <2>2. EventTypeOK'
    BY <2>0 DEF EventTypeOK
  <2>3. QueueTypeOK'
    BY <2>0, QueueTypes DEF QueueTypeOK
  <2>4. TaskTypeOK'
    BY <2>0 DEF TaskTypeOK
  <2>5. CallerTypeOK'
    BY <2>0 DEF CallerTypeOK
  <2>. QED  BY <2>1, <2>2, <2>3, <2>4, <2>5, Groups
<1>2. Stage'
  <2>1. /\ \A j \in Periods : j # i => periodic'[j] = periodic[j]
        /\ UNCHANGED <<main, k, listCtl, once>>
        /\ periodic' \in [Periods -> {"none", "start", "loop", "check", "scan", "wait",
                                     "leave", "done"}]
    BY DEF TypeOK
  <2>2. CASE StartPeriodic(i)
    <3>1. periodic[i] = "start" /\ periodic'[i] = "loop" /\ startStopEvent'
      BY <2>2 DEF TypeOK
    <3>2. main = "spawned" /\ k = i
      <4>1. i \in Nat /\ k \in Nat /\ ~Working(i) /\ periodic[i] \notin {"none", "done"}
        BY <3>1 DEF TypeOK, Working
      <4>2. main \notin {"off", "stopped", "initOnce", "up", "signalOnce", "stopOnce"}
        BY <3>1, <4>1 DEF Stage
      <4>3. main \notin {"spawn", "stop", "stopping"}
        BY <3>1, <4>1 DEF Stage
      <4>. QED  BY <3>1, <4>1, <4>2, <4>3 DEF TypeOK, Stage
    <3>. QED  BY <2>1, <3>1, <3>2 DEF Stage, Serving, Working, Untold
  <2>3. CASE EndPeriodic(i)
    <3>1. periodic[i] = "leave" /\ periodic'[i] = "done" /\ startStopEvent'
      BY <2>3 DEF TypeOK
    <3>2. main = "stopping" /\ k = i
      <4>1. i \in Nat /\ k \in Nat /\ ~Working(i) /\ periodic[i] \notin {"none", "done"}
        BY <3>1 DEF TypeOK, Working
      <4>2. main \notin {"off", "stopped", "initOnce", "up", "signalOnce", "stopOnce"}
        BY <3>1, <4>1 DEF Stage
      <4>3. main \notin {"spawn", "stop", "spawned"}
        BY <3>1, <4>1 DEF Stage
      <4>. QED  BY <3>1, <4>1, <4>2, <4>3 DEF TypeOK, Stage
    <3>. QED  BY <2>1, <3>1, <3>2 DEF Stage, Serving, Working, Untold
  <2>4. CASE Loop(i) \/ WaitPeriod(i)
    <3>1. /\ Working(i) /\ (Working(i)' \/ (periodic'[i] = "leave" /\ ~Untold(i)))
          /\ UNCHANGED startStopEvent
      BY <2>4 DEF TypeOK, Working, Untold
    <3>2. CASE Working(i)'
      BY <2>1, <3>1, <3>2, ZenonT(60) DEF TypeOK, Stage, Serving, Working, Untold
    <3>3. CASE periodic'[i] = "leave" /\ ~Untold(i)
      <4>1. main = "stopping" /\ k = i
        BY <3>1, <3>3 DEF TypeOK, Stage, Working
      <4>. QED  BY <2>1, <3>1, <3>3, <4>1 DEF Stage, Serving, Working, Untold
    <3>. QED  BY <3>1, <3>2, <3>3
  <2>. QED  BY <2>2, <2>3, <2>4
<1>3. NoExitYet' /\ Woken'
  BY DEF NoExitYet, Woken
<1>. QED  BY <1>1, <1>2, <1>3

LEMMA StartStep ==
  ASSUME SInv, ScanInit \/ Starting
  PROVE  SInv'
<1>. USE DEF SInv, control, events, onceVars, ScanInit, Starting, InitOnceEnds, SpawnPeriodic,
             SpawnEnds, InitEnds, Awaited, MainGoes
<1>1. TypeOK'
  <2>0. MainTypeOK /\ EventTypeOK /\ QueueTypeOK /\ TaskTypeOK /\ CallerTypeOK
    BY Groups
  <2>1. MainTypeOK'
    BY <2>0 DEF MainTypeOK, Stage
  <2>2. EventTypeOK'
    BY <2>0 DEF EventTypeOK
  <2>3. QueueTypeOK'
    <3>1. CASE UNCHANGED onceQ
      BY <2>0, <3>1 DEF QueueTypeOK
    <3>2. CASE ScanInit
      BY <3>2, EmptyQueue DEF QueueTypeOK
    <3>. QED  BY <3>1, <3>2
  <2>4. TaskTypeOK'
    BY <2>0 DEF TaskTypeOK
  <2>5. CallerTypeOK'
    BY <2>0 DEF CallerTypeOK
  <2>. QED  BY <2>1, <2>2, <2>3, <2>4, <2>5, Groups
<1>2. Stage'
  BY DEF TypeOK, Stage, Serving, Working, Untold
<1>3. NoExitYet' /\ Woken'
  BY DEF NoExitYet, Woken
<1>. QED  BY <1>1, <1>2, <1>3

LEMMA StopStep ==
  ASSUME SInv, ScanRun \/ ScanPause \/ ScanStop \/ Stopping \/ ScanCleanup
  PROVE  SInv'
<1>. USE DEF SInv, control, events, onceVars, ScanRun, ScanPause, SetAll, ScanStop, Stopping,
             StopPeriodic, StopPeriodicEnds, StopOnce, StopOnceSignal, StopOnceEnds, ScanCleanup,
             Awaited, MainGoes
<1>1. TypeOK'
  <2>0. MainTypeOK /\ EventTypeOK /\ QueueTypeOK /\ TaskTypeOK /\ CallerTypeOK
    BY Groups
  <2>1. MainTypeOK'
    BY <2>0 DEF MainTypeOK, Stage
  <2>2. EventTypeOK'
    BY <2>0 DEF EventTypeOK
  <2>3. QueueTypeOK'
    <3>1. CASE UNCHANGED onceQ
      BY <2>0, <3>1 DEF QueueTypeOK
    <3>2. CASE StopOnce
      BY <2>0, <3>2, QueueTypes DEF QueueTypeOK, Queue, Room
    <3>3. CASE ScanCleanup
      BY <3>3, EmptyQueue DEF QueueTypeOK
    <3>. QED  BY <3>1, <3>2, <3>3
  <2>4. TaskTypeOK'
    BY <2>0 DEF TaskTypeOK
  <2>5. CallerTypeOK'
    BY <2>0 DEF CallerTypeOK
  <2>. QED  BY <2>1, <2>2, <2>3, <2>4, <2>5, Groups
<1>2. Stage'
  BY DEF TypeOK, Stage, Serving, Working, Untold
<1>3. NoExitYet'
  BY DEF NoExitYet
<1>4. Woken'
  BY DEF TypeOK, Stage, Woken, Queue, Room
<1>. QED  BY <1>1, <1>2, <1>3, <1>4

LEMMA StutterStep ==
  ASSUME SInv, UNCHANGED vars
  PROVE  SInv'
BY DEF SInv, vars, control, events, onceVars, TypeOK, Stage, Serving, Working, Untold, NoExitYet,
   Woken

LEMMA SInvHolds == Spec => []SInv
<1>1. SInv /\ [Next]_vars => SInv'
  BY CallerStep, OnceStep, PeriodicStep, StartStep, StopStep, StutterStep DEF Next
<1>. QED  BY InitHolds, <1>1, PTL DEF Spec

\* Over any number of IOCs one event tells of the start and the end of every scan thread, each
\* to the one wait that is for it: scanInit and scanStop go on when the thread they wait for has
\* started or left, and onceTask never sleeps on a request nobody is about to wake it for.
THEOREM ConsistentHolds == Spec => []Consistent
<1>1. SInv => Consistent
  <2>. SUFFICES ASSUME SInv PROVE Consistent
    OBVIOUS
  <2>1. Handshake
    <3>1. \A i \in Periods : i \in Nat /\ k \in Nat /\ (Working(i) => Started(i))
      BY DEF SInv, TypeOK, Working, Started
    <3>2. main \in {"spawn", "spawned"} => \A i \in 1 .. k - 1 : Started(i)
      <4>1. k \in Nat /\ \A i \in 1 .. k - 1 : i \in Periods /\ i < k
        BY DEF SInv, TypeOK
      <4>. QED  BY <3>1, <4>1 DEF SInv, Stage
    <3>3. main \in {"stop", "stopping"} => \A i \in 1 .. k - 1 : periodic[i] = "done"
      <4>1. k \in Nat /\ \A i \in 1 .. k - 1 : i \in Periods /\ i < k
        BY DEF SInv, TypeOK
      <4>. QED  BY <3>1, <4>1 DEF SInv, Stage
    <3>. QED  BY <3>1, <3>2, <3>3 DEF SInv, Handshake, Stage
  <2>2. NoLostOnce
    BY DEF SInv, NoLostOnce, Woken
  <2>. QED  BY <2>1, <2>2 DEF SInv, Consistent
<1>. QED  BY SInvHolds, <1>1, PTL
-----------------------------------------------------------------------------
(* The thread pool.                                                        *)

HIDE ScanTasksAssumption DEF Periods, Ctl, Entries

Asleep == {"new", "wait", "woken"}
WorkerState == [pc : {"none", "leaving", "exited", "run"} \cup Asleep, job : Jobs \cup {OfPool!None},
                nrun : Nat, ocnt : Nat]
ClientState == [pc : {"idle", "drain", "waiting", "woken", "drained", "join", "cleanup", "gone"},
                then : {"idle", "drained"}, timed : BOOLEAN, nThr : Nat]

\* The variables have their types.
PoolTypes ==
    /\ inst \in Pools
    /\ jobs \in Seq(Jobs) /\ owned \subseteq Jobs /\ queued \subseteq Jobs
    /\ running \subseteq Jobs
    /\ freewhendone \subseteq Jobs /\ freed \subseteq Jobs /\ notify \subseteq Jobs
    /\ threadsAreAwake \in Nat /\ threadsWaking \in Nat /\ threadsSleeping \in Nat
    /\ threadsRunning \in Nat /\ observerCount \in Nat
    /\ workerWakeup \in BOOLEAN /\ shutdownEvent \in BOOLEAN /\ observerWakeup \in BOOLEAN
    /\ failed \in BOOLEAN /\ gone \in BOOLEAN
    /\ pauseadd \in BOOLEAN /\ pauserun \in BOOLEAN /\ freezeopt \in BOOLEAN
    /\ shutdown \in BOOLEAN
    /\ worker \in [1 .. inst.maxThreads -> WorkerState]
    /\ client \in [Clients -> ClientState]

\* The counters count workers; before the shutdown the first threadsRunning of them exist, and
\* no other, so that createPoolThread counts one that is not counted.
Counted ==
    /\ threadsAreAwake = Cardinality(OfPool!At({"run"}))
    /\ threadsSleeping = Cardinality(OfPool!At(Asleep))
    /\ threadsRunning = threadsAreAwake + threadsSleeping
    /\ threadsRunning <= inst.maxThreads /\ threadsWaking <= inst.maxThreads
    /\ threadsWaking <= threadsSleeping \/ failed
    /\ ~shutdown => \A w \in DOMAIN worker :
          /\ worker[w].pc = "none" <=> w > threadsRunning
          /\ worker[w].pc \notin {"leaving", "exited"}

\* The observers are the clients that wait.
Observers == {c \in Clients : client[c].pc \in {"waiting", "woken"}}
Observed == observerCount = Cardinality(Observers)

\* The run queue holds the jobs that are queued and not run, once each; a job is running when
\* one worker has it; one that was freed is nowhere.
Placed ==
    /\ OfPool!IsInjective(jobs) /\ OfPool!Range(jobs) = queued \ running
    /\ \A w \in DOMAIN worker :
          /\ worker[w].job # OfPool!None <=> worker[w].pc = "run"
          /\ worker[w].job # OfPool!None => worker[w].job \in running
          /\ \A v \in DOMAIN worker : worker[w].job = worker[v].job => w = v \/ worker[w].job = OfPool!None
    /\ \A j \in running : \E w \in DOMAIN worker : worker[w].job = j
    /\ freed \cap (queued \cup running \cup owned \cup notify) = {}
    /\ owned \cap (queued \cup running) = {}
    /\ freewhendone \cap queued = {} /\ freewhendone \subseteq running \cup freed
    /\ notify # {} => shutdown

\* No job waits in a pool that has no worker.
Manned == jobs # <<>> => threadsRunning > 0

\* The stages of the end: nothing is added once the options are frozen, all is idle before the
\* shutdown, and the pool is freed when no worker is left to count.
Ending ==
    /\ freezeopt => pauseadd /\ ~pauserun
    /\ shutdown => freezeopt /\ jobs = <<>> /\ threadsAreAwake = 0 /\ owned = {}
    /\ shutdownEvent => shutdown /\ threadsRunning = 0
    /\ gone => shutdown /\ threadsRunning = 0
    /\ \A w \in DOMAIN worker :
          worker[w].pc = "leaving" => shutdown /\ (worker[w].nrun = 0 => threadsRunning = 0)
    /\ \A c \in Clients :
          /\ client[c].then = "idle" => client[c].pc \in {"idle", "waiting", "woken"}
          /\ client[c].then = "drained" =>
                /\ freezeopt /\ client[c].pc # "idle" /\ ~client[c].timed
                /\ client[c].nThr = 0 => threadsRunning = 0
                /\ \A d \in Clients \ {c} : client[d].pc = "idle"
          /\ client[c].pc \in {"drained", "join", "cleanup", "gone"} => ~OfPool!Busy
          /\ client[c].pc \in {"join", "cleanup", "gone"} => shutdown
          /\ client[c].pc \in {"cleanup", "gone"} => threadsRunning = 0

\* The invariant: NoneStranded of ThreadPool is a part as it stands.
PoolInv == PoolTypes /\ Counted /\ Observed /\ Placed /\ Manned /\ OfPool!NoneStranded /\ Ending
-----------------------------------------------------------------------------
\* ThreadPool counts with the operators of its own instance of FiniteSets.
LEMMA SameCounts ==
    ASSUME NEW S
    PROVE  (OfPool!IsFiniteSet(S) <=> IsFiniteSet(S)) /\ OfPool!Cardinality(S) = Cardinality(S)
BY DEF OfPool!IsFiniteSet, IsFiniteSet, OfPool!Cardinality, Cardinality, OfPool!ExistsBijection,
   ExistsBijection, OfPool!Bijection, Bijection, OfPool!Injection, Injection, OfPool!Surjection,
   Surjection

\* A sequence is empty when it holds nothing.
LEMMA HoldsNothing ==
    ASSUME NEW q \in Seq(Jobs)
    PROVE  /\ q = <<>> <=> OfPool!Range(q) = {}
           /\ OfPool!Range(q) \subseteq Jobs
<1>1. Len(q) \in Nat /\ DOMAIN q = 1 .. Len(q) /\ (q = <<>> <=> Len(q) = 0)
  OBVIOUS
<1>2. \A i \in DOMAIN q : q[i] \in Jobs
  OBVIOUS
<1>3. OfPool!Range(q) = {} <=> DOMAIN q = {}
  BY DEF OfPool!Range
<1>4. ASSUME NEW j \in OfPool!Range(q) PROVE j \in Jobs
  <2>1. PICK i \in DOMAIN q : q[i] = j
    BY DEF OfPool!Range
  <2>. QED  BY <1>2, <2>1
<1>5. DOMAIN q = {} <=> Len(q) = 0
  <2>1. CASE Len(q) = 0
    BY <1>1, <2>1
  <2>2. CASE Len(q) # 0
    <3>1. 1 \in DOMAIN q
      BY <1>1, <2>2
    <3>. QED  BY <2>2, <3>1
  <2>. QED  BY <2>1, <2>2
<1>6. OfPool!Range(q) \subseteq Jobs
  BY <1>4
<1>. QED  BY <1>1, <1>3, <1>5, <1>6

\* ellDelete takes a job from the queue.
LEMMA JobRemoved ==
    ASSUME NEW q \in Seq(Jobs), OfPool!IsInjective(q), NEW j \in Jobs
    PROVE  /\ OfPool!RemoveFirst(q, j) \in Seq(Jobs)
           /\ OfPool!IsInjective(OfPool!RemoveFirst(q, j))
           /\ OfPool!Range(OfPool!RemoveFirst(q, j)) = OfPool!Range(q) \ {j}
<1>1. CASE j \notin OfPool!Range(q)
  <2>1. ~\E i \in 1 .. Len(q) : q[i] = j
    BY <1>1 DEF OfPool!Range
  <2>. QED  BY <1>1, <2>1 DEF OfPool!RemoveFirst
<1>2. CASE j \in OfPool!Range(q)
  <2>1. PICK n \in DOMAIN q : q[n] = j
    BY <1>2 DEF OfPool!Range
  <2> DEFINE a == SubSeq(q, 1, n - 1)
             b == SubSeq(q, n + 1, Len(q))
             r == OfPool!RemoveFirst(q, j)
  <2>2. {i \in 1 .. Len(q) : q[i] = j} = {n} /\ n \in 1 .. Len(q)
    BY <2>1 DEF OfPool!IsInjective
  <2>3. OfPool!Min({n}) = n
    BY <2>1 DEF OfPool!Min
  <2>4. OfPool!SelectInSeq(q, LAMBDA v : v = j) = n
    BY <2>2, <2>3 DEF OfPool!SelectInSeq
  <2>5. r = a \o b
    BY <2>2, <2>4 DEF OfPool!RemoveFirst, OfPool!RemoveAt
  <2>6. /\ a \in Seq(Jobs) /\ Len(a) = n - 1 /\ \A i \in 1 .. n - 1 : a[i] = q[i]
        /\ b \in Seq(Jobs) /\ Len(b) = Len(q) - n
        /\ \A i \in 1 .. Len(q) - n : b[i] = q[i + n]
    BY <2>2
  <2>. HIDE DEF a, b, r
  <2>7. /\ r \in Seq(Jobs) /\ Len(r) = Len(q) - 1
        /\ \A i \in 1 .. Len(q) - 1 : r[i] = IF i < n THEN q[i] ELSE q[i + 1]
    <3>1. /\ a \o b \in Seq(Jobs) /\ Len(a \o b) = Len(a) + Len(b)
          /\ \A i \in 1 .. Len(a) + Len(b) :
                (a \o b)[i] = IF i <= Len(a) THEN a[i] ELSE b[i - Len(a)]
      BY <2>6, ConcatProperties
    <3>2. Len(r) = Len(q) - 1 /\ Len(a) = n - 1 /\ Len(q) \in Nat
      BY <2>2, <2>5, <2>6, <3>1
    <3>3. ASSUME NEW i \in 1 .. Len(q) - 1 PROVE r[i] = IF i < n THEN q[i] ELSE q[i + 1]
      <4>1. CASE i < n
        BY <2>2, <2>5, <2>6, <3>1, <3>2, <4>1
      <4>2. CASE ~(i < n)
        <5>1. r[i] = b[i - (n - 1)] /\ i - (n - 1) \in 1 .. Len(q) - n
          BY <2>2, <2>5, <2>6, <3>1, <3>2, <4>2, SMTT(60), ZenonT(60)
        <5>2. b[i - (n - 1)] = q[(i - (n - 1)) + n]
          BY <2>6, <5>1
        <5>3. (i - (n - 1)) + n = i + 1
          BY ONLY n \in 1 .. Len(q), Len(q) \in Nat, i \in 1 .. Len(q) - 1, <2>2, <3>2
        <5>. QED  BY <4>2, <5>1, <5>2, <5>3
      <4>. QED  BY <4>1, <4>2
    <3>. QED  BY <2>5, <3>1, <3>2, <3>3
  <2>8. OfPool!IsInjective(r)
    <3> DEFINE at(i) == IF i < n THEN i ELSE i + 1
    <3>1. \A i \in DOMAIN r : at(i) \in DOMAIN q /\ r[i] = q[at(i)]
      BY <2>2, <2>7
    <3>2. \A i, more \in DOMAIN r : at(i) = at(more) => i = more
      BY <2>2, <2>7
    <3>. HIDE DEF at
    <3>. QED  BY <3>1, <3>2 DEF OfPool!IsInjective
  <2>9. ASSUME NEW i \in DOMAIN r PROVE r[i] \in OfPool!Range(q) \ {j}
    <3>1. CASE i < n
      <4>1. i \in DOMAIN q /\ i # n /\ r[i] = q[i]
        BY <2>2, <2>7, <3>1
      <4>. QED  BY <2>1, <4>1 DEF OfPool!IsInjective, OfPool!Range
    <3>2. CASE ~(i < n)
      <4>1. i + 1 \in DOMAIN q /\ i + 1 # n /\ r[i] = q[i + 1]
        BY <2>2, <2>7, <3>2
      <4>. QED  BY <2>1, <4>1 DEF OfPool!IsInjective, OfPool!Range
    <3>. QED  BY <3>1, <3>2
  <2>10. ASSUME NEW more \in DOMAIN q, q[more] # j PROVE q[more] \in OfPool!Range(r)
    <3>1. CASE more < n
      <4>1. more \in DOMAIN r /\ r[more] = q[more]
        BY <2>2, <2>7, <3>1
      <4>. QED  BY <4>1 DEF OfPool!Range
    <3>2. CASE more > n
      <4>1. more - 1 \in DOMAIN r /\ r[more - 1] = q[more]
        BY <2>2, <2>7, <3>2
      <4>. QED  BY <4>1 DEF OfPool!Range
    <3>. QED  BY <2>1, <2>2, <2>10, <3>1, <3>2
  <2>11. OfPool!Range(r) = OfPool!Range(q) \ {j}
    BY <2>9, <2>10 DEF OfPool!Range
  <2>. QED  BY <2>7, <2>8, <2>11 DEF r
<1>. QED  BY <1>1, <1>2

\* ellGet takes the first job of a queue.
LEMMA JobTaken ==
    ASSUME NEW q \in Seq(Jobs), OfPool!IsInjective(q), q # <<>>
    PROVE  /\ Head(q) \in Jobs /\ Head(q) \in OfPool!Range(q)
           /\ Tail(q) \in Seq(Jobs) /\ OfPool!IsInjective(Tail(q))
           /\ OfPool!Range(Tail(q)) = OfPool!Range(q) \ {Head(q)}
<1> DEFINE r == Tail(q)
<1>1. /\ 1 \in DOMAIN q /\ Head(q) = q[1] /\ Head(q) \in Jobs
      /\ r \in Seq(Jobs) /\ Len(r) = Len(q) - 1
      /\ \A i \in DOMAIN r : i + 1 \in DOMAIN q /\ r[i] = q[i + 1]
  OBVIOUS
<1>2. \A more \in DOMAIN q \ {1} : more - 1 \in DOMAIN r /\ r[more - 1] = q[more]
  OBVIOUS
<1>. HIDE DEF r
<1>3. OfPool!IsInjective(r)
  BY <1>1 DEF OfPool!IsInjective
<1>4. \A i \in DOMAIN r : r[i] # q[1]
  BY <1>1 DEF OfPool!IsInjective
<1>5. OfPool!Range(r) = OfPool!Range(q) \ {q[1]}
  BY <1>1, <1>2, <1>4 DEF OfPool!Range
<1>. QED  BY <1>1, <1>3, <1>5 DEF r, OfPool!Range

\* ellAdd puts a job that is not queued behind the others.
LEMMA JobAdded ==
    ASSUME NEW q \in Seq(Jobs), OfPool!IsInjective(q), NEW j \in Jobs, j \notin OfPool!Range(q)
    PROVE  /\ Append(q, j) \in Seq(Jobs) /\ OfPool!IsInjective(Append(q, j))
           /\ Append(q, j) # <<>>
           /\ OfPool!Range(Append(q, j)) = OfPool!Range(q) \cup {j}
<1> DEFINE r == Append(q, j)
<1>1. /\ r \in Seq(Jobs) /\ Len(r) = Len(q) + 1 /\ r # <<>>
      /\ DOMAIN r = DOMAIN q \cup {Len(q) + 1} /\ r[Len(q) + 1] = j
      /\ \A i \in DOMAIN q : r[i] = q[i]
  OBVIOUS
<1>. HIDE DEF r
<1>2. \A i \in DOMAIN q : q[i] # j
  BY DEF OfPool!Range
<1>3. OfPool!IsInjective(r)
  BY <1>1, <1>2 DEF OfPool!IsInjective
<1>4. OfPool!Range(r) = OfPool!Range(q) \cup {j}
  BY <1>1 DEF OfPool!Range
<1>. QED  BY <1>1, <1>3, <1>4 DEF r
-----------------------------------------------------------------------------
\* The workers at some places are finitely many.
LEMMA FewWorkers ==
    ASSUME OfPool!ThreadPoolAssumption, PoolTypes, NEW pcs
    PROVE  /\ IsFiniteSet(OfPool!At(pcs)) /\ Cardinality(OfPool!At(pcs)) \in Nat
           /\ inst.maxThreads \in Nat \ {0} /\ DOMAIN worker = 1 .. inst.maxThreads
           /\ Cardinality(OfPool!At(pcs)) = 0 <=> OfPool!At(pcs) = {}
<1>1. inst.maxThreads \in Nat \ {0} /\ DOMAIN worker = 1 .. inst.maxThreads
  BY DEF OfPool!ThreadPoolAssumption, PoolTypes
<1>2. IsFiniteSet(1 .. inst.maxThreads)
  BY <1>1, FS_Interval
<1>3. IsFiniteSet(OfPool!At(pcs))
  BY <1>1, <1>2, FS_Subset DEF OfPool!At
<1>. QED  BY <1>1, <1>3, FS_CardinalityType, FS_EmptySet

\* A worker goes from one place to another.
LEMMA WorkerMoves ==
    ASSUME OfPool!ThreadPoolAssumption, PoolTypes, NEW w \in DOMAIN worker, NEW e \in WorkerState,
           worker' = [worker EXCEPT ![w] = e], NEW CONSTANT pcs
    PROVE  /\ worker' \in [1 .. inst.maxThreads -> WorkerState] /\ DOMAIN worker' = DOMAIN worker
           /\ worker'[w] = e /\ \A v \in DOMAIN worker \ {w} : worker'[v] = worker[v]
           /\ Cardinality(OfPool!At(pcs)') = Cardinality(OfPool!At(pcs)) + (IF e.pc \in pcs THEN 1 ELSE 0)
                                             - (IF worker[w].pc \in pcs THEN 1 ELSE 0)
<1>1. /\ worker' \in [1 .. inst.maxThreads -> WorkerState] /\ DOMAIN worker' = DOMAIN worker
      /\ worker'[w] = e /\ \A v \in DOMAIN worker \ {w} : worker'[v] = worker[v]
  BY DEF PoolTypes
<1>2. IsFiniteSet(OfPool!At(pcs)) /\ Cardinality(OfPool!At(pcs)) \in Nat
  BY FewWorkers
<1>3. w \in OfPool!At(pcs) <=> worker[w].pc \in pcs
  BY DEF OfPool!At
<1>4. OfPool!At(pcs)' = IF e.pc \in pcs THEN OfPool!At(pcs) \cup {w} ELSE OfPool!At(pcs) \ {w}
  BY <1>1 DEF OfPool!At
<1> DEFINE S == OfPool!At(pcs)
<1>5. /\ IsFiniteSet(S) /\ Cardinality(S) \in Nat
      /\ OfPool!At(pcs)' = IF e.pc \in pcs THEN S \cup {w} ELSE S \ {w}
  BY <1>2, <1>4
<1>6. /\ Cardinality(S \cup {w}) = IF w \in S THEN Cardinality(S) ELSE Cardinality(S) + 1
      /\ Cardinality(S \ {w}) = IF w \in S THEN Cardinality(S) - 1 ELSE Cardinality(S)
  BY <1>5, FS_AddElement, FS_RemoveElement
<1>7. Cardinality(OfPool!At(pcs)') = Cardinality(S) + (IF e.pc \in pcs THEN 1 ELSE 0)
                                     - (IF w \in S THEN 1 ELSE 0)
  <2>. HIDE DEF S
  <2>1. CASE e.pc \in pcs
    BY <1>5, <1>6, <2>1
  <2>2. CASE e.pc \notin pcs
    BY <1>5, <1>6, <2>2
  <2>. QED  BY <2>1, <2>2
<1>. QED  BY <1>1, <1>3, <1>7

\* createPoolThread: new workers are behind those that exist.
LEMMA WorkersCreated ==
    ASSUME OfPool!ThreadPoolAssumption, PoolTypes, Counted, ~shutdown, NEW more \in Nat,
           threadsRunning + more <= inst.maxThreads, OfPool!CreateThreads(more)
    PROVE  /\ worker' \in [1 .. inst.maxThreads -> WorkerState] /\ DOMAIN worker' = DOMAIN worker
           /\ \A w \in DOMAIN worker :
                 IF w \in threadsRunning + 1 .. threadsRunning + more
                 THEN worker[w].pc = "none" /\ worker'[w] = OfPool!Worker("new")
                 ELSE worker'[w] = worker[w]
           /\ OfPool!At({"run"})' = OfPool!At({"run"})
           /\ Cardinality(OfPool!At(Asleep)') = Cardinality(OfPool!At(Asleep)) + more
<1> DEFINE N == threadsRunning + 1 .. threadsRunning + more
<1>0. /\ inst.maxThreads \in Nat /\ DOMAIN worker = 1 .. inst.maxThreads /\ threadsRunning \in Nat
      /\ IsFiniteSet(OfPool!At(Asleep)) /\ Cardinality(OfPool!At(Asleep)) \in Nat
  BY FewWorkers DEF PoolTypes
<1>1. N \subseteq DOMAIN worker /\ \A w \in N : w > threadsRunning
  BY <1>0
<1>2. \A w \in N : worker[w].pc = "none"
  BY <1>1 DEF Counted
<1>3. OfPool!Worker("new") \in WorkerState /\ OfPool!Worker("new").pc = "new"
  BY DEF OfPool!Worker, WorkerState, Asleep
<1>4. worker' = [w \in DOMAIN worker |-> IF w \in N THEN OfPool!Worker("new") ELSE worker[w]]
  BY DEF OfPool!CreateThreads
<1>5. IsFiniteSet(N) /\ Cardinality(N) = more
  BY <1>0, FS_Interval
<1>. HIDE DEF N
<1>6. /\ worker' \in [1 .. inst.maxThreads -> WorkerState] /\ DOMAIN worker' = DOMAIN worker
      /\ \A w \in DOMAIN worker : worker'[w] = IF w \in N THEN OfPool!Worker("new") ELSE worker[w]
  BY <1>0, <1>3, <1>4 DEF PoolTypes
<1>7. OfPool!At({"run"})' = OfPool!At({"run"})
  BY <1>1, <1>2, <1>3, <1>6 DEF OfPool!At
<1>8. OfPool!At(Asleep)' = OfPool!At(Asleep) \cup N /\ OfPool!At(Asleep) \cap N = {}
  BY <1>1, <1>2, <1>3, <1>6 DEF OfPool!At, Asleep
<1>9. Cardinality(OfPool!At(Asleep)') = Cardinality(OfPool!At(Asleep)) + more
  <2> DEFINE S == OfPool!At(Asleep)
  <2>1. IsFiniteSet(S) /\ Cardinality(S) \in Nat /\ S \cap N = {} /\ OfPool!At(Asleep)' = S \cup N
    BY <1>0, <1>8
  <2>. HIDE DEF S
  <2>2. Cardinality(S \cup N) = Cardinality(S) + Cardinality(N) - Cardinality(S \cap N)
    BY <1>5, <2>1, FS_Union
  <2>3. Cardinality(S \cap N) = 0
    BY <2>1, FS_EmptySet
  <2>4. Cardinality(OfPool!At(Asleep)') = Cardinality(S) + more
    BY <1>5, <2>1, <2>2, <2>3
  <2>. QED  BY <2>4 DEF S
<1>. QED  BY <1>2, <1>6, <1>7, <1>9 DEF N

\* Workers are woken, some of them new.
LEMMA WakeStep ==
    ASSUME OfPool!ThreadPoolAssumption, PoolTypes, Counted, ~shutdown, ~failed, NEW m \in Nat,
           NEW more \in Nat,
           threadsRunning + more <= inst.maxThreads, threadsWaking + m <= inst.maxThreads,
           OfPool!Wake(m, more), UNCHANGED <<inst, shutdown>>
    PROVE  /\ worker' \in [1 .. inst.maxThreads -> WorkerState]
           /\ threadsAreAwake' \in Nat /\ threadsWaking' \in Nat /\ threadsSleeping' \in Nat
           /\ threadsRunning' \in Nat /\ workerWakeup' \in BOOLEAN /\ failed' \in BOOLEAN
           /\ Counted' /\ DOMAIN worker' = DOMAIN worker
           /\ \A w \in DOMAIN worker :
                 \/ worker'[w] = worker[w]
                 \/ worker[w].pc = "none" /\ worker'[w] = OfPool!Worker("new")
<1>0. /\ inst.maxThreads \in Nat /\ DOMAIN worker = 1 .. inst.maxThreads
      /\ threadsRunning \in Nat /\ threadsWaking \in Nat /\ threadsSleeping \in Nat
      /\ threadsAreAwake \in Nat /\ workerWakeup \in BOOLEAN
  BY FewWorkers DEF PoolTypes
<1>1. /\ worker' \in [1 .. inst.maxThreads -> WorkerState] /\ DOMAIN worker' = DOMAIN worker
      /\ \A w \in DOMAIN worker :
            IF w \in threadsRunning + 1 .. threadsRunning + more
            THEN worker[w].pc = "none" /\ worker'[w] = OfPool!Worker("new")
            ELSE worker'[w] = worker[w]
      /\ OfPool!At({"run"})' = OfPool!At({"run"})
      /\ Cardinality(OfPool!At(Asleep)') = Cardinality(OfPool!At(Asleep)) + more
  BY WorkersCreated DEF OfPool!Wake
<1>2. /\ threadsWaking' = threadsWaking + m /\ threadsSleeping' = threadsSleeping + more
      /\ threadsRunning' = threadsRunning + more /\ threadsAreAwake' = threadsAreAwake
      /\ workerWakeup' = (workerWakeup \/ m > 0)
      /\ failed' = (threadsWaking + m > threadsSleeping + more)
      /\ inst' = inst /\ shutdown' = shutdown
  BY DEF OfPool!Wake
<1>3. \A w \in DOMAIN worker : /\ worker'[w].pc = "none" <=> w > threadsRunning + more
                               /\ worker'[w].pc \notin {"leaving", "exited"}
  <2>. TAKE w \in DOMAIN worker
  <2>1. /\ worker[w].pc = "none" <=> w > threadsRunning
        /\ worker[w].pc \notin {"leaving", "exited"}
    BY DEF Counted
  <2>2. OfPool!Worker("new").pc = "new"
    BY DEF OfPool!Worker
  <2>3. CASE w \in threadsRunning + 1 .. threadsRunning + more
    BY <1>0, <1>1, <2>2, <2>3
  <2>4. CASE w \notin threadsRunning + 1 .. threadsRunning + more
    BY <1>0, <1>1, <2>1, <2>4
  <2>. QED  BY <2>3, <2>4
<1>4. Counted'
  <2>1. /\ threadsAreAwake' = Cardinality(OfPool!At({"run"}))'
        /\ threadsSleeping' = Cardinality(OfPool!At(Asleep))'
        /\ threadsRunning' = threadsAreAwake' + threadsSleeping'
    BY <1>0, <1>1, <1>2 DEF Counted
  <2>2. /\ threadsRunning' <= inst'.maxThreads /\ threadsWaking' <= inst'.maxThreads
        /\ threadsWaking' <= threadsSleeping' \/ failed'
    <3>1. threadsRunning' <= inst'.maxThreads /\ threadsWaking' <= inst'.maxThreads
      BY <1>0, <1>2
    <3>2. ASSUME ~failed' PROVE threadsWaking' <= threadsSleeping'
      <4>1. ~(threadsWaking + m > threadsSleeping + more)
        BY <1>2, <3>2
      <4>. QED  BY <1>0, <1>2, <4>1
    <3>. QED  BY <3>1, <3>2
  <2>3. ~shutdown' => \A w \in DOMAIN worker' :
            /\ worker'[w].pc = "none" <=> w > threadsRunning'
            /\ worker'[w].pc \notin {"leaving", "exited"}
    BY <1>1, <1>2, <1>3
  <2>. QED  BY <2>1, <2>2, <2>3 DEF Counted
<1>. QED  BY <1>0, <1>1, <1>2, <1>4
-----------------------------------------------------------------------------
\* What a step that leaves the pool alone keeps.
LEMMA PoolUnmoved ==
    ASSUME PoolInv, UNCHANGED <<inst, OfPool!jobVars, OfPool!countVars, workerWakeup, worker,
           failed, notify,
                                shutdown, pauserun>>
    PROVE  Counted' /\ Placed' /\ Manned' /\ OfPool!NoneStranded'
<1>1. Counted'
  BY DEF PoolInv, Counted, OfPool!At, OfPool!countVars
<1>2. Placed'
  BY DEF PoolInv, Placed, OfPool!jobVars
<1>3. Manned'
  BY DEF PoolInv, Manned, OfPool!jobVars, OfPool!countVars
<1>4. OfPool!NoneStranded'
  BY DEF PoolInv, OfPool!NoneStranded, OfPool!jobVars, OfPool!countVars, OfPool!At
<1>. QED  BY <1>1, <1>2, <1>3, <1>4

\* Before the shutdown, with the options not frozen, no client is on its way to the end.
LEMMA NotEnding ==
    ASSUME PoolInv, ~freezeopt
    PROVE  /\ ~shutdown /\ ~shutdownEvent /\ ~gone /\ notify = {}
           /\ \A w \in DOMAIN worker : worker[w].pc # "leaving"
           /\ \A c \in Clients : /\ client[c].then = "idle"
                                 /\ client[c].pc \in {"idle", "waiting", "woken"}
<1>1. ~shutdown /\ ~shutdownEvent /\ ~gone /\ notify = {}
  BY DEF PoolInv, Ending, Placed
<1>2. \A w \in DOMAIN worker : worker[w].pc # "leaving"
  BY <1>1 DEF PoolInv, Ending
<1>3. ASSUME NEW c \in Clients
      PROVE  client[c].then = "idle" /\ client[c].pc \in {"idle", "waiting", "woken"}
  <2>1. client[c].then \in {"idle", "drained"}
    BY DEF PoolInv, PoolTypes, ClientState
  <2>2. client[c].then # "drained"
    BY DEF PoolInv, Ending
  <2>. QED  BY <2>1, <2>2 DEF PoolInv, Ending
<1>. QED  BY <1>1, <1>2, <1>3

\* A pool that does not end stays so while its clients do.
LEMMA StillNotEnding ==
    ASSUME PoolInv, ~freezeopt, UNCHANGED <<freezeopt, shutdown, shutdownEvent, gone, client>>,
           DOMAIN worker' = DOMAIN worker, \A w \in DOMAIN worker : worker'[w].pc # "leaving"
    PROVE  Ending'
BY NotEnding DEF Ending

\* Workers that come to be have no job.
LEMMA NewHaveNone ==
    ASSUME PoolInv, DOMAIN worker' = DOMAIN worker,
           \A w \in DOMAIN worker :
              \/ worker'[w] = worker[w]
              \/ worker[w].pc = "none" /\ worker'[w] = OfPool!Worker("new")
    PROVE  /\ \A w \in DOMAIN worker :
                 /\ worker'[w].job = worker[w].job
                 /\ worker'[w].pc = "run" <=> worker[w].pc = "run"
           /\ OfPool!At({"woken", "leaving"})' = OfPool!At({"woken", "leaving"})
<1>1. OfPool!Worker("new").pc = "new" /\ OfPool!Worker("new").job = OfPool!None
  BY DEF OfPool!Worker
<1>2. \A w \in DOMAIN worker : worker[w].pc = "none" => worker[w].job = OfPool!None
  BY DEF PoolInv, Placed
<1>. QED  BY <1>1, <1>2 DEF OfPool!At

\* Who runs a job that is queued.
LEMMA ServesWakes ==
    ASSUME OfPool!ThreadPoolAssumption, PoolInv, ~failed, OfPool!Serves
    PROVE  \E m, more \in 0 .. 1 :
              /\ OfPool!Wake(m, more) /\ threadsRunning + more <= inst.maxThreads
              /\ threadsWaking + m <= inst.maxThreads /\ threadsRunning + more > 0
              /\ m = 0 => /\ more = 0 /\ threadsWaking = threadsSleeping
                          /\ threadsWaking > 0 \/ threadsAreAwake > 0
<1>1. /\ threadsWaking \in Nat /\ threadsSleeping \in Nat /\ threadsRunning \in Nat
      /\ threadsAreAwake \in Nat /\ threadsRunning = threadsAreAwake + threadsSleeping
      /\ threadsRunning <= inst.maxThreads /\ threadsWaking <= threadsSleeping
      /\ inst.maxThreads \in Nat \ {0}
  BY FewWorkers DEF PoolInv, PoolTypes, Counted
<1>2. CASE threadsWaking < threadsSleeping /\ OfPool!Wake(1, 0)
  BY <1>1, <1>2
<1>3. CASE threadsWaking >= threadsSleeping /\ threadsRunning >= inst.maxThreads /\ OfPool!Wake(0, 0)
  BY <1>1, <1>3
<1>4. CASE threadsWaking >= threadsSleeping /\ threadsRunning < inst.maxThreads /\ OfPool!Wake(1, 1)
  BY <1>1, <1>4
<1>5. CASE /\ threadsWaking >= threadsSleeping /\ threadsRunning \in 1 .. inst.maxThreads - 1
           /\ inst.fails /\ OfPool!Wake(1, 0)
  BY <1>1, <1>5
<1>. QED  BY <1>2, <1>3, <1>4, <1>5 DEF OfPool!Serves

\* What the functions of jobs leave alone.
CallFrame == UNCHANGED <<inst, OfPool!observerVars, OfPool!optVars, OfPool!endVars, client>>

\* A call that does nothing.
LEMMA NoCall ==
    ASSUME PoolInv, CallFrame, UNCHANGED <<OfPool!jobVars, OfPool!countVars, workerWakeup,
           worker, failed>>
    PROVE  PoolInv'
<1>1. PoolTypes'
  BY DEF PoolInv, PoolTypes, CallFrame, OfPool!jobVars, OfPool!countVars, OfPool!observerVars,
     OfPool!optVars, OfPool!endVars
<1>2. Counted' /\ Placed' /\ Manned' /\ OfPool!NoneStranded'
  BY PoolUnmoved DEF CallFrame, OfPool!endVars, OfPool!optVars
<1>3. Observed'
  BY DEF PoolInv, Observed, Observers, CallFrame, OfPool!observerVars
<1>4. Ending'
  BY DEF PoolInv, Ending, OfPool!Busy, CallFrame, OfPool!jobVars, OfPool!countVars,
     OfPool!optVars, OfPool!endVars
<1>. QED  BY <1>1, <1>2, <1>3, <1>4 DEF PoolInv

\* epicsJobQueue: a job that runs is marked, another is put on the queue and served.
LEMMA QueueStep ==
    ASSUME OfPool!ThreadPoolAssumption, PoolInv, ~failed, ~shutdown, NEW j \in Jobs \ freed,
           OfPool!epicsJobQueue(j), CallFrame
    PROVE  PoolInv'
<1>1. CASE UNCHANGED <<OfPool!jobVars, OfPool!countVars, workerWakeup, worker, failed>>
  BY <1>1, NoCall
<1>2. CASE /\ ~OfPool!Refused(j) /\ j \in running /\ queued' = queued \cup {j}
           /\ UNCHANGED <<jobs, owned, running, freewhendone, freed, OfPool!countVars,
                          workerWakeup, worker,
                          failed>>
  <2>1. PoolTypes'
    BY <1>2 DEF PoolInv, PoolTypes, CallFrame, OfPool!countVars, OfPool!observerVars,
       OfPool!optVars, OfPool!endVars
  <2>2. Counted'
    BY <1>2 DEF PoolInv, Counted, OfPool!At, OfPool!countVars, CallFrame, OfPool!optVars
  <2>3. Observed'
    BY DEF PoolInv, Observed, Observers, CallFrame, OfPool!observerVars
  <2>4. Placed'
    BY <1>2 DEF PoolInv, Placed, CallFrame, OfPool!endVars, OfPool!optVars, OfPool!Refused
  <2>5. Manned' /\ OfPool!NoneStranded'
    BY <1>2 DEF PoolInv, Manned, OfPool!NoneStranded, OfPool!countVars, OfPool!At, CallFrame,
       OfPool!optVars
  <2>6. Ending'
    BY <1>2 DEF PoolInv, Ending, OfPool!Busy, CallFrame, OfPool!countVars, OfPool!optVars,
       OfPool!endVars
  <2>. QED  BY <2>1, <2>2, <2>3, <2>4, <2>5, <2>6 DEF PoolInv
<1>3. CASE /\ ~OfPool!Refused(j) /\ j \notin running
           /\ queued' = queued \cup {j} /\ owned' = owned \ {j} /\ jobs' = Append(jobs, j)
           /\ OfPool!Serves
           /\ UNCHANGED <<running, freewhendone, freed>>
  <2>0. /\ PoolTypes /\ Counted /\ Observed /\ Placed /\ Manned /\ OfPool!NoneStranded /\ Ending
        /\ ~freezeopt /\ j \notin queued /\ j \notin freewhendone
    BY <1>3 DEF PoolInv, OfPool!Refused, Ending
  <2>1. PICK m, more \in 0 .. 1 :
              /\ OfPool!Wake(m, more) /\ threadsRunning + more <= inst.maxThreads
              /\ threadsWaking + m <= inst.maxThreads /\ threadsRunning + more > 0
              /\ m = 0 => /\ more = 0 /\ threadsWaking = threadsSleeping
                          /\ threadsWaking > 0 \/ threadsAreAwake > 0
    BY <1>3, ServesWakes
  <2>2. /\ worker' \in [1 .. inst.maxThreads -> WorkerState]
        /\ threadsAreAwake' \in Nat /\ threadsWaking' \in Nat /\ threadsSleeping' \in Nat
        /\ threadsRunning' \in Nat /\ workerWakeup' \in BOOLEAN /\ failed' \in BOOLEAN
        /\ Counted' /\ DOMAIN worker' = DOMAIN worker
        /\ \A w \in DOMAIN worker :
              \/ worker'[w] = worker[w]
              \/ worker[w].pc = "none" /\ worker'[w] = OfPool!Worker("new")
    BY <2>0, <2>1, WakeStep DEF CallFrame, OfPool!optVars
  <2>3. /\ \A w \in DOMAIN worker : /\ worker'[w].job = worker[w].job
                                    /\ worker'[w].pc = "run" <=> worker[w].pc = "run"
        /\ OfPool!At({"woken", "leaving"})' = OfPool!At({"woken", "leaving"})
    BY <2>2, NewHaveNone
  <2>4. /\ jobs' \in Seq(Jobs) /\ OfPool!IsInjective(jobs') /\ jobs' # <<>>
        /\ OfPool!Range(jobs') = OfPool!Range(jobs) \cup {j}
    BY <1>3, <2>0, JobAdded DEF PoolTypes, Placed
  <2>5. PoolTypes'
    BY <1>3, <2>0, <2>2, <2>4 DEF PoolTypes, CallFrame, OfPool!observerVars, OfPool!optVars,
       OfPool!endVars
  <2>6. Observed'
    BY <2>0 DEF Observed, Observers, CallFrame, OfPool!observerVars
  <2>7. Placed'
    BY <1>3, <2>0, <2>2, <2>3, <2>4 DEF Placed, CallFrame, OfPool!endVars, OfPool!optVars
  <2>8. /\ threadsRunning' = threadsRunning + more /\ threadsWaking' = threadsWaking + m
        /\ threadsSleeping' = threadsSleeping + more /\ threadsAreAwake' = threadsAreAwake
        /\ workerWakeup' = (workerWakeup \/ m > 0) /\ pauserun' = pauserun
    BY <2>1 DEF OfPool!Wake, CallFrame, OfPool!optVars
  <2>9. Manned'
    BY <2>0, <2>1, <2>8 DEF Manned, PoolTypes
  <2>10. OfPool!NoneStranded'
    <3>1. CASE m = 1
      <4>1. m > 0 /\ threadsWaking' > 0
        BY <2>0, <2>8, <3>1 DEF PoolTypes
      <4>2. workerWakeup'
        BY <2>8, <4>1
      <4>. QED  BY <4>1, <4>2 DEF OfPool!NoneStranded
    <3>2. CASE m = 0
      BY <2>0, <2>1, <2>3, <2>8, <3>2 DEF OfPool!NoneStranded, PoolTypes
    <3>. QED  BY <2>1, <3>1, <3>2
  <2>11. Ending'
    <3>1. \A w \in DOMAIN worker : worker'[w].pc # "leaving"
      BY <2>0, <2>2, NotEnding DEF OfPool!Worker
    <3>. QED  BY <2>0, <2>2, <3>1, StillNotEnding DEF CallFrame, OfPool!optVars, OfPool!endVars
  <2>. QED  BY <2>2, <2>5, <2>6, <2>7, <2>9, <2>10, <2>11 DEF PoolInv
<1>. QED  BY <1>1, <1>2, <1>3 DEF OfPool!epicsJobQueue

\* A call that takes jobs from the queue.
LEMMA LessQueued ==
    ASSUME PoolInv, ~shutdown, CallFrame, UNCHANGED <<OfPool!countVars, workerWakeup, worker,
           failed>>,
           jobs' \in Seq(Jobs), OfPool!Range(jobs') \subseteq OfPool!Range(jobs)
    PROVE  Counted' /\ Observed' /\ Manned' /\ OfPool!NoneStranded' /\ Ending'
<1>1. jobs = <<>> => jobs' = <<>>
  BY HoldsNothing DEF PoolInv, PoolTypes
<1>2. Counted'
  BY DEF PoolInv, Counted, OfPool!At, OfPool!countVars, CallFrame, OfPool!optVars
<1>3. Observed'
  BY DEF PoolInv, Observed, Observers, CallFrame, OfPool!observerVars
<1>4. Manned' /\ OfPool!NoneStranded'
  BY <1>1 DEF PoolInv, Manned, OfPool!NoneStranded, OfPool!countVars, OfPool!At, CallFrame,
     OfPool!optVars
<1>5. Ending'
  BY <1>1 DEF PoolInv, Ending, OfPool!Busy, CallFrame, OfPool!countVars, OfPool!optVars,
     OfPool!endVars
<1>. QED  BY <1>2, <1>3, <1>4, <1>5

\* epicsJobUnqueue
LEMMA UnqueueStep ==
    ASSUME OfPool!ThreadPoolAssumption, PoolInv, ~failed, ~shutdown, NEW j \in Jobs \ freed,
           OfPool!epicsJobUnqueue(j), CallFrame
    PROVE  PoolInv'
<1>1. jobs' \in Seq(Jobs) /\ OfPool!IsInjective(jobs') /\ OfPool!Range(jobs') = OfPool!Range(jobs) \ {j}
  BY JobRemoved DEF OfPool!epicsJobUnqueue, OfPool!Without, PoolInv, PoolTypes, Placed
<1>2. Counted' /\ Observed' /\ Manned' /\ OfPool!NoneStranded' /\ Ending'
  BY <1>1, LessQueued DEF OfPool!epicsJobUnqueue
<1>3. PoolTypes'
  BY <1>1 DEF OfPool!epicsJobUnqueue, PoolInv, PoolTypes, CallFrame, OfPool!countVars,
     OfPool!observerVars, OfPool!optVars,
     OfPool!endVars
<1>4. Placed'
  BY <1>1 DEF OfPool!epicsJobUnqueue, PoolInv, Placed, CallFrame, OfPool!endVars, OfPool!optVars
<1>. QED  BY <1>2, <1>3, <1>4 DEF PoolInv

\* epicsJobDestroy
LEMMA DestroyStep ==
    ASSUME OfPool!ThreadPoolAssumption, PoolInv, ~failed, ~shutdown, NEW j \in Jobs,
           OfPool!Live(j),
           OfPool!epicsJobDestroy(j), CallFrame
    PROVE  PoolInv'
<1>1. jobs' \in Seq(Jobs) /\ OfPool!IsInjective(jobs') /\ OfPool!Range(jobs') = OfPool!Range(jobs) \ {j}
  BY JobRemoved DEF OfPool!epicsJobDestroy, OfPool!Without, PoolInv, PoolTypes, Placed
<1>2. Counted' /\ Observed' /\ Manned' /\ OfPool!NoneStranded' /\ Ending'
  BY <1>1, LessQueued DEF OfPool!epicsJobDestroy
<1>3. PoolTypes'
  BY <1>1 DEF OfPool!epicsJobDestroy, PoolInv, PoolTypes, CallFrame, OfPool!countVars,
     OfPool!observerVars, OfPool!optVars,
     OfPool!endVars
<1>4. Placed'
  <2>1. notify = {}
    BY DEF PoolInv, Placed
  <2>2. CASE j \in running
    BY <1>1, <2>1, <2>2 DEF OfPool!epicsJobDestroy, PoolInv, Placed, CallFrame, OfPool!endVars,
       OfPool!optVars, OfPool!Live
  <2>3. CASE j \notin running
    BY <1>1, <2>1, <2>3 DEF OfPool!epicsJobDestroy, PoolInv, Placed, CallFrame, OfPool!endVars,
       OfPool!optVars, OfPool!Live
  <2>. QED  BY <2>2, <2>3
<1>. QED  BY <1>2, <1>3, <1>4 DEF PoolInv
-----------------------------------------------------------------------------
\* A worker that runs no job goes where it runs none.
LEMMA WorkerIdles ==
    ASSUME PoolInv, NEW w \in DOMAIN worker, worker[w].pc # "run", NEW e \in WorkerState,
           e.pc # "run", e.job = OfPool!None, worker' = [worker EXCEPT ![w] = e],
           UNCHANGED <<OfPool!jobVars, notify, shutdown>>
    PROVE  Placed'
<1>1. worker[w].job = OfPool!None
  BY DEF PoolInv, Placed
<1>2. /\ DOMAIN worker' = DOMAIN worker
      /\ \A v \in DOMAIN worker : /\ worker'[v].job = worker[v].job
                                  /\ worker'[v].pc = "run" <=> worker[v].pc = "run"
  BY <1>1 DEF PoolInv, PoolTypes
<1>. QED  BY <1>2 DEF PoolInv, Placed, OfPool!jobVars

\* A worker that runs a job has it, and the pool is not shut down.
LEMMA AtWork ==
    ASSUME OfPool!ThreadPoolAssumption, PoolInv, NEW w \in DOMAIN worker, worker[w].pc = "run"
    PROVE  /\ worker[w].job \in Jobs /\ worker[w].job \in running \ (freed \cup owned)
           /\ threadsAreAwake > 0 /\ threadsRunning > 0 /\ ~shutdown /\ notify = {}
<1>1. w \in OfPool!At({"run"}) /\ IsFiniteSet(OfPool!At({"run"}))
  BY FewWorkers DEF PoolInv, OfPool!At
<1>2. threadsAreAwake # 0 /\ threadsAreAwake \in Nat /\ threadsSleeping \in Nat
      /\ threadsRunning = threadsAreAwake + threadsSleeping
  BY <1>1, FS_EmptySet DEF PoolInv, PoolTypes, Counted
<1>3. ~shutdown
  BY <1>2 DEF PoolInv, Ending
<1>4. worker[w].job # OfPool!None /\ worker[w].job \in running
  BY DEF PoolInv, Placed
<1>. QED  BY <1>2, <1>3, <1>4 DEF PoolInv, PoolTypes, Placed

\* One that is asleep is counted.
LEMMA Asleeps ==
    ASSUME OfPool!ThreadPoolAssumption, PoolInv, NEW w \in DOMAIN worker, worker[w].pc \in Asleep
    PROVE  threadsSleeping > 0 /\ threadsRunning > 0
<1>1. w \in OfPool!At(Asleep) /\ IsFiniteSet(OfPool!At(Asleep))
  BY FewWorkers DEF PoolInv, OfPool!At
<1>. QED  BY <1>1, FS_EmptySet DEF PoolInv, PoolTypes, Counted

\* The worker's own record of a place.
LEMMA WorkerAt ==
    ASSUME NEW pc \in {"none", "leaving", "exited", "run"} \cup Asleep
    PROVE  OfPool!Worker(pc) \in WorkerState /\ OfPool!Worker(pc).pc = pc /\ OfPool!Worker(pc).job = OfPool!None
BY DEF OfPool!Worker, WorkerState

\* A worker steps among the places where it sleeps.
LEMMA StillAsleep ==
    ASSUME OfPool!ThreadPoolAssumption, PoolInv, ~failed, NEW w \in DOMAIN worker,
           worker[w].pc \in Asleep, NEW pc \in Asleep, worker' = [worker EXCEPT ![w] = OfPool!Worker(pc)],
           threadsWaking' \in Nat, threadsWaking' <= threadsWaking,
           UNCHANGED <<inst, threadsAreAwake, threadsSleeping, threadsRunning, shutdown, failed>>
    PROVE  /\ Counted' /\ worker' \in [1 .. inst.maxThreads -> WorkerState]
           /\ worker[w].pc # "run" /\ OfPool!Worker(pc) \in WorkerState
           /\ OfPool!Worker(pc).pc # "run" /\ OfPool!Worker(pc).job = OfPool!None
           /\ worker'[w] = OfPool!Worker(pc)
           /\ worker'[w].pc = pc /\ DOMAIN worker' = DOMAIN worker
           /\ \A v \in DOMAIN worker \ {w} : worker'[v] = worker[v]
<1>1. /\ OfPool!Worker(pc) \in WorkerState /\ OfPool!Worker(pc).pc = pc
      /\ OfPool!Worker(pc).job = OfPool!None
      /\ pc \notin {"run", "none", "leaving", "exited"}
      /\ worker[w].pc \notin {"run", "none", "leaving", "exited"}
  BY WorkerAt DEF Asleep
<1>2. PoolTypes
  BY DEF PoolInv
<1>3. /\ worker' \in [1 .. inst.maxThreads -> WorkerState] /\ DOMAIN worker' = DOMAIN worker
      /\ worker'[w] = OfPool!Worker(pc) /\ \A v \in DOMAIN worker \ {w} : worker'[v] = worker[v]
  BY <1>1, <1>2 DEF PoolTypes
<1>4. /\ Cardinality(OfPool!At(Asleep)') \in Nat /\ Cardinality(OfPool!At(Asleep)) \in Nat
      /\ Cardinality(OfPool!At(Asleep)') = Cardinality(OfPool!At(Asleep))
  <2>1. Cardinality(OfPool!At(Asleep)') = Cardinality(OfPool!At(Asleep)) + (IF OfPool!Worker(pc).pc \in Asleep THEN 1 ELSE 0)
                                             - (IF worker[w].pc \in Asleep THEN 1 ELSE 0)
    BY <1>1, <1>2, WorkerMoves
  <2>2. Cardinality(OfPool!At(Asleep)) \in Nat
    BY <1>2, FewWorkers
  <2>. QED  BY <1>1, <2>1, <2>2
<1>5. OfPool!At({"run"})' = OfPool!At({"run"})
  BY <1>1, <1>3 DEF OfPool!At
<1>6. /\ threadsWaking' <= inst.maxThreads /\ (threadsWaking' <= threadsSleeping \/ failed)
  <2>1. /\ threadsWaking \in Nat /\ threadsSleeping \in Nat /\ inst.maxThreads \in Nat
        /\ threadsWaking <= inst.maxThreads /\ threadsWaking <= threadsSleeping
    BY <1>2, FewWorkers DEF PoolInv, PoolTypes, Counted
  <2>. QED  BY <2>1
<1>7. ~shutdown => \A v \in DOMAIN worker :
            /\ worker'[v].pc = "none" <=> v > threadsRunning
            /\ worker'[v].pc \notin {"leaving", "exited"}
  BY <1>1, <1>3 DEF PoolInv, Counted
<1>8. Counted'
  BY <1>3, <1>4, <1>5, <1>6, <1>7 DEF PoolInv, Counted
<1>. QED  BY <1>1, <1>3, <1>8

\* A new worker waits for the signal.
LEMMA WorkerBeginStep ==
    ASSUME OfPool!ThreadPoolAssumption, PoolInv, ~failed, NEW w \in DOMAIN worker,
           OfPool!WorkerBegin(w)
    PROVE  PoolInv'
<1>0. /\ worker[w].pc = "new" /\ worker' = [worker EXCEPT ![w] = OfPool!Worker("wait")]
      /\ UNCHANGED <<inst, OfPool!jobVars, OfPool!countVars, workerWakeup, OfPool!observerVars,
                     OfPool!optVars, OfPool!endVars, client,
                     failed>>
      /\ worker[w].pc \in Asleep /\ "wait" \in Asleep
  BY DEF OfPool!WorkerBegin, Asleep
<1>a. threadsWaking' \in Nat /\ threadsWaking' <= threadsWaking
  BY <1>0 DEF PoolInv, PoolTypes, OfPool!countVars
<1>1. /\ Counted' /\ worker' \in [1 .. inst.maxThreads -> WorkerState]
      /\ worker[w].pc # "run" /\ OfPool!Worker("wait") \in WorkerState
      /\ OfPool!Worker("wait").pc # "run" /\ OfPool!Worker("wait").job = OfPool!None
      /\ worker'[w].pc = "wait" /\ DOMAIN worker' = DOMAIN worker
      /\ \A v \in DOMAIN worker \ {w} : worker'[v] = worker[v]
  BY <1>0, <1>a, StillAsleep DEF OfPool!countVars, OfPool!optVars
<1>2. Placed'
  BY <1>0, <1>1, WorkerIdles DEF OfPool!endVars, OfPool!optVars
<1>3. PoolTypes'
  BY <1>0, <1>1 DEF PoolInv, PoolTypes, OfPool!jobVars, OfPool!countVars, OfPool!observerVars,
     OfPool!optVars, OfPool!endVars
<1>4. Observed' /\ Manned'
  BY <1>0 DEF PoolInv, Observed, Observers, Manned, OfPool!jobVars, OfPool!countVars,
     OfPool!observerVars
<1>5. OfPool!At({"woken", "leaving"})' = OfPool!At({"woken", "leaving"})
  BY <1>0, <1>1 DEF OfPool!At
<1>6. OfPool!NoneStranded'
  BY <1>0, <1>5 DEF PoolInv, OfPool!NoneStranded, OfPool!jobVars, OfPool!countVars, OfPool!optVars
<1>7. Ending'
  BY <1>0, <1>1 DEF PoolInv, Ending, OfPool!Busy, OfPool!jobVars, OfPool!countVars,
     OfPool!optVars, OfPool!endVars
<1>. QED  BY <1>1, <1>2, <1>3, <1>4, <1>6, <1>7 DEF PoolInv

\* workerWakeup is taken by one worker.
LEMMA WorkerWaitStep ==
    ASSUME OfPool!ThreadPoolAssumption, PoolInv, ~failed, NEW w \in DOMAIN worker,
           OfPool!WorkerWait(w)
    PROVE  PoolInv'
<1>0. /\ worker[w].pc = "wait" /\ worker' = [worker EXCEPT ![w] = OfPool!Worker("woken")]
      /\ workerWakeup' = FALSE
      /\ UNCHANGED <<inst, OfPool!jobVars, OfPool!countVars, OfPool!observerVars,
                     OfPool!optVars, OfPool!endVars, client, failed>>
      /\ worker[w].pc \in Asleep /\ "woken" \in Asleep
  BY DEF OfPool!WorkerWait, Asleep
<1>a. threadsWaking' \in Nat /\ threadsWaking' <= threadsWaking
  BY <1>0 DEF PoolInv, PoolTypes, OfPool!countVars
<1>1. /\ Counted' /\ worker' \in [1 .. inst.maxThreads -> WorkerState]
      /\ worker[w].pc # "run" /\ OfPool!Worker("woken") \in WorkerState
      /\ OfPool!Worker("woken").pc # "run" /\ OfPool!Worker("woken").job = OfPool!None
      /\ worker'[w].pc = "woken" /\ DOMAIN worker' = DOMAIN worker
      /\ \A v \in DOMAIN worker \ {w} : worker'[v] = worker[v]
  BY <1>0, <1>a, StillAsleep DEF OfPool!countVars, OfPool!optVars
<1>2. Placed'
  BY <1>0, <1>1, WorkerIdles DEF OfPool!endVars, OfPool!optVars
<1>3. PoolTypes'
  BY <1>0, <1>1 DEF PoolInv, PoolTypes, OfPool!jobVars, OfPool!countVars, OfPool!observerVars,
     OfPool!optVars, OfPool!endVars
<1>4. Observed' /\ Manned'
  BY <1>0 DEF PoolInv, Observed, Observers, Manned, OfPool!jobVars, OfPool!countVars,
     OfPool!observerVars
<1>5. w \in OfPool!At({"woken", "leaving"})'
  BY <1>1 DEF OfPool!At
<1>6. OfPool!NoneStranded'
  BY <1>0, <1>5 DEF PoolInv, OfPool!NoneStranded, OfPool!jobVars, OfPool!countVars, OfPool!optVars
<1>7. Ending'
  BY <1>0, <1>1 DEF PoolInv, Ending, OfPool!Busy, OfPool!jobVars, OfPool!countVars,
     OfPool!optVars, OfPool!endVars
<1>. QED  BY <1>1, <1>2, <1>3, <1>4, <1>6, <1>7 DEF PoolInv

\* A worker goes to sleep again when none was to be woken, or the pool is paused.
LEMMA WorkerBackStep ==
    ASSUME OfPool!ThreadPoolAssumption, PoolInv, ~failed, NEW w \in DOMAIN worker,
           OfPool!WorkerBack(w)
    PROVE  PoolInv'
<1>0. /\ worker[w].pc = "woken" /\ (threadsWaking = 0 \/ (~shutdown /\ pauserun))
      /\ threadsWaking' = IF threadsWaking = 0 THEN 0 ELSE threadsWaking - 1
      /\ worker' = [worker EXCEPT ![w] = OfPool!Worker("wait")]
      /\ UNCHANGED <<inst, OfPool!jobVars, threadsAreAwake, threadsSleeping, threadsRunning,
                     workerWakeup,
                     OfPool!observerVars, OfPool!optVars, OfPool!endVars, client, failed>>
      /\ worker[w].pc \in Asleep /\ "wait" \in Asleep
  BY DEF OfPool!WorkerBack, Asleep
<1>a. /\ threadsWaking \in Nat /\ threadsSleeping \in Nat /\ threadsWaking <= threadsSleeping
      /\ threadsWaking' \in Nat /\ threadsWaking' <= threadsWaking
      /\ threadsWaking > 0 => threadsWaking' < threadsWaking
  BY <1>0 DEF PoolInv, PoolTypes, Counted
<1>1. /\ Counted' /\ worker' \in [1 .. inst.maxThreads -> WorkerState]
      /\ worker[w].pc # "run" /\ OfPool!Worker("wait") \in WorkerState
      /\ OfPool!Worker("wait").pc # "run" /\ OfPool!Worker("wait").job = OfPool!None
      /\ worker'[w].pc = "wait" /\ DOMAIN worker' = DOMAIN worker
      /\ \A v \in DOMAIN worker \ {w} : worker'[v] = worker[v]
  BY <1>0, <1>a, StillAsleep DEF OfPool!optVars
<1>2. Placed'
  BY <1>0, <1>1, WorkerIdles DEF OfPool!endVars, OfPool!optVars
<1>3. PoolTypes'
  BY <1>0, <1>a, <1>1 DEF PoolInv, PoolTypes, OfPool!jobVars, OfPool!observerVars,
     OfPool!optVars, OfPool!endVars
<1>4. Observed' /\ Manned'
  BY <1>0 DEF PoolInv, Observed, Observers, Manned, OfPool!jobVars, OfPool!observerVars
<1>6. OfPool!NoneStranded'
  <2>1. CASE threadsWaking = 0
    BY <1>0, <2>1 DEF PoolInv, OfPool!NoneStranded, OfPool!jobVars, OfPool!optVars
  <2>2. CASE threadsWaking # 0
    <3>1. pauserun' /\ threadsWaking' # threadsSleeping'
      BY <1>0, <1>a, <2>2 DEF OfPool!optVars
    <3>. QED  BY <3>1 DEF OfPool!NoneStranded
  <2>. QED  BY <2>1, <2>2
<1>7. Ending'
  BY <1>0, <1>1 DEF PoolInv, Ending, OfPool!Busy, OfPool!jobVars, OfPool!optVars, OfPool!endVars
<1>. QED  BY <1>1, <1>2, <1>3, <1>4, <1>6, <1>7 DEF PoolInv

\* "pass along": one that leaves has gone.
LEMMA WorkerExitStep ==
    ASSUME OfPool!ThreadPoolAssumption, PoolInv, ~failed, NEW w \in DOMAIN worker,
           OfPool!WorkerExit(w)
    PROVE  PoolInv'
<1>0. /\ worker[w].pc = "leaving" /\ worker' = [worker EXCEPT ![w] = OfPool!Worker("exited")]
      /\ observerWakeup' = (observerWakeup \/ worker[w].ocnt > 0)
      /\ workerWakeup' = (workerWakeup \/ worker[w].nrun > 0)
      /\ shutdownEvent' = (shutdownEvent \/ worker[w].nrun = 0)
      /\ UNCHANGED <<inst, OfPool!jobVars, OfPool!countVars, observerCount, OfPool!optVars,
                     notify, gone, client, failed>>
  BY DEF OfPool!WorkerExit
<1>1. /\ OfPool!Worker("exited") \in WorkerState /\ OfPool!Worker("exited").pc = "exited"
      /\ OfPool!Worker("exited").job = OfPool!None /\ PoolTypes
  BY WorkerAt DEF PoolInv
<1>2. /\ worker' \in [1 .. inst.maxThreads -> WorkerState] /\ DOMAIN worker' = DOMAIN worker
      /\ worker'[w].pc = "exited" /\ \A v \in DOMAIN worker \ {w} : worker'[v] = worker[v]
  BY <1>0, <1>1 DEF PoolTypes
<1>3. OfPool!At({"run"})' = OfPool!At({"run"}) /\ OfPool!At(Asleep)' = OfPool!At(Asleep)
  BY <1>0, <1>2 DEF OfPool!At, Asleep
<1>4. shutdown /\ (worker[w].nrun = 0 => threadsRunning = 0) /\ worker[w].nrun \in Nat
  BY <1>0 DEF PoolInv, PoolTypes, WorkerState, Ending
<1>5. Counted'
  BY <1>0, <1>2, <1>3, <1>4 DEF PoolInv, Counted, OfPool!countVars, OfPool!optVars
<1>6. Placed'
  BY <1>0, <1>1, WorkerIdles DEF OfPool!optVars
<1>7. PoolTypes'
  BY <1>0, <1>2 DEF PoolInv, PoolTypes, OfPool!jobVars, OfPool!countVars, OfPool!optVars
<1>8. Observed' /\ Manned'
  BY <1>0 DEF PoolInv, Observed, Observers, Manned, OfPool!jobVars, OfPool!countVars
<1>9. OfPool!NoneStranded'
  <2>1. jobs = <<>>
    BY <1>4 DEF PoolInv, Ending
  <2>2. CASE worker[w].nrun > 0
    <3>1. workerWakeup'
      BY <1>0, <2>2
    <3>. QED  BY <1>0, <2>1, <3>1 DEF OfPool!NoneStranded, OfPool!jobVars
  <2>3. CASE worker[w].nrun = 0
    <3>1. threadsWaking = 0
      BY <1>4, <2>3 DEF PoolInv, PoolTypes, Counted
    <3>. QED  BY <1>0, <2>1, <3>1 DEF OfPool!NoneStranded, OfPool!jobVars, OfPool!countVars
  <2>. QED  BY <1>4, <2>2, <2>3
<1>10. Ending'
  BY <1>0, <1>2, <1>4 DEF PoolInv, Ending, OfPool!Busy, OfPool!jobVars, OfPool!countVars,
     OfPool!optVars
<1>. QED  BY <1>5, <1>6, <1>7, <1>8, <1>9, <1>10 DEF PoolInv
-----------------------------------------------------------------------------
\* What a worker has that runs a job.
LEMMA RunsJob ==
    ASSUME NEW j \in Jobs
    PROVE  /\ [OfPool!Worker("run") EXCEPT !.job = j] \in WorkerState
           /\ [OfPool!Worker("run") EXCEPT !.job = j].pc = "run"
           /\ [OfPool!Worker("run") EXCEPT !.job = j].job = j
BY DEF OfPool!Worker, WorkerState

\* A worker takes the first job and passes the signal along, or finds no job and sleeps again.
LEMMA WorkerServesStep ==
    ASSUME OfPool!ThreadPoolAssumption, PoolInv, ~failed, NEW w \in DOMAIN worker,
           OfPool!WorkerServes(w)
    PROVE  PoolInv'
<1>0. /\ worker[w].pc = "woken" /\ threadsWaking > 0 /\ ~shutdown /\ ~pauserun
      /\ threadsWaking' = threadsWaking - 1
      /\ workerWakeup' = (workerWakeup \/ threadsWaking - 1 > 0)
      /\ OfPool!TakesFrom(w, jobs)
      /\ UNCHANGED <<inst, owned, freewhendone, freed, threadsRunning, OfPool!optVars,
                     OfPool!endVars, client, failed>>
      /\ worker[w].pc \in Asleep /\ "wait" \in Asleep
  BY DEF OfPool!WorkerServes, OfPool!PassAlong, Asleep
<1>a. /\ threadsWaking \in Nat /\ threadsSleeping \in Nat /\ threadsAreAwake \in Nat
      /\ threadsRunning \in Nat /\ threadsWaking <= threadsSleeping
      /\ threadsWaking' \in Nat /\ threadsWaking' <= threadsWaking
      /\ threadsWaking' > 0 => workerWakeup'
      /\ inst.maxThreads \in Nat /\ threadsWaking <= inst.maxThreads
      /\ threadsRunning = threadsAreAwake + threadsSleeping /\ threadsRunning <= inst.maxThreads
      /\ threadsAreAwake = Cardinality(OfPool!At({"run"}))
      /\ threadsSleeping = Cardinality(OfPool!At(Asleep))
  <2>1. /\ threadsWaking \in Nat /\ threadsSleeping \in Nat /\ threadsAreAwake \in Nat
        /\ threadsRunning \in Nat /\ threadsWaking <= threadsSleeping
        /\ inst.maxThreads \in Nat /\ threadsWaking <= inst.maxThreads
        /\ threadsRunning = threadsAreAwake + threadsSleeping /\ threadsRunning <= inst.maxThreads
        /\ threadsAreAwake = Cardinality(OfPool!At({"run"}))
        /\ threadsSleeping = Cardinality(OfPool!At(Asleep))
    BY FewWorkers DEF PoolInv, PoolTypes, Counted
  <2>2. threadsWaking' \in Nat /\ threadsWaking' <= threadsWaking
    BY <1>0, <2>1
  <2>3. ASSUME threadsWaking' > 0 PROVE workerWakeup'
    <3>1. threadsWaking - 1 > 0
      BY <1>0, <2>3
    <3>. QED  BY <1>0, <3>1
  <2>. QED  BY <2>1, <2>2, <2>3
<1>b. /\ PoolTypes /\ Counted /\ Observed /\ Placed /\ Manned /\ OfPool!NoneStranded /\ Ending
  BY DEF PoolInv
<1>1. CASE jobs = <<>>
  <2>0. /\ jobs' = jobs /\ worker' = [worker EXCEPT ![w] = OfPool!Worker("wait")]
        /\ observerWakeup' \in BOOLEAN
        /\ UNCHANGED <<observerCount, threadsAreAwake, threadsSleeping, queued, running>>
    BY <1>0, <1>1, <1>b DEF OfPool!TakesFrom, OfPool!WorkerServes, PoolTypes
  <2>1. /\ Counted' /\ worker' \in [1 .. inst.maxThreads -> WorkerState]
        /\ worker[w].pc # "run" /\ OfPool!Worker("wait") \in WorkerState
        /\ OfPool!Worker("wait").pc # "run" /\ OfPool!Worker("wait").job = OfPool!None
        /\ worker'[w].pc = "wait" /\ DOMAIN worker' = DOMAIN worker
        /\ \A v \in DOMAIN worker \ {w} : worker'[v] = worker[v]
    BY <1>0, <1>a, <2>0, StillAsleep DEF OfPool!optVars
  <2>2. Placed'
    BY <1>0, <2>0, <2>1, WorkerIdles DEF OfPool!endVars, OfPool!optVars, OfPool!jobVars
  <2>3. PoolTypes'
    BY <1>0, <1>a, <1>b, <2>0, <2>1 DEF PoolTypes, OfPool!optVars, OfPool!endVars
  <2>4. Observed' /\ Manned'
    BY <1>0, <1>b, <2>0 DEF Observed, Observers, Manned
  <2>5. OfPool!NoneStranded'
    BY <1>1, <1>a, <2>0 DEF OfPool!NoneStranded
  <2>6. Ending'
    BY <1>0, <1>b, <2>0, <2>1 DEF Ending, OfPool!Busy, OfPool!optVars, OfPool!endVars
  <2>. QED  BY <2>1, <2>2, <2>3, <2>4, <2>5, <2>6 DEF PoolInv
<1>2. CASE jobs # <<>>
  <2> DEFINE h == Head(jobs)
             e == [OfPool!Worker("run") EXCEPT !.job = h]
  <2>0. /\ jobs' = Tail(jobs) /\ worker' = [worker EXCEPT ![w] = e]
        /\ UNCHANGED OfPool!observerVars
        /\ threadsAreAwake' = threadsAreAwake + 1 /\ threadsSleeping' = threadsSleeping - 1
        /\ queued' = queued \ {h} /\ running' = running \cup {h}
    BY <1>0, <1>2 DEF OfPool!TakesFrom, OfPool!WorkerServes
  <2>1. /\ h \in Jobs /\ h \in OfPool!Range(jobs) /\ jobs' \in Seq(Jobs)
        /\ OfPool!IsInjective(jobs')
        /\ OfPool!Range(jobs') = OfPool!Range(jobs) \ {h}
    BY <1>b, <1>2, <2>0, JobTaken DEF PoolTypes, Placed
  <2>2. e \in WorkerState /\ e.pc = "run" /\ e.job = h
    BY <2>1, RunsJob
  <2>. HIDE DEF e, h
  <2>3. /\ worker' \in [1 .. inst.maxThreads -> WorkerState] /\ DOMAIN worker' = DOMAIN worker
        /\ worker'[w] = e /\ \A v \in DOMAIN worker \ {w} : worker'[v] = worker[v]
    BY <1>b, <2>0, <2>2 DEF PoolTypes
  <2>4. Cardinality(OfPool!At(Asleep)') = threadsSleeping - 1
    <3>1. Cardinality(OfPool!At(Asleep)') = Cardinality(OfPool!At(Asleep)) + (IF e.pc \in Asleep THEN 1 ELSE 0)
                                               - (IF worker[w].pc \in Asleep THEN 1 ELSE 0)
      BY <1>b, <2>0, <2>2, WorkerMoves
    <3>2. e.pc \notin Asleep
      BY <2>2 DEF Asleep
    <3>. QED  BY <1>0, <1>a, <3>1, <3>2
  <2>5. Cardinality(OfPool!At({"run"})') = threadsAreAwake + 1
    <3>1. Cardinality(OfPool!At({"run"})') = Cardinality(OfPool!At({"run"})) + (IF e.pc \in {"run"} THEN 1 ELSE 0)
                                               - (IF worker[w].pc \in {"run"} THEN 1 ELSE 0)
      BY <1>b, <2>0, <2>2, WorkerMoves
    <3>2. e.pc \in {"run"} /\ worker[w].pc \notin {"run"}
      BY <1>0, <2>2
    <3>. QED  BY <1>a, <3>1, <3>2
  <2>6. threadsSleeping > 0
    BY <1>0, Asleeps
  <2>7. Counted'
    <3>1. ~shutdown => \A v \in DOMAIN worker :
              /\ worker'[v].pc = "none" <=> v > threadsRunning
              /\ worker'[v].pc \notin {"leaving", "exited"}
      BY <1>0, <1>b, <2>2, <2>3 DEF Counted
    <3>2. /\ threadsAreAwake' = Cardinality(OfPool!At({"run"}))'
          /\ threadsSleeping' = Cardinality(OfPool!At(Asleep))'
          /\ threadsRunning' = threadsAreAwake' + threadsSleeping'
          /\ threadsRunning' <= inst'.maxThreads /\ threadsWaking' <= inst'.maxThreads
          /\ threadsWaking' <= threadsSleeping'
      BY <1>0, <1>a, <2>0, <2>4, <2>5, <2>6
    <3>. QED  BY <1>0, <2>3, <3>1, <3>2 DEF Counted, OfPool!optVars
  <2>8. worker[w].job = OfPool!None /\ h # OfPool!None
    BY <1>0, <1>b, <2>1 DEF Placed, OfPool!ThreadPoolAssumption
  <2>9. Placed'
    <3>1. \A v \in DOMAIN worker' :
              /\ worker'[v].job # OfPool!None <=> worker'[v].pc = "run"
              /\ worker'[v].job # OfPool!None => worker'[v].job \in running'
      BY <1>0, <1>b, <2>0, <2>2, <2>3, <2>8 DEF Placed
    <3>2. ASSUME NEW v \in DOMAIN worker', NEW u \in DOMAIN worker',
                 worker'[v].job = worker'[u].job
          PROVE  v = u \/ worker'[v].job = OfPool!None
      BY <1>0, <1>b, <2>1, <2>2, <2>3, <2>8, <3>2 DEF Placed
    <3>3. ASSUME NEW j \in running' PROVE \E v \in DOMAIN worker' : worker'[v].job = j
      <4>1. CASE j = h
        BY <2>2, <2>3, <4>1
      <4>2. CASE j # h
        <5>1. PICK v \in DOMAIN worker : worker[v].job = j
          BY <1>b, <2>0, <4>2 DEF Placed
        <5>2. j # OfPool!None
          BY <1>b, <2>0, <4>2 DEF PoolTypes, OfPool!ThreadPoolAssumption
        <5>. QED  BY <2>3, <2>8, <5>1, <5>2
      <4>. QED  BY <4>1, <4>2
    <3>4. OfPool!IsInjective(jobs') /\ OfPool!Range(jobs') = queued' \ running'
      BY <1>b, <2>0, <2>1 DEF Placed
    <3>5. /\ freed' \cap (queued' \cup running' \cup owned' \cup notify') = {}
          /\ owned' \cap (queued' \cup running') = {}
          /\ freewhendone' \cap queued' = {} /\ freewhendone' \subseteq running' \cup freed'
          /\ notify' # {} => shutdown'
      BY <1>0, <1>b, <2>0, <2>1 DEF Placed, OfPool!endVars, OfPool!optVars
    <3>. QED  BY <3>1, <3>2, <3>3, <3>4, <3>5 DEF Placed
  <2>10. PoolTypes'
    BY <1>0, <1>a, <1>b, <2>0, <2>1, <2>3, <2>6,
       SMTT(60), ZenonT(60) DEF PoolTypes, OfPool!optVars, OfPool!endVars,
       OfPool!observerVars
  <2>11. Observed' /\ Manned'
    BY <1>0, <1>b, <1>2, <2>0 DEF Observed, Observers, Manned, OfPool!observerVars
  <2>12. OfPool!NoneStranded'
    BY <1>a, <2>0 DEF OfPool!NoneStranded
  <2>13. Ending'
    <3>1. \A c \in Clients : client[c].pc \notin {"drained", "join", "cleanup", "gone"}
      BY <1>b, <1>2 DEF Ending, OfPool!Busy
    <3>2. \A v \in DOMAIN worker' : worker'[v].pc # "leaving"
      BY <1>0, <1>b, <2>2, <2>3 DEF Ending
    <3>. QED  BY <1>0, <1>b, <3>1, <3>2 DEF Ending, OfPool!optVars, OfPool!endVars
  <2>. QED  BY <2>7, <2>9, <2>10, <2>11, <2>12, <2>13 DEF PoolInv
<1>. QED  BY <1>1, <1>2

\* At the shutdown a worker that is woken leaves, and is counted no more.
LEMMA WorkerLeavesStep ==
    ASSUME OfPool!ThreadPoolAssumption, PoolInv, ~failed, NEW w \in DOMAIN worker,
           OfPool!WorkerLeaves(w)
    PROVE  PoolInv'
<1> DEFINE e == [pc |-> "leaving", job |-> OfPool!None, nrun |-> threadsRunning - 1, ocnt |-> observerCount]
<1>0. /\ worker[w].pc = "woken" /\ threadsWaking > 0 /\ shutdown
      /\ threadsWaking' = threadsWaking - 1 /\ threadsSleeping' = threadsSleeping - 1
      /\ threadsRunning' = threadsRunning - 1
      /\ worker' = [worker EXCEPT ![w] = e]
      /\ UNCHANGED <<inst, OfPool!jobVars, threadsAreAwake, workerWakeup, OfPool!observerVars,
                     OfPool!optVars, OfPool!endVars,
                     client, failed>>
      /\ worker[w].pc \in Asleep
  BY DEF OfPool!WorkerLeaves, Asleep
<1>a. /\ threadsWaking \in Nat /\ threadsSleeping \in Nat /\ threadsAreAwake \in Nat
      /\ threadsRunning \in Nat /\ threadsWaking <= threadsSleeping /\ observerCount \in Nat
      /\ inst.maxThreads \in Nat /\ threadsWaking <= inst.maxThreads
      /\ threadsRunning = threadsAreAwake + threadsSleeping /\ threadsRunning <= inst.maxThreads
      /\ threadsAreAwake = Cardinality(OfPool!At({"run"}))
      /\ threadsSleeping = Cardinality(OfPool!At(Asleep))
  BY FewWorkers DEF PoolInv, PoolTypes, Counted
<1>b. /\ PoolTypes /\ Counted /\ Observed /\ Placed /\ Manned /\ OfPool!NoneStranded /\ Ending
  BY DEF PoolInv
<1>c. threadsSleeping > 0 /\ threadsRunning > 0
  BY <1>0, Asleeps
<1>2. /\ e \in WorkerState /\ e.pc = "leaving" /\ e.job = OfPool!None /\ e.nrun = threadsRunning'
      /\ e.pc \notin Asleep
  BY <1>0, <1>a, <1>c DEF WorkerState, Asleep
<1>. HIDE DEF e
<1>3. /\ worker' \in [1 .. inst.maxThreads -> WorkerState] /\ DOMAIN worker' = DOMAIN worker
      /\ worker'[w] = e /\ \A v \in DOMAIN worker \ {w} : worker'[v] = worker[v]
  BY <1>b, <1>0, <1>2 DEF PoolTypes
<1>4. Cardinality(OfPool!At(Asleep)') = threadsSleeping - 1
  <2>1. Cardinality(OfPool!At(Asleep)') = Cardinality(OfPool!At(Asleep)) + (IF e.pc \in Asleep THEN 1 ELSE 0)
                                             - (IF worker[w].pc \in Asleep THEN 1 ELSE 0)
    BY <1>b, <1>0, <1>2, WorkerMoves
  <2>. QED  BY <1>0, <1>a, <1>2, <2>1
<1>5. OfPool!At({"run"})' = OfPool!At({"run"})
  BY <1>0, <1>2, <1>3 DEF OfPool!At
<1>6. Counted'
  BY <1>0, <1>a, <1>c, <1>4, <1>5 DEF Counted, OfPool!optVars
<1>7. Placed'
  BY <1>0, <1>2, WorkerIdles DEF OfPool!optVars, OfPool!endVars
<1>8. PoolTypes'
  <2>1. threadsWaking' \in Nat /\ threadsSleeping' \in Nat /\ threadsRunning' \in Nat
    BY <1>0, <1>a, <1>c
  <2>. QED  BY <1>0, <1>b, <1>3, <2>1 DEF PoolTypes, OfPool!jobVars, OfPool!optVars,
     OfPool!endVars, OfPool!observerVars
<1>9. jobs' = <<>>
  BY <1>0, <1>b DEF Ending, OfPool!jobVars
<1>10. Observed' /\ Manned'
  BY <1>0, <1>b, <1>9 DEF Observed, Observers, Manned, OfPool!observerVars
<1>11. OfPool!NoneStranded'
  <2>1. w \in OfPool!At({"woken", "leaving"})'
    BY <1>2, <1>3 DEF OfPool!At
  <2>. QED  BY <1>9, <2>1 DEF OfPool!NoneStranded
<1>12. Ending'
  <2>1. ~shutdownEvent /\ ~gone
    BY <1>b, <1>c DEF Ending
  <2>2. \A v \in DOMAIN worker' :
           worker'[v].pc = "leaving" => shutdown' /\ (worker'[v].nrun = 0 => threadsRunning' = 0)
    <3>1. shutdown' /\ threadsRunning # 0
      BY <1>0, <1>a, <1>c DEF OfPool!optVars
    <3>2. worker'[w].nrun = threadsRunning'
      BY <1>2, <1>3
    <3>3. \A v \in DOMAIN worker \ {w} : worker'[v].pc = "leaving" => worker'[v].nrun # 0
      BY <1>b, <1>3, <3>1 DEF Ending
    <3>. QED  BY <1>3, <3>1, <3>2, <3>3
  <2>3. \A c \in Clients : client[c].pc \notin {"cleanup", "gone"}
    BY <1>b, <1>c DEF Ending
  <2>4. \A c \in Clients : client[c].then = "drained" => client[c].nThr # 0
    BY <1>b, <1>c DEF Ending
  <2>5. OfPool!Busy' = OfPool!Busy
    BY <1>0 DEF OfPool!Busy, OfPool!jobVars
  <2>. QED  BY <1>0, <1>b, <1>9, <2>1, <2>2, <2>3, <2>4, <2>5 DEF Ending, OfPool!jobVars,
     OfPool!optVars, OfPool!endVars
<1>. QED  BY <1>6, <1>7, <1>8, <1>10, <1>11, <1>12 DEF PoolInv
-----------------------------------------------------------------------------
\* The function of a job returns: the job is queued again, freed or owned, and its worker takes the
\* next one or goes to sleep.
LEMMA WorkerNextStep ==
    ASSUME OfPool!ThreadPoolAssumption, PoolInv, ~failed, NEW w \in DOMAIN worker,
           OfPool!WorkerNext(w)
    PROVE  PoolInv'
<1> DEFINE j == worker[w].job
           q == IF j \in queued \ freewhendone THEN Append(jobs, j) ELSE jobs
<1>0. /\ worker[w].pc = "run"
      /\ freed' = IF j \in freewhendone THEN freed \cup {j} ELSE freed
      /\ owned' = IF j \in queued \cup freewhendone THEN owned ELSE owned \cup {j}
      /\ OfPool!TakesFrom(w, q)
      /\ UNCHANGED <<inst, freewhendone, threadsWaking, threadsRunning, workerWakeup,
                     OfPool!optVars, OfPool!endVars,
                     client, failed>>
  BY DEF OfPool!WorkerNext
<1>b. /\ PoolTypes /\ Counted /\ Observed /\ Placed /\ Manned /\ OfPool!NoneStranded /\ Ending
  BY DEF PoolInv
<1>c. /\ j \in Jobs /\ j \in running /\ j \notin freed /\ j \notin owned
      /\ threadsAreAwake > 0 /\ threadsRunning > 0 /\ ~shutdown /\ notify = {} /\ j # OfPool!None
  BY <1>0, AtWork DEF OfPool!ThreadPoolAssumption
<1>d. /\ threadsWaking \in Nat /\ threadsSleeping \in Nat /\ threadsAreAwake \in Nat
      /\ threadsRunning \in Nat /\ threadsWaking <= threadsSleeping
      /\ inst.maxThreads \in Nat /\ threadsWaking <= inst.maxThreads
      /\ threadsRunning = threadsAreAwake + threadsSleeping /\ threadsRunning <= inst.maxThreads
      /\ threadsAreAwake = Cardinality(OfPool!At({"run"}))
      /\ threadsSleeping = Cardinality(OfPool!At(Asleep))
  BY <1>b, FewWorkers DEF PoolTypes, Counted
<1>e. /\ q \in Seq(Jobs) /\ OfPool!IsInjective(q)
      /\ OfPool!Range(q) = (queued \ running) \cup (queued \cap {j})
      /\ OfPool!Range(q) \cap freewhendone = {} /\ OfPool!Range(q) \cap freed = {}
      /\ q # jobs => q = Append(jobs, j)
  <2>1. j \notin OfPool!Range(jobs) /\ jobs \in Seq(Jobs) /\ OfPool!IsInjective(jobs) /\ OfPool!Range(jobs) = queued \ running
    BY <1>b, <1>c DEF Placed, PoolTypes
  <2>2. freewhendone \cap queued = {} /\ freed \cap queued = {}
    BY <1>b DEF Placed
  <2>3. CASE j \in queued \ freewhendone
    <3>1. q = Append(jobs, j)
      BY <2>3
    <3>. QED  BY <1>c, <2>1, <2>2, <2>3, <3>1, JobAdded
  <2>4. CASE j \notin queued \ freewhendone
    <3>1. q = jobs /\ j \notin queued
      BY <2>2, <2>4
    <3>. QED  BY <2>1, <2>2, <3>1
  <2>. QED  BY <2>3, <2>4
<1>f. \A c \in Clients : client[c].pc \notin {"drained", "join", "cleanup", "gone"}
  BY <1>b, <1>c, <1>d DEF Ending, OfPool!Busy
<1>g. \A v \in DOMAIN worker : worker[v].pc # "leaving"
  BY <1>b, <1>c DEF Ending
<1>h. CASE q = <<>>
  <2>0. /\ jobs' = <<>> /\ worker' = [worker EXCEPT ![w] = OfPool!Worker("wait")]
        /\ observerWakeup' \in BOOLEAN /\ UNCHANGED observerCount
        /\ running' = running \ {j} /\ UNCHANGED queued
        /\ threadsAreAwake' = threadsAreAwake - 1 /\ threadsSleeping' = threadsSleeping + 1
    BY <1>0, <1>h, <1>b, SMTT(60), ZenonT(60) DEF OfPool!TakesFrom, OfPool!WorkerNext, PoolTypes
  <2>1. /\ OfPool!Worker("wait") \in WorkerState /\ OfPool!Worker("wait").pc = "wait"
        /\ OfPool!Worker("wait").job = OfPool!None
        /\ OfPool!Worker("wait").pc \in Asleep /\ worker[w].pc \notin Asleep
    BY <1>0, WorkerAt DEF Asleep
  <2>2. /\ worker' \in [1 .. inst.maxThreads -> WorkerState] /\ DOMAIN worker' = DOMAIN worker
        /\ worker'[w] = OfPool!Worker("wait") /\ \A v \in DOMAIN worker \ {w} : worker'[v] = worker[v]
    BY <1>b, <2>0, <2>1 DEF PoolTypes
  <2>3. Cardinality(OfPool!At(Asleep)') = threadsSleeping + 1
    <3>1. Cardinality(OfPool!At(Asleep)') = Cardinality(OfPool!At(Asleep))
                                               + (IF OfPool!Worker("wait").pc \in Asleep THEN 1 ELSE 0)
                                               - (IF worker[w].pc \in Asleep THEN 1 ELSE 0)
      BY <1>b, <2>0, <2>1, WorkerMoves
    <3>. QED  BY <1>d, <2>1, <3>1
  <2>4. Cardinality(OfPool!At({"run"})') = threadsAreAwake - 1
    <3>1. Cardinality(OfPool!At({"run"})') = Cardinality(OfPool!At({"run"}))
                                               + (IF OfPool!Worker("wait").pc \in {"run"} THEN 1 ELSE 0)
                                               - (IF worker[w].pc \in {"run"} THEN 1 ELSE 0)
      BY <1>b, <2>0, <2>1, WorkerMoves
    <3>2. OfPool!Worker("wait").pc \notin {"run"} /\ worker[w].pc \in {"run"}
      BY <1>0, <2>1
    <3>. QED  BY <1>d, <3>1, <3>2
  <2>5. Counted'
    <3>1. ~shutdown => \A v \in DOMAIN worker :
              /\ worker'[v].pc = "none" <=> v > threadsRunning
              /\ worker'[v].pc \notin {"leaving", "exited"}
      BY <1>0, <1>b, <2>1, <2>2 DEF Counted
    <3>2. /\ threadsAreAwake' = Cardinality(OfPool!At({"run"}))'
          /\ threadsSleeping' = Cardinality(OfPool!At(Asleep))'
          /\ threadsRunning' = threadsAreAwake' + threadsSleeping'
          /\ threadsRunning' <= inst'.maxThreads /\ threadsWaking' <= inst'.maxThreads
          /\ threadsWaking' <= threadsSleeping'
      BY <1>0, <1>c, <1>d, <2>0, <2>3, <2>4
    <3>. QED  BY <1>0, <2>2, <3>1, <3>2 DEF Counted, OfPool!optVars
  <2>6. OfPool!Range(jobs') = {} /\ queued \ running = {} /\ j \notin queued /\ OfPool!IsInjective(jobs')
        /\ jobs' \in Seq(Jobs)
    BY <1>e, <1>h, <2>0, HoldsNothing
  <2>7. Placed'
    <3>1. \A v \in DOMAIN worker' :
              /\ worker'[v].job # OfPool!None <=> worker'[v].pc = "run"
              /\ worker'[v].job # OfPool!None => worker'[v].job \in running'
              /\ \A u \in DOMAIN worker' : worker'[v].job = worker'[u].job =>
                    v = u \/ worker'[v].job = OfPool!None
      BY <1>0, <1>b, <1>c, <2>0, <2>1, <2>2 DEF Placed
    <3>2. \A more \in running' : \E v \in DOMAIN worker' : worker'[v].job = more
      BY <1>0, <1>b, <2>0, <2>2 DEF Placed
    <3>3. /\ freed' \cap (queued' \cup running' \cup owned' \cup notify') = {}
          /\ owned' \cap (queued' \cup running') = {}
          /\ freewhendone' \cap queued' = {} /\ freewhendone' \subseteq running' \cup freed'
          /\ notify' # {} => shutdown'
      BY <1>0, <1>b, <1>c, <2>0, <2>6 DEF Placed, OfPool!endVars, OfPool!optVars
    <3>4. OfPool!Range(jobs') = queued' \ running'
      BY <2>0, <2>6
    <3>. QED  BY <2>6, <3>1, <3>2, <3>3, <3>4 DEF Placed
  <2>8. PoolTypes'
    <3>1. threadsAreAwake' \in Nat /\ threadsSleeping' \in Nat
      BY <1>c, <1>d, <2>0
    <3>. QED  BY <1>0, <1>b, <1>c, <2>0, <2>2, <2>6, <3>1 DEF PoolTypes, OfPool!optVars,
       OfPool!endVars
  <2>9. Observed' /\ Manned'
    BY <1>0, <1>b, <2>0 DEF Observed, Observers, Manned
  <2>10. OfPool!NoneStranded'
    BY <1>0, <1>d, <2>0 DEF OfPool!NoneStranded
  <2>11. Ending'
    BY <1>0, <1>b, <1>c, <1>f, <1>g, <2>0, <2>1, <2>2 DEF Ending, OfPool!optVars, OfPool!endVars
  <2>. QED  BY <2>5, <2>7, <2>8, <2>9, <2>10, <2>11 DEF PoolInv
<1>i. CASE q # <<>>
  <2> DEFINE h == Head(q)
             e == [OfPool!Worker("run") EXCEPT !.job = h]
  <2>0. /\ jobs' = Tail(q) /\ worker' = [worker EXCEPT ![w] = e] /\ UNCHANGED OfPool!observerVars
        /\ running' = (running \ {j}) \cup {h} /\ queued' = queued \ {h}
        /\ UNCHANGED <<threadsAreAwake, threadsSleeping>>
    BY <1>0, <1>i DEF OfPool!TakesFrom, OfPool!WorkerNext
  <2>1. /\ h \in Jobs /\ h \in OfPool!Range(q) /\ jobs' \in Seq(Jobs) /\ OfPool!IsInjective(jobs')
        /\ OfPool!Range(jobs') = OfPool!Range(q) \ {h}
    BY <1>e, <1>i, <2>0, JobTaken
  <2>2. e \in WorkerState /\ e.pc = "run" /\ e.job = h /\ h # OfPool!None
    BY <2>1, RunsJob DEF OfPool!ThreadPoolAssumption
  <2>a. jobs = <<>> => jobs' = <<>>
    <3>. SUFFICES ASSUME jobs = <<>> PROVE jobs' = <<>>
      OBVIOUS
    <3>1. OfPool!Range(jobs) = {}
      BY HoldsNothing, <1>b DEF PoolTypes
    <3>2. OfPool!Range(q) = {} \cup {j}
      BY <1>b, <1>c, <1>e, <1>i, <3>1, JobAdded DEF PoolTypes, Placed
    <3>. QED  BY <2>1, <3>2, HoldsNothing
  <2>. HIDE DEF e, h
  <2>3. /\ worker' \in [1 .. inst.maxThreads -> WorkerState] /\ DOMAIN worker' = DOMAIN worker
        /\ worker'[w] = e /\ \A v \in DOMAIN worker \ {w} : worker'[v] = worker[v]
    BY <1>b, <2>0, <2>2 DEF PoolTypes
  <2>4. /\ OfPool!At({"run"})' = OfPool!At({"run"}) /\ OfPool!At(Asleep)' = OfPool!At(Asleep)
        /\ OfPool!At({"woken", "leaving"})' = OfPool!At({"woken", "leaving"})
    BY <1>0, <2>2, <2>3 DEF OfPool!At, Asleep
  <2>5. Counted'
    BY <1>0, <1>b, <2>0, <2>2, <2>3, <2>4 DEF Counted, OfPool!optVars
  <2>6. /\ h \in queued /\ h \notin freewhendone /\ h \notin freed /\ h \notin owned
        /\ h \in running => h = j
    BY <1>b, <1>e, <2>1 DEF Placed
  <2>7. Placed'
    <3>1. \A v \in DOMAIN worker' :
              /\ worker'[v].job # OfPool!None <=> worker'[v].pc = "run"
              /\ worker'[v].job # OfPool!None => worker'[v].job \in running'
      BY <1>0, <1>b, <1>c, <2>0, <2>2, <2>3 DEF Placed
    <3>2. ASSUME NEW v \in DOMAIN worker', NEW u \in DOMAIN worker',
                 worker'[v].job = worker'[u].job
          PROVE  v = u \/ worker'[v].job = OfPool!None
      <4>1. \A x \in DOMAIN worker \ {w} : worker[x].job = OfPool!None \/ worker[x].job # h
        BY <1>b, <1>c, <2>6 DEF Placed
      <4>. QED  BY <1>b, <2>2, <2>3, <3>2, <4>1 DEF Placed
    <3>3. ASSUME NEW more \in running' PROVE \E v \in DOMAIN worker' : worker'[v].job = more
      <4>1. CASE more = h
        BY <2>2, <2>3, <4>1
      <4>2. CASE more # h
        BY <1>b, <2>0, <2>3, <4>2 DEF Placed
      <4>. QED  BY <4>1, <4>2
    <3>4. OfPool!Range(jobs') = queued' \ running'
      BY <1>c, <1>e, <2>0, <2>1
    <3>5. /\ freed' \cap (queued' \cup running' \cup owned' \cup notify') = {}
          /\ owned' \cap (queued' \cup running') = {}
          /\ freewhendone' \cap queued' = {} /\ freewhendone' \subseteq running' \cup freed'
          /\ notify' # {} => shutdown'
      <4>1. notify' = {} /\ freewhendone' = freewhendone
        BY <1>0, <1>c DEF OfPool!endVars
      <4>2. CASE j \in freewhendone
        BY <1>0, <1>b, <1>c, <2>0, <2>6, <4>1, <4>2 DEF Placed
      <4>3. CASE j \notin freewhendone
        BY <1>0, <1>b, <1>c, <2>0, <2>6, <4>1, <4>3 DEF Placed
      <4>. QED  BY <4>2, <4>3
    <3>. QED  BY <2>1, <3>1, <3>2, <3>3, <3>4, <3>5 DEF Placed
  <2>8. PoolTypes'
    BY <1>0, <1>b, <1>c, <2>0, <2>1, <2>3 DEF PoolTypes, OfPool!optVars, OfPool!endVars,
       OfPool!observerVars
  <2>9. Observed' /\ Manned'
    BY <1>0, <1>b, <1>c, <2>0 DEF Observed, Observers, Manned, OfPool!observerVars
  <2>10. OfPool!NoneStranded'
    BY <1>0, <1>b, <1>c, <2>0, <2>a, <2>4 DEF OfPool!NoneStranded, OfPool!optVars
  <2>11. Ending'
    BY <1>0, <1>b, <1>c, <1>f, <1>g, <2>0, <2>2, <2>3 DEF Ending, OfPool!optVars, OfPool!endVars
  <2>. QED  BY <2>5, <2>7, <2>8, <2>9, <2>10, <2>11 DEF PoolInv
<1>. QED  BY <1>h, <1>i

\* A job's function does something with its own job, or with another that is not destroyed.
LEMMA JobCallsStep ==
    ASSUME OfPool!ThreadPoolAssumption, PoolInv, ~failed, NEW w \in DOMAIN worker,
           OfPool!JobCalls(w)
    PROVE  PoolInv'
<1>0. worker[w].pc = "run" /\ CallFrame
  BY DEF OfPool!JobCalls, CallFrame
<1>1. worker[w].job \in Jobs \ freed /\ ~shutdown
  BY <1>0, AtWork
<1>2. PICK more \in Jobs : \/ /\ more = worker[w].job \/ OfPool!Live(more)
                              /\ OfPool!epicsJobQueue(more) \/ OfPool!epicsJobUnqueue(more)
                           \/ OfPool!Live(more) /\ OfPool!epicsJobDestroy(more)
  BY DEF OfPool!JobCalls
<1>3. OfPool!Live(more) => more \in Jobs \ freed
  BY DEF OfPool!Live
<1>4. CASE OfPool!epicsJobQueue(more) /\ more \in Jobs \ freed
  BY <1>0, <1>1, <1>4, QueueStep
<1>5. CASE OfPool!epicsJobUnqueue(more) /\ more \in Jobs \ freed
  BY <1>0, <1>1, <1>5, UnqueueStep
<1>6. CASE OfPool!epicsJobDestroy(more) /\ OfPool!Live(more)
  BY <1>0, <1>1, <1>6, DestroyStep
<1>. QED  BY <1>1, <1>2, <1>3, <1>4, <1>5, <1>6
-----------------------------------------------------------------------------
\* A client goes from one place to another.
LEMMA ClientMoves ==
    ASSUME OfPool!ThreadPoolAssumption, PoolInv, NEW c \in Clients, NEW e \in ClientState,
           client' = [client EXCEPT ![c] = e]
    PROVE  /\ client' \in [Clients -> ClientState] /\ client'[c] = e
           /\ \A d \in Clients \ {c} : client'[d] = client[d]
           /\ IsFiniteSet(Observers) /\ observerCount = Cardinality(Observers)
           /\ observerCount \in Nat
           /\ c \in Observers => observerCount > 0
           /\ Cardinality(Observers') =
                 observerCount + (IF e.pc \in {"waiting", "woken"} THEN 1 ELSE 0)
                               - (IF client[c].pc \in {"waiting", "woken"} THEN 1 ELSE 0)
<1>1. /\ client' \in [Clients -> ClientState] /\ client'[c] = e
      /\ \A d \in Clients \ {c} : client'[d] = client[d]
  BY DEF PoolInv, PoolTypes
<1>2. IsFiniteSet(Observers)
  BY FS_Subset, SameCounts DEF Observers, OfPool!ThreadPoolAssumption
<1>3. observerCount = Cardinality(Observers) /\ observerCount \in Nat
  BY DEF PoolInv, Observed, PoolTypes
<1>4. c \in Observers <=> client[c].pc \in {"waiting", "woken"}
  BY DEF Observers
<1>5. Observers' = IF e.pc \in {"waiting", "woken"} THEN Observers \cup {c} ELSE Observers \ {c}
  BY <1>1 DEF Observers
<1> DEFINE S == Observers
           T == Observers'
           was == IF client[c].pc \in {"waiting", "woken"} THEN 1 ELSE 0
           is == IF e.pc \in {"waiting", "woken"} THEN 1 ELSE 0
<1>6. /\ Cardinality(S \cup {c}) = IF c \in S THEN Cardinality(S) ELSE Cardinality(S) + 1
      /\ Cardinality(S \ {c}) = IF c \in S THEN Cardinality(S) - 1 ELSE Cardinality(S)
  BY <1>2, FS_AddElement, FS_RemoveElement
<1>7. c \in S => Cardinality(S) # 0
  BY <1>2, FS_EmptySet
<1>8. /\ observerCount = Cardinality(S) /\ observerCount \in Nat
      /\ was = IF c \in S THEN 1 ELSE 0
      /\ is \in {0, 1} /\ T = IF is = 1 THEN S \cup {c} ELSE S \ {c}
  BY <1>3, <1>4, <1>5
<1>9. /\ c \in S => observerCount > 0
      /\ Cardinality(T) = observerCount + is - was
  <2>. HIDE DEF S, T, was, is
  <2>1. c \in S => observerCount > 0
    BY <1>7, <1>8
  <2>2. CASE c \in S
    <3>1. CASE is = 1
      BY <1>6, <1>8, <2>1, <2>2, <3>1
    <3>2. CASE is = 0
      BY <1>6, <1>8, <2>1, <2>2, <3>2
    <3>. QED  BY <1>8, <3>1, <3>2
  <2>3. CASE c \notin S
    <3>1. CASE is = 1
      BY <1>6, <1>8, <2>1, <2>3, <3>1
    <3>2. CASE is = 0
      BY <1>6, <1>8, <2>1, <2>3, <3>2
    <3>. QED  BY <1>8, <3>1, <3>2
  <2>. QED  BY <2>1, <2>2, <2>3
<1>. QED  BY <1>1, <1>2, <1>3, <1>9

\* What a client does to itself and to the observers leaves the pool alone.
ObserverFrame == UNCHANGED <<inst, OfPool!jobVars, OfPool!countVars, workerWakeup,
                             OfPool!optVars, OfPool!endVars, worker, failed>>
LEMMA ObserverStep ==
    ASSUME OfPool!ThreadPoolAssumption, PoolInv, ObserverFrame, NEW c \in Clients,
           NEW e \in ClientState,
           client' = [client EXCEPT ![c] = e], observerWakeup' \in BOOLEAN,
           client[c].pc \in {"idle", "drain", "waiting", "woken"},
           client[c].pc = "idle" => ~freezeopt,
           e.then = client[c].then, e.nThr = client[c].nThr,
           e.then = "drained" => ~e.timed,
           \/ e.pc \in {"waiting", "woken"}
           \/ e.pc = e.then /\ (e.then = "drained" => ~OfPool!Busy),
           observerCount' = observerCount + (IF e.pc \in {"waiting", "woken"} THEN 1 ELSE 0)
                               - (IF client[c].pc \in {"waiting", "woken"} THEN 1 ELSE 0)
    PROVE  PoolInv'
<1>1. /\ client' \in [Clients -> ClientState] /\ client'[c] = e
      /\ \A d \in Clients \ {c} : client'[d] = client[d]
      /\ observerCount \in Nat
      /\ c \in Observers => observerCount > 0
      /\ observerCount' = Cardinality(Observers')
  BY ClientMoves
<1>2. observerCount' \in Nat
  <2>1. client[c].pc \in {"waiting", "woken"} => observerCount > 0
    BY <1>1 DEF Observers
  <2>. QED  BY <1>1, <2>1
<1>3. PoolTypes'
  BY <1>1, <1>2 DEF PoolInv, PoolTypes, ObserverFrame, OfPool!jobVars, OfPool!countVars,
     OfPool!optVars, OfPool!endVars
<1>4. Counted' /\ Placed' /\ Manned' /\ OfPool!NoneStranded'
  BY PoolUnmoved DEF ObserverFrame, OfPool!optVars, OfPool!endVars
<1>5. Observed'
  BY <1>1 DEF Observed
<1>6. e.then \in {"idle", "drained"}
  BY DEF ClientState
<1>7. OfPool!Busy' = OfPool!Busy
  BY DEF OfPool!Busy, ObserverFrame, OfPool!jobVars, OfPool!countVars
<1>8. Ending'
  <2>0. Ending
    BY DEF PoolInv
  <2>1. /\ freezeopt' => pauseadd' /\ ~pauserun'
        /\ shutdown' => freezeopt' /\ jobs' = <<>> /\ threadsAreAwake' = 0 /\ owned' = {}
        /\ shutdownEvent' => shutdown' /\ threadsRunning' = 0
        /\ gone' => shutdown' /\ threadsRunning' = 0
        /\ \A w \in DOMAIN worker' :
              worker'[w].pc = "leaving" => shutdown' /\ (worker'[w].nrun = 0 => threadsRunning' = 0)
    BY <2>0 DEF Ending, ObserverFrame, OfPool!jobVars, OfPool!countVars, OfPool!optVars,
       OfPool!endVars
  <2>2. ASSUME NEW d \in Clients
        PROVE  /\ client'[d].then = "idle" => client'[d].pc \in {"idle", "waiting", "woken"}
               /\ client'[d].pc \in {"drained", "join", "cleanup", "gone"} => ~OfPool!Busy'
               /\ client'[d].pc \in {"join", "cleanup", "gone"} => shutdown'
               /\ client'[d].pc \in {"cleanup", "gone"} => threadsRunning' = 0
    <3>1. CASE d = c
      BY <1>1, <1>6, <1>7, <3>1
    <3>2. CASE d # c
      BY <1>1, <1>7, <2>0, <3>2 DEF Ending, ObserverFrame, OfPool!countVars, OfPool!optVars
    <3>. QED  BY <3>1, <3>2
  <2>3. ASSUME NEW d \in Clients, client'[d].then = "drained"
        PROVE  /\ freezeopt' /\ client'[d].pc # "idle" /\ ~client'[d].timed
               /\ client'[d].nThr = 0 => threadsRunning' = 0
               /\ \A b \in Clients \ {d} : client'[b].pc = "idle"
    <3>0. client'[d].then = client[d].then /\ client'[d].nThr = client[d].nThr
      BY <1>1
    <3>1. /\ freezeopt' /\ (client'[d].nThr = 0 => threadsRunning' = 0)
          /\ \A b \in Clients \ {d} : client[b].pc = "idle"
      BY <2>0, <2>3, <3>0 DEF Ending, ObserverFrame, OfPool!countVars, OfPool!optVars
    <3>2. CASE d = c
      BY <1>1, <2>3, <3>0, <3>1, <3>2
    <3>3. CASE d # c
      <4>1. client[c].pc = "idle" /\ client'[d] = client[d]
        BY <1>1, <3>1, <3>3
      <4>2. freezeopt
        BY <3>1 DEF ObserverFrame, OfPool!optVars
      <4>. QED  BY <4>1, <4>2
    <3>. QED  BY <3>2, <3>3
  <2>. QED  BY <2>1, <2>2, <2>3 DEF Ending
<1>. QED  BY <1>3, <1>4, <1>5, <1>8 DEF PoolInv
-----------------------------------------------------------------------------
\* Queued jobs are given to workers when the pool goes on.
LEMMA ResumeWakes ==
    ASSUME OfPool!ThreadPoolAssumption, PoolInv, ~failed, OfPool!Resume
    PROVE  \E m, more \in Nat :
              /\ OfPool!Wake(m, more) /\ threadsRunning + more <= inst.maxThreads
              /\ threadsWaking + m <= inst.maxThreads
              /\ threadsWaking + m <= threadsSleeping + more
              /\ m = 0 => more = 0 /\ (jobs = <<>> \/ threadsWaking = threadsSleeping)
<1> DEFINE n == Len(jobs)
           m == OfPool!Least(n, threadsSleeping - threadsWaking)
           most == OfPool!Least(n - m, inst.maxThreads - threadsRunning)
<1>1. /\ threadsWaking \in Nat /\ threadsSleeping \in Nat /\ threadsRunning \in Nat
      /\ threadsAreAwake \in Nat /\ threadsRunning = threadsAreAwake + threadsSleeping
      /\ threadsRunning <= inst.maxThreads /\ threadsWaking <= threadsSleeping
      /\ inst.maxThreads \in Nat \ {0}
  BY FewWorkers DEF PoolInv, PoolTypes, Counted
<1>2. n \in Nat /\ (n = 0 => jobs = <<>>)
  BY DEF PoolInv, PoolTypes
<1>3. PICK more \in 0 .. most : OfPool!Wake(m + more, more)
  BY DEF OfPool!Resume
<1>4. /\ m \in Nat /\ m <= threadsSleeping - threadsWaking
      /\ m = 0 => n = 0 \/ threadsWaking = threadsSleeping
  BY <1>1, <1>2 DEF OfPool!Least
<1>5. most \in Int /\ most <= inst.maxThreads - threadsRunning
  BY <1>1, <1>2, <1>4 DEF OfPool!Least
<1>. HIDE DEF n, m, most
<1>6. /\ m + more \in Nat /\ more \in Nat /\ threadsRunning + more <= inst.maxThreads
      /\ threadsWaking + (m + more) <= inst.maxThreads
      /\ threadsWaking + (m + more) <= threadsSleeping + more
      /\ m + more = 0 => more = 0 /\ (n = 0 \/ threadsWaking = threadsSleeping)
  BY <1>1, <1>3, <1>4, <1>5
<1>. QED  BY <1>2, <1>3, <1>6

\* The pool goes on after a pause: every job that waits gets a worker, or all workers are woken.
LEMMA ResumeStep ==
    ASSUME OfPool!ThreadPoolAssumption, PoolInv, ~failed, ~freezeopt, pauserun, ~pauserun',
           OfPool!Resume,
           UNCHANGED <<inst, OfPool!jobVars, notify, shutdown>>
    PROVE  /\ worker' \in [1 .. inst.maxThreads -> WorkerState]
           /\ threadsAreAwake' \in Nat /\ threadsWaking' \in Nat /\ threadsSleeping' \in Nat
           /\ threadsRunning' \in Nat /\ workerWakeup' \in BOOLEAN /\ failed' \in BOOLEAN
           /\ DOMAIN worker' = DOMAIN worker /\ \A w \in DOMAIN worker : worker'[w].pc # "leaving"
           /\ Counted' /\ Placed' /\ Manned' /\ OfPool!NoneStranded'
<1>0. PICK m \in Nat, more \in Nat :
              /\ OfPool!Wake(m, more) /\ threadsRunning + more <= inst.maxThreads
              /\ threadsWaking + m <= inst.maxThreads
              /\ threadsWaking + m <= threadsSleeping + more
              /\ m = 0 => more = 0 /\ (jobs = <<>> \/ threadsWaking = threadsSleeping)
  BY ResumeWakes
<1>b. /\ PoolTypes /\ Counted /\ Placed /\ Manned /\ OfPool!NoneStranded
      /\ ~shutdown /\ \A w \in DOMAIN worker : worker[w].pc # "leaving"
  BY NotEnding DEF PoolInv
<1>1. /\ worker' \in [1 .. inst.maxThreads -> WorkerState]
      /\ threadsAreAwake' \in Nat /\ threadsWaking' \in Nat /\ threadsSleeping' \in Nat
      /\ threadsRunning' \in Nat /\ workerWakeup' \in BOOLEAN /\ failed' \in BOOLEAN
      /\ Counted' /\ DOMAIN worker' = DOMAIN worker
      /\ \A w \in DOMAIN worker :
            \/ worker'[w] = worker[w]
            \/ worker[w].pc = "none" /\ worker'[w] = OfPool!Worker("new")
  BY <1>0, <1>b, WakeStep
<1>2. /\ \A w \in DOMAIN worker : /\ worker'[w].job = worker[w].job
                                  /\ worker'[w].pc = "run" <=> worker[w].pc = "run"
      /\ OfPool!At({"woken", "leaving"})' = OfPool!At({"woken", "leaving"})
  BY <1>1, NewHaveNone
<1>3. \A w \in DOMAIN worker : worker'[w].pc # "leaving"
  BY <1>1, <1>b DEF OfPool!Worker
<1>4. Placed'
  BY <1>b, <1>1, <1>2 DEF Placed, OfPool!jobVars
<1>5. /\ threadsRunning' = threadsRunning + more /\ threadsWaking' = threadsWaking + m
      /\ threadsSleeping' = threadsSleeping + more /\ threadsAreAwake' = threadsAreAwake
      /\ workerWakeup' = (workerWakeup \/ m > 0) /\ jobs' = jobs
  BY <1>0 DEF OfPool!Wake, OfPool!jobVars
<1>6. Manned'
  BY <1>b, <1>5 DEF Manned, PoolTypes
<1>7. OfPool!NoneStranded'
  <2>1. CASE m > 0
    <3>1. threadsWaking' > 0
      BY <1>b, <1>5, <2>1 DEF PoolTypes
    <3>2. workerWakeup'
      BY <1>5, <2>1
    <3>. QED  BY <3>1, <3>2 DEF OfPool!NoneStranded
  <2>2. CASE ~(m > 0)
    <3>1. m = 0 /\ more = 0 /\ (jobs = <<>> \/ threadsWaking = threadsSleeping)
      BY <1>0, <2>2
    <3>2. /\ threadsWaking' = threadsWaking /\ threadsSleeping' = threadsSleeping
          /\ threadsAreAwake' = threadsAreAwake /\ workerWakeup' = workerWakeup
          /\ threadsRunning = threadsAreAwake + threadsSleeping
          /\ threadsAreAwake \in Nat /\ threadsSleeping \in Nat /\ threadsWaking \in Nat
      BY <1>b, <1>5, <2>2, <3>1 DEF PoolTypes, Counted
    <3>3. ASSUME jobs # <<>> PROVE threadsAreAwake > 0 \/ threadsWaking > 0
      <4>1. threadsRunning > 0 /\ threadsWaking = threadsSleeping
        BY <1>b, <3>1, <3>3 DEF Manned
      <4>. QED  BY <3>2, <4>1
    <3>4. ASSUME threadsWaking > 0, threadsWaking = threadsSleeping \/ jobs # <<>>
          PROVE  workerWakeup \/ OfPool!At({"woken", "leaving"}) # {}
      BY <1>b, <3>1, <3>4 DEF OfPool!NoneStranded
    <3>. QED  BY <1>2, <1>5, <3>2, <3>3, <3>4 DEF OfPool!NoneStranded
  <2>. QED  BY <2>1, <2>2
<1>. QED  BY <1>1, <1>3, <1>4, <1>6, <1>7

\* epicsThreadPoolControl pauses the pool or lets it go on.
LEMMA ControlAddStep ==
    ASSUME OfPool!ThreadPoolAssumption, PoolInv, ~failed, NEW c \in Clients, OfPool!ControlAdd(c)
    PROVE  PoolInv'
<1>0. /\ ~freezeopt /\ pauseadd' \in BOOLEAN
      /\ UNCHANGED <<inst, OfPool!jobVars, OfPool!countVars, workerWakeup, OfPool!observerVars,
                     pauserun, freezeopt,
                     shutdown, OfPool!endVars, worker, client, failed>>
  BY DEF OfPool!ControlAdd, OfPool!Calls, PoolInv, PoolTypes
<1>1. PoolTypes'
  BY <1>0 DEF PoolInv, PoolTypes, OfPool!jobVars, OfPool!countVars, OfPool!observerVars,
     OfPool!endVars
<1>2. Counted' /\ Placed' /\ Manned' /\ OfPool!NoneStranded'
  BY <1>0, PoolUnmoved DEF OfPool!endVars
<1>3. Observed'
  BY <1>0 DEF PoolInv, Observed, Observers, OfPool!observerVars
<1>4. Ending'
  BY <1>0, NotEnding, StillNotEnding DEF OfPool!endVars
<1>. QED  BY <1>1, <1>2, <1>3, <1>4 DEF PoolInv

\* ... for the jobs that are queued.
LEMMA ControlRunStep ==
    ASSUME OfPool!ThreadPoolAssumption, PoolInv, ~failed, NEW c \in Clients, OfPool!ControlRun(c)
    PROVE  PoolInv'
<1>0. /\ ~freezeopt /\ pauserun' = ~pauserun /\ pauserun' \in BOOLEAN
      /\ IF pauserun THEN OfPool!Resume ELSE UNCHANGED <<OfPool!countVars, workerWakeup, worker,
                                                         failed>>
      /\ UNCHANGED <<inst, OfPool!jobVars, OfPool!observerVars, pauseadd, freezeopt, shutdown,
                     OfPool!endVars, client>>
  BY DEF OfPool!ControlRun, OfPool!Calls, PoolInv, PoolTypes
<1>1. Observed'
  BY <1>0 DEF PoolInv, Observed, Observers, OfPool!observerVars
<1>2. CASE pauserun
  <2>1. /\ worker' \in [1 .. inst.maxThreads -> WorkerState]
        /\ threadsAreAwake' \in Nat /\ threadsWaking' \in Nat /\ threadsSleeping' \in Nat
        /\ threadsRunning' \in Nat /\ workerWakeup' \in BOOLEAN /\ failed' \in BOOLEAN
        /\ DOMAIN worker' = DOMAIN worker /\ \A w \in DOMAIN worker : worker'[w].pc # "leaving"
        /\ Counted' /\ Placed' /\ Manned' /\ OfPool!NoneStranded'
    BY <1>0, <1>2, ResumeStep DEF OfPool!endVars
  <2>2. PoolTypes'
    BY <1>0, <2>1 DEF PoolInv, PoolTypes, OfPool!jobVars, OfPool!observerVars, OfPool!endVars
  <2>3. Ending'
    BY <1>0, <2>1, StillNotEnding DEF OfPool!endVars
  <2>. QED  BY <1>1, <2>1, <2>2, <2>3 DEF PoolInv
<1>3. CASE ~pauserun
  <2>1. UNCHANGED <<OfPool!countVars, workerWakeup, worker, failed>> /\ pauserun'
    BY <1>0, <1>3
  <2>2. PoolTypes'
    BY <1>0, <2>1 DEF PoolInv, PoolTypes, OfPool!jobVars, OfPool!countVars, OfPool!observerVars,
       OfPool!endVars
  <2>3. Counted' /\ Placed' /\ Manned'
    BY <1>0, <2>1 DEF PoolInv, Counted, Placed, Manned, OfPool!At, OfPool!jobVars,
       OfPool!countVars, OfPool!endVars
  <2>4. OfPool!At({"woken", "leaving"})' = OfPool!At({"woken", "leaving"})
    BY <2>1 DEF OfPool!At
  <2>5. OfPool!NoneStranded'
    BY <1>0, <2>1, <2>4 DEF PoolInv, OfPool!NoneStranded, OfPool!jobVars, OfPool!countVars
  <2>6. Ending'
    BY <1>0, <2>1, NotEnding, StillNotEnding DEF OfPool!endVars
  <2>. QED  BY <1>1, <2>2, <2>3, <2>5, <2>6 DEF PoolInv
<1>. QED  BY <1>2, <1>3

\* A client queues, takes back or destroys a job.
LEMMA CallJobStep ==
    ASSUME OfPool!ThreadPoolAssumption, PoolInv, ~failed, NEW c \in Clients, OfPool!CallJob(c)
    PROVE  PoolInv'
<1>1. PICK j \in Jobs : OfPool!Live(j) /\ (OfPool!epicsJobQueue(j) \/ OfPool!epicsJobUnqueue(j) \/ OfPool!epicsJobDestroy(j))
  BY DEF OfPool!CallJob
<1>2. CallFrame /\ ~shutdown
  BY NotEnding DEF OfPool!CallJob, CallFrame, OfPool!Calls
<1>3. j \in Jobs \ freed
  BY <1>1 DEF OfPool!Live
<1>. QED  BY <1>1, <1>2, <1>3, QueueStep, UnqueueStep, DestroyStep
-----------------------------------------------------------------------------
\* epicsThreadPoolWait: a client becomes an observer, unless the pool is idle.
LEMMA WaitBeginStep ==
    ASSUME OfPool!ThreadPoolAssumption, PoolInv, ~failed, NEW c \in Clients,
           NEW timed \in BOOLEAN,
           OfPool!WaitBegin(c, timed)
    PROVE  PoolInv'
<1>0. /\ ObserverFrame /\ observerWakeup' \in BOOLEAN
      /\ \/ client[c].pc = "idle" /\ ~freezeopt
         \/ client[c].pc = "drain" /\ ~timed
  BY DEF OfPool!WaitBegin, ObserverFrame, OfPool!Calls, PoolInv, PoolTypes
<1>1. /\ client \in [Clients -> ClientState] /\ client[c] \in ClientState
      /\ client[c].then \in {"idle", "drained"} /\ observerCount \in Nat
      /\ client[c].then = "drained" => client[c].pc # "idle" /\ ~client[c].timed
  BY DEF PoolInv, PoolTypes, ClientState, Ending
<1>2. CASE OfPool!Busy
  <2> DEFINE e == [client[c] EXCEPT !.pc = "waiting", !.timed = timed]
  <2>1. observerCount' = observerCount + 1 /\ client' = [client EXCEPT ![c] = e]
    BY <1>2 DEF OfPool!WaitBegin
  <2>2. /\ e \in ClientState /\ e.pc = "waiting" /\ e.timed = timed /\ e.then = client[c].then
        /\ e.nThr = client[c].nThr
    BY <1>1 DEF ClientState
  <2>. HIDE DEF e
  <2>3. observerCount' = observerCount + (IF e.pc \in {"waiting", "woken"} THEN 1 ELSE 0)
                               - (IF client[c].pc \in {"waiting", "woken"} THEN 1 ELSE 0)
    BY <1>0, <1>1, <2>1, <2>2
  <2>4. /\ client[c].pc \in {"idle", "drain", "waiting", "woken"}
        /\ client[c].pc = "idle" => ~freezeopt
        /\ e.then = "drained" => ~e.timed
        /\ e.pc \in {"waiting", "woken"}
    BY <1>0, <1>1, <2>2
  <2>. QED  BY <1>0, <2>1, <2>2, <2>3, <2>4, ObserverStep
<1>3. CASE ~OfPool!Busy
  <2> DEFINE e == [client[c] EXCEPT !.pc = client[c].then]
  <2>1. observerCount' = observerCount /\ client' = [client EXCEPT ![c] = e]
    BY <1>3 DEF OfPool!WaitBegin
  <2>2. /\ e \in ClientState /\ e.pc = e.then /\ e.timed = client[c].timed
        /\ e.then = client[c].then /\ e.nThr = client[c].nThr
    BY <1>1 DEF ClientState
  <2>. HIDE DEF e
  <2>3. observerCount' = observerCount + (IF e.pc \in {"waiting", "woken"} THEN 1 ELSE 0)
                               - (IF client[c].pc \in {"waiting", "woken"} THEN 1 ELSE 0)
    BY <1>0, <1>1, <2>1, <2>2
  <2>4. /\ client[c].pc \in {"idle", "drain", "waiting", "woken"}
        /\ client[c].pc = "idle" => ~freezeopt
        /\ e.then = "drained" => ~e.timed
        /\ e.pc = e.then /\ (e.then = "drained" => ~OfPool!Busy)
    BY <1>0, <1>1, <1>3, <2>2
  <2>. QED  BY <1>0, <2>1, <2>2, <2>3, <2>4, ObserverStep
<1>. QED  BY <1>2, <1>3

\* The signal of the observers is taken by one of them.
LEMMA WaitWakeStep ==
    ASSUME OfPool!ThreadPoolAssumption, PoolInv, ~failed, NEW c \in Clients, OfPool!WaitWake(c)
    PROVE  PoolInv'
<1> DEFINE e == [client[c] EXCEPT !.pc = "woken"]
<1>0. /\ ObserverFrame /\ observerWakeup' \in BOOLEAN /\ client[c].pc = "waiting"
      /\ client' = [client EXCEPT ![c] = e] /\ observerCount' = observerCount
  BY DEF OfPool!WaitWake, ObserverFrame
<1>1. /\ client[c] \in ClientState /\ observerCount \in Nat
      /\ client[c].then = "drained" => ~client[c].timed
  BY DEF PoolInv, PoolTypes, Ending
<1>2. /\ e \in ClientState /\ e.pc = "woken" /\ e.timed = client[c].timed
      /\ e.then = client[c].then /\ e.nThr = client[c].nThr
  BY <1>1 DEF ClientState
<1>. HIDE DEF e
<1>3. observerCount' = observerCount + (IF e.pc \in {"waiting", "woken"} THEN 1 ELSE 0)
                             - (IF client[c].pc \in {"waiting", "woken"} THEN 1 ELSE 0)
  BY <1>0, <1>1, <1>2
<1>4. /\ client[c].pc \in {"idle", "drain", "waiting", "woken"}
      /\ client[c].pc = "idle" => ~freezeopt
      /\ e.then = "drained" => ~e.timed
      /\ e.pc \in {"waiting", "woken"}
  BY <1>0, <1>1, <1>2
<1>. QED  BY <1>0, <1>2, <1>3, <1>4, ObserverStep

\* It passes the signal along, and waits on while the pool is busy.
LEMMA WaitTestStep ==
    ASSUME OfPool!ThreadPoolAssumption, PoolInv, ~failed, NEW c \in Clients, OfPool!WaitTest(c)
    PROVE  PoolInv'
<1>0. ObserverFrame /\ observerWakeup' \in BOOLEAN /\ client[c].pc = "woken"
  BY DEF OfPool!WaitTest, OfPool!TellObserver, ObserverFrame, PoolInv, PoolTypes
<1>1. /\ client[c] \in ClientState /\ client[c].then \in {"idle", "drained"}
      /\ observerCount \in Nat /\ (client[c].then = "drained" => ~client[c].timed)
  BY DEF PoolInv, PoolTypes, Ending, ClientState
<1>2. CASE OfPool!Busy
  <2> DEFINE e == [client[c] EXCEPT !.pc = "waiting"]
  <2>1. observerCount' = observerCount /\ client' = [client EXCEPT ![c] = e]
    BY <1>2 DEF OfPool!WaitTest
  <2>2. /\ e \in ClientState /\ e.pc = "waiting" /\ e.timed = client[c].timed
        /\ e.then = client[c].then /\ e.nThr = client[c].nThr
    BY <1>1 DEF ClientState
  <2>. HIDE DEF e
  <2>3. observerCount' = observerCount + (IF e.pc \in {"waiting", "woken"} THEN 1 ELSE 0)
                               - (IF client[c].pc \in {"waiting", "woken"} THEN 1 ELSE 0)
    BY <1>0, <1>1, <2>1, <2>2
  <2>4. /\ client[c].pc \in {"idle", "drain", "waiting", "woken"}
        /\ client[c].pc = "idle" => ~freezeopt
        /\ e.then = "drained" => ~e.timed
        /\ e.pc \in {"waiting", "woken"}
    BY <1>0, <1>1, <2>2
  <2>. QED  BY <1>0, <2>1, <2>2, <2>3, <2>4, ObserverStep
<1>3. CASE ~OfPool!Busy
  <2> DEFINE e == [client[c] EXCEPT !.pc = client[c].then]
  <2>1. observerCount' = observerCount - 1 /\ client' = [client EXCEPT ![c] = e]
    BY <1>3 DEF OfPool!WaitTest
  <2>2. /\ e \in ClientState /\ e.pc = e.then /\ e.timed = client[c].timed
        /\ e.then = client[c].then /\ e.nThr = client[c].nThr
    BY <1>1 DEF ClientState
  <2>. HIDE DEF e
  <2>3. observerCount' = observerCount + (IF e.pc \in {"waiting", "woken"} THEN 1 ELSE 0)
                               - (IF client[c].pc \in {"waiting", "woken"} THEN 1 ELSE 0)
    BY <1>0, <1>1, <2>1, <2>2
  <2>4. /\ client[c].pc \in {"idle", "drain", "waiting", "woken"}
        /\ client[c].pc = "idle" => ~freezeopt
        /\ e.then = "drained" => ~e.timed
        /\ e.pc = e.then /\ (e.then = "drained" => ~OfPool!Busy)
    BY <1>0, <1>1, <1>3, <2>2
  <2>. QED  BY <1>0, <2>1, <2>2, <2>3, <2>4, ObserverStep
<1>. QED  BY <1>2, <1>3

\* One that does not wait any longer passes the signal along too.
LEMMA WaitTimeoutStep ==
    ASSUME OfPool!ThreadPoolAssumption, PoolInv, ~failed, NEW c \in Clients, OfPool!WaitTimeout(c)
    PROVE  PoolInv'
<1> DEFINE e == [client[c] EXCEPT !.pc = "idle"]
<1>0. /\ ObserverFrame /\ observerWakeup' \in BOOLEAN /\ client[c].pc = "waiting"
      /\ client' = [client EXCEPT ![c] = e] /\ observerCount' = observerCount - 1
      /\ client[c].timed
  BY DEF OfPool!WaitTimeout, OfPool!TellObserver, ObserverFrame, PoolInv, PoolTypes
<1>1. /\ client[c] \in ClientState /\ observerCount \in Nat /\ client[c].then = "idle"
  BY <1>0 DEF PoolInv, PoolTypes, Ending, ClientState
<1>2. /\ e \in ClientState /\ e.pc = "idle" /\ e.timed = client[c].timed
      /\ e.then = client[c].then /\ e.nThr = client[c].nThr
  BY <1>1 DEF ClientState
<1>. HIDE DEF e
<1>3. observerCount' = observerCount + (IF e.pc \in {"waiting", "woken"} THEN 1 ELSE 0)
                             - (IF client[c].pc \in {"waiting", "woken"} THEN 1 ELSE 0)
  BY <1>0, <1>1, <1>2
<1>4. /\ client[c].pc \in {"idle", "drain", "waiting", "woken"}
      /\ client[c].pc = "idle" => ~freezeopt
      /\ e.then = "drained" => ~e.timed
      /\ e.pc = e.then /\ (e.then = "drained" => ~OfPool!Busy)
  BY <1>0, <1>1, <1>2
<1>. QED  BY <1>0, <1>2, <1>3, <1>4, ObserverStep
-----------------------------------------------------------------------------
\* The end begins: no job can be added any more.
LEMMA DestroyBeginStep ==
    ASSUME OfPool!ThreadPoolAssumption, PoolInv, ~failed, NEW c \in Clients,
           OfPool!DestroyBegin(c)
    PROVE  PoolInv'
<1> DEFINE e == [OfPool!Client("drain") EXCEPT !.then = "drained", !.nThr = threadsRunning']
<1>0. /\ ~freezeopt /\ \A d \in Clients : client[d].pc = "idle"
      /\ pauseadd' = TRUE /\ pauserun' = FALSE /\ freezeopt' = TRUE
      /\ IF pauserun THEN OfPool!Resume ELSE UNCHANGED <<OfPool!countVars, workerWakeup, worker,
                                                         failed>>
      /\ client' = [client EXCEPT ![c] = e]
      /\ UNCHANGED <<inst, OfPool!jobVars, OfPool!observerVars, shutdown, OfPool!endVars>>
  BY DEF OfPool!DestroyBegin, OfPool!Calls
<1>1. /\ worker' \in [1 .. inst.maxThreads -> WorkerState]
      /\ threadsAreAwake' \in Nat /\ threadsWaking' \in Nat /\ threadsSleeping' \in Nat
      /\ threadsRunning' \in Nat /\ workerWakeup' \in BOOLEAN /\ failed' \in BOOLEAN
      /\ DOMAIN worker' = DOMAIN worker /\ \A w \in DOMAIN worker : worker'[w].pc # "leaving"
      /\ Counted' /\ Placed' /\ Manned' /\ OfPool!NoneStranded'
  <2>1. CASE pauserun
    BY <1>0, <2>1, ResumeStep DEF OfPool!endVars
  <2>2. CASE ~pauserun
    <3>1. UNCHANGED <<OfPool!countVars, workerWakeup, worker, failed>> /\ pauserun' = pauserun
      BY <1>0, <2>2 DEF PoolInv, PoolTypes
    <3>2. Counted' /\ Placed' /\ Manned' /\ OfPool!NoneStranded'
      BY <1>0, <3>1, PoolUnmoved DEF OfPool!endVars
    <3>3. \A w \in DOMAIN worker : worker[w].pc # "leaving"
      BY <1>0, NotEnding
    <3>. QED  BY <3>1, <3>2, <3>3 DEF PoolInv, PoolTypes, OfPool!countVars
  <2>. QED  BY <2>1, <2>2
<1>2. /\ e \in ClientState /\ e.pc = "drain" /\ e.then = "drained" /\ ~e.timed
      /\ e.nThr = threadsRunning'
  BY <1>1 DEF OfPool!Client, ClientState
<1>. HIDE DEF e
<1>3. /\ client' \in [Clients -> ClientState] /\ client'[c] = e
      /\ \A d \in Clients \ {c} : client'[d] = client[d]
  BY <1>0, <1>2 DEF PoolInv, PoolTypes
<1>4. PoolTypes'
  BY <1>0, <1>1, <1>3 DEF PoolInv, PoolTypes, OfPool!jobVars, OfPool!observerVars, OfPool!endVars
<1>5. Observers' = Observers
  BY <1>0, <1>2, <1>3 DEF Observers
<1>6. Observed'
  BY <1>0, <1>5 DEF PoolInv, Observed, OfPool!observerVars
<1>7. Ending'
  <2>1. /\ ~shutdown' /\ ~shutdownEvent' /\ ~gone'
        /\ \A d \in Clients : client[d].then = "idle"
    BY <1>0, NotEnding DEF OfPool!endVars
  <2>2. ASSUME NEW d \in Clients
        PROVE  /\ client'[d].then = "idle" => client'[d].pc \in {"idle", "waiting", "woken"}
               /\ client'[d].then = "drained" =>
                     /\ freezeopt' /\ client'[d].pc # "idle" /\ ~client'[d].timed
                     /\ client'[d].nThr = 0 => threadsRunning' = 0
                     /\ \A b \in Clients \ {d} : client'[b].pc = "idle"
               /\ client'[d].pc \notin {"drained", "join", "cleanup", "gone"}
    <3>1. CASE d = c
      BY <1>0, <1>2, <1>3, <3>1
    <3>2. CASE d # c
      BY <1>0, <1>2, <1>3, <2>1, <3>2
    <3>. QED  BY <3>1, <3>2
  <2>. QED  BY <1>0, <1>1, <2>1, <2>2 DEF Ending
<1>. QED  BY <1>1, <1>4, <1>6, <1>7 DEF PoolInv

\* The client that ends the pool, past its wait.
LEMMA Ender ==
    ASSUME OfPool!ThreadPoolAssumption, PoolInv, NEW c \in Clients,
           client[c].pc \in {"drained", "join", "cleanup", "gone"}
    PROVE  /\ client[c].then = "drained" /\ freezeopt /\ jobs = <<>> /\ threadsAreAwake = 0
           /\ queued = {} /\ running = {} /\ OfPool!At({"run"}) = {}
           /\ \A d \in Clients \ {c} : client[d].pc = "idle" /\ client[d].then = "idle"
           /\ client[c].nThr = 0 => threadsRunning = 0
<1>0. /\ PoolTypes /\ Counted /\ Observed /\ Placed /\ Manned /\ OfPool!NoneStranded /\ Ending
  BY DEF PoolInv
<1>1. client[c].then = "drained"
  BY <1>0 DEF PoolTypes, ClientState, Ending
<1>2. freezeopt /\ \A d \in Clients \ {c} : client[d].pc = "idle"
  BY <1>0, <1>1 DEF Ending
<1>3. \A d \in Clients \ {c} : client[d].then = "idle"
  BY <1>0, <1>1, <1>2 DEF PoolTypes, ClientState, Ending
<1>4. jobs = <<>> /\ threadsAreAwake = 0
  BY <1>0 DEF PoolTypes, Ending, OfPool!Busy
<1>5. OfPool!At({"run"}) = {}
  BY <1>0, <1>4, FewWorkers DEF Counted
<1>6. running = {}
  BY <1>0, <1>5 DEF Placed, OfPool!At, PoolTypes, OfPool!ThreadPoolAssumption
<1>7. queued \ running = {}
  BY <1>0, <1>4, HoldsNothing DEF Placed, PoolTypes
<1>. QED  BY <1>0, <1>1, <1>2, <1>3, <1>4, <1>5, <1>6, <1>7 DEF Ending

\* It goes on, and is no observer.
LEMMA EnderGoes ==
    ASSUME OfPool!ThreadPoolAssumption, PoolInv, NEW c \in Clients,
           client[c].pc \in {"drained", "join", "cleanup"}, NEW pc \in {"join", "cleanup", "gone"},
           client' = [client EXCEPT ![c].pc = pc], UNCHANGED observerCount
    PROVE  /\ Observed' /\ client' \in [Clients -> ClientState]
           /\ client'[c].then = "drained" /\ client'[c].pc = pc /\ ~client'[c].timed
           /\ client'[c].nThr = client[c].nThr
           /\ \A d \in Clients \ {c} : client'[d] = client[d]
<1> DEFINE e == [client[c] EXCEPT !.pc = pc]
<1>0. /\ PoolTypes /\ Observed /\ Ending /\ client[c] \in ClientState
  BY DEF PoolInv, PoolTypes
<1>1. client[c].then = "drained" /\ ~client[c].timed
  BY <1>0, Ender DEF Ending
<1>2. /\ e \in ClientState /\ e.pc = pc /\ e.then = "drained" /\ ~e.timed
      /\ e.nThr = client[c].nThr
  BY <1>0, <1>1 DEF ClientState
<1>3. client' = [client EXCEPT ![c] = e]
  OBVIOUS
<1>. HIDE DEF e
<1>4. /\ client' \in [Clients -> ClientState] /\ client'[c] = e
      /\ \A d \in Clients \ {c} : client'[d] = client[d]
  BY <1>0, <1>2, <1>3 DEF PoolTypes
<1>5. Observers' = Observers
  BY <1>2, <1>4 DEF Observers
<1>6. Observed'
  BY <1>0, <1>5 DEF Observed
<1>. QED  BY <1>2, <1>4, <1>6
-----------------------------------------------------------------------------
\* "wakeup all": the pool is idle, its jobs are to be told.
LEMMA DestroyShutdownStep ==
    ASSUME OfPool!ThreadPoolAssumption, PoolInv, ~failed, NEW c \in Clients,
           OfPool!DestroyShutdown(c)
    PROVE  PoolInv'
<1>0. /\ client[c].pc = "drained" /\ shutdown' = TRUE
      /\ threadsWaking' = IF threadsWaking < threadsSleeping THEN threadsSleeping ELSE threadsWaking
      /\ workerWakeup' = (workerWakeup \/ threadsWaking < threadsSleeping)
      /\ notify' = owned \cup {jobs[i] : i \in DOMAIN jobs} /\ owned' = {} /\ jobs' = <<>>
      /\ client' = [client EXCEPT ![c].pc = "join"]
      /\ UNCHANGED <<inst, queued, running, freewhendone, freed, threadsAreAwake, threadsSleeping,
                     threadsRunning, OfPool!observerVars, pauseadd, pauserun, freezeopt, shutdownEvent, gone,
                     worker, failed>>
  BY DEF OfPool!DestroyShutdown
<1>b. /\ PoolTypes /\ Counted /\ Observed /\ Placed /\ Manned /\ OfPool!NoneStranded /\ Ending
  BY DEF PoolInv
<1>1. /\ client[c].then = "drained" /\ freezeopt /\ jobs = <<>> /\ threadsAreAwake = 0
      /\ queued = {} /\ running = {} /\ OfPool!At({"run"}) = {}
      /\ \A d \in Clients \ {c} : client[d].pc = "idle" /\ client[d].then = "idle"
      /\ client[c].nThr = 0 => threadsRunning = 0
  BY <1>0, Ender
<1>2. /\ Observed' /\ client' \in [Clients -> ClientState]
      /\ client'[c].then = "drained" /\ client'[c].pc = "join" /\ ~client'[c].timed
      /\ client'[c].nThr = client[c].nThr
      /\ \A d \in Clients \ {c} : client'[d] = client[d]
  BY <1>0, EnderGoes DEF OfPool!observerVars
<1>3. /\ threadsWaking \in Nat /\ threadsSleeping \in Nat /\ threadsWaking <= threadsSleeping
      /\ inst.maxThreads \in Nat /\ threadsSleeping <= inst.maxThreads
      /\ threadsWaking' = threadsSleeping
  BY <1>0, <1>b, FewWorkers DEF PoolTypes, Counted
<1>4. Counted'
  BY <1>0, <1>b, <1>3 DEF Counted, OfPool!At
<1>5. notify' = owned
  BY <1>0, <1>1
<1>6. Placed'
  BY <1>0, <1>b, <1>1, <1>5 DEF Placed
<1>7. PoolTypes'
  BY <1>0, <1>b, <1>2, <1>3, <1>5 DEF PoolTypes, OfPool!observerVars
<1>8. Manned'
  BY <1>0 DEF Manned
<1>9. OfPool!NoneStranded'
  <2>1. CASE threadsWaking < threadsSleeping
    <3>1. workerWakeup'
      BY <1>0, <2>1
    <3>. QED  BY <1>0, <3>1 DEF OfPool!NoneStranded
  <2>2. CASE ~(threadsWaking < threadsSleeping)
    <3>1. threadsWaking = threadsSleeping /\ workerWakeup' = workerWakeup
      BY <1>0, <1>b, <1>3, <2>2 DEF PoolTypes
    <3>. QED  BY <1>0, <1>b, <3>1 DEF OfPool!NoneStranded, OfPool!At
  <2>. QED  BY <2>1, <2>2
<1>10. Ending'
  <2>1. ASSUME NEW d \in Clients
        PROVE  /\ client'[d].then = "idle" => client'[d].pc \in {"idle", "waiting", "woken"}
               /\ client'[d].then = "drained" =>
                     /\ freezeopt' /\ client'[d].pc # "idle" /\ ~client'[d].timed
                     /\ client'[d].nThr = 0 => threadsRunning' = 0
                     /\ \A b \in Clients \ {d} : client'[b].pc = "idle"
               /\ client'[d].pc \notin {"cleanup", "gone"}
    <3>1. CASE d = c
      BY <1>0, <1>1, <1>2, <3>1
    <3>2. CASE d # c
      BY <1>1, <1>2, <3>2
    <3>. QED  BY <3>1, <3>2
  <2>2. ~OfPool!Busy'
    BY <1>0, <1>1 DEF OfPool!Busy
  <2>. QED  BY <1>0, <1>b, <1>1, <2>1, <2>2 DEF Ending
<1>. QED  BY <1>2, <1>4, <1>6, <1>7, <1>8, <1>9, <1>10 DEF PoolInv

\* The last worker has said that none is left.
LEMMA DestroyJoinStep ==
    ASSUME OfPool!ThreadPoolAssumption, PoolInv, ~failed, NEW c \in Clients, OfPool!DestroyJoin(c)
    PROVE  PoolInv'
<1>0. /\ client[c].pc = "join" /\ (client[c].nThr = 0 \/ shutdownEvent)
      /\ shutdownEvent' = FALSE /\ client' = [client EXCEPT ![c].pc = "cleanup"]
      /\ UNCHANGED <<inst, OfPool!jobVars, OfPool!countVars, workerWakeup, OfPool!observerVars,
                     OfPool!optVars, notify, gone,
                     worker, failed>>
  BY DEF OfPool!DestroyJoin
<1>b. /\ PoolTypes /\ Counted /\ Observed /\ Placed /\ Manned /\ OfPool!NoneStranded /\ Ending
  BY DEF PoolInv
<1>1. /\ client[c].then = "drained" /\ freezeopt /\ jobs = <<>> /\ threadsAreAwake = 0
      /\ \A d \in Clients \ {c} : client[d].pc = "idle" /\ client[d].then = "idle"
      /\ client[c].nThr = 0 => threadsRunning = 0
  BY <1>0, Ender
<1>2. /\ Observed' /\ client' \in [Clients -> ClientState]
      /\ client'[c].then = "drained" /\ client'[c].pc = "cleanup" /\ ~client'[c].timed
      /\ client'[c].nThr = client[c].nThr
      /\ \A d \in Clients \ {c} : client'[d] = client[d]
  BY <1>0, EnderGoes DEF OfPool!observerVars
<1>3. threadsRunning = 0 /\ shutdown
  BY <1>0, <1>b, <1>1 DEF Ending
<1>4. Counted' /\ Placed' /\ Manned' /\ OfPool!NoneStranded'
  BY <1>0, PoolUnmoved DEF OfPool!optVars
<1>5. PoolTypes'
  BY <1>0, <1>b, <1>2 DEF PoolTypes, OfPool!jobVars, OfPool!countVars, OfPool!observerVars,
     OfPool!optVars
<1>6. Ending'
  <2>1. ASSUME NEW d \in Clients
        PROVE  /\ client'[d].then = "idle" => client'[d].pc \in {"idle", "waiting", "woken"}
               /\ client'[d].then = "drained" =>
                     /\ freezeopt /\ client'[d].pc # "idle" /\ ~client'[d].timed
                     /\ client'[d].nThr = 0 => threadsRunning = 0
                     /\ \A b \in Clients \ {d} : client'[b].pc = "idle"
    <3>1. CASE d = c
      BY <1>1, <1>2, <3>1
    <3>2. CASE d # c
      BY <1>1, <1>2, <3>2
    <3>. QED  BY <3>1, <3>2
  <2>2. ~OfPool!Busy' /\ threadsRunning' = 0 /\ shutdown'
    BY <1>0, <1>1, <1>3 DEF OfPool!Busy, OfPool!jobVars, OfPool!countVars, OfPool!optVars
  <2>. QED  BY <1>0, <1>b, <2>1, <2>2 DEF Ending, OfPool!jobVars, OfPool!countVars, OfPool!optVars
<1>. QED  BY <1>2, <1>4, <1>5, <1>6 DEF PoolInv

\* The function of a job is told of the end.
LEMMA DestroyNotifyStep ==
    ASSUME OfPool!ThreadPoolAssumption, PoolInv, ~failed, NEW c \in Clients,
           OfPool!DestroyNotify(c)
    PROVE  PoolInv'
<1>0. PICK j \in notify :
        /\ client[c].pc = "cleanup" /\ notify' = notify \ {j}
        /\ freed' \in {freed, freed \cup {j}}
        /\ UNCHANGED <<inst, jobs, owned, queued, running, freewhendone, OfPool!countVars,
                       workerWakeup,
                       OfPool!observerVars, OfPool!optVars, shutdownEvent, gone, worker, client, failed>>
  BY DEF OfPool!DestroyNotify
<1>b. /\ PoolTypes /\ Counted /\ Observed /\ Placed /\ Manned /\ OfPool!NoneStranded /\ Ending
  BY DEF PoolInv
<1>1. shutdown /\ owned = {} /\ queued = {} /\ running = {}
  BY <1>0, <1>b, Ender DEF Ending
<1>2. PoolTypes'
  BY <1>0, <1>b DEF PoolTypes, OfPool!countVars, OfPool!observerVars, OfPool!optVars
<1>3. Counted' /\ Observed' /\ Manned' /\ OfPool!NoneStranded'
  BY <1>0, <1>b DEF Counted, Observed, Observers, Manned, OfPool!NoneStranded, OfPool!At,
     OfPool!countVars, OfPool!observerVars,
     OfPool!optVars
<1>4. Placed'
  BY <1>0, <1>b, <1>1 DEF Placed, OfPool!optVars
<1>5. Ending'
  BY <1>0, <1>b DEF Ending, OfPool!Busy, OfPool!countVars, OfPool!optVars
<1>. QED  BY <1>2, <1>3, <1>4, <1>5 DEF PoolInv

\* The pool is freed when every job was told.
LEMMA DestroyEndStep ==
    ASSUME OfPool!ThreadPoolAssumption, PoolInv, ~failed, NEW c \in Clients, OfPool!DestroyEnd(c)
    PROVE  PoolInv'
<1>0. /\ client[c].pc = "cleanup" /\ gone' = TRUE /\ client' = [client EXCEPT ![c].pc = "gone"]
      /\ UNCHANGED <<inst, OfPool!jobVars, OfPool!countVars, workerWakeup, OfPool!observerVars,
                     OfPool!optVars, shutdownEvent,
                     notify, worker, failed>>
  BY DEF OfPool!DestroyEnd
<1>b. /\ PoolTypes /\ Counted /\ Observed /\ Placed /\ Manned /\ OfPool!NoneStranded /\ Ending
  BY DEF PoolInv
<1>1. /\ client[c].then = "drained" /\ freezeopt /\ jobs = <<>> /\ threadsAreAwake = 0
      /\ \A d \in Clients \ {c} : client[d].pc = "idle" /\ client[d].then = "idle"
      /\ client[c].nThr = 0 => threadsRunning = 0
  BY <1>0, Ender
<1>2. /\ Observed' /\ client' \in [Clients -> ClientState]
      /\ client'[c].then = "drained" /\ client'[c].pc = "gone" /\ ~client'[c].timed
      /\ client'[c].nThr = client[c].nThr
      /\ \A d \in Clients \ {c} : client'[d] = client[d]
  BY <1>0, EnderGoes DEF OfPool!observerVars
<1>3. threadsRunning = 0 /\ shutdown
  BY <1>0, <1>b DEF Ending
<1>4. Counted' /\ Placed' /\ Manned' /\ OfPool!NoneStranded'
  BY <1>0, PoolUnmoved DEF OfPool!optVars
<1>5. PoolTypes'
  BY <1>0, <1>b, <1>2 DEF PoolTypes, OfPool!jobVars, OfPool!countVars, OfPool!observerVars,
     OfPool!optVars
<1>6. Ending'
  <2>1. ASSUME NEW d \in Clients
        PROVE  /\ client'[d].then = "idle" => client'[d].pc \in {"idle", "waiting", "woken"}
               /\ client'[d].then = "drained" =>
                     /\ freezeopt /\ client'[d].pc # "idle" /\ ~client'[d].timed
                     /\ client'[d].nThr = 0 => threadsRunning = 0
                     /\ \A b \in Clients \ {d} : client'[b].pc = "idle"
    <3>1. CASE d = c
      BY <1>1, <1>2, <3>1
    <3>2. CASE d # c
      BY <1>1, <1>2, <3>2
    <3>. QED  BY <3>1, <3>2
  <2>2. ~OfPool!Busy' /\ threadsRunning' = 0 /\ shutdown'
    BY <1>0, <1>1, <1>3 DEF OfPool!Busy, OfPool!jobVars, OfPool!countVars, OfPool!optVars
  <2>. QED  BY <1>0, <1>b, <2>1, <2>2 DEF Ending, OfPool!jobVars, OfPool!countVars, OfPool!optVars
<1>. QED  BY <1>2, <1>4, <1>5, <1>6 DEF PoolInv
-----------------------------------------------------------------------------
\* A new pool has its first workers and no job.
LEMMA PoolBegins ==
    ASSUME OfPool!ThreadPoolAssumption, OfPool!Init
    PROVE  PoolInv
<1>0. /\ inst \in Pools /\ inst.maxThreads \in Nat \ {0}
      /\ inst.initialThreads \in 0 .. inst.maxThreads
  BY DEF OfPool!Init, OfPool!ThreadPoolAssumption
<1> DEFINE n == inst.initialThreads
           W == 1 .. inst.maxThreads
<1>1. /\ OfPool!Worker("new") \in WorkerState /\ OfPool!Worker("new").pc = "new"
      /\ OfPool!Worker("new").job = OfPool!None
      /\ OfPool!Worker("none") \in WorkerState /\ OfPool!Worker("none").pc = "none"
      /\ OfPool!Worker("none").job = OfPool!None
  BY WorkerAt DEF Asleep
<1>2. /\ OfPool!Client("idle") \in ClientState /\ OfPool!Client("idle").pc = "idle"
      /\ OfPool!Client("idle").then = "idle"
  BY DEF OfPool!Client, ClientState
<1>3. /\ worker = [w \in W |-> OfPool!Worker(IF w <= n THEN "new" ELSE "none")]
      /\ client = [c \in Clients |-> OfPool!Client("idle")]
  BY DEF OfPool!Init
<1>4. /\ worker \in [W -> WorkerState] /\ DOMAIN worker = W
      /\ \A w \in W : /\ worker[w].pc = IF w <= n THEN "new" ELSE "none"
                      /\ worker[w].job = OfPool!None
  <2>1. DOMAIN worker = W
    BY <1>3
  <2>2. \A w \in W : w <= n => worker[w] = OfPool!Worker("new")
    BY <1>3
  <2>3. \A w \in W : ~(w <= n) => worker[w] = OfPool!Worker("none")
    BY <1>3
  <2>4. \A w \in W : worker[w] \in WorkerState
    BY <1>1, <2>2, <2>3
  <2>5. worker = [w \in W |-> worker[w]]
    BY <1>3
  <2>. QED  BY <1>1, <2>1, <2>2, <2>3, <2>4, <2>5
<1>5. client \in [Clients -> ClientState] /\ \A c \in Clients : client[c] = OfPool!Client("idle")
  BY <1>2, <1>3
<1>6. PoolTypes
  <2>1. n \in Nat /\ <<>> \in Seq(Jobs)
    BY <1>0, EmptySeq
  <2>2. jobs \in Seq(Jobs) /\ threadsSleeping \in Nat /\ threadsRunning \in Nat
    BY <2>1 DEF OfPool!Init
  <2>. QED  BY <1>0, <1>4, <1>5, <2>2 DEF OfPool!Init, PoolTypes
<1>7. OfPool!At({"run"}) = {} /\ OfPool!At(Asleep) = 1 .. n
  BY <1>0, <1>4 DEF OfPool!At, Asleep
<1>8. Cardinality(OfPool!At({"run"})) = 0 /\ Cardinality(OfPool!At(Asleep)) = n
  <2>1. n \in Nat /\ 1 \in Int
    BY <1>0
  <2>2. Cardinality(1 .. n) = IF 1 > n THEN 0 ELSE n - 1 + 1
    BY <2>1, FS_Interval
  <2>3. Cardinality(1 .. n) = n
    BY <2>1, <2>2
  <2>. QED  BY <1>7, <2>3, FS_EmptySet
<1>9. Counted
  <2>1. \A w \in DOMAIN worker : /\ worker[w].pc = "none" <=> w > n
                                 /\ worker[w].pc \notin {"leaving", "exited"}
    <3>1. n \in Nat /\ DOMAIN worker = W
      BY <1>0, <1>4
    <3>. QED  BY <1>4, <3>1
  <2>2. /\ threadsAreAwake = Cardinality(OfPool!At({"run"}))
        /\ threadsSleeping = Cardinality(OfPool!At(Asleep))
        /\ threadsRunning = threadsAreAwake + threadsSleeping /\ threadsRunning <= inst.maxThreads
        /\ threadsWaking <= inst.maxThreads /\ threadsWaking <= threadsSleeping
        /\ threadsRunning = n
    BY <1>0, <1>8 DEF OfPool!Init
  <2>. QED  BY <2>1, <2>2 DEF Counted
<1>10. Observed
  <2>1. Observers = {}
    BY <1>2, <1>5 DEF Observers
  <2>. QED  BY <2>1, FS_EmptySet DEF OfPool!Init, Observed
<1>11. Placed
  <2>1. OfPool!Range(jobs) = {} /\ OfPool!IsInjective(jobs)
    <3>1. jobs = <<>> /\ jobs \in Seq(Jobs) /\ DOMAIN jobs = {}
      BY <1>6 DEF OfPool!Init, PoolTypes
    <3>. QED  BY <3>1, HoldsNothing DEF OfPool!IsInjective
  <2>. QED  BY <1>4, <2>1 DEF OfPool!Init, Placed
<1>12. Manned /\ OfPool!NoneStranded
  BY DEF OfPool!Init, Manned, OfPool!NoneStranded
<1>13. Ending
  BY <1>2, <1>4, <1>5 DEF OfPool!Init, Ending
<1>. QED  BY <1>6, <1>9, <1>10, <1>11, <1>12, <1>13 DEF PoolInv

\* Every step keeps PoolInv.
LEMMA PoolGoesOn ==
    ASSUME OfPool!ThreadPoolAssumption, PoolInv, [OfPool!Next]_(OfPool!vars)
    PROVE  PoolInv'
<1>1. CASE OfPool!Next
  <2>0. ~failed
    BY <1>1 DEF OfPool!Next
  <2>1. ASSUME NEW c \in Clients, OfPool!Call(c) \/ OfPool!ClientStep(c) PROVE PoolInv'
    BY <2>0, <2>1, CallJobStep, ControlAddStep, ControlRunStep, DestroyBeginStep, WaitBeginStep,
       WaitWakeStep, WaitTestStep, WaitTimeoutStep, DestroyShutdownStep, DestroyJoinStep,
       DestroyNotifyStep, DestroyEndStep DEF OfPool!Call, OfPool!ClientStep
  <2>2. ASSUME NEW w \in DOMAIN worker,
               OfPool!WorkerStep(w) \/ OfPool!WorkerNext(w) \/ OfPool!JobCalls(w) PROVE PoolInv'
    BY <2>0, <2>2, WorkerBeginStep, WorkerWaitStep, WorkerBackStep, WorkerServesStep,
       WorkerLeavesStep, WorkerExitStep, WorkerNextStep, JobCallsStep DEF OfPool!WorkerStep
  <2>. QED  BY <1>1, <2>1, <2>2 DEF OfPool!Next
<1>2. CASE UNCHANGED OfPool!vars
  BY <1>2, NoCall DEF OfPool!vars, CallFrame
<1>. QED  BY <1>1, <1>2

\* What PoolInv says of the places of jobs, by their numbers.
LEMMA PlacesCounted ==
    ASSUME OfPool!ThreadPoolAssumption, PoolInv
    PROVE  OfPool!JobsPlaced
<1>0. PoolTypes /\ Placed
  BY DEF PoolInv
<1>1. ASSUME NEW j \in Jobs
      PROVE  LET inQueue == Cardinality({i \in DOMAIN jobs : jobs[i] = j})
                 has == Cardinality({w \in DOMAIN worker : worker[w].job = j})
             IN  /\ inQueue = (IF j \in queued \ running THEN 1 ELSE 0)
                 /\ j \in freed => inQueue = 0 /\ has = 0 /\ j \notin owned \cup notify
                 /\ j \notin freed => has = (IF j \in running THEN 1 ELSE 0)
                 /\ j \in owned => inQueue = 0 /\ has = 0
  <2> DEFINE I == {i \in DOMAIN jobs : jobs[i] = j}
             W == {w \in DOMAIN worker : worker[w].job = j}
  <2>1. Cardinality(I) = IF j \in queued \ running THEN 1 ELSE 0
    <3>1. CASE j \in queued \ running
      <4>1. PICK i \in DOMAIN jobs : jobs[i] = j
        BY <1>0, <3>1 DEF Placed, OfPool!Range
      <4>2. I = {i}
        BY <1>0, <4>1 DEF Placed, OfPool!IsInjective
      <4>. QED  BY <3>1, <4>2, FS_Singleton
    <3>2. CASE j \notin queued \ running
      <4>1. I = {}
        BY <1>0, <3>2 DEF Placed, OfPool!Range
      <4>. QED  BY <3>2, <4>1, FS_EmptySet
    <3>. QED  BY <3>1, <3>2
  <2>2. Cardinality(W) = IF j \in running THEN 1 ELSE 0
    <3>0. j # OfPool!None
      BY DEF OfPool!ThreadPoolAssumption
    <3>1. CASE j \in running
      <4>1. PICK w \in DOMAIN worker : worker[w].job = j
        BY <1>0, <3>1 DEF Placed
      <4>2. W = {w}
        BY <1>0, <3>0, <4>1 DEF Placed
      <4>. QED  BY <3>1, <4>2, FS_Singleton
    <3>2. CASE j \notin running
      <4>1. W = {}
        BY <1>0, <3>0, <3>2 DEF Placed
      <4>. QED  BY <3>2, <4>1, FS_EmptySet
    <3>. QED  BY <3>1, <3>2
  <2>3. /\ j \in freed => j \notin queued /\ j \notin running /\ j \notin owned \cup notify
        /\ j \in owned => j \notin queued /\ j \notin running
    BY <1>0 DEF Placed
  <2>. HIDE DEF I, W
  <2>4. /\ Cardinality(I) = (IF j \in queued \ running THEN 1 ELSE 0)
        /\ j \in freed => Cardinality(I) = 0 /\ Cardinality(W) = 0 /\ j \notin owned \cup notify
        /\ j \notin freed => Cardinality(W) = (IF j \in running THEN 1 ELSE 0)
        /\ j \in owned => Cardinality(I) = 0 /\ Cardinality(W) = 0
    BY <2>1, <2>2, <2>3
  <2>. QED  BY <2>4, SameCounts DEF I, W
<1>. QED  BY <1>1, SameCounts DEF OfPool!JobsPlaced

\* PoolInv is what the pool promises.
LEMMA PoolInvEnough ==
    ASSUME OfPool!ThreadPoolAssumption, PoolInv
    PROVE  OfPool!TypeOK /\ OfPool!CountsAgree /\ OfPool!JobsPlaced /\ OfPool!NoneStranded /\ OfPool!EndsClean
<1>0. /\ PoolTypes /\ Counted /\ Observed /\ OfPool!NoneStranded /\ Ending
      /\ inst.maxThreads \in Nat
  BY FewWorkers DEF PoolInv
<1>1. OfPool!TypeOK
  <2>1. /\ {threadsAreAwake, threadsWaking, threadsSleeping, threadsRunning} \subseteq
              0 .. inst.maxThreads
    BY <1>0 DEF PoolTypes, Counted
  <2>2. observerCount \in 0 .. Cardinality(Clients)
    <3>1. Observers \in SUBSET Clients /\ IsFiniteSet(Clients)
      BY SameCounts DEF Observers, OfPool!ThreadPoolAssumption
    <3>2. Cardinality(Observers) <= Cardinality(Clients) /\ Cardinality(Clients) \in Nat
      BY <3>1, FS_Subset, FS_CardinalityType
    <3>. QED  BY <1>0, <3>2 DEF PoolTypes, Observed
  <2>3. \A w \in DOMAIN worker :
          /\ worker[w].pc \in {"none", "new", "wait", "woken", "run", "leaving", "exited"}
          /\ worker[w].job \in Jobs \cup {OfPool!None}
    BY <1>0 DEF PoolTypes, WorkerState, Asleep
  <2>4. \A c \in Clients : client[c].pc \in {"idle", "drain", "waiting", "woken", "drained", "join",
                                             "cleanup", "gone"}
    BY <1>0 DEF PoolTypes, ClientState
  <2>. QED  BY <1>0, <2>1, <2>2, <2>3, <2>4, SameCounts DEF PoolTypes, OfPool!TypeOK
<1>2. OfPool!CountsAgree
  BY <1>0, SameCounts DEF OfPool!CountsAgree, Counted, Observed, Observers, Asleep
<1>3. OfPool!EndsClean
  <2>1. shutdown => OfPool!At({"run"}) = {}
    BY <1>0, FewWorkers DEF Ending, Counted
  <2>2. gone => OfPool!At(Asleep) = {}
    <3>1. gone => threadsSleeping = 0
      BY <1>0 DEF Ending, Counted, PoolTypes
    <3>. QED  BY <1>0, <3>1, FewWorkers DEF Counted
  <2>. QED  BY <1>0, <2>1, <2>2 DEF OfPool!EndsClean, Ending, Asleep
<1>. QED  BY <1>0, <1>1, <1>2, <1>3, PlacesCounted

\* For any clients, jobs and sizes of the pool, and whether or not threads can be created: the
\* counters kept by hand in five functions count the workers in each place, a job is in the one
\* place its flags say and is not freed while anybody may come to it, no job waits while every
\* worker sleeps, and the pool is freed when no worker is left that would use it.
THEOREM PoolConsistentHolds ==
  ASSUME OfPool!ThreadPoolAssumption
  PROVE  OfPool!Spec => []PoolConsistent
<1>1. OfPool!Init => PoolInv
  BY PoolBegins
<1>2. PoolInv /\ [OfPool!Next]_(OfPool!vars) => PoolInv'
  BY PoolGoesOn
<1>3. PoolInv => PoolConsistent
  BY PoolInvEnough DEF PoolConsistent, OfPool!PoolConsistent
<1>. QED  BY <1>1, <1>2, <1>3, PTL DEF OfPool!Spec
-----------------------------------------------------------------------------
(* The timer queue.                                                        *)

(* Lists of timers                                                         *)

Items(q) == {q[i] : i \in 1 .. Len(q)}

\* A list holds each timer once, in the order of f.
Ordered(q, f) == \A i, j \in 1 .. Len(q) : i < j => q[i] # q[j] /\ f[q[i]] <= f[q[j]]

(* RemoveAt: length and elements.                                          *)
LEMMA Removed ==
    ASSUME NEW q \in Seq(Timers), NEW i \in 1 .. Len(q)
    PROVE  /\ OfTimers!RemoveAt(q, i) \in Seq(Timers)
           /\ Len(OfTimers!RemoveAt(q, i)) = Len(q) - 1
           /\ \A j \in 1 .. Len(q) - 1 :
                OfTimers!RemoveAt(q, i)[j] = IF j < i THEN q[j] ELSE q[j + 1]
<1> DEFINE u == SubSeq(q, 1, i - 1)
           v == SubSeq(q, i + 1, Len(q))
<1>1. /\ u \in Seq(Timers) /\ Len(u) = i - 1
      /\ \A j \in 1 .. i - 1 : u[j] = q[j]
  BY SubSeqProperties
<1>2. /\ v \in Seq(Timers) /\ Len(v) = Len(q) - i
      /\ \A j \in 1 .. Len(q) - i : v[j] = q[i + j]
  BY SubSeqProperties
<1>3. OfTimers!RemoveAt(q, i) = u \o v
  BY DEF OfTimers!RemoveAt
<1> HIDE DEF u, v
<1>4. i \in Nat /\ Len(q) \in Nat /\ Len(u) + Len(v) = Len(q) - 1
  BY <1>1, <1>2, LenProperties
<1>5. /\ u \o v \in Seq(Timers) /\ Len(u \o v) = Len(q) - 1
      /\ \A j \in 1 .. Len(u) + Len(v) :
            (u \o v)[j] = IF j <= Len(u) THEN u[j] ELSE v[j - Len(u)]
  BY <1>1, <1>2, <1>4, ConcatProperties
<1>6. ASSUME NEW j \in 1 .. Len(q) - 1
      PROVE  (u \o v)[j] = IF j < i THEN q[j] ELSE q[j + 1]
  <2>1. CASE j < i
    BY <1>1, <1>4, <1>5, <2>1
  <2>2. CASE ~(j < i)
    <3>1. j - (i - 1) \in 1 .. Len(q) - i
      BY <2>2
    <3>2. v[j - (i - 1)] = q[j + 1]
      BY <1>2, <3>1
    <3>3. (u \o v)[j] = v[j - (i - 1)]
      BY <1>1, <1>4, <1>5, <2>2
    <3> QED BY <2>2, <3>2, <3>3
  <2> QED BY <2>1, <2>2
<1> QED BY <1>3, <1>5, <1>6

(* InsertAt: length and elements.                                          *)
LEMMA Inserted ==
    ASSUME NEW q \in Seq(Timers), NEW i \in 1 .. Len(q) + 1, NEW e \in Timers
    PROVE  /\ OfTimers!InsertAt(q, i, e) \in Seq(Timers)
           /\ Len(OfTimers!InsertAt(q, i, e)) = Len(q) + 1
           /\ \A j \in 1 .. Len(q) + 1 :
                OfTimers!InsertAt(q, i, e)[j] = IF j < i THEN q[j]
                                                ELSE IF j = i THEN e ELSE q[j - 1]
<1> DEFINE u == SubSeq(q, 1, i - 1)
           v == SubSeq(q, i, Len(q))
           w == u \o <<e>>
<1>1. /\ u \in Seq(Timers) /\ Len(u) = i - 1
      /\ \A j \in 1 .. i - 1 : u[j] = q[j]
  BY SubSeqProperties
<1>2. /\ v \in Seq(Timers) /\ Len(v) = Len(q) - i + 1
      /\ \A j \in 1 .. Len(q) - i + 1 : v[j] = q[i - 1 + j]
  BY SubSeqProperties
<1>3. OfTimers!InsertAt(q, i, e) = w \o v
  BY DEF OfTimers!InsertAt
<1>4. <<e>> \in Seq(Timers) /\ Len(<<e>>) = 1 /\ <<e>>[1] = e
  OBVIOUS
<1> HIDE DEF u, v
<1>5. /\ w \in Seq(Timers) /\ Len(w) = i
      /\ \A j \in 1 .. i : w[j] = IF j < i THEN q[j] ELSE e
  BY <1>1, <1>4, ConcatProperties
<1> HIDE DEF w
<1>6. /\ w \o v \in Seq(Timers) /\ Len(w \o v) = Len(q) + 1
      /\ \A j \in 1 .. Len(q) + 1 : (w \o v)[j] = IF j <= i THEN w[j] ELSE v[j - i]
  BY <1>2, <1>5, ConcatProperties
<1>7. ASSUME NEW j \in 1 .. Len(q) + 1
      PROVE  (w \o v)[j] = IF j < i THEN q[j] ELSE IF j = i THEN e ELSE q[j - 1]
  <2>1. CASE j <= i
    BY <1>5, <1>6, <2>1
  <2>2. CASE ~(j <= i)
    <3>1. j - i \in 1 .. Len(q) - i + 1
      BY <2>2
    <3>2. v[j - i] = q[j - 1]
      BY <1>2, <3>1
    <3>3. (w \o v)[j] = v[j - i]
      BY <1>6, <2>2
    <3>4. ~(j < i) /\ j # i
      BY <2>2
    <3> QED BY <3>2, <3>3, <3>4
  <2> QED BY <2>1, <2>2
<1> QED BY <1>3, <1>6, <1>7

(* The first timer of a list in order is the least.                        *)
LEMMA FirstIsLeast ==
    ASSUME NEW q \in Seq(Timers), NEW f \in [Timers -> Int], Ordered(q, f),
           NEW t \in Items(q)
    PROVE  /\ q # <<>> /\ 1 \in 1 .. Len(q) /\ Head(q) = q[1] /\ q[1] \in Timers
           /\ f[q[1]] <= f[t]
<1>1. PICK i \in 1 .. Len(q) : t = q[i]
  BY DEF Items
<1>2. 1 \in 1 .. Len(q) /\ Len(q) \in Nat /\ q # <<>> /\ q[1] \in Timers /\ Head(q) = q[1]
  BY <1>1, LenProperties, ElementOfSeq, HeadTailProperties
<1>3. f[q[1]] <= f[q[i]]
  <2>1. CASE i = 1
    BY <1>2, <2>1
  <2>2. CASE i > 1
    BY <1>2, <2>2 DEF Ordered
  <2> QED BY <1>1, <2>1, <2>2
<1> QED BY <1>1, <1>2, <1>3

(* Deleting a timer takes it, and nothing else, from a list in order.      *)
LEMMA RemovedItems ==
    ASSUME NEW q \in Seq(Timers), NEW i \in 1 .. Len(q), NEW f, Ordered(q, f)
    PROVE  /\ Items(OfTimers!RemoveAt(q, i)) = Items(q) \ {q[i]}
           /\ Ordered(OfTimers!RemoveAt(q, i), f)
<1> DEFINE u == OfTimers!RemoveAt(q, i)
<1>1. /\ Len(q) \in Nat /\ Len(u) = Len(q) - 1
      /\ \A j \in 1 .. Len(q) - 1 : u[j] = IF j < i THEN q[j] ELSE q[j + 1]
  BY Removed, LenProperties
<1> HIDE DEF u
<1>2. Items(u) \subseteq Items(q) \ {q[i]}
  <2> SUFFICES ASSUME NEW j \in 1 .. Len(u)
               PROVE  u[j] \in Items(q) /\ u[j] # q[i]
    BY DEF Items
  <2>1. CASE j < i
    BY <1>1, <2>1 DEF Items, Ordered
  <2>2. CASE ~(j < i)
    <3>1. u[j] = q[j + 1] /\ j + 1 \in 1 .. Len(q) /\ i < j + 1
      BY <1>1, <2>2
    <3> QED BY <3>1 DEF Items, Ordered
  <2> QED BY <2>1, <2>2
<1>3. Items(q) \ {q[i]} \subseteq Items(u)
  <2> SUFFICES ASSUME NEW j \in 1 .. Len(q), j # i
               PROVE  q[j] \in Items(u)
    BY DEF Items
  <2>1. CASE j < i
    <3>1. j \in 1 .. Len(u) /\ u[j] = q[j]
      BY <1>1, <2>1
    <3> QED BY <3>1 DEF Items
  <2>2. CASE j > i
    <3>1. j - 1 \in 1 .. Len(u) /\ u[j - 1] = q[j]
      BY <1>1, <2>2
    <3> QED BY <3>1 DEF Items
  <2> QED BY <2>1, <2>2
<1>4. ASSUME NEW j \in 1 .. Len(u), NEW m \in 1 .. Len(u), j < m
      PROVE  u[j] # u[m] /\ f[u[j]] <= f[u[m]]
  <2> DEFINE a == IF j < i THEN j ELSE j + 1
             b == IF m < i THEN m ELSE m + 1
  <2>1. a \in 1 .. Len(q) /\ b \in 1 .. Len(q) /\ a < b
    BY <1>1, <1>4
  <2>2. u[j] = q[a] /\ u[m] = q[b]
    BY <1>1
  <2> HIDE DEF a, b
  <2> QED BY <2>1, <2>2 DEF Ordered
<1> QED BY <1>2, <1>3, <1>4 DEF Ordered, u

(* Without: the list without a timer, if it is on it.                      *)
LEMMA WithoutItems ==
    ASSUME NEW q \in Seq(Timers), NEW t, NEW f, Ordered(q, f)
    PROVE  /\ OfTimers!Without(q, t) \in Seq(Timers)
           /\ Items(OfTimers!Without(q, t)) = Items(q) \ {t}
           /\ Ordered(OfTimers!Without(q, t), f)
<1>0. OfTimers!Range(q) = Items(q) /\ DOMAIN q = 1 .. Len(q)
  BY LenProperties DEF OfTimers!Range, Items
<1>1. CASE t \in OfTimers!Range(q)
  <2> DEFINE i == CHOOSE pos \in DOMAIN q : q[pos] = t
  <2>1. i \in 1 .. Len(q) /\ q[i] = t
    BY <1>0, <1>1 DEF Items
  <2>2. OfTimers!Without(q, t) = OfTimers!RemoveAt(q, i)
    BY <1>1 DEF OfTimers!Without
  <2> HIDE DEF i
  <2> QED BY <2>1, <2>2, Removed, RemovedItems
<1>2. CASE t \notin OfTimers!Range(q)
  <2>1. OfTimers!Without(q, t) = q
    BY <1>2 DEF OfTimers!Without
  <2> QED BY <1>0, <1>2, <2>1
<1> QED BY <1>1, <1>2

(* Taking the first timer of a list in order.                              *)
LEMMA TailItems ==
    ASSUME NEW q \in Seq(Timers), NEW f, Ordered(q, f), q # <<>>
    PROVE  /\ Tail(q) \in Seq(Timers) /\ Head(q) \in Items(q) /\ Head(q) \in Timers
           /\ Head(q) = q[1]
           /\ Items(Tail(q)) = Items(q) \ {Head(q)} /\ Ordered(Tail(q), f)
<1>1. /\ Head(q) = q[1] /\ Tail(q) \in Seq(Timers) /\ Len(Tail(q)) = Len(q) - 1
      /\ \A j \in 1 .. Len(Tail(q)) : Tail(q)[j] = q[j + 1]
      /\ Len(q) \in Nat /\ Len(q) # 0
  BY HeadTailProperties, LenProperties, EmptySeq
<1>2. 1 \in 1 .. Len(q) /\ q[1] \in Timers
  BY <1>1, ElementOfSeq
<1>3. Items(Tail(q)) \subseteq Items(q) \ {q[1]}
  BY <1>1, <1>2 DEF Items, Ordered
<1>4. Items(q) \ {q[1]} \subseteq Items(Tail(q))
  <2> SUFFICES ASSUME NEW j \in 1 .. Len(q), j # 1
               PROVE  q[j] \in Items(Tail(q))
    BY DEF Items
  <2>1. j - 1 \in 1 .. Len(Tail(q)) /\ Tail(q)[j - 1] = q[j]
    BY <1>1
  <2> QED BY <2>1 DEF Items
<1>5. Ordered(Tail(q), f)
  BY <1>1 DEF Ordered
<1> QED BY <1>1, <1>2, <1>3, <1>4, <1>5 DEF Items

(* Inserting a timer puts it, and nothing else, on a list.                 *)
LEMMA InsertedSet ==
    ASSUME NEW q \in Seq(Timers), NEW t \in Timers, NEW p \in 1 .. Len(q) + 1
    PROVE  Items(OfTimers!InsertAt(q, p, t)) = Items(q) \cup {t}
<1> DEFINE u == OfTimers!InsertAt(q, p, t)
<1>2. Len(q) \in Nat /\ p \in Nat /\ 1 <= p /\ p <= Len(q) + 1
  BY LenProperties
<1>3. /\ u \in Seq(Timers) /\ Len(u) = Len(q) + 1
      /\ \A j \in 1 .. Len(q) + 1 :
           u[j] = IF j < p THEN q[j] ELSE IF j = p THEN t ELSE q[j - 1]
  BY Inserted, ZenonT(30)
<1> HIDE DEF u
<1>4. Items(u) \subseteq Items(q) \cup {t}
  <2> SUFFICES ASSUME NEW j \in 1 .. Len(u)
               PROVE  u[j] \in Items(q) \cup {t}
    BY DEF Items
  <2>1. CASE j < p
    BY <1>2, <1>3, <2>1 DEF Items
  <2>2. CASE j = p
    BY <1>2, <1>3, <2>2
  <2>3. CASE j > p
    <3>1. u[j] = q[j - 1] /\ j - 1 \in 1 .. Len(q)
      BY <1>2, <1>3, <2>3
    <3> QED BY <3>1 DEF Items
  <2> QED BY <1>2, <2>1, <2>2, <2>3
<1>5. Items(q) \cup {t} \subseteq Items(u)
  <2>1. ASSUME NEW j \in 1 .. Len(q)
        PROVE  q[j] \in Items(u)
    <3>1. CASE j < p
      <4>1. j \in 1 .. Len(u) /\ u[j] = q[j]
        BY <1>2, <1>3, <3>1
      <4> QED BY <4>1 DEF Items
    <3>2. CASE j >= p
      <4>0. j + 1 \in 1 .. Len(q) + 1 /\ ~(j + 1 < p) /\ j + 1 # p /\ (j + 1) - 1 = j
        BY <1>2, <3>2
      <4>1. j + 1 \in 1 .. Len(u) /\ u[j + 1] = q[j]
        BY <1>3, <4>0
      <4> QED BY <4>1 DEF Items
    <3> QED BY <1>2, <3>1, <3>2
  <2>2. p \in 1 .. Len(u) /\ u[p] = t
    BY <1>2, <1>3
  <2> QED BY <2>1, <2>2 DEF Items
<1> QED BY <1>4, <1>5 DEF u

\* p is the place behind the last timer that expires no later than e.
Behind(q, f, e, p) ==
    /\ p \in 1 .. Len(q) + 1
    /\ \A n \in 1 .. Len(q) : f[q[n]] <= e => n < p
    /\ p > 1 => f[q[p - 1]] <= e

(* Inserting a timer behind the last that expires no later keeps the order. *)
LEMMA InsertedItems ==
    ASSUME NEW q \in Seq(Timers), NEW t \in Timers, t \notin Items(q),
           NEW f \in [Timers -> Int], NEW e \in Int, Ordered(q, f),
           NEW p, Behind(q, f, e, p)
    PROVE  /\ OfTimers!InsertAt(q, p, t) \in Seq(Timers)
           /\ Ordered(OfTimers!InsertAt(q, p, t), [f EXCEPT ![t] = e])
           /\ p # 1 => q # <<>> /\ OfTimers!InsertAt(q, p, t)[1] = q[1] /\ q[1] \in Items(q)
<1> DEFINE g == [f EXCEPT ![t] = e]
           u == OfTimers!InsertAt(q, p, t)
<1>1. /\ \A x \in Items(q) : x \in Timers /\ g[x] = f[x] /\ f[x] \in Int
      /\ g[t] = e /\ g[t] \in Int
  BY ElementOfSeq DEF Items
<1>2. Len(q) \in Nat /\ p \in Nat /\ 1 <= p /\ p <= Len(q) + 1
  BY LenProperties DEF Behind
<1>9. /\ \A n \in 1 .. Len(q) : f[q[n]] <= e => n < p
      /\ p > 1 => f[q[p - 1]] <= e
  BY DEF Behind
<1>3. /\ u \in Seq(Timers) /\ Len(u) = Len(q) + 1
      /\ \A j \in 1 .. Len(q) + 1 :
           u[j] = IF j < p THEN q[j] ELSE IF j = p THEN t ELSE q[j - 1]
  <2>1. p \in 1 .. Len(q) + 1
    BY DEF Behind
  <2> QED BY ONLY q \in Seq(Timers), t \in Timers, <2>1, Inserted, ZenonT(60)
<1> HIDE DEF g, u
<1>6. \A n \in 1 .. Len(q) : /\ q[n] # t /\ g[q[n]] = f[q[n]] /\ f[q[n]] \in Int
                             /\ n < p => f[q[n]] <= e
                             /\ n >= p => e <= f[q[n]]
  <2> TAKE n \in 1 .. Len(q)
  <2>1. q[n] # t /\ g[q[n]] = f[q[n]] /\ f[q[n]] \in Int
    BY <1>1 DEF Items
  <2>2. CASE n < p
    <3>1. p - 1 \in 1 .. Len(q) /\ f[q[p - 1]] <= e
      BY <1>2, <1>9, <2>2
    <3>2. f[q[p - 1]] \in Int
      BY <1>1, <3>1 DEF Items
    <3>3. f[q[n]] <= f[q[p - 1]]
      <4>1. CASE n = p - 1
        BY <2>1, <4>1
      <4>2. CASE n < p - 1
        BY <3>1, <4>2 DEF Ordered
      <4> QED BY <1>2, <2>2, <4>1, <4>2
    <3> QED BY <1>2, <2>1, <2>2, <3>1, <3>2, <3>3, SMTT(30)
  <2>3. CASE n >= p
    BY <1>2, <1>9, <2>1, <2>3
  <2> QED BY <1>2, <2>2, <2>3
<1>7. ASSUME NEW j \in 1 .. Len(u), NEW m \in 1 .. Len(u), j < m
      PROVE  u[j] # u[m] /\ g[u[j]] <= g[u[m]]
  <2>1. CASE j = p
    <3>0. /\ m \in 1 .. Len(q) + 1 /\ ~(m < p) /\ m # p
          /\ m - 1 \in 1 .. Len(q) /\ m - 1 >= p
      BY <1>2, <1>3, <1>7, <2>1
    <3>1. u[j] = t /\ u[m] = q[m - 1]
      BY <1>3, <2>1, <3>0
    <3> QED BY <1>1, <1>6, <3>0, <3>1
  <2>2. CASE m = p
    <3>1. u[m] = t /\ u[j] = q[j] /\ j \in 1 .. Len(q) /\ j < p
      BY <1>2, <1>3, <1>7, <2>2, SMTT(60), ZenonT(60)
    <3> QED BY <1>1, <1>6, <3>1
  <2>3. CASE j # p /\ m # p
    <3> DEFINE x == IF j < p THEN j ELSE j - 1
               y == IF m < p THEN m ELSE m - 1
    <3>0. j \in 1 .. Len(q) + 1 /\ m \in 1 .. Len(q) + 1 /\ j < m /\ j # p /\ m # p
      BY <1>3, <1>7, <2>3
    <3>1. x \in 1 .. Len(q) /\ y \in 1 .. Len(q) /\ x < y
      BY <1>2, <3>0
    <3>2. u[j] = q[x] /\ u[m] = q[y]
      BY <1>2, <1>3, <2>3
    <3> HIDE DEF x, y
    <3>3. q[x] # q[y] /\ f[q[x]] <= f[q[y]]
      BY <3>1 DEF Ordered
    <3> QED BY <1>6, <3>1, <3>2, <3>3
  <2> QED BY <2>1, <2>2, <2>3
<1>8. ASSUME p # 1
      PROVE  q # <<>> /\ u[1] = q[1] /\ q[1] \in Items(q)
  <2>1. 1 \in 1 .. Len(q) /\ 1 < p /\ 1 \in 1 .. Len(q) + 1
    BY <1>2, <1>8
  <2> QED BY <1>3, <2>1, EmptySeq DEF Items
<1> QED BY <1>3, <1>7, <1>8 DEF Ordered, u, g

(* A set of positions that is not empty has a last.                        *)
LEMMA HasLast ==
    ASSUME NEW n \in Nat, NEW S \in SUBSET (1 .. n), S # {}
    PROVE  \E i \in S : \A pos \in S : pos <= i
<1> DEFINE T == {m \in Nat : \E i \in S : m = n - i}
<1>1. T \subseteq Nat /\ T # {}
  <2>1. PICK i \in S : TRUE
    OBVIOUS
  <2>2. n - i \in T
    BY <2>1
  <2> QED BY <2>2
<1> HIDE DEF T
<1>2. PICK m \in T : \A y \in T : <<y, m>> \notin OpToRel(<, Nat)
  BY <1>1, WFMin, NatLessThanWellFounded
<1>3. \A y \in T : ~(y < m)
  BY <1>1, <1>2 DEF OpToRel
<1>4. PICK i \in S : m = n - i
  BY DEF T
<1>5. ASSUME NEW pos \in S
      PROVE  pos <= i
  <2>1. n - pos \in T
    BY DEF T
  <2> QED BY <1>3, <1>4, <2>1
<1> QED BY <1>5

(* Place: behind the last timer that expires no later.                     *)
LEMMA PlaceBound ==
    ASSUME NEW q \in Seq(Timers), exp \in [Timers -> Int], NEW e \in Int
    PROVE  Behind(q, exp, e, OfTimers!Place(q, e))
<1> DEFINE before == {i \in DOMAIN q : exp[q[i]] <= e}
           i == CHOOSE i \in before : \A pos \in before : pos <= i
<1>1. Len(q) \in Nat /\ DOMAIN q = 1 .. Len(q)
  BY LenProperties
<1> USE DEF Behind
<1>2. CASE before = {}
  <2>1. OfTimers!Place(q, e) = 1
    BY <1>2 DEF OfTimers!Place
  <2> QED BY <1>1, <1>2, <2>1
<1>3. CASE before # {}
  <2>1. OfTimers!Place(q, e) = 1 + i
    BY <1>3 DEF OfTimers!Place
  <2>2. \E x \in before : \A pos \in before : pos <= x
    <3> HIDE DEF before
    <3>1. before \in SUBSET (1 .. Len(q))
      BY <1>1 DEF before
    <3> QED BY <1>1, <1>3, <3>1, HasLast
  <2>3. i \in before /\ \A pos \in before : pos <= i
    BY <2>2
  <2> HIDE DEF i
  <2>4. i \in 1 .. Len(q) /\ exp[q[i]] <= e
    BY <1>1, <2>3
  <2>5. \A n \in 1 .. Len(q) : exp[q[n]] <= e => n <= i
    BY <1>1, <2>3
  <2>6. OfTimers!Place(q, e) - 1 = i
    BY <2>1, <2>4
  <2> QED BY <1>1, <2>1, <2>4, <2>5, <2>6
<1> QED BY <1>2, <1>3

-----------------------------------------------------------------------------
(* The inductive invariant                                                 *)

Threadly == [pc : {"none", "top", "process", "expire", "sleep", "asleep", "exited"},
             now : Int, delay : Int, until : Int]
Clientele == [pc : {"idle", "wait", "test", "signal", "release", "gone"},
              timer : Timers \cup {OfTimers!None}, run : Nat, op : {OfTimers!None, "cancel", "destroy"}]

\* TypeOK, with the domains of functions and the fields of records.
Types ==
    /\ case \in Queues /\ clock \in 0 .. MaxClock
    /\ exp \in [Timers -> Int] /\ curState \in [Timers -> {"limbo", "pending", "active"}]
    /\ pNotify \in [Timers -> BOOLEAN] /\ runs \in [Timers -> Nat]
    /\ destroyed \subseteq Timers /\ timerList \in Seq(Timers) /\ pExpireTmr \in Timers \cup {OfTimers!None}
    /\ cancelPending \in BOOLEAN /\ cancelBlockingEvent \in BOOLEAN /\ rescheduleEvent \in BOOLEAN
    /\ terminateFlag \in BOOLEAN /\ exitFlag \in BOOLEAN
    /\ thread \in Threadly /\ user \in [Clients -> Clientele]

\* The list, the states of the timers and the timer that expires agree.
ListOK ==
    /\ Items(timerList) = OfTimers!Pending /\ Ordered(timerList, exp)
    /\ {t \in Timers : curState[t] = "active"} = IF cancelPending THEN {} ELSE {pExpireTmr} \ {OfTimers!None}
    /\ pExpireTmr = OfTimers!None => ~cancelPending
    /\ thread.pc = "expire" <=> pExpireTmr # OfTimers!None

\* What is to expire has somebody to tell, and was asked for while runs were left.
RunsOK == \A t \in Timers : /\ runs[t] <= case.runs
                            /\ curState[t] = "pending" => pNotify[t]
                            /\ pNotify[t] => runs[t] < case.runs

\* A timer that was destroyed, or is, does not come back.
Destroyed(t) == t \in destroyed \/ \E c \in Clients : user[c].op = "destroy" /\ user[c].timer = t
FreedOK == \A t \in Timers : Destroyed(t) => curState[t] = "limbo"

\* Who waits has canceled the run it found; it signals when that one is over.
Waits(c) == user[c].pc \in {"wait", "test", "signal"}
ClientOK == \A c \in Clients :
    /\ ~Waits(c) => user[c].op = OfTimers!None /\ user[c].timer = OfTimers!None
    /\ Waits(c) => /\ user[c].timer \in Timers /\ user[c].run <= runs[user[c].timer]
                   /\ pExpireTmr = user[c].timer /\ runs[pExpireTmr] = user[c].run
                         => cancelPending /\ user[c].pc # "signal"

TInv == Types /\ ListOK /\ RunsOK /\ FreedOK /\ ClientOK /\ OfTimers!NoneOverslept

(* TimerQueue counts with the operators of its own instance of FiniteSets. *)
LEMMA SameTimerCounts == \A S : OfTimers!Cardinality(S) = Cardinality(S)
BY DEF OfTimers!IsFiniteSet, IsFiniteSet, OfTimers!Cardinality, Cardinality,
   OfTimers!ExistsBijection, ExistsBijection, OfTimers!Bijection, Bijection, OfTimers!Injection,
   Injection, OfTimers!Surjection, Surjection

(* The invariant says what is checked.                                     *)
LEMMA InvImplies == OfTimers!TimerQueueAssumption /\ TInv => OfTimers!TimersConsistent
<1> SUFFICES ASSUME OfTimers!TimerQueueAssumption, TInv
             PROVE  OfTimers!TimersConsistent
  OBVIOUS
<1> USE DEF TInv
<1>1. OfTimers!TypeOK
  <2>1. case.runs \in Nat
    BY DEF Types, OfTimers!TimerQueueAssumption
  <2> QED BY <2>1 DEF Types, Threadly, Clientele, RunsOK, OfTimers!TypeOK
<1>2. OfTimers!ListSorted
  <2> DEFINE n == Len(timerList)
  <2>1. n \in Nat /\ timerList \in [1 .. n -> Timers] /\ DOMAIN timerList = 1 .. n
    BY LenProperties DEF Types
  <2>2. OfTimers!Range(timerList) = OfTimers!Pending
    BY <2>1 DEF ListOK, Items, OfTimers!Range
  <2>3. Len(timerList) = Cardinality(OfTimers!Pending)
    <3>1. timerList \in Bijection(1 .. n, OfTimers!Pending)
      <4> HIDE DEF n
      <4>1. \A i, j \in 1 .. n : timerList[i] = timerList[j] => i = j
        <5> SUFFICES ASSUME NEW i \in 1 .. n, NEW j \in 1 .. n, i # j
                     PROVE  timerList[i] # timerList[j]
          OBVIOUS
        <5>1. i < j \/ j < i
          BY <2>1
        <5> QED BY <5>1 DEF ListOK, Ordered, n
      <4>2. \A i \in 1 .. n : timerList[i] \in OfTimers!Pending
        BY DEF ListOK, Items, n
      <4>3. \A t \in OfTimers!Pending : \E i \in 1 .. n : timerList[i] = t
        BY DEF ListOK, Items, n
      <4>4. timerList \in [1 .. n -> OfTimers!Pending]
        BY <2>1, <4>2
      <4> QED BY <4>1, <4>3, <4>4 DEF Bijection, Injection, Surjection, IsInjective
    <3> QED BY <2>1, <3>1, FS_CountingElements DEF ExistsBijection
  <2>4. \A i \in 1 .. n - 1 : exp[timerList[i]] <= exp[timerList[i + 1]]
    BY <2>1 DEF ListOK, Ordered
  <2>5. Len(timerList) = OfTimers!Cardinality(OfTimers!Pending)
    BY <2>3, SameTimerCounts
  <2> QED BY <2>2, <2>4, <2>5 DEF ListOK, OfTimers!ListSorted
<1>3. OfTimers!NoneFreedExpires
  BY DEF Types, ListOK, FreedOK, Destroyed, OfTimers!NoneFreedExpires,
     OfTimers!TimerQueueAssumption
<1> QED BY <1>1, <1>2, <1>3 DEF OfTimers!TimersConsistent, OfTimers!CancelIsQuiet, ClientOK, Waits

LEMMA InvInit == OfTimers!TimerQueueAssumption /\ OfTimers!Init => TInv
<1> SUFFICES ASSUME OfTimers!TimerQueueAssumption, OfTimers!Init
             PROVE  TInv
  OBVIOUS
<1> USE DEF OfTimers!Init, OfTimers!Top, OfTimers!Idle
<1>1. Types
  <2>1. thread \in Threadly
    BY DEF Threadly
  <2>2. user \in [Clients -> Clientele]
    BY DEF Clientele
  <2>3. timerList \in Seq(Timers) /\ 0 \in 0 .. MaxClock
    BY EmptySeq DEF OfTimers!TimerQueueAssumption
  <2>4. /\ exp \in [Timers -> Int] /\ curState \in [Timers -> {"limbo", "pending", "active"}]
        /\ pNotify \in [Timers -> BOOLEAN] /\ runs \in [Timers -> Nat]
    OBVIOUS
  <2> QED BY <2>1, <2>2, <2>3, <2>4, Zenon DEF Types
<1>2. ListOK
  BY DEF ListOK, Items, Ordered, OfTimers!Pending
<1>3. RunsOK
  BY DEF RunsOK, OfTimers!TimerQueueAssumption
<1>4. FreedOK /\ ClientOK /\ OfTimers!NoneOverslept
  BY DEF FreedOK, Destroyed, ClientOK, Waits, OfTimers!NoneOverslept
<1> QED BY <1>1, <1>2, <1>3, <1>4 DEF TInv

-----------------------------------------------------------------------------
(* What the operations do to timers and list                               *)

(* A timer that is not active is put where it belongs.                     *)
LEMMA PrivateStart ==
    ASSUME Types, ListOK, NEW t \in Timers, curState[t] # "active", NEW e \in Int,
           HalfQuantum \in Nat, OfTimers!privateStart(t, timerList, e)
    PROVE  /\ timerList' \in Seq(Timers) /\ exp' \in [Timers -> Int]
           /\ rescheduleEvent' \in BOOLEAN
           /\ Items(timerList') = Items(timerList) \cup {t} /\ Ordered(timerList', exp')
           /\ ~rescheduleEvent' => /\ ~rescheduleEvent /\ timerList # <<>>
                                   /\ exp[timerList[1]] <= exp'[timerList'[1]]
<1> DEFINE q == OfTimers!Without(timerList, t)
           p == OfTimers!Place(q, e - HalfQuantum)
<1>1. /\ q \in Seq(Timers) /\ Items(q) = Items(timerList) \ {t} /\ Ordered(q, exp)
  BY WithoutItems DEF Types, ListOK
<1>2. /\ exp' = [exp EXCEPT ![t] = e - HalfQuantum] /\ timerList' = OfTimers!InsertAt(q, p, t)
      /\ rescheduleEvent' = (rescheduleEvent \/ p = 1)
  BY DEF OfTimers!privateStart
<1> DEFINE at == e - HalfQuantum
<1> HIDE DEF q
<1>4. /\ exp \in [Timers -> Int] /\ at \in Int /\ t \notin Items(q)
  BY <1>1 DEF Types
<1> HIDE DEF at
<1>3. Behind(q, exp, at, p)
  <2>1. p = OfTimers!Place(q, at)
    BY DEF at
  <2> HIDE DEF p
  <2> QED BY <1>1, <1>4, <2>1, PlaceBound
<1> HIDE DEF p
<1>5. /\ timerList' \in Seq(Timers) /\ Items(timerList') = Items(q) \cup {t}
      /\ Ordered(timerList', exp')
      /\ p # 1 => q # <<>> /\ timerList'[1] = q[1] /\ q[1] \in Items(q)
  <2>1. exp' = [exp EXCEPT ![t] = at]
    BY <1>2 DEF at
  <2>2. /\ OfTimers!InsertAt(q, p, t) \in Seq(Timers) /\ Items(OfTimers!InsertAt(q, p, t)) = Items(q) \cup {t}
        /\ Ordered(OfTimers!InsertAt(q, p, t), [exp EXCEPT ![t] = at])
        /\ p # 1 => q # <<>> /\ OfTimers!InsertAt(q, p, t)[1] = q[1] /\ q[1] \in Items(q)
    <3>1. /\ q \in Seq(Timers) /\ t \notin Items(q) /\ exp \in [Timers -> Int] /\ at \in Int
          /\ Ordered(q, exp) /\ Behind(q, exp, at, p)
      BY <1>1, <1>3, <1>4
    <3>2. OfTimers!InsertAt(q, p, t) \in Seq(Timers)
      BY <3>1, InsertedItems, Zenon
    <3>3. Items(OfTimers!InsertAt(q, p, t)) = Items(q) \cup {t}
      BY <3>1, InsertedSet DEF Behind
    <3>4. Ordered(OfTimers!InsertAt(q, p, t), [exp EXCEPT ![t] = at])
      BY <3>1, InsertedItems, Zenon
    <3>5. p # 1 => q # <<>> /\ OfTimers!InsertAt(q, p, t)[1] = q[1] /\ q[1] \in Items(q)
      BY <3>1, InsertedItems, Zenon
    <3> QED BY <3>2, <3>3, <3>4, <3>5
  <2> QED BY <1>2, <2>1, <2>2
<1>6. ASSUME p # 1
      PROVE  timerList # <<>> /\ exp[timerList[1]] <= exp'[timerList'[1]]
  <2>1. q[1] \in Items(timerList) /\ q[1] # t /\ q[1] \in Timers
    BY <1>1, <1>5, <1>6, FirstIsLeast, <1>4
  <2>2. timerList # <<>> /\ exp[timerList[1]] <= exp[q[1]]
    BY <1>4, <2>1, FirstIsLeast DEF Types, ListOK
  <2>3. exp'[timerList'[1]] = exp[q[1]]
    BY <1>2, <1>4, <1>5, <1>6, <2>1
  <2> QED BY <2>2, <2>3
<1>7. rescheduleEvent' \in BOOLEAN /\ (~rescheduleEvent' => ~rescheduleEvent /\ p # 1)
  BY <1>2, Zenon
<1>8. /\ exp' \in [Timers -> Int] /\ Items(timerList') = Items(timerList) \cup {t}
  BY <1>1, <1>2, <1>4, <1>5 DEF at
<1> QED BY <1>5, <1>6, <1>7, <1>8, Zenon

(* start() keeps the invariant, of a timer that may be used.               *)
LEMMA StartKeeps ==
    ASSUME OfTimers!TimerQueueAssumption, TInv, NEW t \in OfTimers!Usable, NEW e \in Int, runs[t] < case.runs,
           OfTimers!start(t, e), UNCHANGED <<case, clock, OfTimers!flagVars, thread, runs, destroyed, user>>
    PROVE  TInv'
<1> USE DEF OfTimers!start, OfTimers!queueVars, OfTimers!flagVars
<1>1. t \in Timers /\ ~Destroyed(t)
  BY DEF OfTimers!Usable, Destroyed
<1>2. /\ Types /\ ListOK /\ RunsOK /\ HalfQuantum \in Nat
  BY DEF TInv, OfTimers!TimerQueueAssumption
<1>3. FreedOK' /\ ClientOK'
  <2>1. \A u \in Timers : Destroyed(u)' => u # t /\ Destroyed(u)
    BY <1>1 DEF Destroyed
  <2>2. \A u \in Timers : u # t => curState'[u] = curState[u]
    BY <1>2 DEF Types
  <2> QED BY <2>1, <2>2 DEF TInv, FreedOK, ClientOK, Waits
<1>4. CASE curState[t] = "active"
  <2>1. /\ exp' = [exp EXCEPT ![t] = e - HalfQuantum]
        /\ UNCHANGED <<curState, timerList, rescheduleEvent>>
    BY <1>4
  <2>2. Types'
    BY <1>1, <1>2, <2>1 DEF Types
  <2>3. \A i \in 1 .. Len(timerList) :
           /\ timerList[i] \in Timers /\ timerList[i] # t
           /\ exp'[timerList[i]] = exp[timerList[i]]
    <3>1. \A i \in 1 .. Len(timerList) : timerList[i] \in OfTimers!Pending
      BY <1>2 DEF ListOK, Items
    <3> QED BY <1>2, <1>4, <2>1, <3>1 DEF OfTimers!Pending, Types
  <2>4. ListOK'
    <3>1. Ordered(timerList', exp')
      BY <1>2, <2>1, <2>3 DEF ListOK, Ordered
    <3> QED BY <1>2, <2>1, <3>1 DEF ListOK, OfTimers!Pending, Items
  <2>5. RunsOK'
    BY <1>1, <1>2, <2>1 DEF RunsOK, Types
  <2>6. OfTimers!NoneOverslept'
    <3>1. timerList # <<>> => 1 \in 1 .. Len(timerList)
      BY <1>2, LenProperties, EmptySeq DEF Types
    <3> QED BY <2>1, <2>3, <3>1 DEF TInv, OfTimers!NoneOverslept
  <2> QED BY <1>3, <2>2, <2>4, <2>5, <2>6 DEF TInv
<1>5. CASE curState[t] # "active"
  <2>1. /\ curState' = [curState EXCEPT ![t] = "pending"] /\ OfTimers!privateStart(t, timerList, e)
    BY <1>5
  <2>2. /\ timerList' \in Seq(Timers) /\ exp' \in [Timers -> Int]
        /\ rescheduleEvent' \in BOOLEAN
        /\ Items(timerList') = Items(timerList) \cup {t} /\ Ordered(timerList', exp')
        /\ ~rescheduleEvent' => /\ ~rescheduleEvent /\ timerList # <<>>
                                /\ exp[timerList[1]] <= exp'[timerList'[1]]
    BY <1>1, <1>2, <1>5, <2>1, PrivateStart
  <2>3. Types'
    BY <1>1, <1>2, <2>1, <2>2 DEF Types
  <2>4. ListOK'
    <3>1. OfTimers!Pending' = OfTimers!Pending \cup {t}
      BY <1>1, <1>2, <2>1 DEF OfTimers!Pending, Types
    <3>2. {u \in Timers : curState'[u] = "active"} = {u \in Timers : curState[u] = "active"}
      BY <1>1, <1>2, <1>5, <2>1 DEF Types
    <3> QED BY <1>2, <2>2, <3>1, <3>2 DEF ListOK
  <2>5. RunsOK'
    BY <1>1, <1>2, <2>1 DEF RunsOK, Types
  <2>6. OfTimers!NoneOverslept'
    <3> SUFFICES ASSUME thread.pc \in {"sleep", "asleep"}, ~rescheduleEvent'
                 PROVE  thread.now + thread.delay <= exp'[timerList'[1]]
      BY DEF OfTimers!NoneOverslept
    <3>1. /\ thread.now + thread.delay <= exp[timerList[1]]
          /\ exp[timerList[1]] <= exp'[timerList'[1]]
      BY <2>2 DEF TInv, OfTimers!NoneOverslept
    <3>2. thread.now + thread.delay \in Int
      BY <1>2 DEF Types, Threadly
    <3>3. exp[timerList[1]] \in Int
      <4>1. timerList[1] \in Timers
        BY <1>2, <2>2, LenProperties, EmptySeq, ElementOfSeq DEF Types
      <4> QED BY <1>2, <4>1 DEF Types
    <3>4. exp'[timerList'[1]] \in Int
      <4>1. timerList'[1] \in Timers
        <5>1. t \in Items(timerList')
          BY <2>2
        <5> QED BY <2>2, <5>1, FirstIsLeast
      <4> QED BY <2>2, <4>1
    <3> QED BY <3>1, <3>2, <3>3, <3>4
  <2> QED BY <1>3, <2>3, <2>4, <2>5, <2>6 DEF TInv
<1> QED BY <1>4, <1>5

(* cancel() keeps what the list and its thread know, of a timer that may be *)
(* used; and the one that expires it tells.                                *)
LEMMA CancelKeeps ==
    ASSUME OfTimers!TimerQueueAssumption, TInv, NEW t \in Timers, OfTimers!cancel(t), destroyed' \subseteq Timers,
           user' \in [Clients -> Clientele], UNCHANGED <<case, clock, OfTimers!flagVars, thread, runs>>
    PROVE  /\ Types' /\ ListOK' /\ RunsOK' /\ OfTimers!NoneOverslept'
           /\ curState' = [curState EXCEPT ![t] = "limbo"]
           /\ cancelPending' = (cancelPending \/ curState[t] = "active")
           /\ curState[t] = "active" => pExpireTmr = t
           /\ UNCHANGED <<pExpireTmr, runs>>
<1> USE DEF OfTimers!flagVars
<1>1. /\ Types /\ ListOK /\ RunsOK /\ OfTimers!NoneOverslept
      /\ curState' = [curState EXCEPT ![t] = "limbo"] /\ pNotify' = [pNotify EXCEPT ![t] = FALSE]
      /\ timerList' = OfTimers!Without(timerList, t)
      /\ cancelPending' = (cancelPending \/ curState[t] = "active")
      /\ UNCHANGED <<exp, pExpireTmr, cancelBlockingEvent, rescheduleEvent>>
  BY DEF TInv, OfTimers!cancel
<1>2. /\ timerList' \in Seq(Timers) /\ Items(timerList') = Items(timerList) \ {t}
      /\ Ordered(timerList', exp)
  BY <1>1, WithoutItems DEF Types, ListOK
<1>3. Types'
  <2>1. cancelPending' \in BOOLEAN
    BY <1>1, Zenon DEF Types
  <2>2. /\ curState' \in [Timers -> {"limbo", "pending", "active"}]
        /\ pNotify' \in [Timers -> BOOLEAN]
    BY <1>1 DEF Types
  <2> QED BY <1>1, <1>2, <2>1, <2>2 DEF Types
<1>4. curState[t] = "active" => pExpireTmr = t /\ ~cancelPending
  BY <1>1 DEF Types, ListOK
<1>5. ListOK'
  <2>1. OfTimers!Pending' = OfTimers!Pending \ {t}
    BY <1>1 DEF OfTimers!Pending, Types
  <2>2. {u \in Timers : curState'[u] = "active"} = {u \in Timers : curState[u] = "active"} \ {t}
    BY <1>1 DEF Types
  <2>3. {u \in Timers : curState'[u] = "active"} =
            IF cancelPending' THEN {} ELSE {pExpireTmr'} \ {OfTimers!None}
    <3>1. CASE curState[t] = "active"
      BY <1>1, <1>4, <2>2, <3>1 DEF ListOK
    <3>2. CASE curState[t] # "active"
      BY <1>1, <2>2, <3>2 DEF ListOK
    <3> QED BY <3>1, <3>2
  <2>4. pExpireTmr' = OfTimers!None => ~cancelPending'
    <3>1. OfTimers!None \notin Timers
      BY DEF OfTimers!TimerQueueAssumption
    <3> QED BY <1>1, <1>4, <3>1 DEF ListOK
  <2> QED BY <1>1, <1>2, <2>1, <2>3, <2>4 DEF ListOK
<1>6. RunsOK'
  BY <1>1 DEF RunsOK, Types
<1>7. OfTimers!NoneOverslept'
  <2> SUFFICES ASSUME thread.pc \in {"sleep", "asleep"}, ~rescheduleEvent, timerList' # <<>>
               PROVE  thread.now + thread.delay <= exp[timerList'[1]]
    BY <1>1 DEF OfTimers!NoneOverslept
  <2>1. timerList'[1] \in Items(timerList') /\ timerList'[1] \in Timers
    <3>1. 1 \in 1 .. Len(timerList')
      BY <1>2, LenProperties, EmptySeq
    <3> QED BY <1>2, <3>1, ElementOfSeq DEF Items
  <2>2. timerList'[1] \in Items(timerList)
    BY <1>2, <2>1
  <2>3. /\ timerList # <<>> /\ timerList[1] \in Timers
        /\ exp[timerList[1]] <= exp[timerList'[1]]
    BY <1>1, <2>2, FirstIsLeast DEF Types, ListOK
  <2>4. thread.now + thread.delay <= exp[timerList[1]]
    BY <1>1, <2>3 DEF OfTimers!NoneOverslept
  <2>5. /\ thread.now + thread.delay \in Int /\ exp[timerList[1]] \in Int
        /\ exp[timerList'[1]] \in Int
    BY <1>1, <2>1, <2>3, SMTT(60), ZenonT(60) DEF Types, Threadly
  <2> QED BY <2>3, <2>4, <2>5
<1> QED BY <1>1, <1>3, <1>4, <1>5, <1>6, <1>7

(* process() takes the first timer if it is due, else sleeps no longer than *)
(* until it is.                                                            *)
LEMMA TakeDueMakes ==
    ASSUME NEW list \in Seq(Timers), NEW e \in [Timers -> Int], Ordered(list, e),
           NEW states, NEW notifies, thread.now \in Int, MaxClock \in Nat,
           OfTimers!TakeDue(list, e, states, notifies)
    PROVE  /\ exp' = e /\ timerList' \in Seq(Timers) /\ Ordered(timerList', e)
           /\ \/ \E t \in Items(list) \cap Timers :
                    /\ Items(timerList') = Items(list) \ {t} /\ pExpireTmr' = t
                    /\ curState' = [states EXCEPT ![t] = "active"]
                    /\ pNotify' = [notifies EXCEPT ![t] = FALSE]
                    /\ runs' = [runs EXCEPT ![t] = @ + 1]
                    /\ thread' = [thread EXCEPT !.pc = "expire"]
              \/ /\ timerList' = list /\ pExpireTmr' = OfTimers!None /\ curState' = states
                 /\ pNotify' = notifies /\ runs' = runs
                 /\ \E delay \in Int : /\ thread' = [thread EXCEPT !.pc = "sleep", !.delay = delay]
                                       /\ list # <<>> => thread.now + delay <= e[list[1]]
<1>1. CASE list # <<>> /\ thread.now >= e[Head(list)]
  <2> DEFINE t == Head(list)
  <2>1. /\ Tail(list) \in Seq(Timers) /\ t \in Items(list) /\ t \in Timers
        /\ Items(Tail(list)) = Items(list) \ {t} /\ Ordered(Tail(list), e)
    BY <1>1, TailItems
  <2>2. /\ exp' = e /\ timerList' = Tail(list) /\ pExpireTmr' = t
        /\ curState' = [states EXCEPT ![t] = "active"]
        /\ pNotify' = [notifies EXCEPT ![t] = FALSE]
        /\ runs' = [runs EXCEPT ![t] = @ + 1]
        /\ thread' = [thread EXCEPT !.pc = "expire"]
    BY <1>1 DEF OfTimers!TakeDue
  <2> HIDE DEF t
  <2> QED BY <2>1, <2>2
<1>2. CASE ~(list # <<>> /\ thread.now >= e[Head(list)])
  <2> DEFINE delay == IF list = <<>> THEN OfTimers!Never ELSE e[Head(list)] - thread.now
  <2>1. /\ exp' = e /\ timerList' = list /\ pExpireTmr' = OfTimers!None /\ curState' = states
        /\ pNotify' = notifies /\ runs' = runs
        /\ thread' = [thread EXCEPT !.pc = "sleep", !.delay = delay]
    BY <1>2 DEF OfTimers!TakeDue
  <2>2. delay \in Int /\ (list # <<>> => thread.now + delay <= e[list[1]])
    <3>1. CASE list = <<>>
      BY <3>1 DEF OfTimers!Never
    <3>2. CASE list # <<>>
      <4>1. Head(list) = list[1] /\ list[1] \in Timers
        BY <3>2, TailItems
      <4> QED BY <3>2, <4>1
    <3> QED BY <3>1, <3>2
  <2> HIDE DEF delay
  <2> QED BY <2>1, <2>2
<1> QED BY <1>1, <1>2

(* ... and whatever it takes, the invariant holds again.                   *)
LEMMA TakeDueKeeps ==
    ASSUME OfTimers!TimerQueueAssumption, Types, FreedOK, ClientOK,
           NEW list \in Seq(Timers), NEW e \in [Timers -> Int], Ordered(list, e),
           NEW states \in [Timers -> {"limbo", "pending", "active"}],
           NEW notifies \in [Timers -> BOOLEAN],
           Items(list) = {t \in Timers : states[t] = "pending"},
           \A t \in Timers : /\ states[t] # "active" /\ (Destroyed(t) => states[t] = "limbo")
                             /\ runs[t] <= case.runs
                             /\ states[t] = "pending" => notifies[t]
                             /\ notifies[t] => runs[t] < case.runs,
           OfTimers!TakeDue(list, e, states, notifies),
           ~cancelPending', cancelBlockingEvent' \in BOOLEAN, rescheduleEvent' \in BOOLEAN,
           cancelPending' \in BOOLEAN,
           UNCHANGED <<case, clock, destroyed, user, OfTimers!flagVars>>
    PROVE  TInv'
<1> USE DEF OfTimers!flagVars
<1>0. /\ OfTimers!None \notin Timers /\ MaxClock \in Nat /\ thread.now \in Int /\ case.runs \in Nat
      /\ thread \in Threadly
  BY DEF OfTimers!TimerQueueAssumption, Types, Threadly
<1>1. exp' = e /\ timerList' \in Seq(Timers) /\ Ordered(timerList', e)
  BY <1>0, TakeDueMakes
<1>2. \A u \in Timers : Destroyed(u)' = Destroyed(u)
  BY DEF Destroyed
<1>3. CASE \E t \in Items(list) \cap Timers :
              /\ Items(timerList') = Items(list) \ {t} /\ pExpireTmr' = t
              /\ curState' = [states EXCEPT ![t] = "active"]
              /\ pNotify' = [notifies EXCEPT ![t] = FALSE]
              /\ runs' = [runs EXCEPT ![t] = @ + 1]
              /\ thread' = [thread EXCEPT !.pc = "expire"]
  <2>1. PICK t \in Items(list) \cap Timers :
              /\ Items(timerList') = Items(list) \ {t} /\ pExpireTmr' = t
              /\ curState' = [states EXCEPT ![t] = "active"]
              /\ pNotify' = [notifies EXCEPT ![t] = FALSE]
              /\ runs' = [runs EXCEPT ![t] = @ + 1]
              /\ thread' = [thread EXCEPT !.pc = "expire"]
    BY <1>3
  <2>2. t \in Timers /\ states[t] = "pending" /\ t # OfTimers!None
    BY <1>0
  <2>3. thread' \in Threadly /\ thread'.pc = "expire"
    BY <1>0, <2>1 DEF Threadly
  <2>4. /\ runs' \in [Timers -> Nat] /\ pNotify' \in [Timers -> BOOLEAN]
        /\ curState' \in [Timers -> {"limbo", "pending", "active"}]
    BY <2>1, <2>2 DEF Types
  <2>5. Types'
    BY <1>1, <2>1, <2>2, <2>3, <2>4 DEF Types
  <2>6. ListOK'
    <3>1. OfTimers!Pending' = Items(list) \ {t}
      BY <2>1, <2>2 DEF OfTimers!Pending
    <3>2. {u \in Timers : curState'[u] = "active"} = {t}
      BY <2>1, <2>2
    <3>3. {t} = {pExpireTmr'} \ {OfTimers!None}
      BY <2>1, <2>2
    <3> QED BY <1>1, <2>1, <2>2, <2>3, <3>1, <3>2, <3>3 DEF ListOK
  <2>7. RunsOK'
    BY <1>0, <2>1, <2>2 DEF RunsOK, Types
  <2>8. FreedOK'
    BY <1>2, <2>1, <2>2 DEF FreedOK
  <2>9. ClientOK'
    <3>1. ASSUME NEW c \in Clients, Waits(c)
          PROVE  /\ user[c].run <= runs'[user[c].timer]
                 /\ ~(pExpireTmr' = user[c].timer /\ runs'[pExpireTmr'] = user[c].run)
      <4>1. /\ user[c].timer \in Timers /\ user[c].run <= runs[user[c].timer]
            /\ user[c].run \in Nat /\ runs \in [Timers -> Nat]
        BY <3>1 DEF ClientOK, Types, Clientele
      <4>2. CASE user[c].timer = t
        BY <2>1, <2>2, <4>1, <4>2
      <4>3. CASE user[c].timer # t
        BY <2>1, <2>2, <4>1, <4>3
      <4> QED BY <4>2, <4>3
    <3> QED BY <3>1 DEF ClientOK, Waits
  <2>10. OfTimers!NoneOverslept'
    BY <2>3 DEF OfTimers!NoneOverslept
  <2> QED BY <2>5, <2>6, <2>7, <2>8, <2>9, <2>10 DEF TInv
<1>4. CASE /\ timerList' = list /\ pExpireTmr' = OfTimers!None /\ curState' = states
           /\ pNotify' = notifies /\ runs' = runs
           /\ \E delay \in Int : /\ thread' = [thread EXCEPT !.pc = "sleep", !.delay = delay]
                                 /\ list # <<>> => thread.now + delay <= e[list[1]]
  <2>1. PICK delay \in Int : /\ thread' = [thread EXCEPT !.pc = "sleep", !.delay = delay]
                             /\ list # <<>> => thread.now + delay <= e[list[1]]
    BY <1>4
  <2>2. /\ thread' \in Threadly /\ thread'.pc = "sleep" /\ thread'.now = thread.now
        /\ thread'.delay = delay
    BY <1>0, <2>1 DEF Threadly
  <2>3. Types'
    BY <1>1, <1>4, <2>2 DEF Types
  <2>4. ListOK'
    <3>1. OfTimers!Pending' = Items(list)
      BY <1>4 DEF OfTimers!Pending
    <3>2. {u \in Timers : curState'[u] = "active"} = {}
      BY <1>4
    <3> QED BY <1>1, <1>4, <2>2, <3>1, <3>2 DEF ListOK
  <2>5. RunsOK'
    BY <1>4 DEF RunsOK
  <2>6. FreedOK'
    BY <1>2, <1>4 DEF FreedOK
  <2>7. ClientOK'
    <3>1. \A c \in Clients : Waits(c) => user[c].timer # OfTimers!None
      BY <1>0 DEF ClientOK
    <3> QED BY <1>4, <3>1 DEF ClientOK, Waits
  <2>8. OfTimers!NoneOverslept'
    BY <1>1, <1>4, <2>1, <2>2 DEF OfTimers!NoneOverslept
  <2> QED BY <2>3, <2>4, <2>5, <2>6, <2>7, <2>8 DEF TInv
<1> QED
  <2>1. \/ \E t \in Items(list) \cap Timers :
              /\ Items(timerList') = Items(list) \ {t} /\ pExpireTmr' = t
              /\ curState' = [states EXCEPT ![t] = "active"]
              /\ pNotify' = [notifies EXCEPT ![t] = FALSE]
              /\ runs' = [runs EXCEPT ![t] = @ + 1]
              /\ thread' = [thread EXCEPT !.pc = "expire"]
        \/ /\ timerList' = list /\ pExpireTmr' = OfTimers!None /\ curState' = states
           /\ pNotify' = notifies /\ runs' = runs
           /\ \E delay \in Int : /\ thread' = [thread EXCEPT !.pc = "sleep", !.delay = delay]
                                 /\ list # <<>> => thread.now + delay <= e[list[1]]
    BY <1>0, TakeDueMakes
  <2> QED BY <1>3, <1>4, <2>1, Zenon

-----------------------------------------------------------------------------
(* The steps of the queue's thread                                         *)

LEMMA ProcessBeginStep == ASSUME OfTimers!TimerQueueAssumption, TInv, OfTimers!ProcessBegin PROVE TInv'
<1>1. /\ Types /\ ListOK /\ RunsOK /\ FreedOK /\ ClientOK
      /\ OfTimers!TakeDue(timerList, exp, curState, pNotify)
      /\ UNCHANGED <<case, clock, destroyed, user, OfTimers!flagVars>>
      /\ UNCHANGED <<cancelPending, cancelBlockingEvent, rescheduleEvent>>
      /\ thread.pc = "process"
  BY DEF TInv, OfTimers!ProcessBegin, OfTimers!threadElse
<1>2. ~cancelPending /\ {t \in Timers : curState[t] = "active"} = {}
  BY <1>1 DEF ListOK
<1>3. \A t \in Timers : /\ curState[t] # "active" /\ (Destroyed(t) => curState[t] = "limbo")
                        /\ runs[t] <= case.runs
                        /\ curState[t] = "pending" => pNotify[t]
                        /\ pNotify[t] => runs[t] < case.runs
  BY <1>1, <1>2 DEF FreedOK, RunsOK
<1>4. /\ timerList \in Seq(Timers) /\ exp \in [Timers -> Int] /\ Ordered(timerList, exp)
      /\ curState \in [Timers -> {"limbo", "pending", "active"}]
      /\ pNotify \in [Timers -> BOOLEAN]
      /\ Items(timerList) = {t \in Timers : curState[t] = "pending"}
      /\ ~cancelPending' /\ cancelBlockingEvent' \in BOOLEAN /\ rescheduleEvent' \in BOOLEAN
      /\ cancelPending' \in BOOLEAN
  BY <1>1, <1>2 DEF Types, ListOK, OfTimers!Pending
<1> QED BY <1>1, <1>3, <1>4, TakeDueKeeps

\* What a step of the queue's thread, or of a client, that uses no timer leaves alone.
SameTimers == UNCHANGED <<case, OfTimers!timerVars, destroyed, pExpireTmr, cancelPending, runs>>

(* A step that only moves the queue's thread, where no timer expires.      *)
LEMMA ThreadMoves ==
    ASSUME TInv, SameTimers, user' = user, clock' \in 0 .. MaxClock,
           thread' \in Threadly, thread.pc = "expire" <=> thread'.pc = "expire",
           cancelBlockingEvent' \in BOOLEAN, rescheduleEvent' \in BOOLEAN,
           terminateFlag' \in BOOLEAN, exitFlag' \in BOOLEAN,
           OfTimers!NoneOverslept'
    PROVE  TInv'
<1> USE DEF TInv, SameTimers, OfTimers!timerVars
<1>1. Types'
  BY DEF Types
<1>2. ListOK'
  BY DEF ListOK, OfTimers!Pending
<1>3. RunsOK' /\ FreedOK' /\ ClientOK'
  BY DEF RunsOK, FreedOK, Destroyed, ClientOK, Waits
<1> QED BY <1>1, <1>2, <1>3

LEMMA ThreadSteps ==
    ASSUME OfTimers!TimerQueueAssumption, TInv,
           OfTimers!Create \/ OfTimers!Tick \/ OfTimers!ThreadTop \/ OfTimers!ThreadSleep \/ OfTimers!ThreadWake
    PROVE  TInv'
<1> USE DEF OfTimers!threadElse, OfTimers!flagVars, OfTimers!queueVars
<1>0. MaxClock \in Nat /\ Types /\ clock \in Int
  BY DEF OfTimers!TimerQueueAssumption, TInv, Types
<1>1. CASE OfTimers!Create
  <2>1. thread' \in Threadly /\ thread.pc # "expire" /\ thread'.pc = "top"
    BY <1>1 DEF OfTimers!Create, OfTimers!Top, Threadly
  <2>2. OfTimers!NoneOverslept'
    BY <2>1 DEF OfTimers!NoneOverslept
  <2> QED BY <1>0, <1>1, <2>1, <2>2, ThreadMoves DEF OfTimers!Create, SameTimers, Types
<1>2. CASE OfTimers!Tick
  <2>1. clock' \in 0 .. MaxClock
    BY <1>0, <1>2 DEF OfTimers!Tick, Types
  <2>2. OfTimers!NoneOverslept'
    BY <1>2 DEF OfTimers!Tick, TInv, OfTimers!NoneOverslept, OfTimers!timerVars
  <2> QED BY <1>0, <1>2, <2>1, <2>2, ThreadMoves DEF OfTimers!Tick, SameTimers, Types
<1>3. CASE OfTimers!ThreadTop
  <2>1. thread' \in Threadly /\ thread'.pc \in {"exited", "process"} /\ thread.pc = "top"
    BY <1>0, <1>3 DEF OfTimers!ThreadTop, Threadly, Types
  <2>2. OfTimers!NoneOverslept'
    BY <2>1 DEF OfTimers!NoneOverslept
  <2> QED BY <1>0, <1>3, <2>1, <2>2, ThreadMoves DEF OfTimers!ThreadTop, SameTimers, Types
<1>4. CASE OfTimers!ThreadSleep
  <2>0. thread \in Threadly /\ thread.pc = "sleep"
    BY <1>0, <1>4 DEF OfTimers!ThreadSleep, Types
  <2> DEFINE until == IF thread.delay = OfTimers!Never THEN OfTimers!Never ELSE clock + thread.delay
  <2>a. until \in Int
    BY <1>0, <2>0 DEF OfTimers!Never, Threadly
  <2>b. thread' = [thread EXCEPT !.pc = "asleep", !.until = until]
    BY <1>4 DEF OfTimers!ThreadSleep
  <2> HIDE DEF until
  <2>1. /\ thread' \in Threadly /\ thread'.pc = "asleep" /\ thread.pc = "sleep"
        /\ thread'.now = thread.now /\ thread'.delay = thread.delay
    BY <2>0, <2>a, <2>b DEF Threadly
  <2>2. OfTimers!NoneOverslept'
    BY <1>4, <2>1 DEF OfTimers!ThreadSleep, TInv, OfTimers!NoneOverslept, OfTimers!timerVars
  <2> QED BY <1>0, <1>4, <2>1, <2>2, ThreadMoves DEF OfTimers!ThreadSleep, SameTimers, Types
<1>5. CASE OfTimers!ThreadWake
  <2>1. thread' \in Threadly /\ thread'.pc = "top" /\ thread.pc = "asleep"
    BY <1>5 DEF OfTimers!ThreadWake, OfTimers!Top, Threadly
  <2>2. OfTimers!NoneOverslept'
    BY <2>1 DEF OfTimers!NoneOverslept
  <2> QED BY <1>0, <1>5, <2>1, <2>2, ThreadMoves DEF OfTimers!ThreadWake, SameTimers, Types
<1> QED BY <1>1, <1>2, <1>3, <1>4, <1>5

(* expire() returns: the timer waits again, or not.                        *)
LEMMA ProcessAfterStep ==
    ASSUME OfTimers!TimerQueueAssumption, TInv, NEW d \in case.delays \cup {OfTimers!Never}, OfTimers!ProcessAfter(d)
    PROVE  TInv'
<1> DEFINE t == pExpireTmr
<1>1. /\ Types /\ ListOK /\ RunsOK /\ FreedOK /\ ClientOK /\ thread.pc = "expire"
      /\ UNCHANGED <<case, clock, destroyed, user, OfTimers!flagVars>>
      /\ cancelPending' = FALSE /\ OfTimers!TellCancel
      /\ d = OfTimers!Never \/ runs[t] < case.runs
  BY DEF TInv, OfTimers!ProcessAfter, OfTimers!threadElse
<1>2. /\ t \in Timers /\ t # OfTimers!None /\ d \in Int /\ HalfQuantum \in Nat
      /\ thread.now \in Int
  <2>1. d \in Int
    <3>1. CASE d = OfTimers!Never
      BY <3>1 DEF OfTimers!Never, OfTimers!TimerQueueAssumption
    <3>2. CASE d \in case.delays
      BY <1>1, <3>2 DEF Types, OfTimers!TimerQueueAssumption
    <3> QED BY <3>1, <3>2
  <2> QED BY <1>1, <2>1 DEF Types, ListOK, Threadly, OfTimers!TimerQueueAssumption
<1>3. /\ timerList \in Seq(Timers) /\ exp \in [Timers -> Int] /\ Ordered(timerList, exp)
      /\ curState \in [Timers -> {"limbo", "pending", "active"}]
      /\ pNotify \in [Timers -> BOOLEAN]
      /\ Items(timerList) = {u \in Timers : curState[u] = "pending"}
      /\ {u \in Timers : curState[u] = "active"} = IF cancelPending THEN {} ELSE {t}
  BY <1>1, <1>2 DEF Types, ListOK, OfTimers!Pending
<1>4. cancelBlockingEvent' \in BOOLEAN /\ cancelPending' \in BOOLEAN /\ ~cancelPending'
  BY <1>1, Zenon DEF Types, OfTimers!TellCancel
<1>5. CASE OfTimers!Restarts(d)
  <2> DEFINE again == IF pNotify[t] THEN exp[t] ELSE thread.now + d
             e == again - HalfQuantum
             at == OfTimers!Place(timerList, e)
             list == OfTimers!InsertAt(timerList, at, t)
             f == [exp EXCEPT ![t] = e]
             states == [curState EXCEPT ![t] = "pending"]
             notifies == [pNotify EXCEPT ![t] = TRUE]
  <2>1. /\ rescheduleEvent' = (rescheduleEvent \/ at = 1)
        /\ OfTimers!TakeDue(list, f, states, notifies)
    BY <1>5 DEF OfTimers!ProcessAfter
  <2>2. ~cancelPending /\ (pNotify[t] \/ d # OfTimers!Never)
    BY <1>5 DEF OfTimers!Restarts
  <2>3. curState[t] = "active" /\ t \notin Items(timerList)
    BY <1>2, <1>3, <2>2
  <2>4. e \in Int
    BY <1>2, <1>3
  <2>5. Behind(timerList, exp, e, at)
    <3> HIDE DEF e
    <3> QED BY <1>3, <2>4, PlaceBound
  <2>6. runs[t] < case.runs
    BY <1>1, <1>2, <2>2 DEF RunsOK
  <2>7. rescheduleEvent' \in BOOLEAN
    BY <1>1, <2>1, Zenon DEF Types
  <2>8. states \in [Timers -> {"limbo", "pending", "active"}] /\ notifies \in [Timers -> BOOLEAN]
    BY <1>3
  <2>9. \A u \in Timers : /\ states[u] # "active" /\ (Destroyed(u) => states[u] = "limbo")
                          /\ runs[u] <= case.runs
                          /\ states[u] = "pending" => notifies[u]
                          /\ notifies[u] => runs[u] < case.runs
    <3>1. \A u \in Timers : curState[u] = "active" => u = t
      BY <1>3, <2>2
    <3> QED BY <1>1, <1>2, <1>3, <2>3, <2>6, <3>1 DEF RunsOK, FreedOK
  <2>10. {u \in Timers : states[u] = "pending"} = Items(timerList) \cup {t}
    BY <1>2, <1>3
  <2> HIDE DEF e, at
  <2>11. f \in [Timers -> Int]
    BY <1>3, <2>4
  <2>12. /\ list \in Seq(Timers) /\ Ordered(list, f)
    BY <1>2, <1>3, <2>3, <2>4, <2>5, InsertedItems, Zenon
  <2>13. Items(list) = {u \in Timers : states[u] = "pending"}
    BY <1>2, <1>3, <2>5, <2>10, InsertedSet DEF Behind
  <2> HIDE DEF list, f, states, notifies
  <2> QED BY <1>1, <1>4, <2>1, <2>7, <2>8, <2>9, <2>11, <2>12, <2>13, TakeDueKeeps
<1>6. CASE ~OfTimers!Restarts(d)
  <2> DEFINE states == [curState EXCEPT ![t] = IF cancelPending THEN @ ELSE "limbo"]
  <2>1. rescheduleEvent' = rescheduleEvent /\ OfTimers!TakeDue(timerList, exp, states, pNotify)
    BY <1>6 DEF OfTimers!ProcessAfter
  <2>2. states \in [Timers -> {"limbo", "pending", "active"}]
    BY <1>3
  <2>3. \A u \in Timers : /\ states[u] # "active"
                          /\ states[u] = "pending" <=> curState[u] = "pending"
                          /\ curState[u] = "limbo" => states[u] = "limbo"
    BY <1>2, <1>3
  <2>4. \A u \in Timers : /\ states[u] # "active" /\ (Destroyed(u) => states[u] = "limbo")
                          /\ runs[u] <= case.runs
                          /\ states[u] = "pending" => pNotify[u]
                          /\ pNotify[u] => runs[u] < case.runs
    BY <1>1, <2>3 DEF RunsOK, FreedOK
  <2>5. Items(timerList) = {u \in Timers : states[u] = "pending"}
    BY <1>3, <2>3
  <2>6. rescheduleEvent' \in BOOLEAN
    BY <1>1, <2>1 DEF Types
  <2> HIDE DEF states
  <2> QED BY <1>1, <1>3, <1>4, <2>1, <2>2, <2>4, <2>5, <2>6, TakeDueKeeps
<1> QED BY <1>5, <1>6

(* expire() calls start(), cancel() and destroy().                         *)
LEMMA ExpireCallsStep == ASSUME OfTimers!TimerQueueAssumption, TInv, OfTimers!ExpireCalls PROVE TInv'
<1>1. PICK t \in OfTimers!Usable :
          /\ \/ /\ runs[t] < case.runs /\ \E d \in case.delays : OfTimers!start(t, clock + d)
                /\ UNCHANGED destroyed
             \/ OfTimers!cancel(t) /\ UNCHANGED destroyed
             \/ /\ \A c \in Clients : user[c].timer # t
                /\ OfTimers!cancel(t) /\ destroyed' = destroyed \cup {t}
          /\ UNCHANGED <<case, clock, user, OfTimers!flagVars, thread, runs>>
  BY DEF OfTimers!ExpireCalls
<1>2. t \in Timers /\ ~Destroyed(t)
  BY DEF OfTimers!Usable, Destroyed
<1>3. CASE runs[t] < case.runs /\ (\E d \in case.delays : OfTimers!start(t, clock + d)) /\ UNCHANGED destroyed
  <2>1. PICK d \in case.delays : OfTimers!start(t, clock + d)
    BY <1>3
  <2>2. clock + d \in Int
    BY DEF TInv, Types, OfTimers!TimerQueueAssumption
  <2> QED BY <1>1, <1>3, <2>1, <2>2, StartKeeps
<1>4. CASE /\ OfTimers!cancel(t)
           /\ destroyed' = destroyed \/ (destroyed' = destroyed \cup {t} /\ \A c \in Clients : user[c].timer # t)
  <2>1. /\ Types /\ FreedOK /\ ClientOK /\ destroyed' \subseteq Timers
        /\ user' \in [Clients -> Clientele] /\ user' = user
    BY <1>1, <1>2, <1>4 DEF TInv, Types
  <2>2. /\ Types' /\ ListOK' /\ RunsOK' /\ OfTimers!NoneOverslept'
        /\ curState' = [curState EXCEPT ![t] = "limbo"]
        /\ cancelPending' = (cancelPending \/ curState[t] = "active")
        /\ UNCHANGED <<pExpireTmr, runs>>
    BY <1>1, <1>2, <1>4, <2>1, CancelKeeps
  <2>3. FreedOK'
    <3>1. \A u \in Timers : Destroyed(u)' => Destroyed(u) \/ u = t
      BY <1>4, <2>1 DEF Destroyed
    <3> QED BY <1>2, <2>1, <2>2, <3>1 DEF FreedOK, Types
  <2>4. ClientOK'
    BY <2>1, <2>2 DEF ClientOK, Waits
  <2> QED BY <2>2, <2>3, <2>4 DEF TInv
<1> QED BY <1>1, <1>3, <1>4

-----------------------------------------------------------------------------
(* The steps of those who use the queue                                    *)

LEMMA TimerStartStep ==
    ASSUME OfTimers!TimerQueueAssumption, TInv, NEW c \in Clients, OfTimers!Start(c)
    PROVE  TInv'
<1>1. PICK t \in OfTimers!Usable, d \in case.delays :
          /\ runs[t] < case.runs /\ OfTimers!start(t, clock + d)
          /\ UNCHANGED <<case, clock, thread, runs, destroyed, OfTimers!flagVars, user>>
  BY DEF OfTimers!Start, OfTimers!clientElse
<1>2. clock + d \in Int
  BY DEF TInv, Types, OfTimers!TimerQueueAssumption
<1> QED BY <1>1, <1>2, StartKeeps

LEMMA CancelStep ==
    ASSUME OfTimers!TimerQueueAssumption, TInv, NEW c \in Clients, NEW op \in {"cancel", "destroy"},
           OfTimers!Cancel(c, op)
    PROVE  TInv'
<1>1. PICK t \in OfTimers!Usable :
          /\ user[c].pc = "idle" /\ OfTimers!cancel(t)
          /\ op = "destroy" => \A b \in Clients : user[b].timer # t
          /\ IF curState[t] = "active"
             THEN user' = [user EXCEPT ![c] = [pc |-> "wait", timer |-> t, run |-> runs[t],
                                               op |-> op]]
             ELSE UNCHANGED user
          /\ destroyed' = IF op = "destroy" /\ curState[t] # "active" THEN destroyed \cup {t} ELSE destroyed
          /\ UNCHANGED <<case, clock, thread, runs, OfTimers!flagVars>>
  BY DEF OfTimers!Cancel, OfTimers!Calls, OfTimers!clientElse
<1>2. t \in Timers /\ ~Destroyed(t)
  BY DEF OfTimers!Usable, Destroyed
<1>3. /\ Types /\ FreedOK /\ ClientOK /\ destroyed' \subseteq Timers
  BY <1>1, <1>2 DEF TInv, Types
<1>4. user' \in [Clients -> Clientele]
  <2> DEFINE new == [pc |-> "wait", timer |-> t, run |-> runs[t], op |-> op]
  <2>1. new \in Clientele
    BY <1>2, <1>3 DEF Types, Clientele
  <2>2. user' = [user EXCEPT ![c] = new] \/ user' = user
    BY <1>1
  <2> HIDE DEF new
  <2> QED BY <1>3, <2>1, <2>2 DEF Types
<1>5. /\ Types' /\ ListOK' /\ RunsOK' /\ OfTimers!NoneOverslept'
      /\ curState' = [curState EXCEPT ![t] = "limbo"]
      /\ cancelPending' = (cancelPending \/ curState[t] = "active")
      /\ curState[t] = "active" => pExpireTmr = t
      /\ UNCHANGED <<pExpireTmr, runs>>
  BY <1>1, <1>2, <1>3, <1>4, CancelKeeps
<1>6. FreedOK'
  <2>1. \A u \in Timers : Destroyed(u)' => Destroyed(u) \/ u = t
    <3>1. destroyed' \subseteq destroyed \cup {t}
      BY <1>1
    <3>2. \A b \in Clients : user'[b].timer = t \/ user'[b] = user[b]
      BY <1>1, <1>3 DEF Types
    <3> QED BY <3>1, <3>2 DEF Destroyed
  <2> QED BY <1>2, <1>3, <1>5, <2>1 DEF FreedOK, Types
<1>7. ClientOK'
  <2>1. CASE curState[t] = "active"
    <3>1. /\ cancelPending' /\ user' = [user EXCEPT ![c] = [pc |-> "wait", timer |-> t,
                                                           run |-> runs[t], op |-> op]]
      BY <1>1, <1>5, <2>1
    <3>2. \A b \in Clients : b # c => user'[b] = user[b]
      BY <1>3, <3>1 DEF Types
    <3>3. /\ user'[c].pc = "wait" /\ user'[c].timer = t /\ user'[c].run = runs[t]
      BY <1>3, <3>1 DEF Types
    <3>4. runs[t] <= runs[t]
      BY <1>2, <1>3 DEF Types
    <3> QED BY <1>2, <1>3, <1>5, <3>1, <3>2, <3>3, <3>4 DEF ClientOK, Waits
  <2>2. CASE curState[t] # "active"
    <3>1. user' = user /\ cancelPending' = cancelPending
      BY <1>1, <1>3, <1>5, <2>2 DEF Types
    <3> QED BY <1>3, <1>5, <3>1 DEF ClientOK, Waits
  <2> QED BY <2>1, <2>2
<1> QED BY <1>5, <1>6, <1>7 DEF TInv

(* A step of a client that uses no timer.                                  *)
LEMMA UserMoves ==
    ASSUME OfTimers!TimerQueueAssumption, TInv, SameTimers, thread' = thread, clock' = clock,
           user' \in [Clients -> Clientele], FreedOK', ClientOK',
           cancelBlockingEvent' \in BOOLEAN, rescheduleEvent' \in BOOLEAN,
           rescheduleEvent => rescheduleEvent',
           terminateFlag' \in BOOLEAN, exitFlag' \in BOOLEAN
    PROVE  TInv'
<1> USE DEF TInv, SameTimers, OfTimers!timerVars
<1>1. Types'
  BY DEF Types
<1>2. ListOK' /\ RunsOK' /\ OfTimers!NoneOverslept'
  BY DEF ListOK, OfTimers!Pending, RunsOK, OfTimers!NoneOverslept
<1> QED BY <1>1, <1>2

LEMMA ClientSteps ==
    ASSUME OfTimers!TimerQueueAssumption, TInv, NEW c \in Clients,
           OfTimers!CancelWake(c) \/ OfTimers!CancelTest(c) \/ OfTimers!CancelEnd(c) \/ OfTimers!Release(c)
    PROVE  TInv'
<1> USE DEF OfTimers!clientElse, OfTimers!queueVars, OfTimers!flagVars, SameTimers, OfTimers!timerVars
<1>0. Types /\ FreedOK /\ ClientOK /\ user[c] \in Clientele
  BY DEF TInv, Types
<1>1. ASSUME NEW pc \in {"wait", "test", "signal"}, user[c].pc \in {"wait", "test"},
             user' = [user EXCEPT ![c].pc = pc], SameTimers,
             pc = "signal" => ~(cancelPending /\ pExpireTmr = user[c].timer)
      PROVE  user' \in [Clients -> Clientele] /\ FreedOK' /\ ClientOK'
  <2>1. user' \in [Clients -> Clientele]
    <3>1. [user[c] EXCEPT !.pc = pc] \in Clientele
      BY <1>0 DEF Clientele
    <3> QED BY <1>0, <1>1, <3>1 DEF Types
  <2>2. \A b \in Clients : /\ user'[b].timer = user[b].timer /\ user'[b].run = user[b].run
                           /\ user'[b].op = user[b].op
                           /\ b # c => user'[b].pc = user[b].pc
    BY <1>0, <1>1 DEF Types, Clientele
  <2>3. user'[c].pc = pc
    BY <1>0, <1>1 DEF Types, Clientele
  <2>4. FreedOK'
    <3>1. \A u \in Timers : Destroyed(u)' => Destroyed(u)
      BY <1>1, <2>2 DEF Destroyed
    <3> QED BY <1>0, <1>1, <3>1 DEF FreedOK
  <2>5. ClientOK'
    <3> SUFFICES ASSUME NEW b \in Clients
                 PROVE  /\ ~Waits(b)' => user'[b].op = OfTimers!None /\ user'[b].timer = OfTimers!None
                        /\ Waits(b)' =>
                              /\ user'[b].timer \in Timers
                              /\ user'[b].run <= runs[user'[b].timer]
                              /\ pExpireTmr = user'[b].timer /\ runs[pExpireTmr] = user'[b].run
                                    => cancelPending /\ user'[b].pc # "signal"
      BY <1>1 DEF ClientOK
    <3>1. CASE b = c
      BY <1>0, <1>1, <2>2, <2>3, <3>1 DEF ClientOK, Waits
    <3>2. CASE b # c
      BY <1>0, <1>1, <2>2, <3>2 DEF ClientOK, Waits
    <3> QED BY <3>1, <3>2
  <2> QED BY <2>1, <2>4, <2>5
<1>2. CASE OfTimers!CancelWake(c)
  <2>1. user' \in [Clients -> Clientele] /\ FreedOK' /\ ClientOK'
    BY <1>1, <1>2 DEF OfTimers!CancelWake
  <2> QED BY <1>0, <1>2, <2>1, UserMoves DEF OfTimers!CancelWake, Types
<1>3. CASE OfTimers!CancelTest(c)
  <2> DEFINE pc == IF OfTimers!StillRuns(user[c].timer) THEN "wait" ELSE "signal"
  <2>1. /\ pc \in {"wait", "test", "signal"} /\ user' = [user EXCEPT ![c].pc = pc]
        /\ pc = "signal" => ~(cancelPending /\ pExpireTmr = user[c].timer)
        /\ user[c].pc = "test" /\ SameTimers
    BY <1>3 DEF OfTimers!CancelTest, OfTimers!StillRuns
  <2> HIDE DEF pc
  <2>2. user' \in [Clients -> Clientele] /\ FreedOK' /\ ClientOK'
    BY <1>1, <2>1
  <2> QED BY <1>0, <1>3, <2>2, UserMoves DEF OfTimers!CancelTest, Types
<1>4. CASE OfTimers!CancelEnd(c)
  <2>1. /\ user[c].pc = "signal" /\ user' = [user EXCEPT ![c] = OfTimers!Idle]
        /\ destroyed' = IF user[c].op = "destroy" THEN destroyed \cup {user[c].timer} ELSE destroyed
        /\ cancelBlockingEvent' = TRUE
        /\ UNCHANGED <<OfTimers!clientElse, OfTimers!timerVars, OfTimers!queueVars, rescheduleEvent, OfTimers!flagVars>>
    BY <1>4 DEF OfTimers!CancelEnd
  <2>2. user[c].timer \in Timers
    BY <1>0, <2>1 DEF ClientOK, Waits
  <2>3. user' \in [Clients -> Clientele] /\ destroyed' \subseteq Timers
    <3>1. OfTimers!Idle \in Clientele
      BY DEF OfTimers!Idle, Clientele
    <3> QED BY <1>0, <2>1, <2>2, <3>1 DEF Types
  <2>4. user'[c] = OfTimers!Idle /\ \A b \in Clients : b # c => user'[b] = user[b]
    BY <1>0, <2>1 DEF Types
  <2>5. FreedOK'
    <3>1. \A u \in Timers : Destroyed(u)' => Destroyed(u)
      BY <2>1, <2>4 DEF Destroyed, OfTimers!Idle, OfTimers!None
    <3> QED BY <1>0, <2>1, <3>1 DEF FreedOK
  <2>6. ClientOK'
    BY <1>0, <2>1, <2>4 DEF ClientOK, Waits, OfTimers!Idle
  <2>7. Types'
    BY <1>0, <2>1, <2>3 DEF Types
  <2>8. ListOK' /\ RunsOK' /\ OfTimers!NoneOverslept'
    BY <2>1 DEF TInv, ListOK, OfTimers!Pending, RunsOK, OfTimers!NoneOverslept
  <2> QED BY <2>5, <2>6, <2>7, <2>8 DEF TInv
<1>5. CASE OfTimers!Release(c)
  <2>1. /\ user[c].pc = "idle" /\ user' = [user EXCEPT ![c].pc = "release"]
        /\ terminateFlag' = TRUE /\ rescheduleEvent' = TRUE
        /\ UNCHANGED <<OfTimers!clientElse, OfTimers!timerVars, destroyed, OfTimers!queueVars, cancelBlockingEvent, exitFlag>>
    BY <1>5 DEF OfTimers!Release, OfTimers!Calls
  <2>2. user' \in [Clients -> Clientele]
    <3>1. [user[c] EXCEPT !.pc = "release"] \in Clientele
      BY <1>0 DEF Clientele
    <3> QED BY <1>0, <2>1, <3>1 DEF Types
  <2>3. \A b \in Clients : /\ user'[b].timer = user[b].timer /\ user'[b].run = user[b].run
                           /\ user'[b].op = user[b].op
                           /\ b # c => user'[b].pc = user[b].pc
    BY <1>0, <2>1 DEF Types, Clientele
  <2>4. user'[c].pc = "release"
    BY <1>0, <2>1 DEF Types, Clientele
  <2>5. FreedOK'
    <3>1. \A u \in Timers : Destroyed(u)' => Destroyed(u)
      BY <2>1, <2>3 DEF Destroyed
    <3> QED BY <1>0, <2>1, <3>1 DEF FreedOK
  <2>6. ClientOK'
    BY <1>0, <2>1, <2>3, <2>4 DEF ClientOK, Waits
  <2> QED BY <1>0, <2>1, <2>2, <2>5, <2>6, UserMoves DEF Types
<1> QED BY <1>2, <1>3, <1>4, <1>5

\* The thread has left when it has said so.
ExitOK == exitFlag => thread.pc = "exited"

(* The end of the queue finds no timer that expires.                       *)
LEMMA ReleaseEndStep ==
    ASSUME OfTimers!TimerQueueAssumption, TInv, ExitOK, NEW c \in Clients, OfTimers!ReleaseEnd(c)
    PROVE  TInv'
<1>1. /\ Types /\ ListOK /\ RunsOK /\ FreedOK /\ ClientOK /\ OfTimers!NoneOverslept
      /\ user[c] \in Clientele /\ user[c].pc = "release" /\ exitFlag
      /\ curState' = [t \in Timers |-> "limbo"] /\ timerList' = <<>>
      /\ user' = [user EXCEPT ![c].pc = "gone"]
      /\ UNCHANGED <<case, clock, thread, runs, exp, pNotify, destroyed, pExpireTmr, cancelPending,
                     cancelBlockingEvent, rescheduleEvent, terminateFlag, exitFlag>>
  BY DEF TInv, Types, OfTimers!ReleaseEnd, OfTimers!clientElse, OfTimers!queueVars,
     OfTimers!flagVars
<1>2. pExpireTmr = OfTimers!None /\ ~cancelPending /\ thread.pc = "exited"
  BY <1>1 DEF ListOK, ExitOK
<1>3. user' \in [Clients -> Clientele]
  <2>1. [user[c] EXCEPT !.pc = "gone"] \in Clientele
    BY <1>1 DEF Clientele
  <2> QED BY <1>1, <2>1 DEF Types
<1>4. Types'
  BY <1>1, <1>3, EmptySeq DEF Types
<1>5. ListOK'
  <2>1. OfTimers!Pending' = {} /\ {t \in Timers : curState'[t] = "active"} = {}
    BY <1>1 DEF OfTimers!Pending
  <2>2. Items(timerList') = {} /\ Ordered(timerList', exp')
    BY <1>1 DEF Items, Ordered
  <2> QED BY <1>1, <1>2, <2>1, <2>2 DEF ListOK
<1>6. RunsOK' /\ FreedOK' /\ OfTimers!NoneOverslept'
  BY <1>1, <1>2 DEF RunsOK, FreedOK, OfTimers!NoneOverslept
<1>7. ClientOK'
  <2>1. \A b \in Clients : /\ user'[b].timer = user[b].timer /\ user'[b].run = user[b].run
                           /\ user'[b].op = user[b].op
                           /\ b # c => user'[b].pc = user[b].pc
    BY <1>1 DEF Types, Clientele
  <2>2. user'[c].pc = "gone"
    BY <1>1 DEF Types, Clientele
  <2> QED BY <1>1, <2>1, <2>2 DEF ClientOK, Waits
<1> QED BY <1>4, <1>5, <1>6, <1>7 DEF TInv

LEMMA ExitStep == TInv /\ ExitOK /\ [OfTimers!Next]_(OfTimers!vars) => ExitOK'
<1> SUFFICES ASSUME TInv, ExitOK, [OfTimers!Next]_(OfTimers!vars)
             PROVE  ExitOK'
  OBVIOUS
<1> USE DEF ExitOK
<1>0. thread \in Threadly /\ exitFlag \in BOOLEAN
  BY DEF TInv, Types
<1>1. CASE OfTimers!Create
  BY <1>1 DEF OfTimers!Create, OfTimers!flagVars
<1>2. CASE OfTimers!Tick
  BY <1>2 DEF OfTimers!Tick, OfTimers!flagVars
<1>3. CASE OfTimers!ThreadTop
  BY <1>0, <1>3 DEF OfTimers!ThreadTop, Threadly
<1>4. CASE OfTimers!ProcessBegin
  BY <1>4 DEF OfTimers!ProcessBegin, OfTimers!flagVars
<1>5. CASE OfTimers!ThreadSleep
  BY <1>5 DEF OfTimers!ThreadSleep, OfTimers!flagVars
<1>6. CASE OfTimers!ThreadWake
  BY <1>6 DEF OfTimers!ThreadWake, OfTimers!flagVars
<1>7. CASE OfTimers!ExpireCalls
  BY <1>7 DEF OfTimers!ExpireCalls, OfTimers!flagVars
<1>8. ASSUME NEW d \in case.delays \cup {OfTimers!Never}, OfTimers!ProcessAfter(d) PROVE ExitOK'
  BY <1>8 DEF OfTimers!ProcessAfter, OfTimers!flagVars
<1>9. ASSUME NEW c \in Clients, \/ OfTimers!Start(c) \/ OfTimers!Cancel(c, "cancel") \/ OfTimers!Cancel(c, "destroy")
                                \/ OfTimers!Release(c) \/ OfTimers!ClientStep(c)
      PROVE  ExitOK'
  <2>1. thread' = thread /\ exitFlag' = exitFlag
    BY <1>9 DEF OfTimers!Start, OfTimers!Cancel, OfTimers!Release, OfTimers!ClientStep,
       OfTimers!CancelWake, OfTimers!CancelTest, OfTimers!CancelEnd, OfTimers!ReleaseEnd,
                OfTimers!clientElse, OfTimers!flagVars
  <2> QED BY <2>1
<1>10. CASE UNCHANGED OfTimers!vars
  BY <1>10 DEF OfTimers!vars, OfTimers!flagVars
<1> QED BY <1>1, <1>2, <1>3, <1>4, <1>5, <1>6, <1>7, <1>8, <1>9, <1>10 DEF OfTimers!Next,
   OfTimers!ThreadStep

-----------------------------------------------------------------------------
(* The theorem                                                             *)

LEMMA InvStep == OfTimers!TimerQueueAssumption /\ TInv /\ ExitOK /\ [OfTimers!Next]_(OfTimers!vars) => TInv'
<1> SUFFICES ASSUME OfTimers!TimerQueueAssumption, TInv, ExitOK, [OfTimers!Next]_(OfTimers!vars)
             PROVE  TInv'
  OBVIOUS
<1>1. CASE OfTimers!Create \/ OfTimers!Tick \/ OfTimers!ThreadTop \/ OfTimers!ThreadSleep \/ OfTimers!ThreadWake
  BY <1>1, ThreadSteps
<1>2. CASE OfTimers!ProcessBegin
  BY <1>2, ProcessBeginStep
<1>3. CASE OfTimers!ExpireCalls
  BY <1>3, ExpireCallsStep
<1>4. ASSUME NEW d \in case.delays \cup {OfTimers!Never}, OfTimers!ProcessAfter(d) PROVE TInv'
  BY <1>4, ProcessAfterStep
<1>5. ASSUME NEW c \in Clients, \/ OfTimers!Start(c) \/ OfTimers!Cancel(c, "cancel") \/ OfTimers!Cancel(c, "destroy")
                                \/ OfTimers!Release(c) \/ OfTimers!ClientStep(c)
      PROVE  TInv'
  BY <1>5, TimerStartStep, CancelStep, ClientSteps, ReleaseEndStep DEF OfTimers!ClientStep
<1>6. CASE UNCHANGED OfTimers!vars
  <2>1. Types' /\ ListOK'
    BY <1>6 DEF TInv, Types, ListOK, OfTimers!Pending, OfTimers!vars, OfTimers!timerVars,
       OfTimers!queueVars, OfTimers!flagVars
  <2>2. RunsOK' /\ FreedOK' /\ ClientOK' /\ OfTimers!NoneOverslept'
    BY <1>6 DEF TInv, RunsOK, FreedOK, Destroyed, ClientOK, Waits, OfTimers!NoneOverslept,
       OfTimers!vars, OfTimers!timerVars,
                OfTimers!queueVars, OfTimers!flagVars
  <2> QED BY <2>1, <2>2 DEF TInv
<1> QED BY <1>1, <1>2, <1>3, <1>4, <1>5, <1>6 DEF OfTimers!Next, OfTimers!ThreadStep

(* Whatever threads and expire() start, cancel and destroy, and whenever:  *)
(* the list holds the timers that are pending, once and in order, the      *)
(* thread does not sleep past the first of them, no timer expires that was *)
(* destroyed, and cancel() returns when the run it found is over.          *)
THEOREM TimersConsistentHolds ==
    ASSUME OfTimers!TimerQueueAssumption
    PROVE  OfTimers!Spec => []TimersConsistent
<1>1. OfTimers!Init => TInv /\ ExitOK
  BY InvInit DEF OfTimers!Init, ExitOK
<1>2. TInv /\ ExitOK /\ [OfTimers!Next]_(OfTimers!vars) => (TInv /\ ExitOK)'
  BY InvStep, ExitStep
<1>3. TInv => TimersConsistent
  BY InvImplies DEF TimersConsistent
<1> QED BY <1>1, <1>2, <1>3, PTL DEF OfTimers!Spec
=============================================================================
