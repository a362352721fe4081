--------------------------- MODULE CallbackProofs ---------------------------
(***************************************************************************)
(* Theorems about Callback, for every number of priorities, worker threads *)
(* and requesting threads and every size of the rings.                     *)
(***************************************************************************)
EXTENDS Callback, FiniteSetTheorems, TLAPS

USE CallbackAssumption DEF Prios, Callers

\* A worker is a priority and a number.
LEMMA WorkerPrio == \A w \in Workers :
    /\ prio(w) \in Prios /\ w = <<w[1], w[2]>>
    /\ w[2] \in Nat /\ 1 <= w[2] /\ w[2] <= threadsConfigured[prio(w)]
BY DEF Workers, prio

\* The worker that callbackInit is about to start is one of them.
LEMMA WorkerOf ==
  ASSUME NEW p \in Prios, NEW j \in Nat \ {0}, j <= threadsConfigured[p]
  PROVE  <<p, j>> \in Workers
BY DEF Workers

\* A ring that a request enters or leaves keeps its type.
LEMMA RingTypes ==
  ASSUME NEW q \in Seq(Callbacks)
  PROVE  /\ \A c \in Callbacks : Append(q, c) \in Seq(Callbacks) /\ Len(Append(q, c)) = Len(q) + 1
         /\ Len(q) \in Nat
         /\ q # <<>> => /\ Head(q) \in Callbacks /\ Tail(q) \in Seq(Callbacks)
                        /\ Len(Tail(q)) = Len(q) - 1
OBVIOUS
----------------------------------------------------------------------------
(* Types *)

RingTypeOK ==
    /\ created \in [Prios -> BOOLEAN]
    /\ queue \in [Prios -> Seq(Callbacks)]
    /\ \A p \in Prios : Len(queue[p]) <= callbackQueueSize
    /\ semWakeUp \in [Prios -> BOOLEAN] /\ queueOverflow \in [Prios -> BOOLEAN]
RunTypeOK ==
    /\ shutdown \in [Prios -> BOOLEAN] /\ threadsRunning \in [Prios -> Int]
    /\ startStopEvent \in BOOLEAN
WorkTypeOK ==
    /\ wpc \in [Workers -> WorkerPlaces] /\ leaving \in Nat
    /\ job \in [Workers -> Callbacks \cup {NoCallback}]
ReqTypeOK ==
    /\ armed \subseteq Callbacks
    /\ rpc \in [Callers -> {"idle", "push", "signal", "full"}]
    /\ request \in [Callers -> Callbacks \cup {NoCallback}]
    /\ \A r \in Callers : rpc[r] # "idle" => request[r] \in Callbacks
    /\ nreq \in [Callers -> 0 .. MaxRequests]
MainTypeOK ==
    /\ mpc \in {"void", "create", "spawn", "started", "running", "flag", "join", "wait",
                "stopped"}
    /\ mprio \in 0 .. NUM_CALLBACK_PRIORITIES /\ mthr \in Nat \ {0}
    /\ mpc \in {"spawn", "started", "flag", "join", "wait"} => mprio \in Prios
    /\ mpc = "started" => <<mprio, mthr>> \in Workers
    /\ ninit \in 0 .. MaxInits

\* The groups make up the type invariant.
LEMMA Groups ==
  /\ TypeOK <=> RingTypeOK /\ RunTypeOK /\ WorkTypeOK /\ ReqTypeOK /\ MainTypeOK
  /\ TypeOK' <=> RingTypeOK' /\ RunTypeOK' /\ WorkTypeOK' /\ ReqTypeOK' /\ MainTypeOK'
BY DEF TypeOK, RingTypeOK, RunTypeOK, WorkTypeOK, ReqTypeOK, MainTypeOK

\* A group of variables that a step leaves alone keeps its types.
LEMMA Unchanged ==
  /\ RingTypeOK /\ UNCHANGED ringVars => RingTypeOK'
  /\ RunTypeOK /\ UNCHANGED runVars => RunTypeOK'
  /\ WorkTypeOK /\ UNCHANGED workVars => WorkTypeOK'
  /\ ReqTypeOK /\ UNCHANGED reqVars => ReqTypeOK'
  /\ MainTypeOK /\ UNCHANGED mainVars => MainTypeOK'
BY DEF RingTypeOK, RunTypeOK, WorkTypeOK, ReqTypeOK, MainTypeOK,
       ringVars, runVars, workVars, reqVars, mainVars

\* A step of a worker keeps the types.
LEMMA WorkerTypes ==
  ASSUME TypeOK, NEW w \in Workers, Worker(w)
  PROVE  TypeOK'
<1>0. prio(w) \in Prios /\ RingTypeOK /\ RunTypeOK /\ WorkTypeOK /\ ReqTypeOK /\ MainTypeOK
  BY WorkerPrio, Groups
<1>1. ReqTypeOK' /\ MainTypeOK'
  BY <1>0, Unchanged DEF Worker, WorkerStart, WorkerLoop, WorkerCheck, WorkerWait, WorkerPop,
     WorkerMore, WorkerTrigger, WorkerClear, WorkerRun, WorkerExit
<1>2. RunTypeOK'
  <2>1. CASE WorkerStart(w)
    BY <1>0, <2>1 DEF RunTypeOK, WorkerStart
  <2>2. CASE WorkerExit(w)
    BY <1>0, <2>2 DEF RunTypeOK, WorkerExit
  <2>3. CASE UNCHANGED runVars
    BY <1>0, <2>3, Unchanged
  <2>. QED
    BY <2>1, <2>2, <2>3 DEF Worker, WorkerLoop, WorkerCheck, WorkerWait, WorkerPop,
       WorkerMore, WorkerTrigger, WorkerClear, WorkerRun
<1>3. CASE WorkerPop(w)
  <2>1. CASE queue[prio(w)] = <<>>
    BY <1>0, <1>1, <1>2, <1>3, <2>1, Groups
       DEF WorkerPop, RingTypeOK, WorkTypeOK, WGoto, WorkerPlaces
  <2>2. CASE queue[prio(w)] # <<>>
    <3>1. queue[prio(w)] \in Seq(Callbacks) /\ Len(queue[prio(w)]) <= callbackQueueSize
      BY <1>0 DEF RingTypeOK
    <3>2. /\ Head(queue[prio(w)]) \in Callbacks /\ Tail(queue[prio(w)]) \in Seq(Callbacks)
          /\ Len(Tail(queue[prio(w)])) <= callbackQueueSize
      BY <2>2, <3>1, RingTypes
    <3>3. /\ job' = [job EXCEPT ![w] = Head(queue[prio(w)])]
          /\ queue' = [queue EXCEPT ![prio(w)] = Tail(queue[prio(w)])]
          /\ wpc' = [wpc EXCEPT ![w] = "more"]
          /\ UNCHANGED <<leaving, created, semWakeUp, queueOverflow>>
      BY <1>0, <1>3, <2>2 DEF WorkerPop, WGoto, RingTypeOK
    <3>4. RingTypeOK'
      BY <1>0, <3>2, <3>3 DEF RingTypeOK
    <3>5. WorkTypeOK'
      BY <1>0, <3>2, <3>3 DEF WorkTypeOK, WorkerPlaces
    <3>. QED  BY <1>1, <1>2, <3>4, <3>5, Groups
  <2>. QED  BY <2>1, <2>2
<1>4. CASE ~WorkerPop(w)
  <2>1. RingTypeOK'
    BY <1>0, <1>4 DEF RingTypeOK, ringVars, Worker, WorkerStart, WorkerLoop, WorkerCheck,
       WorkerWait, WorkerMore, WorkerTrigger, WorkerClear, WorkerRun, WorkerExit
  <2>2. WorkTypeOK'
    BY <1>0, <1>4, SMTT(30) DEF WorkTypeOK, WGoto, WorkerPlaces, Worker, WorkerStart, WorkerLoop,
       WorkerCheck, WorkerWait, WorkerMore, WorkerTrigger, WorkerClear, WorkerRun, WorkerExit
  <2>. QED  BY <1>1, <1>2, <2>1, <2>2, Groups
<1>. QED  BY <1>3, <1>4

\* A step of callbackRequest or of the timer interface keeps the types.
LEMMA CallerTypes ==
  ASSUME TypeOK,
         \/ \E r \in Requesters, c \in Callbacks :
               Request(r, c) \/ RequestDelayed(r, c) \/ CancelDelayed(r, c)
         \/ \E c \in Callbacks : Expire(c)
         \/ \E r \in Callers : CallerStep(r)
  PROVE  TypeOK'
<1>0. RingTypeOK /\ RunTypeOK /\ WorkTypeOK /\ ReqTypeOK /\ MainTypeOK
  BY Groups
<1>1. ASSUME NEW r \in Callers, NEW c \in Callbacks, Begin(r, c), armed' \subseteq Callbacks
      PROVE  ReqTypeOK'
  <2>1. nreq' \in [Callers -> 0 .. MaxRequests]
    BY <1>0, <1>1, SMTT(30) DEF ReqTypeOK, Begin
  <2>2. CASE UNCHANGED <<rpc, request>>
    BY <1>0, <1>1, <2>1, <2>2 DEF ReqTypeOK
  <2>3. CASE rpc' = [rpc EXCEPT ![r] = "push"] /\ request' = [request EXCEPT ![r] = c]
    BY <1>0, <1>1, <2>1, <2>3 DEF ReqTypeOK
  <2>. QED  BY <1>1, <2>2, <2>3 DEF Begin
<1>2. ASSUME NEW r \in Requesters, NEW c \in Callbacks, Request(r, c) PROVE TypeOK'
  BY <1>0, <1>1, <1>2, Groups, Unchanged DEF Request, ReqTypeOK
<1>3. ASSUME NEW r \in Requesters, NEW c \in Callbacks, RequestDelayed(r, c) PROVE TypeOK'
  <2>1. ReqTypeOK'
    BY <1>0, <1>3 DEF RequestDelayed, ReqTypeOK
  <2>. QED  BY <1>0, <1>3, <2>1, Groups, Unchanged DEF RequestDelayed
<1>4. ASSUME NEW r \in Requesters, NEW c \in Callbacks, CancelDelayed(r, c) PROVE TypeOK'
  <2>1. ReqTypeOK'
    BY <1>0, <1>4 DEF CancelDelayed, ReqTypeOK
  <2>. QED  BY <1>0, <1>4, <2>1, Groups, Unchanged DEF CancelDelayed
<1>5. ASSUME NEW c \in Callbacks, Expire(c) PROVE TypeOK'
  BY <1>0, <1>1, <1>5, Groups, Unchanged DEF Expire, ReqTypeOK
<1>6. ASSUME NEW r \in Callers, CallerPush(r) PROVE TypeOK'
  <2>. DEFINE p == priority[request[r]]
  <2>1. request[r] \in Callbacks /\ p \in Prios
    BY <1>0, <1>6 DEF CallerPush, ReqTypeOK
  <2>2. ReqTypeOK'
    BY <1>0, <1>6 DEF CallerPush, ReqTypeOK
  <2>3. /\ queue[p] \in Seq(Callbacks) /\ Len(queue[p]) \in Nat
        /\ Len(queue[p]) <= callbackQueueSize
    BY <1>0, <2>1, RingTypes DEF RingTypeOK
  <2>4. /\ queue' = queue \/ /\ queue' = [queue EXCEPT ![p] = Append(queue[p], request[r])]
                             /\ Len(queue[p]) # callbackQueueSize
        /\ UNCHANGED <<created, semWakeUp, queueOverflow>>
    BY <1>0, <1>6, <2>1 DEF CallerPush, RingFull, RingTypeOK
  <2>5. /\ Append(queue[p], request[r]) \in Seq(Callbacks)
        /\ Len(Append(queue[p], request[r])) = Len(queue[p]) + 1
    BY <2>1, <2>3, RingTypes
  <2>6. RingTypeOK'
    <3>. HIDE DEF p
    <3>1. queue' \in [Prios -> Seq(Callbacks)]
      BY <1>0, <2>1, <2>4, <2>5 DEF RingTypeOK
    <3>2. ASSUME NEW x \in Prios PROVE Len(queue'[x]) <= callbackQueueSize
      <4>1. CASE x = p
        BY <1>0, <2>1, <2>3, <2>4, <2>5, <4>1 DEF RingTypeOK
      <4>2. CASE x # p
        BY <1>0, <2>1, <2>4, <4>2 DEF RingTypeOK
      <4>. QED  BY <4>1, <4>2
    <3>. QED  BY <1>0, <2>4, <3>1, <3>2 DEF RingTypeOK
  <2>. QED  BY <1>0, <1>6, <2>2, <2>6, Groups, Unchanged DEF CallerPush
<1>7. ASSUME NEW r \in Callers, CallerSignal(r) PROVE TypeOK'
  <2>1. ReqTypeOK'
    BY <1>0, <1>7 DEF CallerSignal, CallerReturn, ReqTypeOK
  <2>2. RingTypeOK'
    BY <1>0, <1>7 DEF CallerSignal, RingTypeOK
  <2>. QED  BY <1>0, <1>7, <2>1, <2>2, Groups, Unchanged DEF CallerSignal
<1>8. ASSUME NEW r \in Callers, CallerFull(r) PROVE TypeOK'
  <2>1. ReqTypeOK'
    BY <1>0, <1>8 DEF CallerFull, CallerReturn, ReqTypeOK
  <2>2. RingTypeOK'
    BY <1>0, <1>8 DEF CallerFull, RingTypeOK
  <2>. QED  BY <1>0, <1>8, <2>1, <2>2, Groups, Unchanged DEF CallerFull
<1>. QED  BY <1>2, <1>3, <1>4, <1>5, <1>6, <1>7, <1>8 DEF CallerStep

\* A step of callbackInit, callbackStop or callbackCleanup keeps the types.
LEMMA MainTypes ==
  ASSUME TypeOK, Main
  PROVE  TypeOK'
<1>0. RingTypeOK /\ RunTypeOK /\ WorkTypeOK /\ ReqTypeOK /\ MainTypeOK
  BY Groups
<1>1. ASSUME InitBegin PROVE TypeOK'
  <2>1. MainTypeOK'
    BY <1>0, <1>1 DEF InitBegin, MainTypeOK
  <2>. QED  BY <1>0, <1>1, <2>1, Groups, Unchanged DEF InitBegin
<1>2. ASSUME InitQueue PROVE TypeOK'
  <2>1. MainTypeOK'
    BY <1>0, <1>2 DEF InitQueue, MainTypeOK
  <2>2. RingTypeOK'
    BY <1>0, <1>2 DEF InitQueue, RingTypeOK
  <2>. QED  BY <1>0, <1>2, <2>1, <2>2, Groups, Unchanged DEF InitQueue
<1>3. ASSUME InitSpawn PROVE TypeOK'
  <2>1. mprio \in Prios /\ mthr \in Nat \ {0}
    BY <1>0, <1>3 DEF InitSpawn, MoreThreads, MainTypeOK
  <2>2. MainTypeOK'
    BY <1>0, <1>3, <2>1, WorkerOf DEF InitSpawn, MoreThreads, MainTypeOK
  <2>3. WorkTypeOK'
    BY <1>0, <1>3, <2>1, WorkerOf DEF InitSpawn, MoreThreads, WorkTypeOK, WGoto, WorkerPlaces
  <2>. QED  BY <1>0, <1>3, <2>2, <2>3, Groups, Unchanged DEF InitSpawn, MoreThreads
<1>4. ASSUME InitStarted PROVE TypeOK'
  <2>1. MainTypeOK'
    BY <1>0, <1>4 DEF InitStarted, MainTypeOK
  <2>4. mprio \in Prios /\ threadsRunning[mprio] \in Int
    BY <1>0, <1>4 DEF InitStarted, MainTypeOK, RunTypeOK
  <2>2. threadsRunning' \in [Prios -> Int]
    BY <1>0, <1>4, <2>4 DEF InitStarted, RunTypeOK
  <2>3. RunTypeOK'
    BY <1>0, <1>4, <2>2 DEF InitStarted, RunTypeOK
  <2>. QED  BY <1>0, <1>4, <2>1, <2>3, Groups, Unchanged DEF InitStarted
<1>5. ASSUME StopBegin PROVE TypeOK'
  <2>1. MainTypeOK'
    BY <1>0, <1>5 DEF StopBegin, MainTypeOK
  <2>. QED  BY <1>0, <1>5, <2>1, Groups, Unchanged DEF StopBegin
<1>6. ASSUME StopFlag PROVE TypeOK'
  <2>1. MainTypeOK'
    BY <1>0, <1>6 DEF StopFlag, MainTypeOK
  <2>2. RingTypeOK' /\ RunTypeOK'
    BY <1>0, <1>6 DEF StopFlag, RingTypeOK, RunTypeOK
  <2>. QED  BY <1>0, <1>6, <2>1, <2>2, Groups, Unchanged DEF StopFlag
<1>7. ASSUME StopJoin PROVE TypeOK'
  <2>1. MainTypeOK'
    BY <1>0, <1>7 DEF StopJoin, MainTypeOK
  <2>2. RingTypeOK'
    BY <1>0, <1>7 DEF StopJoin, Resignal, RingTypeOK
  <2>. QED  BY <1>0, <1>7, <2>1, <2>2, Groups, Unchanged DEF StopJoin
<1>8. ASSUME StopWait PROVE TypeOK'
  <2>1. MainTypeOK' /\ RunTypeOK'
    BY <1>0, <1>8 DEF StopWait, MainTypeOK, RunTypeOK
  <2>. QED  BY <1>0, <1>8, <2>1, Groups, Unchanged DEF StopWait
<1>9. ASSUME Cleanup PROVE TypeOK'
  <2>1. MainTypeOK' /\ RunTypeOK' /\ RingTypeOK'
    BY <1>0, <1>9 DEF Cleanup, MainTypeOK, RunTypeOK, RingTypeOK
  <2>. QED  BY <1>0, <1>9, <2>1, Groups, Unchanged DEF Cleanup
<1>. QED  BY <1>1, <1>2, <1>3, <1>4, <1>5, <1>6, <1>7, <1>8, <1>9 DEF Main

\* The initial values have their types.
LEMMA InitTypes == Init => TypeOK
<1>. SUFFICES ASSUME Init PROVE TypeOK
  OBVIOUS
<1>1. RingTypeOK
  BY DEF Init, RingTypeOK
<1>2. RunTypeOK
  <2>1. shutdown \in [Prios -> BOOLEAN]
    BY DEF Init
  <2>2. threadsRunning \in [Prios -> Int]
    BY DEF Init
  <2>. QED  BY <2>1, <2>2 DEF Init, RunTypeOK
<1>3. WorkTypeOK
  BY DEF Init, WorkTypeOK, WorkerPlaces
<1>4. ReqTypeOK
  BY DEF Init, ReqTypeOK
<1>5. MainTypeOK
  BY DEF Init, MainTypeOK
<1>. QED  BY <1>1, <1>2, <1>3, <1>4, <1>5, Groups

\* Every step keeps the types.
LEMMA TypeStep == TypeOK /\ [Next]_vars => TypeOK'
<1>. SUFFICES ASSUME TypeOK, [Next]_vars PROVE TypeOK'
  OBVIOUS
<1>1. ASSUME WorkerLast PROVE TypeOK'
  BY <1>1, SMTT(30) DEF WorkerLast, TypeOK, ringVars, reqVars, mainVars
<1>2. CASE UNCHANGED vars
  BY <1>2, Groups, Unchanged DEF vars
<1>. QED  BY <1>1, <1>2, WorkerTypes, CallerTypes, MainTypes DEF Next

\* The variables keep their types, and no ring ever holds more than its size.
THEOREM CallbackTypes == Spec => []TypeOK
BY InitTypes, TypeStep, PTL DEF Spec
----------------------------------------------------------------------------
(* The threads *)

\* The workers of a priority can be counted.
LEMMA AliveFinite == \A p \in Prios : IsFiniteSet(Alive(p)) /\ Cardinality(Alive(p)) \in Nat
<1>. SUFFICES ASSUME NEW p \in Prios
              PROVE  IsFiniteSet(Alive(p)) /\ Cardinality(Alive(p)) \in Nat
  OBVIOUS
<1>. DEFINE I == 1 .. threadsConfigured[p]  f == [i \in I |-> <<p, i>>]
            S == {f[i] : i \in I}
<1>1. IsFiniteSet(I)
  BY FS_Interval
<1>2. f \in Surjection(I, S)
  BY DEF Surjection
<1>3. IsFiniteSet(S)
  <2>. HIDE DEF f, I, S
  <2>. QED  BY <1>1, <1>2, FS_Surjection
<1>4. Alive(p) \subseteq S
  BY WorkerPrio DEF Alive, prio
<1>. QED  BY <1>3, <1>4, FS_Subset, FS_CardinalityType

\* Counting a set with one element less, or more.
LEMMA Count ==
  ASSUME NEW S, IsFiniteSet(S), NEW x
  PROVE  /\ x \in S => Cardinality(S \ {x}) = Cardinality(S) - 1
         /\ x \notin S => Cardinality(S \cup {x}) = Cardinality(S) + 1
BY FS_AddElement, FS_RemoveElement

\* A worker's step keeps the life cycle.
LEMMA WorkerLife ==
  ASSUME TypeOK, LifeCycle, NEW w \in Workers, Worker(w)
  PROVE  LifeCycle'
<1>0. /\ prio(w) \in Prios /\ wpc \in [Workers -> WorkerPlaces]
      /\ threadsRunning \in [Prios -> Int]
      /\ UNCHANGED <<mpc, mprio, mthr, shutdown>>
  BY WorkerPrio DEF TypeOK, mainVars, runVars, Worker, WorkerStart, WorkerLoop, WorkerCheck,
     WorkerWait, WorkerPop, WorkerMore, WorkerTrigger, WorkerClear, WorkerRun, WorkerExit
<1>1. CASE WorkerExit(w)
  <2>1. wpc[w] = "exit" /\ wpc' = [wpc EXCEPT ![w] = "none"]
    BY <1>1 DEF WorkerExit, WGoto
  <2>2. threadsRunning' = [threadsRunning EXCEPT ![prio(w)] = threadsRunning[prio(w)] - 1]
    BY <1>1 DEF WorkerExit
  <2>3. shutdown[prio(w)] /\ mpc # "started"
    BY <1>0, <2>1 DEF LifeCycle
  <2>4. \A p \in Prios : /\ p = prio(w) => Alive(p)' = Alive(p) \ {w} /\ w \in Alive(p)
                        /\ p # prio(w) => Alive(p)' = Alive(p)
    BY <1>0, <2>1 DEF Alive
  <2>5. ASSUME NEW p \in Prios, p = prio(w)
        PROVE  Cardinality(Alive(p)') = Cardinality(Alive(p)) - 1
    <3>1. w \in Alive(p) /\ Alive(p)' = Alive(p) \ {w}
      BY <1>0, <2>1, <2>5 DEF Alive
    <3>2. IsFiniteSet(Alive(p))
      BY AliveFinite
    <3>. QED  BY <3>1, <3>2, Count
  <2>6. ASSUME NEW p \in Prios PROVE threadsRunning'[p] = Cardinality(Alive(p)') - Uncounted(p)'
    <3>1. threadsRunning[p] = Cardinality(Alive(p)) - Uncounted(p) /\ Cardinality(Alive(p)) \in Nat
      BY AliveFinite DEF LifeCycle
    <3>2. Uncounted(p) = 0 /\ Uncounted(p)' = 0
      BY <1>0, <2>3 DEF Uncounted
    <3>3. CASE p = prio(w)
      <4>1. threadsRunning'[p] = threadsRunning[p] - 1
        BY <1>0, <2>2, <3>3
      <4>. QED  BY <2>5, <3>1, <3>2, <3>3, <4>1
    <3>4. CASE p # prio(w)
      BY <1>0, <2>2, <2>4, <3>1, <3>2, <3>4
    <3>. QED  BY <3>3, <3>4
  <2>. QED  BY <1>0, <2>1, <2>3, <2>6 DEF LifeCycle
<1>2. CASE ~WorkerExit(w)
  <2>1. /\ wpc[w] # "none" /\ wpc'[w] # "none" /\ threadsRunning' = threadsRunning
        /\ wpc'[w] = "exit" => shutdown[prio(w)]
        /\ \A v \in Workers : v # w => wpc'[v] = wpc[v]
    BY <1>0, <1>2 DEF WGoto, runVars, Worker, WorkerStart, WorkerLoop, WorkerCheck,
       WorkerWait, WorkerPop, WorkerMore, WorkerTrigger, WorkerClear, WorkerRun
  <2>2. \A p \in Prios : Alive(p)' = Alive(p) /\ Uncounted(p)' = Uncounted(p)
    BY <1>0, <2>1 DEF Alive, Uncounted
  <2>3. \A v \in Workers : (wpc'[v] = "none") <=> (wpc[v] = "none")
    BY <2>1
  <2>4. \A v \in Workers : wpc'[v] = "exit" => shutdown[prio(v)]
    BY <2>1 DEF LifeCycle
  <2>5. mpc = "started" => <<mprio, mthr>> \in Workers
    BY DEF TypeOK
  <2>. QED  BY <1>0, <2>1, <2>2, <2>3, <2>4, <2>5 DEF LifeCycle
<1>. QED  BY <1>1, <1>2

\* Starting, stopping and cleaning up keep the life cycle.
LEMMA MainLife ==
  ASSUME TypeOK, LifeCycle, Main
  PROVE  LifeCycle'
<1>0. /\ wpc \in [Workers -> WorkerPlaces] /\ mprio \in 0 .. NUM_CALLBACK_PRIORITIES
      /\ mthr \in Nat \ {0} /\ shutdown \in [Prios -> BOOLEAN]
      /\ threadsRunning \in [Prios -> Int]
      /\ mpc \in {"spawn", "started", "flag", "join", "wait"} => mprio \in Prios
      /\ mpc = "started" => <<mprio, mthr>> \in Workers
  BY DEF TypeOK
<1>1. ASSUME UNCHANGED <<wpc, threadsRunning>>, Uncounted(0)' = Uncounted(0),
             \A p \in Prios : Uncounted(p)' = Uncounted(p)
      PROVE  \A p \in Prios : threadsRunning'[p] = Cardinality(Alive(p)') - Uncounted(p)'
  <2>1. \A p \in Prios : Alive(p)' = Alive(p)
    BY <1>1 DEF Alive
  <2>. QED  BY <1>1, <2>1 DEF LifeCycle
<1>2. CASE InitBegin
  BY <1>0, <1>1, <1>2, WorkerPrio DEF InitBegin, LifeCycle, Uncounted, workVars, runVars
<1>3. CASE InitQueue
  BY <1>0, <1>1, <1>3, WorkerPrio, SMTT(30) DEF InitQueue, LifeCycle, Uncounted, workVars, runVars
<1>4. CASE InitSpawn
  <2>1. CASE mthr <= threadsConfigured[mprio]
    <3>. DEFINE w == <<mprio, mthr>>
    <3>1. w \in Workers /\ prio(w) = mprio /\ w[2] = mthr /\ mprio \in Prios
      BY <1>0, <1>4, <2>1, WorkerOf DEF InitSpawn, MoreThreads, prio
    <3>2. /\ wpc' = [wpc EXCEPT ![w] = "starting"] /\ mpc = "spawn" /\ mpc' = "started"
          /\ UNCHANGED <<mprio, mthr, threadsRunning, shutdown>>
      BY <1>4, <2>1 DEF InitSpawn, MoreThreads, WGoto, runVars
    <3>. HIDE DEF w
    <3>3. wpc[w] = "none"
      BY <1>0, <3>1, <3>2 DEF LifeCycle
    <3>4. \A p \in Prios : /\ p = mprio => Alive(p)' = Alive(p) \cup {w} /\ w \notin Alive(p)
                          /\ p # mprio => Alive(p)' = Alive(p)
      BY <1>0, <3>1, <3>2, <3>3 DEF Alive
    <3>5. ASSUME NEW p \in Prios, p = mprio
          PROVE  Cardinality(Alive(p)') = Cardinality(Alive(p)) + 1
      <4>1. w \notin Alive(p) /\ Alive(p)' = Alive(p) \cup {w}
        BY <1>0, <3>1, <3>2, <3>3, <3>5 DEF Alive
      <4>2. IsFiniteSet(Alive(p))
        BY AliveFinite
      <4>. QED  BY <4>1, <4>2, Count
    <3>6. ASSUME NEW p \in Prios PROVE threadsRunning'[p] = Cardinality(Alive(p)') - Uncounted(p)'
      <4>1. threadsRunning[p] = Cardinality(Alive(p)) /\ Cardinality(Alive(p)) \in Nat
        BY <1>0, <3>2, AliveFinite DEF LifeCycle, Uncounted
      <4>2. CASE p = mprio
        <5>1. Cardinality(Alive(p)') = Cardinality(Alive(p)) + 1
          BY <3>5, <4>2
        <5>. QED  BY <3>2, <4>1, <4>2, <5>1 DEF Uncounted
      <4>3. CASE p # mprio
        BY <1>0, <3>2, <3>4, <4>1, <4>3 DEF Uncounted
      <4>. QED  BY <4>2, <4>3
    <3>7. \A v \in Workers : wpc'[v] = "exit" => shutdown'[prio(v)]
      BY <1>0, <3>1, <3>2 DEF LifeCycle
    <3>8. \A v \in Workers : prio(v) > mprio \/ (prio(v) = mprio /\ v[2] > mthr) => wpc'[v] = "none"
      BY <1>0, <3>1, <3>2, WorkerPrio DEF LifeCycle
    <3>. QED  BY <1>0, <3>1, <3>2, <3>6, <3>7, <3>8 DEF LifeCycle, w
  <2>2. CASE ~(mthr <= threadsConfigured[mprio])
    <3>1. /\ mpc = "spawn" /\ mpc' = "create" /\ mprio' = mprio + 1 /\ mprio \in Prios
          /\ UNCHANGED <<wpc, shutdown, threadsRunning>>
      BY <1>0, <1>4, <2>2 DEF InitSpawn, MoreThreads, runVars
    <3>2. \A p \in Prios : threadsRunning'[p] = Cardinality(Alive(p)') - Uncounted(p)'
      BY <1>1, <3>1 DEF Uncounted
    <3>. QED  BY <3>1, <3>2, WorkerPrio DEF LifeCycle
  <2>. QED  BY <2>1, <2>2
<1>5. CASE InitStarted
  <2>1. /\ mpc = "started" /\ mpc' = "spawn" /\ mthr' = mthr + 1 /\ mprio \in Prios
        /\ threadsRunning' = [threadsRunning EXCEPT ![mprio] = threadsRunning[mprio] + 1]
        /\ UNCHANGED <<wpc, mprio, shutdown>>
    BY <1>0, <1>5 DEF InitStarted, workVars
  <2>2. \A p \in Prios : Alive(p)' = Alive(p)
    BY <2>1 DEF Alive
  <2>3. \A p \in Prios : threadsRunning'[p] = Cardinality(Alive(p)') - Uncounted(p)'
    BY <1>0, <2>1, <2>2, AliveFinite, SMTT(30) DEF LifeCycle, Uncounted
  <2>. QED  BY <1>0, <2>1, <2>3, WorkerPrio, SMTT(30) DEF LifeCycle
<1>6. CASE StopBegin
  BY <1>0, <1>1, <1>6, WorkerPrio DEF StopBegin, LifeCycle, Uncounted, workVars, runVars
<1>7. CASE StopFlag
  <2>1. /\ mpc = "flag" /\ mpc' \in {"flag", "join"} /\ mprio \in Prios
        /\ mpc' = "join" => mprio' = 0
        /\ UNCHANGED <<wpc, threadsRunning>> /\ \A p \in Prios : shutdown[p] => shutdown'[p]
    BY <1>0, <1>7 DEF StopFlag, workVars
  <2>2. \A p \in Prios : threadsRunning'[p] = Cardinality(Alive(p)') - Uncounted(p)'
    BY <1>1, <2>1 DEF Uncounted
  <2>. QED  BY <2>1, <2>2, WorkerPrio DEF LifeCycle
<1>8. CASE StopJoin
  <2>1. CASE Stopped(mprio)
    <3>1. Cardinality(Alive(mprio)) = 0 /\ mprio \in Prios
      BY <1>0, <1>8, <2>1, AliveFinite DEF StopJoin, Stopped, LifeCycle, Uncounted
    <3>2. Alive(mprio) = {}
      BY <3>1, AliveFinite, FS_EmptySet
    <3>3. \A v \in Workers : prio(v) <= mprio => wpc[v] = "none"
      <4>. SUFFICES ASSUME NEW v \in Workers, prio(v) <= mprio PROVE wpc[v] = "none"
        OBVIOUS
      <4>1. CASE prio(v) = mprio
        BY <3>2, <4>1 DEF Alive
      <4>2. CASE prio(v) < mprio
        BY <1>8, <4>2 DEF StopJoin, LifeCycle
      <4>. QED  BY <3>1, <4>1, <4>2, WorkerPrio
    <3>4. /\ mpc = "join" /\ UNCHANGED <<wpc, shutdown, threadsRunning>>
          /\ \/ mpc' = "join" /\ mprio' = mprio + 1 /\ mprio + 1 \in Prios
             \/ mpc' = "stopped" /\ mprio + 1 \notin Prios
      BY <1>8, <2>1 DEF StopJoin, workVars, runVars
    <3>5. \A p \in Prios : threadsRunning'[p] = Cardinality(Alive(p)') - Uncounted(p)'
      BY <1>1, <3>4 DEF Uncounted
    <3>6. ASSUME NEW v \in Workers, mpc' = "stopped" \/ prio(v) < mprio'
          PROVE  wpc'[v] = "none"
      <4>1. prio(v) \in Int /\ mprio \in Int
        BY <3>1, WorkerPrio, CallbackAssumption DEF Prios
      <4>2. prio(v) <= mprio
        BY <3>1, <3>4, <3>6, <4>1, WorkerPrio, CallbackAssumption DEF Prios
      <4>. QED  BY <3>3, <3>4, <4>2
    <3>7. \A v \in Workers : wpc'[v] = "exit" => shutdown'[prio(v)]
      BY <3>4 DEF LifeCycle
    <3>. QED  BY <3>4, <3>5, <3>6, <3>7, Zenon DEF LifeCycle
  <2>2. CASE ~Stopped(mprio)
    <3>1. /\ mpc = "join" /\ mpc' = "wait"
          /\ UNCHANGED <<wpc, mprio, shutdown, threadsRunning>>
      BY <1>8, <2>2 DEF StopJoin, workVars, runVars
    <3>2. \A p \in Prios : threadsRunning'[p] = Cardinality(Alive(p)') - Uncounted(p)'
      BY <1>1, <3>1 DEF Uncounted
    <3>. QED  BY <1>0, <3>1, <3>2, WorkerPrio DEF LifeCycle
  <2>. QED  BY <2>1, <2>2
<1>9. CASE StopWait
  BY <1>0, <1>1, <1>9, WorkerPrio DEF StopWait, LifeCycle, Uncounted, workVars
<1>10. CASE Cleanup
  <2>1. \A v \in Workers : wpc'[v] = "none"
    BY <1>10 DEF Cleanup, LifeCycle, workVars
  <2>2. \A p \in Prios : Alive(p)' = {}
    BY <2>1 DEF Alive
  <2>3. \A p \in Prios : threadsRunning'[p] = Cardinality(Alive(p)') - Uncounted(p)'
    <3>1. Cardinality({}) = 0
      BY FS_EmptySet
    <3>2. ASSUME NEW p \in Prios
          PROVE  threadsRunning'[p] = 0 /\ Uncounted(p)' = 0 /\ Cardinality(Alive(p)') = 0
      BY <1>10, <2>2, <3>1 DEF Cleanup, Uncounted
    <3>. QED  BY <3>2
  <2>. QED  BY <1>10, <2>1, <2>3 DEF Cleanup, LifeCycle
<1>. QED  BY <1>2, <1>3, <1>4, <1>5, <1>6, <1>7, <1>8, <1>9, <1>10 DEF Main
----------------------------------------------------------------------------
(* No idle worker *)

\* somebody will see what is in the ring of p
Watched(p) ==
    \/ semWakeUp[p]
    \/ \E r \in Callers : rpc[r] = "signal" /\ priority[request[r]] = p
    \/ \E w \in Workers : prio(w) = p /\ wpc[w] \in Looking

Sleeper(p) == \E w \in Workers : prio(w) = p /\ wpc[w] = "wait"

\* A worker's step leaves no request unseen: it goes to sleep and to run a
\* callback only after it has found the ring empty or has triggered the event.
LEMMA WorkerWatches ==
  ASSUME TypeOK, NoIdleWorker, NEW w \in Workers, Worker(w)
  PROVE  NoIdleWorker'
<1>. SUFFICES ASSUME NEW p \in Prios, queue'[p] # <<>>, ~shutdown'[p], Sleeper(p)'
              PROVE  Watched(p)'
  BY DEF NoIdleWorker, Watched, Sleeper
<1>0. /\ prio(w) \in Prios /\ wpc \in [Workers -> WorkerPlaces]
      /\ semWakeUp \in [Prios -> BOOLEAN] /\ queue \in [Prios -> Seq(Callbacks)]
      /\ shutdown' = shutdown /\ UNCHANGED <<rpc, request>>
  BY WorkerPrio DEF TypeOK, reqVars, runVars, Worker, WorkerStart, WorkerLoop, WorkerCheck,
     WorkerWait, WorkerPop, WorkerMore, WorkerTrigger, WorkerClear, WorkerRun, WorkerExit
<1>1. \A v \in Workers : v # w => wpc'[v] = wpc[v]
  BY <1>0 DEF WGoto, Worker, WorkerStart, WorkerLoop, WorkerCheck, WorkerWait, WorkerPop,
     WorkerMore, WorkerTrigger, WorkerClear, WorkerRun, WorkerExit
<1>2. CASE prio(w) = p /\ wpc'[w] \in Looking
  BY <1>2 DEF Watched
<1>3. CASE prio(w) # p
  <2>1. queue'[p] = queue[p] /\ semWakeUp'[p] = semWakeUp[p]
    BY <1>0, <1>3 DEF ringVars, Worker, WorkerStart, WorkerLoop, WorkerCheck, WorkerWait,
       WorkerPop, WorkerMore, WorkerTrigger, WorkerClear, WorkerRun, WorkerExit
  <2>2. Sleeper(p) /\ Watched(p)
    BY <1>0, <1>1, <1>3, <2>1 DEF NoIdleWorker, Sleeper, Watched
  <2>. QED  BY <1>0, <1>1, <1>3, <2>1, <2>2 DEF Watched
<1>4. CASE prio(w) = p /\ wpc'[w] \notin Looking
  <2>1. CASE WorkerTrigger(w)
    BY <1>0, <1>4, <2>1 DEF WorkerTrigger, Watched
  <2>2. CASE WorkerRun(w) \/ WorkerStart(w) \/ WorkerWait(w) \/ WorkerPop(w)
    BY <1>0, <1>4, <2>2 DEF WorkerRun, WorkerStart, WorkerWait, WorkerPop, WGoto, Looking
  <2>3. CASE WorkerCheck(w) \/ WorkerMore(w) \/ WorkerLoop(w) \/ WorkerExit(w)
    <3>1. queue' = queue
      BY <2>3 DEF WorkerCheck, WorkerMore, WorkerLoop, WorkerExit, ringVars
    <3>2. CASE WorkerCheck(w) \/ WorkerMore(w)
      BY <1>0, <1>4, <3>1, <3>2 DEF WorkerCheck, WorkerMore, MoreToDo, WGoto, Looking
    <3>3. CASE WorkerLoop(w)
      BY <1>0, <1>4, <3>3 DEF WorkerLoop, WGoto, Looking
    <3>4. CASE WorkerExit(w)
      <4>1. Sleeper(p) /\ semWakeUp' = semWakeUp /\ wpc[w] = "exit" /\ wpc'[w] = "none"
        BY <1>0, <1>1, <3>4 DEF WorkerExit, WGoto, Sleeper, ringVars
      <4>2. Watched(p)
        BY <1>0, <3>1, <4>1 DEF NoIdleWorker, Sleeper, Watched
      <4>. QED  BY <1>0, <1>1, <4>1, <4>2 DEF Watched, Looking
    <3>. QED  BY <2>3, <3>2, <3>3, <3>4
  <2>4. CASE WorkerClear(w)
    <3>1. /\ Sleeper(p) /\ semWakeUp' = semWakeUp /\ queue' = queue /\ wpc[w] = "clear"
          /\ wpc'[w] = "run"
      BY <1>0, <1>1, <2>4 DEF WorkerClear, WGoto, Sleeper
    <3>2. Watched(p)
      BY <1>0, <3>1 DEF NoIdleWorker, Sleeper, Watched
    <3>. QED  BY <1>0, <1>1, <3>1, <3>2 DEF Watched, Looking
  <2>. QED  BY <2>1, <2>2, <2>3, <2>4 DEF Worker
<1>. QED  BY <1>2, <1>3, <1>4

\* A request is pushed before the event is signaled, and callbackStop and
\* callbackInit take no wakeup away while requests are served.
LEMMA OthersWatch ==
  ASSUME TypeOK, LifeCycle, NoIdleWorker, [Next]_vars, ~ \E w \in Workers : Worker(w)
  PROVE  NoIdleWorker'
<1>. SUFFICES ASSUME NEW p \in Prios, queue'[p] # <<>>, ~shutdown'[p], Sleeper(p)'
              PROVE  Watched(p)'
  BY DEF NoIdleWorker, Watched, Sleeper
<1>0. /\ wpc \in [Workers -> WorkerPlaces] /\ semWakeUp \in [Prios -> BOOLEAN]
      /\ queue \in [Prios -> Seq(Callbacks)] /\ shutdown \in [Prios -> BOOLEAN]
      /\ rpc \in [Callers -> {"idle", "push", "signal", "full"}]
      /\ request \in [Callers -> Callbacks \cup {NoCallback}]
  BY DEF TypeOK
<1>1. ASSUME queue' = queue, wpc' = wpc, shutdown' = shutdown,
             semWakeUp'[p] = semWakeUp[p] \/ semWakeUp'[p],
             \A r \in Callers : rpc[r] = "signal" => \/ rpc'[r] = "signal" /\ request'[r] = request[r]
                                                     \/ semWakeUp'[priority[request[r]]]
      PROVE  Watched(p)'
  BY <1>1 DEF NoIdleWorker, Sleeper, Watched
<1>2. ASSUME NEW r \in Callers, NEW c \in Callbacks, Begin(r, c), UNCHANGED <<ringVars, runVars, workVars>>
      PROVE  Watched(p)'
  BY <1>0, <1>1, <1>2 DEF Begin, ringVars, runVars, workVars
<1>3. ASSUME UNCHANGED <<ringVars, runVars, workVars, rpc, request>>
      PROVE  Watched(p)'
  BY <1>1, <1>3 DEF ringVars, runVars, workVars
<1>4. ASSUME NEW r \in Callers, CallerPush(r) PROVE Watched(p)'
  <2>1. CASE rpc'[r] = "signal"
    <3>1. request' = request /\ semWakeUp' = semWakeUp /\ wpc' = wpc /\ shutdown' = shutdown
      BY <1>4 DEF CallerPush, runVars, workVars
    <3>2. /\ rpc' = [rpc EXCEPT ![r] = "signal"]
          /\ queue' = [queue EXCEPT ![priority[request[r]]] = Append(@, request[r])]
      BY <1>0, <1>4, <2>1 DEF CallerPush
    <3>3. CASE p = priority[request[r]]
      BY <2>1, <3>1, <3>3 DEF Watched
    <3>4. CASE p # priority[request[r]]
      <4>1. queue'[p] = queue[p]
        BY <1>0, <3>2, <3>4
      <4>2. Watched(p)
        BY <3>1, <4>1 DEF NoIdleWorker, Sleeper, Watched
      <4>. QED  BY <1>0, <3>1, <3>2, <4>2 DEF Watched
    <3>. QED  BY <3>3, <3>4
  <2>2. CASE rpc'[r] # "signal"
    BY <1>0, <1>1, <1>4, <2>2 DEF CallerPush, runVars, workVars
  <2>. QED  BY <2>1, <2>2
<1>5. ASSUME NEW r \in Callers, CallerSignal(r) PROVE Watched(p)'
  <2>1. priority[request[r]] \in Prios
    BY <1>5 DEF CallerSignal, TypeOK
  <2>. QED  BY <1>0, <1>1, <1>5, <2>1 DEF CallerSignal, CallerReturn, WakeUp, runVars, workVars
<1>6. ASSUME NEW r \in Callers, CallerFull(r) PROVE Watched(p)'
  BY <1>0, <1>1, <1>6 DEF CallerFull, CallerReturn, runVars, workVars
<1>7. CASE Main
  <2>1. CASE InitQueue
    <3>1. mpc = "create" /\ queue' = queue /\ wpc' = wpc /\ shutdown' = shutdown
      BY <2>1 DEF InitQueue, runVars, workVars
    <3>2. PICK w \in Workers : prio(w) = p /\ wpc[w] = "wait"
      BY <3>1 DEF Sleeper
    <3>3. p < mprio
      <4>1. ~(prio(w) >= mprio)
        BY <3>1, <3>2 DEF LifeCycle
      <4>. QED  BY <3>2, <4>1 DEF TypeOK
    <3>4. semWakeUp'[p] = semWakeUp[p]
      BY <1>0, <2>1, <3>3, SMTT(30) DEF InitQueue
    <3>. QED  BY <1>1, <2>1, <3>1, <3>4 DEF InitQueue, reqVars
  <2>2. CASE InitSpawn
    <3>1. PICK v \in {<<mprio, mthr>>} : wpc' = wpc \/ wpc' = [wpc EXCEPT ![v] = "starting"]
      BY <2>2 DEF InitSpawn, MoreThreads, WGoto
    <3>2. UNCHANGED <<queue, shutdown, semWakeUp, rpc, request>>
      BY <2>2 DEF InitSpawn, MoreThreads, ringVars, runVars, reqVars
    <3>3. \A w \in Workers : wpc'[w] = wpc[w] \/ wpc'[w] = "starting"
      BY <1>0, <3>1
    <3>4. Sleeper(p) /\ Watched(p)
      BY <3>2, <3>3 DEF NoIdleWorker, Sleeper, Watched
    <3>. QED  BY <3>2, <3>3, <3>4 DEF Watched, Looking
  <2>3. CASE StopFlag
    <3>1. semWakeUp' = [semWakeUp EXCEPT ![mprio] = TRUE]
          /\ shutdown' = [shutdown EXCEPT ![mprio] = TRUE]
      BY <2>3 DEF StopFlag
    <3>2. UNCHANGED <<queue, wpc, rpc, request>>
      BY <2>3 DEF StopFlag, reqVars, workVars
    <3>3. p # mprio /\ shutdown'[p] = shutdown[p] /\ semWakeUp'[p] = semWakeUp[p]
      BY <1>0, <3>1
    <3>4. Watched(p)
      BY <3>2, <3>3 DEF NoIdleWorker, Sleeper, Watched
    <3>. QED  BY <3>2, <3>3, <3>4 DEF Watched
  <2>6. CASE StopJoin
    <3>1. semWakeUp' = semWakeUp \/ semWakeUp' = [semWakeUp EXCEPT ![mprio] = TRUE]
      BY <2>6 DEF StopJoin, Resignal
    <3>2. UNCHANGED <<queue, shutdown, wpc, rpc, request>>
      BY <2>6 DEF StopJoin, reqVars, workVars, runVars
    <3>. QED  BY <1>0, <1>1, <3>1, <3>2
  <2>4. CASE Cleanup
    BY <2>4 DEF Cleanup
  <2>5. CASE InitBegin \/ InitStarted \/ StopBegin \/ StopWait
    BY <1>0, <1>1, <2>5 DEF InitBegin, InitStarted, StopBegin, StopWait, reqVars, workVars, runVars, ringVars
  <2>. QED  BY <1>7, <2>1, <2>2, <2>3, <2>4, <2>5, <2>6 DEF Main
<1>8. CASE WorkerLast
  BY <1>1, <1>8 DEF WorkerLast, ringVars, reqVars
<1>9. CASE UNCHANGED vars
  BY <1>3, <1>9 DEF vars, reqVars
<1>. QED
  BY <1>2, <1>3, <1>4, <1>5, <1>6, <1>7, <1>8, <1>9
     DEF Next, Request, Expire, RequestDelayed, CancelDelayed, CallerStep

\* The inductive invariant: types, the life cycle of the threads, and the rule
\* for sleepers, whose proof needs that callbackInit creates the event of a
\* priority before any of its threads can wait for it.
Inv == TypeOK /\ LifeCycle /\ NoIdleWorker

\* The strengthening is an invariant.
LEMMA InvHolds == Spec => []Inv
<1>1. Init => Inv
  <2>. SUFFICES ASSUME Init PROVE Inv
    OBVIOUS
  <2>1. TypeOK
    BY InitTypes
  <2>2. LifeCycle
    <3>1. \A p \in Prios : Alive(p) = {}
      BY DEF Init, Alive
    <3>2. ASSUME NEW p \in Prios
          PROVE  threadsRunning[p] = 0 /\ Uncounted(p) = 0 /\ Cardinality(Alive(p)) = 0
      BY <3>1, FS_EmptySet DEF Init, Uncounted
    <3>. QED  BY <3>2 DEF Init, LifeCycle
  <2>3. NoIdleWorker
    BY DEF Init, NoIdleWorker
  <2>. QED  BY <2>1, <2>2, <2>3 DEF Inv
<1>2. Inv /\ [Next]_vars => Inv'
  <2>. SUFFICES ASSUME Inv, [Next]_vars PROVE Inv'
    OBVIOUS
  <2>1. TypeOK'
    BY TypeStep DEF Inv
  <2>2. LifeCycle'
    <3>1. ASSUME UNCHANGED <<wpc, mpc, mprio, mthr, shutdown, threadsRunning>>
          PROVE  LifeCycle'
      <4>1. \A p \in Prios : Alive(p)' = Alive(p) /\ Uncounted(p)' = Uncounted(p)
        BY <3>1 DEF Alive, Uncounted
      <4>. QED  BY <3>1, <4>1 DEF Inv, LifeCycle
    <3>2. CASE \E w \in Workers : Worker(w)
      BY <3>2, WorkerLife DEF Inv
    <3>3. CASE Main
      BY <3>3, MainLife DEF Inv
    <3>4. CASE WorkerLast
      BY <3>1, <3>4 DEF WorkerLast, mainVars
    <3>5. CASE \/ \E r \in Requesters, c \in Callbacks :
                     Request(r, c) \/ RequestDelayed(r, c) \/ CancelDelayed(r, c)
               \/ \E c \in Callbacks : Expire(c)
               \/ \E r \in Callers : CallerStep(r)
      BY <3>1, <3>5 DEF Request, RequestDelayed, CancelDelayed, Expire, CallerStep,
         CallerPush, CallerSignal, CallerFull, runVars, workVars, mainVars
    <3>6. CASE UNCHANGED vars
      BY <3>1, <3>6 DEF vars, runVars, workVars, mainVars
    <3>. QED  BY <3>2, <3>3, <3>4, <3>5, <3>6 DEF Next
  <2>3. NoIdleWorker'
    BY WorkerWatches, OthersWatch DEF Inv
  <2>. QED  BY <2>1, <2>2, <2>3 DEF Inv
<1>. QED  BY <1>1, <1>2, PTL DEF Spec

\* However many threads serve a priority and however their requests, pops and
\* wakeups interleave, no request waits beside a thread that sleeps unseen.
THEOREM NoIdleWorkerHolds == Spec => []NoIdleWorker
<1>1. Inv => NoIdleWorker
  BY DEF Inv
<1>. QED  BY InvHolds, <1>1, PTL

\* When callbackStop has returned every thread of every priority is gone.
THEOREM QuietAfterStopHolds == Spec => []QuietAfterStop
<1>1. Inv => QuietAfterStop
  BY DEF Inv, LifeCycle, QuietAfterStop, Alive
<1>. QED  BY InvHolds, <1>1, PTL
=============================================================================
