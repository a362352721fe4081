---------------------------- MODULE RingPointer -----------------------------
(***************************************************************************)
(* epicsRingPointer (modules/libcom/src/ring/epicsRingPointer.h): a        *)
(* circular buffer of pointers.  With a spin lock any number of threads    *)
(* push and pop; without, one thread pushes while one pops, and nothing    *)
(* but the order of their loads and stores keeps them apart.  (The indices *)
(* and the slots are volatile: the stores of a thread are seen in program  *)
(* order.)                                                                 *)
(***************************************************************************)
EXTENDS Integers, Sequences

CONSTANTS Size,         \* elements the ring can store
          locked,       \* created with a spin lock
          Elements,     \* what the pointers point to
          Pushers, Poppers
NULL == <<>>
Nobody == "nobody"
Threads == Pushers \cup Poppers

ASSUME RingAssumption ==
    /\ Size \in Nat /\ locked \in BOOLEAN /\ NULL \notin Elements
    /\ Pushers \cap Poppers = {} /\ Nobody \notin Threads
    /\ locked \/ /\ \A t, u \in Pushers : t = u
                 /\ \A t, u \in Poppers : t = u

\* one slot stays empty, to tell a full ring from an empty one
size == Size + 1
Slots == 0 .. (size - 1)

VARIABLES lock, nextPush, nextPop, highWaterMark, buffer,
          pc,           \* where a thread is in push or pop
          p,            \* its element
          ok, popped    \* what its last call returned
idxVars == <<nextPush, nextPop>>
retVars == <<ok, popped>>
vars == <<lock, idxVars, highWaterMark, buffer, pc, p, retVars>>

Init ==
    /\ lock = Nobody /\ nextPush = 0 /\ nextPop = 0 /\ highWaterMark = 0
    /\ buffer = [i \in Slots |-> NULL]
    /\ pc = [t \in Threads |-> "idle"] /\ p = [t \in Threads |-> NULL]
    /\ ok = [t \in Pushers |-> FALSE] /\ popped = [t \in Poppers |-> NULL]

Inc(i) == IF i + 1 >= size THEN 0 ELSE i + 1

\* getUsed, getFree, isEmpty and isFull
wrap(n) == IF n < 0 THEN n + size ELSE n
held(push, pop) == wrap(push - pop)
getUsed == held(nextPush, nextPop)
getFree == wrap(nextPop - nextPush - 1)
isEmpty == nextPush = nextPop
isFull  == LET count == nextPush - nextPop + 1 IN count = 0 \/ count = size

Goto(t, l) == pc' = [pc EXCEPT ![t] = l]

\* (mutant: the lock is not taken)
Lock_Not(t) == UNCHANGED lock
Lock(t) == IF locked THEN lock = Nobody /\ lock' = t ELSE UNCHANGED lock
Unlock == lock' = Nobody

Enter(t) == /\ pc[t] = "idle" /\ Lock(t) /\ Goto(t, "test")
            /\ UNCHANGED <<idxVars, highWaterMark, buffer, retVars>>
----------------------------------------------------------------------------
(* push *)

PushCall(t, e) == Enter(t) /\ p' = [p EXCEPT ![t] = e]

PushReturn(t, r) == /\ Unlock /\ Goto(t, "idle")
                    /\ p' = [p EXCEPT ![t] = NULL]
                    /\ ok' = [ok EXCEPT ![t] = r]
                    /\ UNCHANGED <<idxVars, buffer, popped>>

NoRoom == Inc(nextPush) = nextPop

PushTest(t) ==
    /\ pc[t] = "test"
    /\ \/ NoRoom /\ PushReturn(t, FALSE) /\ UNCHANGED highWaterMark
       \/ /\ ~NoRoom /\ Goto(t, "store")
          /\ UNCHANGED <<lock, idxVars, highWaterMark, buffer, p, retVars>>

PushStore(t) ==
    /\ pc[t] = "store"
    /\ buffer' = [buffer EXCEPT ![nextPush] = p[t]]
    /\ Goto(t, "index")
    /\ UNCHANGED <<lock, idxVars, highWaterMark, p, retVars>>

PushIndex(t) ==
    /\ pc[t] = "index"
    /\ nextPush' = Inc(nextPush)
    /\ Goto(t, "mark")
    /\ UNCHANGED <<lock, nextPop, highWaterMark, buffer, p, retVars>>

Mark(used) == IF used > highWaterMark THEN used ELSE highWaterMark

PushMark(t) ==
    /\ pc[t] = "mark"
    /\ highWaterMark' = Mark(getUsed)
    /\ PushReturn(t, TRUE)

Push(t) == PushTest(t) \/ PushStore(t) \/ PushIndex(t) \/ PushMark(t)
----------------------------------------------------------------------------
(* pop *)

PopCall(t) == Enter(t) /\ UNCHANGED p

PopReturn(t, e) == /\ Unlock /\ Goto(t, "idle")
                   /\ p' = [p EXCEPT ![t] = NULL]
                   /\ popped' = [popped EXCEPT ![t] = e]
                   /\ UNCHANGED <<nextPush, highWaterMark, buffer, ok>>

PopTest(t) ==
    /\ pc[t] = "test"
    /\ \/ isEmpty /\ PopReturn(t, NULL) /\ UNCHANGED nextPop
       \/ /\ ~isEmpty /\ Goto(t, "load")
          /\ UNCHANGED <<lock, idxVars, highWaterMark, buffer, p, retVars>>

PopLoad(t) ==
    /\ pc[t] = "load"
    /\ p' = [p EXCEPT ![t] = buffer[nextPop]]
    /\ Goto(t, "index")
    /\ UNCHANGED <<lock, idxVars, highWaterMark, buffer, retVars>>

PopIndex(t) ==
    /\ pc[t] = "index"
    /\ nextPop' = Inc(nextPop)
    /\ PopReturn(t, p[t])

Pop(t) == PopTest(t) \/ PopLoad(t) \/ PopIndex(t)
----------------------------------------------------------------------------
\* flush and resetHighWaterMark: under the lock, or with the threads of an
\* unlocked ring kept out
Quiet == \A t \in Threads : pc[t] = "idle"

Flush == /\ Quiet
         /\ nextPop' = 0 /\ nextPush' = 0
         /\ UNCHANGED <<lock, highWaterMark, buffer, pc, p, retVars>>

Reset == /\ Quiet
         /\ highWaterMark' = getUsed
         /\ UNCHANGED <<lock, idxVars, buffer, pc, p, retVars>>

Next == \/ \E t \in Pushers : Push(t) \/ \E e \in Elements : PushCall(t, e)
        \/ \E t \in Poppers : Pop(t) \/ PopCall(t)
        \/ Flush \/ Reset

Spec == Init /\ [][Next]_vars
----------------------------------------------------------------------------
\* The variables keep their types.
TypeOK ==
    /\ lock \in Threads \cup {Nobody}
    /\ nextPush \in Slots /\ nextPop \in Slots
    /\ highWaterMark \in 0 .. Size
    /\ buffer \in [Slots -> Elements \cup {NULL}]
    /\ pc \in [Threads -> {"idle", "test", "store", "index", "mark", "load"}]
    /\ \A t \in Pushers : pc[t] # "load"
    /\ \A t \in Poppers : pc[t] \notin {"store", "mark"}
    /\ p \in [Threads -> Elements \cup {NULL}]
    /\ ok \in [Pushers -> BOOLEAN] /\ popped \in [Poppers -> Elements \cup {NULL}]

\* The high water mark of a locked ring is what it says, "the maximum number
\* of elements the ring buffer has held since the water mark was last reset":
\* never less than what it holds, and never more than it could.
MarkCovers == locked /\ Quiet => getUsed <= highWaterMark

\* The questions a thread may ask agree with one another, with the ring in any
\* place: they are computed in four ways from two indices that wrap.
Measures == /\ getUsed + getFree = Size
            /\ isFull <=> getFree = 0
            /\ isEmpty <=> getUsed = 0
            /\ NoRoom <=> isFull

\* the slot of the i-th element, from 0
at(pop, i) == IF pop + i >= size THEN pop + i - size ELSE pop + i
Slot(i) == at(nextPop, i)
Stored(buf, push, pop) == [i \in 1 .. held(push, pop) |-> buf[at(pop, i - 1)]]
Content == Stored(buffer, nextPush, nextPop)

\* One thread at a time pushes and one pops.
Exclusive == /\ \A t, u \in Pushers : pc[t] # "idle" /\ pc[u] # "idle" => t = u
             /\ \A t, u \in Poppers : pc[t] # "idle" /\ pc[u] # "idle" => t = u
             /\ locked => \A t \in Threads : pc[t] # "idle" => lock = t

\* Why ImplementsFifo holds: what a thread has tested stays so while it goes
\* on, since the other side only makes room, or only adds.
Stable ==
    /\ \A t \in Pushers :
        /\ pc[t] \in {"test", "store", "index"} => p[t] \in Elements
        /\ pc[t] \in {"store", "index"} => ~NoRoom
        /\ pc[t] = "index" => buffer[nextPush] = p[t]
    /\ \A t \in Poppers :
        /\ pc[t] \in {"load", "index"} => ~isEmpty
        /\ pc[t] = "index" => p[t] = buffer[nextPop]
    /\ \A i \in 0 .. (getUsed - 1) : buffer[Slot(i)] \in Elements

\* a call is pending until the step that takes effect
Pending(t) == pc[t] \in {"test", "store", "index"}
Putting == [t \in Pushers |-> IF Pending(t) THEN <<p[t]>> ELSE <<>>]
Answer  == [t \in Pushers |-> IF pc[t] = "mark" THEN TRUE ELSE ok[t]]
Getting == [t \in Poppers |-> IF Pending(t) \/ pc[t] = "load" THEN 1 ELSE 0]
Got     == [t \in Poppers |-> IF popped[t] = NULL THEN <<>> ELSE <<popped[t]>>]

Fifo == INSTANCE Fifo WITH
    Capacity <- Size, Puts <- {<<e>> : e \in Elements}, Amounts <- {1},
    Putters <- Pushers, Getters <- Poppers,
    fifo <- Content, putting <- Putting, stored <- Answer, getting <- Getting, got <- Got

\* The ring is a queue: elements are popped once and in the order of the pushes,
\* only a full ring refuses one and only an empty ring returns none, whatever
\* the interleaving of the threads, with the lock or, for two threads, without.
ImplementsFifo == Fifo!Spec
=============================================================================
