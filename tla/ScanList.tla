------------------------------ MODULE ScanList ------------------------------
(***************************************************************************)
(* The scan lists of dbScan.c: records that a thread processes one after   *)
(* the other, in order of PHAS, while other threads, and the processing    *)
(* itself, move records from one list to another by writing their SCAN,    *)
(* PHAS, EVNT or PRIO fields.  scanList holds the lock of its list only    *)
(* between records; what it remembers of the list (pse, prev, next) may be *)
(* out of date when it comes back, which the flag modified is there to     *)
(* tell.  The critical sections under the lock of a list take no other     *)
(* lock and are single actions.                                            *)
(*                                                                         *)
(* An ELLLIST is the sequence of its records; an element that is off all   *)
(* lists keeps the pointer to the element that was next when it was        *)
(* deleted.  The field scan stands for SCAN, EVNT, PRIO and the list that  *)
(* get_ioint_info returns: the list on which the record belongs.           *)
(***************************************************************************)
EXTENDS Naturals, Sequences, FiniteSets, SequencesExt

CONSTANTS Records, Lists, Phases,
          Scanners,  \* threads that run scanList
          Scans,     \* the list each of them scans
          Putters,   \* threads that write scan fields by dbPutField
          LockSet,   \* the lock set of each record
          None       \* no record, no list (a passive record's), no thread

ASSUME ScanListAssumption ==
    /\ Scans \in [Scanners -> Lists]
    /\ Phases \subseteq Nat
    /\ Scanners \cap Putters = {}
    /\ IsFiniteSet(Records)
    /\ None \notin Records \cup Lists \cup Scanners \cup Putters

Threads == Scanners \cup Putters
LockSets == {LockSet[r] : r \in Records}

VARIABLES list,        \* by list: its records, in order
          stale,       \* by record: node.next as the last deletion left it
          modified,    \* by list
          pscan_list,  \* by record: the list its scan element is on
          scan, phas,  \* by record: its fields
          lock,        \* by lock set: the thread that holds dbScanLock
          changing,    \* by thread: the record between scanDelete and scanAdd
          pc, pse, prev, next,  \* by scanner: the local variables of scanList
          steady,      \* history, by scanner: on its list since its scan began
          left,        \* ... taken off its list since
          back,        \* ... has one that left come back since?
          seen         \* ... those of steady it has processed since

fields == <<scan, phas>>
lists == <<list, stale, modified, pscan_list>>
cursor == <<pc, pse, prev, next>>
history == <<steady, left, back, seen>>
vars == <<lists, fields, lock, changing, cursor, history>>

Elements(l) == {list[l][i] : i \in 1 .. Len(list[l])}
Position(l, r) == CHOOSE i \in 1 .. Len(list[l]) : list[l][i] = r

Init ==
    /\ scan \in [Records -> Lists \cup {None}]
    /\ phas \in [Records -> Phases]
    /\ list \in [Lists -> UNION {[1 .. n -> Records] : n \in 0 .. Cardinality(Records)}]
    /\ \A l \in Lists :
         /\ Elements(l) = {r \in Records : scan[r] = l}
         /\ \A i, j \in 1 .. Len(list[l]) :
              i < j => list[l][i] # list[l][j] /\ phas[list[l][i]] <= phas[list[l][j]]
    /\ stale = [r \in Records |-> None]
    /\ modified = [l \in Lists |-> list[l] # <<>>]
    /\ pscan_list = scan
    /\ lock = [s \in LockSets |-> None]
    /\ changing = [t \in Threads |-> None]
    /\ pc = [s \in Scanners |-> "idle"]
    /\ pse = [s \in Scanners |-> None]
    /\ prev = [s \in Scanners |-> None]
    /\ next = [s \in Scanners |-> None]
    /\ steady = [s \in Scanners |-> {}]
    /\ left = [s \in Scanners |-> {}]
    /\ back = [s \in Scanners |-> FALSE]
    /\ seen = [s \in Scanners |-> {}]

-----------------------------------------------------------------------------
(* libCom's doubly linked lists.                                           *)

At(l, i) == IF i \in 1 .. Len(list[l]) THEN list[l][i] ELSE None

ellNext(r) == LET l == pscan_list[r]
              IN  IF l = None THEN stale[r] ELSE At(l, Position(l, r) + 1)

ellPrevious(r) == LET l == pscan_list[r] IN At(l, Position(l, r) - 1)

ellDelete(l, r) == /\ list' = [list EXCEPT ![l] = RemoveAt(@, Position(l, r))]
                   /\ stale' = [stale EXCEPT ![r] = ellNext(r)]

(* addToList looks from the end for a record of no higher phase.           *)
PlaceFor(l, ph) == {i \in 1 .. Len(list[l]) : phas[list[l][i]] <= ph} \cup {0}

ellInsert(l, i, r) == list' = [list EXCEPT ![l] = InsertAt(@, i + 1, r)]

-----------------------------------------------------------------------------
(* Writing a scan field: dbPutSpecial calls scanDelete before the field is *)
(* written and scanAdd after, both with the record locked; so do           *)
(* recGblCheckSimm from within the record's processing and dbPutFieldLink  *)
(* when a device link changes.                                             *)

Leaves(r, l) ==
    /\ steady' = [s \in Scanners |-> steady[s] \ {r}]
    /\ left' = [s \in Scanners |-> IF pc[s] # "idle" /\ Scans[s] = l
                                   THEN left[s] \cup {r} ELSE left[s]]
    /\ seen' = [s \in Scanners |-> seen[s] \ {r}]
    /\ UNCHANGED back

deleteFromList(r, l) ==
    IF pscan_list[r] # l
    THEN UNCHANGED <<lists, history>>
    ELSE /\ pscan_list' = [pscan_list EXCEPT ![r] = None]
         /\ ellDelete(l, r)
         /\ modified' = [modified EXCEPT ![l] = TRUE]
         /\ Leaves(r, l)

scanDelete(r) == IF scan[r] = None THEN UNCHANGED <<lists, history>>
                 ELSE deleteFromList(r, scan[r])

addToList(r, l, ph) ==
    /\ pscan_list' = [pscan_list EXCEPT ![r] = l]
    /\ \E i \in PlaceFor(l, ph) : /\ \A j \in PlaceFor(l, ph) : j <= i
                                  /\ ellInsert(l, i, r)
    /\ modified' = [modified EXCEPT ![l] = TRUE]
    /\ back' = [s \in Scanners |-> back[s] \/ (Scans[s] = l /\ r \in left[s])]
    /\ UNCHANGED <<stale, steady, left, seen>>

scanAdd_Before(r, l, ph) == IF scan[r] = None THEN UNCHANGED <<lists, history>>
                            ELSE addToList(r, scan[r], ph)
scanAdd(r, l, ph) == IF l = None THEN UNCHANGED <<lists, history>>
                     ELSE addToList(r, l, ph)

Locked(t, r) == lock[LockSet[r]] = t

(* A put reached from the processing of a record of the lock set.          *)
BeginNested(s, r) ==
    /\ pc[s] = "process" /\ Locked(s, r) /\ changing[s] = None
    /\ changing' = [changing EXCEPT ![s] = r]
    /\ scanDelete(r)
    /\ UNCHANGED <<fields, lock, cursor>>

(* dbPutField by another thread; it holds the lock set until the end.      *)
BeginPut(t, r) ==
    /\ changing[t] = None /\ Locked(None, r)
    /\ lock' = [lock EXCEPT ![LockSet[r]] = t]
    /\ changing' = [changing EXCEPT ![t] = r]
    /\ scanDelete(r)
    /\ UNCHANGED <<fields, cursor>>

EndChange(t, l, ph) ==
    LET r == changing[t] IN
    /\ r # None
    /\ scan' = [scan EXCEPT ![r] = l]
    /\ phas' = [phas EXCEPT ![r] = ph]
    /\ scanAdd(r, l, ph)
    /\ changing' = [changing EXCEPT ![t] = None]
    /\ lock' = IF t \in Putters THEN [lock EXCEPT ![LockSet[r]] = None] ELSE lock
    /\ UNCHANGED cursor

-----------------------------------------------------------------------------
(* scanList.                                                               *)

FirstOf(l) == At(l, 1)
NextOf(r, old) == IF r = None THEN old ELSE ellNext(r)

Moved(s, e, p, n) ==
    /\ pse' = [pse EXCEPT ![s] = e]
    /\ prev' = [prev EXCEPT ![s] = p]
    /\ next' = [next EXCEPT ![s] = n]

Forget(s) == /\ steady' = [steady EXCEPT ![s] = {}]
             /\ left' = [left EXCEPT ![s] = {}]
             /\ back' = [back EXCEPT ![s] = FALSE]
             /\ seen' = [seen EXCEPT ![s] = {}]

StartScan(s) ==
    LET l == Scans[s] IN
    /\ pc[s] = "idle"
    /\ modified' = [modified EXCEPT ![l] = FALSE]
    /\ Moved(s, FirstOf(l), None, NextOf(FirstOf(l), None))
    /\ IF FirstOf(l) = None
       THEN UNCHANGED <<pc, history>>
       ELSE /\ pc' = [pc EXCEPT ![s] = "lock"]
            /\ steady' = [steady EXCEPT ![s] = Elements(l)]
            /\ UNCHANGED <<left, back, seen>>
    /\ UNCHANGED <<list, stale, pscan_list, fields, lock, changing>>

(* dbScanLock, dbProcess, dbScanUnlock.                                    *)
Process(s) ==
    /\ pc[s] = "lock" /\ Locked(None, pse[s])
    /\ lock' = [lock EXCEPT ![LockSet[pse[s]]] = s]
    /\ pc' = [pc EXCEPT ![s] = "process"]
    /\ UNCHANGED <<lists, fields, changing, pse, prev, next, history>>

Processed(s) ==
    /\ pc[s] = "process" /\ changing[s] = None
    /\ lock' = [lock EXCEPT ![LockSet[pse[s]]] = None]
    /\ pc' = [pc EXCEPT ![s] = "step"]
    /\ seen' = [seen EXCEPT ![s] = @ \cup ({pse[s]} \cap steady[s])]
    /\ UNCHANGED <<lists, fields, changing, pse, prev, next, steady, left, back>>

OnList_Any(r, l) == r # None /\ pscan_list[r] # None
OnList(r, l) == r # None /\ pscan_list[r] = l

(* The scan goes on with e, or ends.                                       *)
Continue(s, e, p, n) ==
    /\ Moved(s, e, IF e = None THEN None ELSE p, IF e = None THEN None ELSE n)
    /\ IF e = None THEN pc' = [pc EXCEPT ![s] = "idle"] /\ Forget(s)
                   ELSE pc' = [pc EXCEPT ![s] = "lock"] /\ UNCHANGED history

AfterCurrent(s) ==
    LET e == ellNext(pse[s]) IN Continue(s, e, pse[s], NextOf(e, None))

AfterPrevious_Again(s) ==
    LET e == prev[s] IN Continue(s, e, ellPrevious(e), NextOf(e, None))
AfterPrevious(s) ==
    LET e == ellNext(prev[s]) IN
    Continue(s, e, IF e = None THEN None ELSE ellPrevious(e), NextOf(e, None))

AtNext_Beyond(s) == LET e == ellNext(next[s]) IN Continue(s, e, next[s], NextOf(e, None))
AtNext(s) == LET e == next[s] IN Continue(s, e, ellPrevious(e), ellNext(e))

(* "Too many changes.  Just wait till next period"                         *)
GiveUp(s) == /\ pc' = [pc EXCEPT ![s] = "idle"]
             /\ Moved(s, pse[s], None, None)
             /\ Forget(s)

Unmodified(s) == ~modified[Scans[s]]

Step(s) ==
    LET l == Scans[s] IN
    /\ pc[s] = "step"
    /\ \/ /\ Unmodified(s)
          /\ AfterCurrent(s) /\ UNCHANGED modified
       \/ /\ ~Unmodified(s)
          /\ \/ /\ OnList(pse[s], l)
                /\ AfterCurrent(s)
             \/ /\ ~OnList(pse[s], l) /\ OnList(prev[s], l)
                /\ AfterPrevious(s)
             \/ /\ ~OnList(pse[s], l) /\ ~OnList(prev[s], l) /\ OnList(next[s], l)
                /\ AtNext(s)
          /\ modified' = [modified EXCEPT ![l] = FALSE]
       \/ /\ ~Unmodified(s)
          /\ \A r \in {pse[s], prev[s], next[s]} : ~OnList(r, l)
          /\ GiveUp(s) /\ UNCHANGED modified
    /\ UNCHANGED <<list, stale, pscan_list, fields, lock, changing>>

Next ==
    \/ \E s \in Scanners : \/ StartScan(s) \/ Process(s) \/ Processed(s) \/ Step(s)
                           \/ \E r \in Records : BeginNested(s, r)
    \/ \E t \in Putters, r \in Records : BeginPut(t, r)
    \/ \E t \in Threads, l \in Lists \cup {None}, ph \in Phases : EndChange(t, l, ph)

Spec == Init /\ [][Next]_vars

-----------------------------------------------------------------------------
ListTypes ==
    /\ list \in [Lists -> Seq(Records)]
    /\ stale \in [Records -> Records \cup {None}]
    /\ modified \in [Lists -> BOOLEAN]
    /\ pscan_list \in [Records -> Lists \cup {None}]
    /\ scan \in [Records -> Lists \cup {None}]
    /\ phas \in [Records -> Phases]

ThreadTypes ==
    /\ lock \in [LockSets -> Threads \cup {None}]
    /\ changing \in [Threads -> Records \cup {None}]
    /\ pc \in [Scanners -> {"idle", "lock", "process", "step"}]
    /\ pse \in [Scanners -> Records \cup {None}]
    /\ prev \in [Scanners -> Records \cup {None}]
    /\ next \in [Scanners -> Records \cup {None}]

HistoryTypes ==
    /\ steady \in [Scanners -> SUBSET Records]
    /\ left \in [Scanners -> SUBSET Records]
    /\ back \in [Scanners -> BOOLEAN]
    /\ seen \in [Scanners -> SUBSET Records]

(* Every variable holds a value of its kind.                               *)
TypeOK == ListTypes /\ ThreadTypes /\ HistoryTypes

(* A list holds the records whose scan element points to it, each once and *)
(* in order of PHAS, however the fields are written (addToList compares    *)
(* the PHAS of records whose lock sets it does not hold, 1076-1081).       *)
ListIntact ==
    \A l \in Lists :
      /\ Elements(l) = {r \in Records : pscan_list[r] = l}
      /\ \A i, j \in 1 .. Len(list[l]) :
           i < j => list[l][i] # list[l][j] /\ phas[list[l][i]] <= phas[list[l][j]]

(* Unless a thread is writing its scan fields, a record is on the list     *)
(* that its fields name (236-380).                                         *)
FieldsName ==
    \A r \in Records : scan[r] = pscan_list[r] \/ \E t \in Threads : changing[t] = r

(* A scan takes its next record from its own list, whatever happened to    *)
(* the list while the last record was processed (1007-1037).               *)
StaysOnList ==
    [][\A s \in Scanners :
         pc[s] = "step" /\ pc'[s] = "lock" => pscan_list[pse'[s]] = Scans[s]]_vars

(* If no record that left the list during a scan came back to it before    *)
(* the scan ended, the records that never moved are processed once, in     *)
(* order of PHAS.                                                          *)
InPhaseOrder ==
    \A s \in Scanners :
      pc[s] = "lock" /\ pse[s] \in steady[s] /\ ~back[s] =>
        \A r \in seen[s] : r # pse[s] /\ phas[r] <= phas[pse[s]]

Completes(s) == pc[s] = "step" /\ pc'[s] = "idle" /\ pse'[s] = None

(* ... and none of them is left out, unless the scan gives up because the  *)
(* record just processed and its two neighbours are all gone (1031-1035).  *)
NothingSkipped ==
    [][\A s \in Scanners : Completes(s) /\ ~back[s] => steady[s] \subseteq seen[s]]_vars

-----------------------------------------------------------------------------
(* What the proofs need besides.  A thread holds the locks of the record   *)
(* it processes and of the record it changes; that record is on no list.   *)
LocksHeld ==
    /\ \A s \in Scanners : pc[s] = "process" => Locked(s, pse[s])
    /\ \A t \in Threads : changing[t] # None => Locked(t, changing[t])

OffList == \A t \in Threads : changing[t] # None => pscan_list[changing[t]] = None

CursorSet == \A s \in Scanners : pc[s] # "idle" => pse[s] # None

(* Lists, scan fields, lock sets and the places of scans agree: every      *)
(* record is on the list its fields name, once and in order, unless the    *)
(* thread that has it locked is changing them (236-380, 1046-1123).        *)
Inv == TypeOK /\ ListIntact /\ FieldsName /\ LocksHeld /\ OffList /\ CursorSet

(* With one scanner to a list, an unmodified list still holds the record   *)
(* its scan has come to.                                                   *)
CursorFresh ==
    \A s \in Scanners :
      pc[s] # "idle" /\ ~modified[Scans[s]] => pscan_list[pse[s]] = Scans[s]
=============================================================================
