------------------------------- MODULE DbLock -------------------------------
(***************************************************************************)
(* Lock sets (modules/database/src/ioc/db/dbLock.c): records that database *)
(* links connect are locked together.  A put to a link field merges and    *)
(* splits lock sets while other threads wait for them, and lock sets that  *)
(* are no longer used go to a free list by reference counts.               *)
(*                                                                         *)
(* A step is a section under a record's spin lock, one under lockSetsGuard,*)
(* an atomic operation on a count, or the locking of a mutex.              *)
(***************************************************************************)
EXTENDS Integers, Sequences, FiniteSets, SequencesExt

CONSTANTS
    Threads,      \* positive numbers
    Records,      \* 1 .. number of records
    MaxSets,      \* lock sets there are memory for
    Instances     \* what is checked:
                  \*   links  the links the database is loaded with, as
                  \*          <<record, number of the field, target>>
                  \*   jobs   what each thread does, one after the other

Jobs == [kind : {"one"}, rec : Records]              \* dbScanLock
    \cup [kind : {"many"}, recs : Seq(Records), again : Nat,   \* a dbLocker
          inner : Records \cup {0}]   \* a record locked inside it, or 0
    \cup [kind : {"put"}, rec : Records, field : Nat, to : Records \cup {0}]

ASSUME LockAssumption ==
    /\ Threads \subseteq Nat \ {0} /\ IsFiniteSet(Threads)
    /\ IsFiniteSet(Records) /\ Records = 1 .. Cardinality(Records)
    /\ MaxSets \in Nat /\ MaxSets >= Cardinality(Records)
    /\ \A i \in Instances :
          /\ i.links \in Seq(Records \X Nat \X Records)
          /\ \A t \in Threads : i.jobs[t] \in Seq(Jobs)

None == 0
Sets == 1 .. MaxSets
Fields == Records \X {1, 2}

VARIABLES
    inst,         \* the instance: never changes
    loaded,       \* how many of inst.links have been initialized
    link,         \* the target of each link field that is a DB_LINK
    plockSet,     \* the lock set of each record
    refcount, owner, depth, ownerlocker,   \* of each lock set
    made,         \* lock sets ever allocated
    free,         \* lockSetsFree; the others that were made are in lockSetsActive
    recomputeCnt,
    locker,       \* the dbLocker of each thread
    th,           \* what each thread does
    left          \* the jobs it has still to do

setVars == <<refcount, made, free>>
mutexVars == <<owner, depth, ownerlocker>>
linkVars == <<link, plockSet, recomputeCnt>>
vars == <<inst, loaded, linkVars, setVars, mutexVars, locker, th, left>>

NoLocker == [refs |-> <<>>, locked |-> <<>>, recomp |-> 0]
Idle == [pc |-> "idle", rec |-> None, set |-> None, old |-> None, mode |-> "prepare", i |-> 1, cap |-> 0,
         changed |-> FALSE, to |-> {}, n |-> 0, drop |-> <<>>, dead |-> None]

\* createLockRecord of each record
Init ==
    /\ inst \in Instances /\ loaded = 0
    /\ link = [f \in Fields |-> None]
    /\ plockSet = [r \in Records |-> r]
    /\ refcount = [s \in Sets |-> IF s \in Records THEN 1 ELSE 0]
    /\ made = Cardinality(Records) /\ free = <<>>
    /\ owner = [s \in Sets |-> None] /\ depth = [s \in Sets |-> 0]
    /\ ownerlocker = [s \in Sets |-> None]
    /\ recomputeCnt = 0
    /\ locker = [t \in Threads |-> NoLocker]
    /\ th = [t \in Threads |-> Idle]
    /\ left = inst.jobs

Running == loaded = Len(inst.links)
RecordsOf(s) == {r \in Records : plockSet[r] = s}
Job(t) == Head(left[t])
\* a thread first completes the dbLockDecRef it is in
At(t, pc) == Running /\ th[t].pc = pc /\ th[t].drop = <<>> /\ th[t].dead = None

-----------------------------------------------------------------------------
(* References, and the free list.                                          *)

\* dbLockDecRef of the lock sets of th[t].drop
dbLockDecRef(t) ==
    LET s == Head(th[t].drop) IN
    /\ th[t].drop # <<>> /\ th[t].dead = None
    /\ refcount' = [refcount EXCEPT ![s] = @ - 1]
    /\ th' = [th EXCEPT ![t].drop = Tail(@), ![t].dead = IF refcount[s] = 1 THEN s ELSE None]
    /\ UNCHANGED <<inst, loaded, linkVars, made, free, mutexVars, locker, left>>

\* its last part, for a lock set without references
FreeSet(t) ==
    /\ th[t].dead # None
    /\ free' = Append(free, th[t].dead)
    /\ th' = [th EXCEPT ![t].dead = None]
    /\ UNCHANGED <<inst, loaded, linkVars, refcount, made, mutexVars, locker, left>>

-----------------------------------------------------------------------------
(* dbScanLock and dbScanUnlock.                                            *)

Free(t, s) == owner[s] \in {None, t}
Takes(t, s) == /\ owner' = [owner EXCEPT ![s] = t] /\ depth' = [depth EXCEPT ![s] = @ + 1]
Gives(s) == /\ owner' = [owner EXCEPT ![s] = IF depth[s] = 1 THEN None ELSE @]
            /\ depth' = [depth EXCEPT ![s] = @ - 1]

\* the record is to be locked on its own, or inside a dbLocker
GetRef(t, r) ==
    /\ refcount' = [refcount EXCEPT ![plockSet[r]] = @ + 1]
    /\ th' = [th EXCEPT ![t].pc = "scanLock", ![t].rec = r, ![t].set = plockSet[r]]
    /\ UNCHANGED <<inst, loaded, linkVars, made, free, mutexVars, locker, left>>
dbLockGetRef(t) ==
    \/ At(t, "idle") /\ left[t] # <<>> /\ Job(t).kind = "one" /\ GetRef(t, Job(t).rec)
    \/ /\ At(t, "held") /\ Job(t).kind = "many" /\ Job(t).inner # None /\ th[t].rec = None
       /\ GetRef(t, Job(t).inner)

\* the mutex, then the test whether it is still the record's: that the record is of this
\* lock set changes only with the mutex
dbScanLock(t) ==
    LET s == th[t].set
        s2 == plockSet[th[t].rec]
    IN
    /\ At(t, "scanLock") /\ Free(t, s)
    /\ \/ /\ s = s2
          /\ refcount' = [refcount EXCEPT ![s] = @ - 1]
          /\ Takes(t, s)
          /\ th' = [th EXCEPT ![t].pc = "locked"]
       \/ /\ s # s2
          /\ refcount' = [refcount EXCEPT ![s2] = @ + 1]
          /\ th' = [th EXCEPT ![t].set = s2, ![t].drop = <<s>>]
          /\ UNCHANGED <<owner, depth>>
    /\ UNCHANGED <<inst, loaded, linkVars, made, free, ownerlocker, locker, left>>

dbScanUnlock(t) ==
    LET s == plockSet[th[t].rec] IN
    /\ At(t, "locked")
    /\ refcount' = [refcount EXCEPT ![s] = @ + 1]
    /\ Gives(s)
    /\ \/ /\ Job(t).kind = "one"
          /\ th' = [th EXCEPT ![t] = [Idle EXCEPT !.drop = <<s>>]]
          /\ left' = [left EXCEPT ![t] = Tail(@)]
       \/ /\ Job(t).kind = "many"
          /\ th' = [th EXCEPT ![t].pc = "held", ![t].drop = <<s>>]
          /\ UNCHANGED left
    /\ UNCHANGED <<inst, loaded, linkVars, made, free, ownerlocker, locker>>

-----------------------------------------------------------------------------
(* A dbLocker.                                                             *)

\* the records of dbLockerPrepare; dbPutFieldLink has those of both ends
Asked(t) ==
    LET j == Job(t) IN
    CASE j.kind = "many" -> j.recs
      [] j.kind = "put"  -> IF j.to = None THEN <<j.rec>> ELSE <<j.rec, j.to>>

dbLockerPrepare(t) ==
    /\ At(t, "idle") /\ left[t] # <<>> /\ Job(t).kind # "one"
    /\ locker' = [locker EXCEPT ![t] =
          [refs |-> [i \in DOMAIN Asked(t) |-> [plr |-> Asked(t)[i], plockSet |-> None]],
           locked |-> <<>>, recomp |-> recomputeCnt - 1]]
    /\ th' = [th EXCEPT ![t] = [Idle EXCEPT !.pc = "update"]]
    /\ UNCHANGED <<inst, loaded, linkVars, setVars, mutexVars, left>>

\* qsort by lrrcompare (mutant: the references stay as they are)
Sorted_Not(refs) == refs
Sorted(refs) == SortSeq(refs, LAMBDA a, b : a.plockSet < b.plockSet)
\* (mutant: the count as it is when the references have been read)
Snapshot_Late(t) == recomputeCnt
Snapshot(t) == th[t].cap

\* where dbLockUpdateRefs returns to: it is called before locking, by dbLockerPrepare and
\* dbScanLockMany, and once more after it
Return(t) == [th[t] EXCEPT
    !.pc = CASE th[t].mode = "prepare" -> "update"
             [] th[t].mode = "lock"    -> "acquire"
             [] th[t].mode = "verify"  -> "held",
    !.mode = IF th[t].mode = "prepare" THEN "lock" ELSE "verify",
    !.i = 1, !.changed = FALSE]

\* no lockRecord has changed its lock set since
UpdateSkipped(t) ==
    /\ At(t, "update") /\ recomputeCnt = locker[t].recomp
    /\ th' = [th EXCEPT ![t] = Return(t)]
    /\ UNCHANGED <<inst, loaded, linkVars, setVars, mutexVars, locker, left>>

UpdateStarts(t) ==
    /\ At(t, "update") /\ recomputeCnt # locker[t].recomp
    /\ th' = [th EXCEPT ![t].pc = "refs", ![t].cap = recomputeCnt]
    /\ UNCHANGED <<inst, loaded, linkVars, setVars, mutexVars, locker, left>>

\* dbLockIncRef
IncRef(s) == [refcount EXCEPT ![s] = @ + 1]

\* one reference
UpdateRef(t) ==
    LET i == th[t].i
        ref == locker[t].refs[i]
        s == plockSet[ref.plr]
        stale == ref.plockSet # s
        new == [locker[t].refs EXCEPT ![i].plockSet = s]
        last == i = Len(new)
        changed == th[t].changed \/ stale
        On(drop) == th' = [th EXCEPT ![t] =
            [(IF last THEN Return(t) ELSE [@ EXCEPT !.i = @ + 1, !.changed = changed])
                EXCEPT !.drop = drop]]
    IN
    /\ At(t, "refs")
    /\ \/ /\ stale /\ th[t].mode = "verify"   \* "oops, collided with recompute"
          /\ th' = [th EXCEPT ![t].pc = "unlock", ![t].mode = "lock", ![t].i = 1]
          /\ UNCHANGED <<refcount, locker>>
       \/ /\ ~stale /\ th[t].mode = "verify"
          /\ On(<<>>)
          /\ UNCHANGED <<refcount, locker>>
       \/ /\ th[t].mode # "verify"
          /\ refcount' = IF stale THEN IncRef(s) ELSE refcount
          /\ locker' = [locker EXCEPT ![t].refs = IF last /\ changed THEN Sorted(new) ELSE new,
                                      ![t].recomp = IF last THEN Snapshot(t) ELSE @]
          /\ On(IF stale /\ ref.plockSet # None THEN <<ref.plockSet>> ELSE <<>>)
    /\ UNCHANGED <<inst, loaded, linkVars, made, free, mutexVars, left>>

\* dbScanLockMany takes the mutexes in the order of the references, each once
Acquire(t) ==
    LET refs == locker[t].refs
        s == refs[th[t].i].plockSet
        more == {j \in DOMAIN refs : j > th[t].i /\ refs[j].plockSet # s}
    IN
    /\ At(t, "acquire") /\ Free(t, s)
    /\ Takes(t, s) /\ ownerlocker' = [ownerlocker EXCEPT ![s] = t]
    /\ locker' = [locker EXCEPT ![t].locked = Append(@, s)]
    /\ refcount' = [refcount EXCEPT ![s] = @ + 1]
    /\ th' = [th EXCEPT ![t] = IF more = {} THEN [@ EXCEPT !.pc = "update", !.i = 1]
                               ELSE [@ EXCEPT !.i = Min(more)]]
    /\ UNCHANGED <<inst, loaded, linkVars, made, free, left>>

\* the work with the records is done, or dbScanLockMany has to try again
Unlocks(t) ==
    \/ At(t, "unlock") \/ At(t, "done")
    \/ At(t, "held") /\ Job(t).kind = "many" /\ (Job(t).inner = None \/ th[t].rec # None)

\* one mutex of dbScanUnlockMany; after the last a locker is used again or freed
dbScanUnlockMany(t) ==
    LET s == Head(locker[t].locked)
        retry == th[t].mode = "lock"
        Relock == [Idle EXCEPT !.pc = "update", !.mode = "lock", !.drop = <<s>>]
        refs == [i \in DOMAIN locker[t].refs |-> locker[t].refs[i].plockSet]
    IN
    /\ Unlocks(t)
    /\ Gives(s) /\ ownerlocker' = [ownerlocker EXCEPT ![s] = None]
    /\ \/ /\ Len(locker[t].locked) > 1
          /\ locker' = [locker EXCEPT ![t].locked = Tail(@)]
          /\ th' = [th EXCEPT ![t].pc = "unlock", ![t].drop = <<s>>]
          /\ UNCHANGED left
       \/ /\ Len(locker[t].locked) = 1 /\ retry
          /\ locker' = [locker EXCEPT ![t].locked = <<>>]
          /\ th' = [th EXCEPT ![t] = Relock]
          /\ UNCHANGED left
       \/ /\ Len(locker[t].locked) = 1 /\ ~retry /\ Job(t).kind = "many" /\ Job(t).again > 0
          /\ locker' = [locker EXCEPT ![t].locked = <<>>]
          /\ th' = [th EXCEPT ![t] = Relock]
          /\ left' = [left EXCEPT ![t][1].again = @ - 1]
       \/ /\ Len(locker[t].locked) = 1 /\ ~retry
          /\ Job(t).kind = "many" => Job(t).again = 0
          /\ locker' = [locker EXCEPT ![t] = NoLocker]   \* dbLockerFinalize
          /\ th' = [th EXCEPT ![t] = [Idle EXCEPT !.drop = <<s>> \o refs]]
          /\ left' = [left EXCEPT ![t] = Tail(@)]
    /\ UNCHANGED <<inst, loaded, linkVars, setVars>>

-----------------------------------------------------------------------------
(* Merging and splitting, by a put to a link field.                        *)

\* the records that the links l connect with r
Connected(r, l) == {s \in Records : \A S \in SUBSET Records :
    r \in S /\ (\A f \in Fields : l[f] # None => (f[1] \in S <=> l[f] \in S)) => s \in S}

\* what dbLockSetSplit comes by, over links in both directions (mutant: only links that
\* begin at a record are followed)
Visited_Forward(s, l) == {x \in Records : \A S \in SUBSET Records :
    s \in S /\ (\A f \in Fields : l[f] # None /\ f[1] \in S => l[f] \in S) => x \in S}
Visited(s, l) == Connected(s, l)

\* (mutant: makeSet leaves the lock set in the free list)
RestOfFree_All == free
RestOfFree == IF free = <<>> THEN free ELSE Tail(free)
NextSet == IF free = <<>> THEN made + 1 ELSE Head(free)
\* dbLockSetSplit gets a lock set from makeSet, and locks it
Opens(t, recs) ==
    LET s == NextSet IN
    /\ made' = IF free = <<>> THEN made + 1 ELSE made
    /\ free' = RestOfFree
    /\ refcount' = [refcount EXCEPT ![s] = @ + 1]
    /\ Takes(t, s) /\ ownerlocker' = [ownerlocker EXCEPT ![s] = t]
    /\ locker' = [locker EXCEPT ![t].locked = Append(@, s)]
    /\ th' = [th EXCEPT ![t].pc = "split", ![t].set = s, ![t].old = plockSet[Job(t).rec],
                        ![t].to = recs, ![t].n = Cardinality(recs)]

\* dbRemoveLink, with dbDbRemoveLink for a link that is a DB_LINK
dbRemoveLink(t) ==
    LET j == Job(t)
        f == <<j.rec, j.field>>
        s == link[f]
        l == [link EXCEPT ![f] = None]
    IN
    /\ At(t, "held") /\ j.kind = "put"
    /\ link' = l
    /\ IF s # None /\ s # j.rec /\ j.rec \notin Visited(s, l)
       THEN Opens(t, Visited(s, l))
       ELSE /\ th' = [th EXCEPT ![t].pc = "add"]
            /\ UNCHANGED <<setVars, mutexVars, locker>>
    /\ UNCHANGED <<inst, loaded, plockSet, recomputeCnt, left>>

\* one record of th[t].to goes to the lock set
Moves(t) ==
    LET r == CHOOSE x \in th[t].to : TRUE IN
    /\ plockSet' = [plockSet EXCEPT ![r] = th[t].set]
    /\ recomputeCnt' = recomputeCnt + 1
    /\ th' = [th EXCEPT ![t].to = @ \ {r}]

MoveRecord(t) ==
    /\ th[t].to # {} /\ (At(t, "split") \/ At(t, "merge"))
    /\ Moves(t)
    /\ UNCHANGED <<inst, loaded, link, setVars, mutexVars, locker, left>>

\* the references of the records, after all of them have gone
SplitCounts(t) ==
    /\ At(t, "split") /\ th[t].to = {}
    /\ refcount' = [refcount EXCEPT ![th[t].old] = @ - th[t].n, ![th[t].set] = @ + th[t].n]
    /\ th' = [th EXCEPT ![t].pc = "add"]
    /\ UNCHANGED <<inst, loaded, linkVars, made, free, mutexVars, locker, left>>

\* dbAddLink, with dbDbAddLink for a target in the database
dbAddLink(t) ==
    LET j == Job(t)
        A == plockSet[j.rec]
        B == plockSet[j.to]
    IN
    /\ At(t, "add")
    /\ link' = [link EXCEPT ![<<j.rec, j.field>>] = j.to]
    /\ th' = [th EXCEPT ![t] = IF j.to = None THEN [@ EXCEPT !.pc = "done"]
                               ELSE IF A = B THEN [@ EXCEPT !.pc = "done"]
                               ELSE [@ EXCEPT !.pc = "merge", !.set = A, !.old = B, !.to = RecordsOf(B),
                                              !.n = Cardinality(RecordsOf(B))]]
    /\ UNCHANGED <<inst, loaded, plockSet, recomputeCnt, setVars, mutexVars, locker, left>>

\* dbPutFieldLink gives up: the new link does not fit the field or its device support, or
\* special processing, dbSetLink or add_record fails when the old one is gone
PutFails(t) ==
    /\ (At(t, "held") /\ Job(t).kind = "put") \/ At(t, "add")
    /\ th' = [th EXCEPT ![t].pc = "done"]
    /\ UNCHANGED <<inst, loaded, linkVars, setVars, mutexVars, locker, left>>

CountsOfMerge(t, A, B) == refcount' = [refcount EXCEPT ![A] = @ + th[t].n, ![B] = @ - th[t].n]
GivesMerged(s) == Gives(s) /\ ownerlocker' = [ownerlocker EXCEPT ![s] = None]

\* "update ref counters", and the lock set without records is unlocked
MergeCounts(t) ==
    LET A == th[t].set
        B == th[t].old
    IN
    /\ At(t, "merge") /\ th[t].to = {}
    /\ CountsOfMerge(t, A, B)
    /\ locker' = [locker EXCEPT ![t].locked = Remove(@, B)]
    /\ GivesMerged(B)
    /\ th' = [th EXCEPT ![t].pc = "done", ![t].drop = <<B>>]
    /\ UNCHANGED <<inst, loaded, linkVars, made, free, left>>

-----------------------------------------------------------------------------
\* dbDbInitLink when the database is loaded: dbLockSetMerge without a dbLocker
dbDbInitLink ==
    LET l == inst.links[loaded + 1]
        A == plockSet[l[1]]
        B == plockSet[l[3]]
        n == Cardinality(RecordsOf(B))
    IN
    /\ ~Running
    /\ loaded' = loaded + 1
    /\ link' = [link EXCEPT ![<<l[1], l[2]>>] = l[3]]
    /\ IF A = B
       THEN UNCHANGED <<plockSet, recomputeCnt, refcount, free>>
       ELSE /\ plockSet' = [r \in Records |-> IF plockSet[r] = B THEN A ELSE plockSet[r]]
            /\ recomputeCnt' = recomputeCnt + n
            /\ refcount' = [refcount EXCEPT ![A] = @ + n, ![B] = @ - n]
            /\ free' = Append(free, B)
    /\ UNCHANGED <<inst, made, mutexVars, locker, th, left>>

Step(t) ==
    \/ dbLockDecRef(t) \/ FreeSet(t)
    \/ dbLockGetRef(t) \/ dbScanLock(t) \/ dbScanUnlock(t)
    \/ dbLockerPrepare(t) \/ UpdateSkipped(t) \/ UpdateStarts(t) \/ UpdateRef(t)
    \/ Acquire(t) \/ dbScanUnlockMany(t)
    \/ dbRemoveLink(t) \/ MoveRecord(t) \/ SplitCounts(t) \/ dbAddLink(t) \/ MergeCounts(t)
    \/ PutFails(t)

Next == dbDbInitLink \/ \E t \in Threads : Step(t)
Spec == Init /\ [][Next]_vars
\* a thread that can go on does
FairSpec == Spec /\ WF_vars(dbDbInitLink) /\ \A t \in Threads : WF_vars(Step(t))
-----------------------------------------------------------------------------
Holding == {"held", "split", "add", "merge", "done"}
\* The type of every variable.
TypeOK ==
    /\ inst \in Instances /\ loaded \in 0 .. Len(inst.links)
    /\ link \in [Fields -> Records \cup {None}] /\ plockSet \in [Records -> Sets]
    /\ recomputeCnt \in Nat /\ refcount \in [Sets -> Nat] /\ made \in Sets
    /\ free \in Seq(1 .. made)
    /\ owner \in [Sets -> Threads \cup {None}] /\ depth \in [Sets -> 0 .. 2]
    /\ ownerlocker \in [Sets -> Threads \cup {None}]
    /\ \A t \in Threads :
          /\ \A i \in DOMAIN locker[t].refs :
                locker[t].refs[i] \in [plr : Records, plockSet : Sets \cup {None}]
          /\ locker[t].locked \in Seq(Sets) /\ locker[t].recomp \in Int
          /\ th[t] \in [pc : Holding \cup {"idle", "scanLock", "locked", "update", "refs",
                                           "acquire", "unlock"},
                        mode : {"prepare", "lock", "verify"}, rec : Records \cup {None},
                        set : Sets \cup {None}, old : Sets \cup {None}, i : Nat, cap : Nat,
                        changed : BOOLEAN, to : SUBSET Records, n : Nat,
                        drop : Seq(Sets), dead : Sets \cup {None}]
          /\ left[t] \in Seq(Jobs)

Times(q, s) == Cardinality({i \in DOMAIN q : q[i] = s})
\* what refers to a lock set: records, threads that wait for the mutex, dbLockers by
\* their references and by what they have locked, and references about to be dropped
References(s) ==
    Cardinality(RecordsOf(s))
    + MapThenSumSet(LAMBDA t :
          Times([i \in DOMAIN locker[t].refs |-> locker[t].refs[i].plockSet], s)
          + Times(locker[t].locked, s) + Times(th[t].drop, s)
          + (IF th[t].pc = "scanLock" /\ th[t].set = s THEN 1 ELSE 0), Threads)
\* records of the split or merge under way that have moved but are not counted yet
Moved(t) == IF th[t].pc \in {"split", "merge"} THEN th[t].n - Cardinality(th[t].to) ELSE 0
Uncounted(s) == MapThenSumSet(LAMBDA t :
    (IF th[t].set = s THEN Moved(t) ELSE 0) - (IF th[t].old = s THEN Moved(t) ELSE 0), Threads)

\* The count of a lock set is the number of its references, but for the records that a
\* split or merge has moved and counts later.
RefsCounted == \A s \in Sets : refcount[s] + Uncounted(s) = References(s)

\* A lock set is on the free list, once, if and only if nothing refers to it: nothing waits
\* for, holds or unlocks one that makeSet gives to other records, and none is lost.
FreedExactly == \A s \in 1 .. made :
    Times(free, s) + Cardinality({t \in Threads : th[t].dead = s})
        = IF References(s) = 0 THEN 1 ELSE 0

\* The records of a lock set are those that links connect, no fewer and no more, except
\* in the hands of the thread that changes a link.
Changing(s) == owner[s] # None /\ th[owner[s]].pc \in {"split", "add", "merge"}
SetsAreConnected == \A r \in Records :
    ~Changing(plockSet[r]) => RecordsOf(plockSet[r]) = Connected(r, link)

\* What the code asserts: a count it takes from is not 0, a lock set has no locker when it
\* is locked by another, both lock sets of a merge and the one of a split belong to the
\* locker, and a lock set that goes to the free list has no records.
AssertsHold ==
    /\ \A r \in Records : refcount[plockSet[r]] >= 1
    /\ \A t \in Threads :
          /\ th[t].drop # <<>> => refcount[Head(th[t].drop)] >= 1
          /\ th[t].dead # None => RecordsOf(th[t].dead) = {}
          /\ th[t].pc = "scanLock" /\ Free(t, th[t].set) /\ th[t].set = plockSet[th[t].rec]
                => refcount[th[t].set] >= 2
          /\ th[t].pc \in {"split", "merge"} =>
                /\ ownerlocker[th[t].set] = t /\ ownerlocker[th[t].old] = t
                /\ refcount[th[t].old] > th[t].n
    /\ \A s \in Sets : owner[s] = None => ownerlocker[s] = None

\* Reference counts, free list, owners and what records and lockers refer to agree, and lock
\* sets are what links connect.
Consistent == TypeOK /\ RefsCounted /\ FreedExactly /\ AssertsHold /\ SetsAreConnected

\* "When the free-list is in use will never exceed the number of records +1": the first
\* number given is 2
IdsBounded == made + 1 <= Cardinality(Records) + 1

\* Locking as threads that process records rely on it.
LoadedLink(f) == LET l == {i \in DOMAIN inst.links : <<inst.links[i][1], inst.links[i][2]>> = f}
                 IN  IF l = {} THEN None ELSE inst.links[Min(l)][3]
\* between the return of dbScanLock or dbScanLockMany and the unlock, the calls of
\* dbScanLock by a thread that has a locker included
Has(t) == \/ th[t].pc \in Holding \cup {"locked"}
          \/ th[t].pc = "scanLock" /\ Job(t).kind = "many"
Locks == INSTANCE RecordLocks WITH
    link <- [f \in Fields |-> IF Running THEN link[f] ELSE LoadedLink(f)],
    asked <- [t \in Threads |-> IF ~Has(t) THEN {}
                               ELSE IF Job(t).kind = "one" THEN {th[t].rec} ELSE Range(Asked(t))],
    held <- [t \in Threads |-> IF Has(t) THEN {r \in Records : owner[plockSet[r]] = t} ELSE {}]
\* A thread that has locked records keeps them and all that links connect with them,
\* whatever it splits and merges, and no other thread has one, while links come and go.
ImplementsRecordLocks == Locks!Spec

\* Every thread gets its locks and comes to its end: no order of lockers, single locks
\* and lock sets that merge and split leaves them waiting for each other.
AllEnd == \A t \in Threads : []<>(left[t] = <<>> /\ th[t].pc = "idle")
=============================================================================
