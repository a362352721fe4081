--------------------------- MODULE DbEventProofs ---------------------------
(***************************************************************************)
(* Theorems about DbEvent, and that it implements Monitor, for every       *)
(* number of subscriptions, records, clients and queues and every size of  *)
(* the ring.                                                               *)
(***************************************************************************)
EXTENDS DbEventMonitor, FiniteSetTheorems, FunctionTheorems, SequenceTheorems, TLAPS

USE SizeAssumption, NameAssumption DEF Queues, Threads, NoLog, NoSlot, Logs

\* The ring has at least one slot, so its indices 0 .. EVENTQUESIZE - 1 exist.
LEMMA SizePositive == EVENTQUESIZE \in Nat /\ EVENTQUESIZE > 0
<1>1. \A m, n \in Nat \ {0} : m * n \in Nat /\ m * n > 0
  OBVIOUS
<1>. QED  BY <1>1 DEF EVENTQUESIZE

\* The index that follows a slot's is a slot's (macro RNGINC).
LEMMA RngIncSlot == \A i \in Slots : RNGINC(i) \in Slots
BY SizePositive DEF RNGINC, Slots

\* The number of entries that a cancel purges is a number.
LEMMA HitsFinite ==
  ASSUME NEW H \in SUBSET Slots
  PROVE  IsFiniteSet(H) /\ Cardinality(H) \in Nat
<1>1. IsFiniteSet(Slots)
  BY SizePositive, FS_Interval DEF Slots
<1>. QED  BY <1>1, FS_Subset, FS_CardinalityType
----------------------------------------------------------------------------
(* Types *)

\* A group of variables that a step leaves alone keeps its types.
LEMMA Unchanged ==
  /\ QueTypeOK /\ UNCHANGED queVars => QueTypeOK'
  /\ SubTypeOK /\ UNCHANGED subVars => SubTypeOK'
  /\ UserTypeOK /\ UNCHANGED <<semVars, userVars>> => UserTypeOK'
  /\ RecTypeOK /\ UNCHANGED recVars => RecTypeOK'
  /\ ThrTypeOK /\ UNCHANGED thrVars => ThrTypeOK'
  /\ CtlTypeOK /\ UNCHANGED thrVars => CtlTypeOK'
  /\ TaskTypeOK /\ UNCHANGED taskVars => TaskTypeOK'
  /\ LogTypeOK /\ UNCHANGED logVars => LogTypeOK'
BY DEF QueTypeOK, SubTypeOK, UserTypeOK, RecTypeOK, ThrTypeOK, CtlTypeOK, TaskTypeOK, LogTypeOK,
       queVars, subVars, semVars, userVars, recVars, thrVars, taskVars, logVars

\* db_queue_event_log keeps the types, whether it replaces or appends.
LEMMA QueueLogTypes ==
  ASSUME TypeOK, NEW s \in Subs, NEW v \in Logs, QueueLog(s, v)
  PROVE  QueTypeOK' /\ SubTypeOK' /\ LogTypeOK'
<1>. DEFINE q == ev_que[s]  p == putix[q]
<1>1. q \in Queues /\ p \in Slots /\ RNGINC(p) \in Slots
  BY RngIncSlot DEF TypeOK, SubTypeOK, QueTypeOK
<1>2. CASE Replaces(s)
  <2>1. ReplaceLast(s, v)
    BY <1>2 DEF QueueLog
  <2>. QED  BY <2>1 DEF QueueLog, ReplaceLast, TypeOK, QueTypeOK, SubTypeOK, LogTypeOK
<1>3. CASE ~Replaces(s)
  <2>1. AppendEntry(s, v)
    BY <1>3 DEF QueueLog
  <2>. HIDE DEF p
  <2>2. evque' \in [Queues -> [Slots -> SlotValues]]
    BY <2>1 DEF AppendEntry, TypeOK, QueTypeOK, SlotValues
  <2>3. valque' \in [Queues -> [Slots -> Logs \cup {NoLog}]]
    BY <2>1 DEF AppendEntry, TypeOK, QueTypeOK
  <2>4. putix' \in [Queues -> Slots] /\ nDuplicates' \in [Queues -> Int]
    BY <1>1, <2>1, SMTT(30) DEF AppendEntry, TypeOK, QueTypeOK, p
  <2>5. npend' \in [Subs -> Int] /\ pLastLog' \in [Subs -> Slots \cup {NoSlot}]
    BY <1>1, <2>1 DEF AppendEntry, TypeOK, SubTypeOK, p
  <2>6. LogTypeOK'
    BY <2>1 DEF QueueLog, AppendEntry, TypeOK, LogTypeOK
  <2>. QED
    BY <2>2, <2>3, <2>4, <2>5, <2>6 DEF QueueLog, TypeOK, QueTypeOK, SubTypeOK
<1>. QED  BY <1>2, <1>3

\* What event_remove writes keeps the types: the counters stay numbers, and a
\* slot that is purged holds the placeholder.
LEMMA PurgeData ==
  ASSUME TypeOK, NEW s \in Subs, NEW q \in Queues, NEW H, NEW n \in Int, NEW k \in Int,
         evque' = [evque EXCEPT ![q] = [i \in Slots |->
             IF i \in H THEN canceledEvent ELSE evque[q][i]]],
         valque' = [valque EXCEPT ![q] = [i \in Slots |->
             IF i \in H THEN NoLog ELSE valque[q][i]]],
         nCanceled' = [nCanceled EXCEPT ![q] = nCanceled[q] + n],
         nDuplicates' = [nDuplicates EXCEPT ![q] = nDuplicates[q] - k],
         npend' = [npend EXCEPT ![s] = npend[s] - n],
         pLastLog' = [pLastLog EXCEPT ![s] =
             IF n > 0 /\ n = npend[s] THEN NoSlot ELSE pLastLog[s]]
  PROVE  /\ evque' \in [Queues -> [Slots -> SlotValues]]
         /\ valque' \in [Queues -> [Slots -> Logs \cup {NoLog}]]
         /\ nCanceled' \in [Queues -> Int] /\ nDuplicates' \in [Queues -> Int]
         /\ npend' \in [Subs -> Int] /\ pLastLog' \in [Subs -> Slots \cup {NoSlot}]
<1>1. evque' \in [Queues -> [Slots -> SlotValues]]
  BY SMTT(30) DEF TypeOK, QueTypeOK, SlotValues
<1>2. valque' \in [Queues -> [Slots -> Logs \cup {NoLog}]]
  BY SMTT(30) DEF TypeOK, QueTypeOK
<1>3. nCanceled' \in [Queues -> Int]
  BY SMTT(30) DEF TypeOK, QueTypeOK
<1>4. nDuplicates' \in [Queues -> Int]
  BY SMTT(30) DEF TypeOK, QueTypeOK
<1>5. npend' \in [Subs -> Int]
  BY DEF TypeOK, SubTypeOK
<1>6. pLastLog' \in [Subs -> Slots \cup {NoSlot}]
  BY DEF TypeOK, SubTypeOK
<1>. QED  BY <1>1, <1>2, <1>3, <1>4, <1>5, <1>6

\* db_cancel_event's locked section keeps the types.
LEMMA PurgeTypes ==
  ASSUME TypeOK, NEW t \in Threads, CancelPurge(t)
  PROVE  TypeOK'
<1>. DEFINE s == arg[t]  q == ev_que[s]  H == {i \in Visited(q) : evque[q][i] = s}
            n == Cardinality(H)
<1>1. H \in SUBSET Slots
  BY DEF Visited
<1>0. s \in Subs /\ q \in Queues
  BY DEF CancelPurge, TypeOK, SubTypeOK, CtlTypeOK
<1>2. n \in Int /\ DuplicatesPurged(s, n) \in Int
  BY <1>1, HitsFinite DEF DuplicatesPurged
<1>3. Purge(s, H)
  BY DEF CancelPurge
<1>4. /\ evque' = [evque EXCEPT ![q] = [i \in Slots |->
             IF i \in H THEN canceledEvent ELSE evque[q][i]]]
      /\ valque' = [valque EXCEPT ![q] = [i \in Slots |->
             IF i \in H THEN NoLog ELSE valque[q][i]]]
      /\ nCanceled' = [nCanceled EXCEPT ![q] = nCanceled[q] + n]
      /\ nDuplicates' = [nDuplicates EXCEPT ![q] = nDuplicates[q] - DuplicatesPurged(s, n)]
      /\ npend' = [npend EXCEPT ![s] = npend[s] - n]
      /\ pLastLog' = [pLastLog EXCEPT ![s] =
             IF n > 0 /\ n = npend[s] THEN NoSlot ELSE pLastLog[s]]
  BY <1>3 DEF Purge, PurgedSlot, TypeOK, QueTypeOK, SubTypeOK
<1>5. /\ \/ UNCHANGED quota
         \/ quota' = [quota EXCEPT ![q] = @ - EVENTENTRIES]
      /\ \/ UNCHANGED inuse
         \/ inuse' = [inuse EXCEPT ![s] = FALSE]
      /\ user_sub' = [user_sub EXCEPT ![s] = FALSE]
      /\ UNCHANGED <<nque, putix, getix, enabled, callBackInProgress, chan, ev_que>>
  BY DEF CancelPurge, Release
<1>6. /\ evque' \in [Queues -> [Slots -> SlotValues]]
      /\ valque' \in [Queues -> [Slots -> Logs \cup {NoLog}]]
      /\ nCanceled' \in [Queues -> Int] /\ nDuplicates' \in [Queues -> Int]
      /\ npend' \in [Subs -> Int] /\ pLastLog' \in [Subs -> Slots \cup {NoSlot}]
  <2>. HIDE DEF n, H, q, s
  <2>. QED  BY <1>0, <1>2, <1>4, PurgeData
<1>7. QueTypeOK' /\ SubTypeOK'
  <2>. HIDE DEF n, H, q, s
  <2>1. quota' \in [Queues -> Int]
    BY <1>0, <1>5, SMTT(30) DEF TypeOK, QueTypeOK
  <2>3. inuse' \in [Subs -> BOOLEAN]
    BY <1>0, <1>5 DEF TypeOK, SubTypeOK
  <2>2. user_sub' \in [Subs -> BOOLEAN]
    BY <1>5 DEF TypeOK, SubTypeOK
  <2>. QED  BY <1>5, <1>6, <2>1, <2>2, <2>3 DEF TypeOK, QueTypeOK, SubTypeOK
<1>8. UserTypeOK'
  BY DEF TypeOK, UserTypeOK, ThrTypeOK, CtlTypeOK, CancelPurge, semVars
<1>9. ThrTypeOK'
  BY DEF TypeOK, ThrTypeOK, CancelPurge, Release, Goto, Return, Places, Operations
<1>10. CtlTypeOK'
  BY SMTT(30) DEF TypeOK, ThrTypeOK, CtlTypeOK, CancelPurge, Release, Goto, Return
<1>11. LogTypeOK'
  BY DEF TypeOK, LogTypeOK, CancelPurge, Release
<1>. QED
  BY <1>7, <1>8, <1>9, <1>10, <1>11, Unchanged DEF TypeOK, CancelPurge

\* db_add_event keeps the types: the search never runs past the last queue.
LEMMA AddWalkTypes ==
  ASSUME TypeOK, NEW t \in Threads, AddWalk(t)
  PROVE  TypeOK'
<1>. DEFINE q == walk[t]  s == arg[t]
<1>1. q \in Queues
  BY DEF TypeOK, ThrTypeOK
<1>2. CASE /\ HasQuota(q)
           /\ quota' = [quota EXCEPT ![q] = @ + EVENTENTRIES]
           /\ user_sub' = [user_sub EXCEPT ![s] = TRUE]
           /\ ev_que' = [ev_que EXCEPT ![s] = q]
           /\ Goto(t, "post")
           /\ UNCHANGED <<nque, inuse>>
  <2>1. QueTypeOK'
    BY <1>1, <1>2, SMTT(30) DEF AddWalk, TypeOK, QueTypeOK
  <2>2. SubTypeOK'
    BY <1>1, <1>2 DEF AddWalk, TypeOK, SubTypeOK
  <2>3. ThrTypeOK'
    BY <1>2 DEF Goto, TypeOK, ThrTypeOK, Places
  <2>4. CtlTypeOK'
    BY <1>2 DEF AddWalk, Goto, TypeOK, ThrTypeOK, CtlTypeOK
  <2>. QED  BY <2>1, <2>2, <2>3, <2>4, Unchanged DEF AddWalk, TypeOK
<1>3. CASE /\ q < nque \/ (q = nque /\ nque < NQ)
           /\ nque' = IF q < nque THEN nque ELSE nque + 1
           /\ walk' = [walk EXCEPT ![t] = q + 1]
           /\ UNCHANGED <<quota, inuse, user_sub, ev_que, pc, op, arg, ncalls>>
  <2>. HIDE DEF q
  <2>1. nque' \in Queues /\ q + 1 \in Queues
    BY <1>1, <1>3 DEF TypeOK, QueTypeOK
  <2>2. QueTypeOK'
    BY <1>3, <2>1 DEF AddWalk, TypeOK, QueTypeOK
  <2>3. SubTypeOK'
    BY <1>3 DEF AddWalk, TypeOK, SubTypeOK
  <2>4. ThrTypeOK' /\ CtlTypeOK'
    BY <1>3, <2>1 DEF TypeOK, ThrTypeOK, CtlTypeOK
  <2>. QED  BY <2>2, <2>3, <2>4, Unchanged DEF AddWalk, TypeOK
<1>4. CASE /\ inuse' = [inuse EXCEPT ![s] = FALSE]
           /\ Return(t)
           /\ UNCHANGED <<nque, quota, user_sub, ev_que>>
  <2>1. QueTypeOK'
    BY <1>4 DEF AddWalk, TypeOK, QueTypeOK
  <2>2. SubTypeOK'
    BY <1>4 DEF AddWalk, TypeOK, SubTypeOK
  <2>3. ThrTypeOK'
    BY <1>4 DEF Return, TypeOK, ThrTypeOK, Places, Operations
  <2>4. CtlTypeOK'
    BY <1>4 DEF Return, TypeOK, ThrTypeOK, CtlTypeOK
  <2>. QED  BY <2>1, <2>2, <2>3, <2>4, Unchanged DEF AddWalk, TypeOK
<1>. QED  BY <1>2, <1>3, <1>4 DEF AddWalk

\* event_read's removal of an entry keeps the types.
LEMMA TakeTypes ==
  ASSUME TypeOK, TaskTake
  PROVE  TypeOK'
<1>. DEFINE s == HeadEntry
<1>1. /\ s \in Subs /\ tq \in Queues /\ getix[tq] \in Slots
      /\ RNGINC(getix[tq]) \in Slots
  BY RngIncSlot DEF TaskTake, TypeOK, TaskTypeOK, QueTypeOK
<1>2. evque' \in [Queues -> [Slots -> SlotValues]]
  BY DEF TaskTake, TypeOK, QueTypeOK, SlotValues
<1>3. valque' \in [Queues -> [Slots -> Logs \cup {NoLog}]]
  BY DEF TaskTake, TypeOK, QueTypeOK
<1>4. getix' \in [Queues -> Slots] /\ nDuplicates' \in [Queues -> Int]
  BY <1>1, SMTT(30) DEF TaskTake, TypeOK, QueTypeOK
<1>5. QueTypeOK'
  BY <1>2, <1>3, <1>4 DEF TaskTake, TypeOK, QueTypeOK
<1>6. npend' \in [Subs -> Int] /\ pLastLog' \in [Subs -> Slots \cup {NoSlot}]
  BY <1>1 DEF TaskTake, TypeOK, SubTypeOK
<1>7. callBackInProgress' \in [Subs -> BOOLEAN]
  BY <1>1 DEF TaskTake, TypeOK, SubTypeOK
<1>8. SubTypeOK'
  BY <1>6, <1>7 DEF TaskTake, TypeOK, SubTypeOK
<1>9. TaskTypeOK'
  <2>1. valque[tq][getix[tq]] \in Logs \cup {NoLog}
    BY <1>1 DEF TypeOK, QueTypeOK
  <2>. QED  BY <1>1, <2>1 DEF TaskTake, TypeOK, TaskTypeOK
<1>. QED  BY <1>5, <1>8, <1>9, Unchanged DEF TaskTake, TypeOK

\* Every step keeps the variables in their types.
LEMMA TypeStep == TypeOK /\ [Next]_vars => TypeOK'
<1>. SUFFICES ASSUME TypeOK, [Next]_vars PROVE TypeOK'
  OBVIOUS
<1>1. ASSUME NEW r \in Recs, PostBegin(r) PROVE TypeOK'
  <2>1. RecTypeOK'
    BY <1>1 DEF TypeOK, RecTypeOK, PostBegin, mlis
  <2>. QED  BY <1>1, <2>1, Unchanged DEF TypeOK, PostBegin
<1>2. ASSUME NEW r \in Recs, PostNext(r) PROVE TypeOK'
  <2>1. PICK s \in todo[r] :
          \/ UNCHANGED <<queVars, subVars, logVars>>
          \/ QueueLog(s, val[r])
    BY <1>2 DEF PostNext
  <2>2. s \in Subs /\ val[r] \in Logs
    BY DEF TypeOK, RecTypeOK
  <2>3. QueTypeOK' /\ SubTypeOK' /\ LogTypeOK'
    BY <2>1, <2>2, QueueLogTypes, Unchanged DEF TypeOK
  <2>4. RecTypeOK'
    BY <1>2 DEF TypeOK, RecTypeOK, PostNext
  <2>. QED  BY <1>2, <2>3, <2>4, Unchanged DEF TypeOK, PostNext
<1>3. ASSUME NEW r \in Recs, PostSignal(r) PROVE TypeOK'
  <2>1. UserTypeOK'
    BY <1>3 DEF TypeOK, UserTypeOK, PostSignal, semVars, userVars
  <2>2. RecTypeOK'
    BY <1>3 DEF TypeOK, RecTypeOK, PostSignal
  <2>. QED  BY <1>3, <2>1, <2>2, Unchanged DEF TypeOK, PostSignal
<1>4. ASSUME NEW t \in Threads, AddWalk(t) PROVE TypeOK'
  BY <1>4, AddWalkTypes
<1>5. ASSUME NEW t \in Threads, PostSingle(t) PROVE TypeOK'
  <2>0. arg[t] \in Subs
    BY <1>5 DEF PostSingle, TypeOK, CtlTypeOK
  <2>1. \/ UNCHANGED <<queVars, subVars, logVars>>
        \/ QueueLog(arg[t], val[chan[arg[t]]])
    BY <1>5 DEF PostSingle
  <2>2. val[chan[arg[t]]] \in Logs
    BY <2>0 DEF TypeOK, SubTypeOK, RecTypeOK
  <2>3. QueTypeOK' /\ SubTypeOK' /\ LogTypeOK'
    BY <2>0, <2>1, <2>2, QueueLogTypes, Unchanged DEF TypeOK
  <2>4. ThrTypeOK'
    BY <1>5 DEF TypeOK, ThrTypeOK, PostSingle, AfterPost, Goto, Return, Places, Operations
  <2>5. CtlTypeOK'
    BY <1>5 DEF TypeOK, ThrTypeOK, CtlTypeOK, PostSingle, AfterPost, Goto, Return
  <2>. QED  BY <1>5, <2>3, <2>4, <2>5, Unchanged DEF TypeOK, PostSingle
<1>6. ASSUME NEW t \in Threads, Signal(t) PROVE TypeOK'
  <2>1. UserTypeOK'
    BY <1>6 DEF TypeOK, UserTypeOK, Signal, semVars, userVars
  <2>2. ThrTypeOK'
    BY <1>6 DEF TypeOK, ThrTypeOK, Signal, AfterPost, Goto, Return, Places, Operations, thrVars
  <2>3. CtlTypeOK'
    BY <1>6 DEF TypeOK, CtlTypeOK, ThrTypeOK, Signal, AfterPost, Goto, Return, Places, Operations, thrVars
  <2>. QED  BY <1>6, <2>1, <2>2, <2>3, Unchanged DEF TypeOK, Signal
<1>7. ASSUME NEW t \in Threads, Enable(t) PROVE TypeOK'
  <2>1. SubTypeOK'
    BY <1>7 DEF TypeOK, SubTypeOK, Enable
  <2>2. ThrTypeOK'
    BY <1>7 DEF TypeOK, ThrTypeOK, Enable, Goto, Return, Places, Operations
  <2>3. CtlTypeOK'
    BY <1>7 DEF TypeOK, CtlTypeOK, ThrTypeOK, Enable, Goto, Return, Places, Operations
  <2>. QED  BY <1>7, <2>1, <2>2, <2>3, Unchanged DEF TypeOK, Enable
<1>8. ASSUME NEW t \in Threads, Disable(t) PROVE TypeOK'
  <2>1. SubTypeOK'
    BY <1>8 DEF TypeOK, SubTypeOK, Disable
  <2>2. ThrTypeOK'
    BY <1>8 DEF TypeOK, ThrTypeOK, Disable, Goto, Return, Places, Operations
  <2>3. CtlTypeOK'
    BY <1>8 DEF TypeOK, CtlTypeOK, ThrTypeOK, Disable, Goto, Return, Places, Operations
  <2>. QED  BY <1>8, <2>1, <2>2, <2>3, Unchanged DEF TypeOK, Disable
<1>9. ASSUME NEW t \in Threads, CancelPurge(t) PROVE TypeOK'
  BY <1>9, PurgeTypes
<1>10. ASSUME NEW t \in Threads, CancelWait(t) PROVE TypeOK'
  <2>1. UserTypeOK'
    BY <1>10 DEF TypeOK, UserTypeOK, CancelWait, semVars, userVars
  <2>2. ThrTypeOK'
    BY <1>10 DEF TypeOK, ThrTypeOK, CancelWait, Goto, Places, Operations
  <2>3. CtlTypeOK'
    BY <1>10 DEF TypeOK, CtlTypeOK, ThrTypeOK, CancelWait, Goto, Places, Operations
  <2>. QED  BY <1>10, <2>1, <2>2, <2>3, Unchanged DEF TypeOK, CancelWait
<1>11. ASSUME NEW t \in Threads, CancelRecheck(t) PROVE TypeOK'
  <2>1. QueTypeOK'
    BY <1>11 DEF TypeOK, QueTypeOK, CancelRecheck, Release, SlotValues
  <2>2. SubTypeOK'
    BY <1>11 DEF TypeOK, SubTypeOK, CancelRecheck, Release
  <2>3. ThrTypeOK'
    BY <1>11 DEF TypeOK, ThrTypeOK, CancelRecheck, Release, Goto, Return, Places, Operations
  <2>4. CtlTypeOK'
    BY <1>11 DEF TypeOK, CtlTypeOK, ThrTypeOK, CancelRecheck, Release, Goto, Return, Places, Operations
  <2>5. LogTypeOK'
    BY <1>11 DEF TypeOK, LogTypeOK, CancelRecheck, Release
  <2>. QED  BY <1>11, <2>1, <2>2, <2>3, <2>4, <2>5, Unchanged DEF TypeOK, CancelRecheck
<1>12. ASSUME NEW t \in Threads, CloseFlush(t) PROVE TypeOK'
  <2>1. ThrTypeOK'
    BY <1>12 DEF TypeOK, ThrTypeOK, CloseFlush, Goto, Places, Operations
  <2>2. CtlTypeOK'
    BY <1>12 DEF TypeOK, CtlTypeOK, ThrTypeOK, CloseFlush, Goto, Places, Operations
  <2>. QED  BY <1>12, <2>1, <2>2, Unchanged DEF TypeOK, CloseFlush
<1>13. ASSUME NEW t \in Threads, CloseSweep(t) PROVE TypeOK'
  <2>1. ThrTypeOK'
    BY <1>13 DEF TypeOK, ThrTypeOK, CloseSweep, Places, Operations
  <2>2. CtlTypeOK'
    BY <1>13 DEF TypeOK, CtlTypeOK, ThrTypeOK, CloseSweep, Places, Operations
  <2>. QED  BY <1>13, <2>1, <2>2, Unchanged DEF TypeOK, CloseSweep
<1>14. ASSUME NEW t \in Threads, CloseExit(t) PROVE TypeOK'
  <2>1. UserTypeOK'
    BY <1>14 DEF TypeOK, UserTypeOK, CloseExit, semVars, userVars
  <2>2. ThrTypeOK'
    BY <1>14 DEF TypeOK, ThrTypeOK, CloseExit, Goto, Places, Operations
  <2>3. CtlTypeOK'
    BY <1>14 DEF TypeOK, CtlTypeOK, ThrTypeOK, CloseExit, Goto, Places, Operations
  <2>. QED  BY <1>14, <2>1, <2>2, <2>3, Unchanged DEF TypeOK, CloseExit
<1>15. ASSUME NEW t \in Threads, CloseJoin(t) PROVE TypeOK'
  <2>1. ThrTypeOK'
    BY <1>15 DEF TypeOK, ThrTypeOK, CloseJoin, Goto, Places, Operations
  <2>2. CtlTypeOK'
    BY <1>15 DEF TypeOK, CtlTypeOK, ThrTypeOK, CloseJoin, Goto, Places, Operations
  <2>. QED  BY <1>15, <2>1, <2>2, Unchanged DEF TypeOK, CloseJoin
<1>16. ASSUME NEW t \in Clients, AddBegin(t) PROVE TypeOK'
  <2>1. SubTypeOK'
    BY <1>16 DEF TypeOK, SubTypeOK, AddBegin
  <2>2. ThrTypeOK'
    BY <1>16 DEF TypeOK, ThrTypeOK, AddBegin, Enter, Places, Operations
  <2>3. CtlTypeOK'
    BY <1>16 DEF TypeOK, CtlTypeOK, ThrTypeOK, AddBegin, Enter, Places, Operations
  <2>. QED  BY <1>16, <2>1, <2>2, <2>3, Unchanged DEF TypeOK, AddBegin
<1>17. ASSUME NEW t \in Clients, Grant(t) PROVE TypeOK'
  <2>1. ThrTypeOK'
    BY <1>17 DEF TypeOK, ThrTypeOK, Grant, ChangeRights, Enter, Places, Operations
  <2>2. CtlTypeOK'
    BY <1>17 DEF TypeOK, CtlTypeOK, ThrTypeOK, Grant, ChangeRights, Enter, Places, Operations
  <2>. QED  BY <1>17, <2>1, <2>2, Unchanged DEF TypeOK, Grant, ChangeRights
<1>18. ASSUME NEW t \in Clients, Revoke(t) PROVE TypeOK'
  <2>1. ThrTypeOK'
    BY <1>18 DEF TypeOK, ThrTypeOK, Revoke, ChangeRights, Enter, Places, Operations
  <2>2. CtlTypeOK'
    BY <1>18 DEF TypeOK, CtlTypeOK, ThrTypeOK, Revoke, ChangeRights, Enter, Places, Operations
  <2>. QED  BY <1>18, <2>1, <2>2, Unchanged DEF TypeOK, Revoke, ChangeRights
<1>19. ASSUME NEW t \in Clients, CancelBegin(t) PROVE TypeOK'
  <2>1. ThrTypeOK'
    BY <1>19 DEF TypeOK, ThrTypeOK, CancelBegin, Enter, Places, Operations
  <2>2. CtlTypeOK'
    BY <1>19 DEF TypeOK, CtlTypeOK, ThrTypeOK, CancelBegin, Enter, Places, Operations
  <2>. QED  BY <1>19, <2>1, <2>2, Unchanged DEF TypeOK, CancelBegin
<1>20. ASSUME NEW t \in Clients, FlowCtrl(t) PROVE TypeOK'
  <2>1. UserTypeOK'
    BY <1>20 DEF TypeOK, UserTypeOK, FlowCtrl, semVars, userVars
  <2>2. ThrTypeOK'
    BY <1>20 DEF TypeOK, ThrTypeOK, FlowCtrl, Enter, Places, Operations
  <2>3. CtlTypeOK'
    BY <1>20 DEF TypeOK, CtlTypeOK, ThrTypeOK, FlowCtrl, Enter, Places, Operations
  <2>. QED  BY <1>20, <2>1, <2>2, <2>3, Unchanged DEF TypeOK, FlowCtrl
<1>21. ASSUME NEW t \in Clients, PostLabor(t) PROVE TypeOK'
  <2>1. UserTypeOK'
    BY <1>21 DEF TypeOK, UserTypeOK, PostLabor, semVars, userVars
  <2>2. ThrTypeOK'
    BY <1>21 DEF TypeOK, ThrTypeOK, PostLabor, Enter, Places, Operations
  <2>3. CtlTypeOK'
    BY <1>21 DEF TypeOK, CtlTypeOK, ThrTypeOK, PostLabor, Enter, Places, Operations
  <2>. QED  BY <1>21, <2>1, <2>2, <2>3, Unchanged DEF TypeOK, PostLabor
<1>22. ASSUME NEW t \in Clients, CloseBegin(t) PROVE TypeOK'
  <2>1. UserTypeOK'
    BY <1>22 DEF TypeOK, UserTypeOK, CloseBegin, semVars, userVars
  <2>2. ThrTypeOK'
    BY <1>22 DEF TypeOK, ThrTypeOK, CloseBegin, Enter, Places, Operations
  <2>3. CtlTypeOK'
    BY <1>22 DEF TypeOK, CtlTypeOK, ThrTypeOK, CloseBegin, Enter, Places, Operations
  <2>. QED  BY <1>22, <2>1, <2>2, <2>3, Unchanged DEF TypeOK, CloseBegin
<1>23. ASSUME CallbackCancel PROVE TypeOK'
  <2>1. ThrTypeOK'
    BY <1>23 DEF TypeOK, ThrTypeOK, CallbackCancel, Enter, Places, Operations
  <2>2. CtlTypeOK'
    BY <1>23 DEF TypeOK, CtlTypeOK, ThrTypeOK, CallbackCancel, Enter, Places, Operations
  <2>. QED  BY <1>23, <2>1, <2>2, Unchanged DEF TypeOK, CallbackCancel
<1>24. ASSUME TaskWake PROVE TypeOK'
  <2>1. UserTypeOK'
    BY <1>24 DEF TypeOK, UserTypeOK, TaskWake, semVars, userVars
  <2>2. TaskTypeOK'
    BY <1>24 DEF TypeOK, TaskTypeOK, TaskWake
  <2>. QED  BY <1>24, <2>1, <2>2, Unchanged DEF TypeOK, TaskWake
<1>25. ASSUME TaskStart PROVE TypeOK'
  <2>1. UserTypeOK'
    BY <1>25 DEF TypeOK, UserTypeOK, TaskStart, LaborReady, semVars, userVars
  <2>2. TaskTypeOK'
    BY <1>25 DEF TypeOK, TaskTypeOK, TaskStart
  <2>. QED  BY <1>25, <2>1, <2>2, Unchanged DEF TypeOK, TaskStart
<1>26. ASSUME TaskLaborDone PROVE TypeOK'
  <2>1. UserTypeOK'
    BY <1>26 DEF TypeOK, UserTypeOK, TaskLaborDone, semVars, userVars
  <2>2. TaskTypeOK'
    BY <1>26 DEF TypeOK, TaskTypeOK, TaskLaborDone
  <2>. QED  BY <1>26, <2>1, <2>2, Unchanged DEF TypeOK, TaskLaborDone
<1>27. ASSUME TaskRead PROVE TypeOK'
  <2>1. TaskTypeOK'
    BY <1>27 DEF TypeOK, TaskTypeOK, TaskRead
  <2>. QED  BY <1>27, <2>1, Unchanged DEF TypeOK, TaskRead
<1>28. ASSUME TaskDrained PROVE TypeOK'
  <2>1. TaskTypeOK'
    BY <1>28 DEF TypeOK, TaskTypeOK, TaskDrained
  <2>. QED  BY <1>28, <2>1, Unchanged DEF TypeOK, TaskDrained
<1>29. ASSUME TaskSkip PROVE TypeOK'
  <2>1. QueTypeOK'
    BY <1>29, RngIncSlot, SMTT(30) DEF TypeOK, QueTypeOK, TaskTypeOK, TaskSkip, SlotValues
  <2>. QED  BY <1>29, <2>1, Unchanged DEF TypeOK, TaskSkip
<1>30. ASSUME TaskTake PROVE TypeOK'
  BY <1>30, TakeTypes
<1>31. ASSUME TaskCallback PROVE TypeOK'
  <2>1. TaskTypeOK'
    BY <1>31 DEF TypeOK, TaskTypeOK, TaskCallback
  <2>2. LogTypeOK'
    BY <1>31 DEF TypeOK, LogTypeOK, TaskTypeOK, SubTypeOK, RecTypeOK, TaskCallback
  <2>. QED  BY <1>31, <2>1, <2>2, Unchanged DEF TypeOK, TaskCallback
<1>32. ASSUME TaskReturn PROVE TypeOK'
  <2>1. SubTypeOK'
    BY <1>32 DEF TypeOK, SubTypeOK, TaskReturn
  <2>2. UserTypeOK'
    BY <1>32 DEF TypeOK, UserTypeOK, TaskReturn, semVars, userVars
  <2>3. TaskTypeOK'
    BY <1>32 DEF TypeOK, TaskTypeOK, TaskReturn
  <2>. QED  BY <1>32, <2>1, <2>2, <2>3, Unchanged DEF TypeOK, TaskReturn
<1>33. ASSUME TaskNext PROVE TypeOK'
  <2>1. TaskTypeOK'
    BY <1>33 DEF TypeOK, TaskTypeOK, QueTypeOK, TaskNext
  <2>. QED  BY <1>33, <2>1, Unchanged DEF TypeOK, TaskNext
<1>34. CASE UNCHANGED vars
  BY <1>34, Unchanged DEF TypeOK, vars
<1>. QED
  BY <1>1, <1>2, <1>3, <1>4, <1>5, <1>6, <1>7, <1>8, <1>9, <1>10, <1>11, <1>12, <1>13, <1>14, <1>15, <1>16, <1>17, <1>18, <1>19, <1>20, <1>21, <1>22, <1>23, <1>24, <1>25, <1>26, <1>27, <1>28, <1>29, <1>30, <1>31, <1>32, <1>33, <1>34 DEF Next, PostStep, ThreadStep, Call, TaskStep

\* The variables keep their types.
THEOREM TypeCorrect == Spec => []TypeOK
<1>1. Init => TypeOK
  <2>. SUFFICES ASSUME Init PROVE TypeOK
    OBVIOUS
  <2>1. QueTypeOK
    BY SizePositive DEF Init, QueTypeOK, SlotValues, Slots
  <2>2. SubTypeOK
    <3>1. (CHOOSE r \in Recs : TRUE) \in Recs
      OBVIOUS
    <3>. QED  BY <3>1 DEF Init, SubTypeOK
  <2>4. RecTypeOK
    BY DEF Init, RecTypeOK
  <2>6. LogTypeOK
    BY DEF Init, LogTypeOK
  <2>3. UserTypeOK
    BY DEF Init, UserTypeOK
  <2>7. TaskTypeOK
    BY DEF Init, TaskTypeOK
  <2>5. ThrTypeOK
    BY DEF Init, ThrTypeOK, Places, Operations
  <2>8. CtlTypeOK
    BY DEF Init, CtlTypeOK
  <2>. QED  BY <2>1, <2>2, <2>3, <2>4, <2>5, <2>6, <2>7, <2>8 DEF TypeOK
<1>2. TypeOK /\ [Next]_vars => TypeOK'
  BY TypeStep
<1>. QED  BY <1>1, <1>2, PTL DEF Spec
----------------------------------------------------------------------------
(* The ring *)

\* Filling the slot at putix and advancing putix keeps the entries one run.
LEMMA RunAppend ==
  ASSUME NEW f \in [Slots -> SlotValues], NEW g \in Slots, NEW p \in Slots,
         OneRun(f, g, p), f[p] = EVENTQEMPTY, NEW s \in Subs
  PROVE  OneRun([f EXCEPT ![p] = s], g, RNGINC(p))
BY SizePositive DEF OneRun, OnTheWay, RNGINC, Slots

\* Emptying the slot at getix and advancing getix does, too.
LEMMA RunRemove ==
  ASSUME NEW f \in [Slots -> SlotValues], NEW g \in Slots, NEW p \in Slots,
         OneRun(f, g, p), f[g] # EVENTQEMPTY
  PROVE  OneRun([f EXCEPT ![g] = EVENTQEMPTY], RNGINC(g), p)
BY SizePositive DEF OneRun, OnTheWay, RNGINC, Slots

\* Putting the placeholder of canceled entries in place of entries does, too.
LEMMA RunPurge ==
  ASSUME NEW f, NEW g \in Slots, NEW p \in Slots, OneRun(f, g, p), NEW H,
         \A i \in Slots : i \in H => f[i] # EVENTQEMPTY
  PROVE  OneRun([i \in Slots |-> IF i \in H THEN canceledEvent ELSE f[i]], g, p)
BY DEF OneRun

\* The purge loop, which stops at the first empty slot, visits every entry.
LEMMA VisitsAll ==
  ASSUME TypeOK, RingIntact, NEW q \in Queues, NEW i \in Slots,
         evque[q][i] # EVENTQEMPTY
  PROVE  i \in Visited(q)
<1>1. /\ getix[q] \in Slots /\ putix[q] \in Slots
      /\ OneRun(evque[q], getix[q], putix[q])
  BY DEF TypeOK, QueTypeOK, RingIntact
<1>. QED  BY <1>1, SizePositive DEF Visited, OneRun, OnTheWay, Slots

\* An empty slot at getix means an empty ring, of which ringSpace is the size.
LEMMA EmptyRing ==
  ASSUME TypeOK, RingIntact, NEW q \in Queues, evque[q][getix[q]] = EVENTQEMPTY
  PROVE  ringSpace(q) = EVENTQUESIZE
<1>1. /\ getix[q] \in Slots /\ putix[q] \in Slots
      /\ OneRun(evque[q], getix[q], putix[q])
  BY DEF TypeOK, QueTypeOK, RingIntact
<1>2. getix[q] = putix[q]
  BY <1>1 DEF OneRun, OnTheWay, Slots
<1>. QED  BY <1>1, <1>2, SizePositive DEF ringSpace, Slots

\* RingIntact is kept by a step that leaves the slots and the indices alone,
LEMMA RingSame == RingIntact /\ UNCHANGED <<evque, getix, putix>> => RingIntact'
BY DEF RingIntact, OneRun, OnTheWay

\* and by one that changes those of one queue to one run again.
LEMMA RingOne ==
  ASSUME TypeOK, RingIntact, NEW q \in Queues, NEW f, NEW g, NEW p, OneRun(f, g, p),
         evque' = [evque EXCEPT ![q] = f],
         getix' = [getix EXCEPT ![q] = g], putix' = [putix EXCEPT ![q] = p]
  PROVE  RingIntact'
<1>. SUFFICES ASSUME NEW k \in Queues
              PROVE  OneRun(evque'[k], getix'[k], putix'[k])
  BY DEF RingIntact, OneRun, OnTheWay
<1>1. CASE k = q
  <2>1. evque'[k] = f /\ getix'[k] = g /\ putix'[k] = p
    BY <1>1 DEF TypeOK, QueTypeOK
  <2>. QED  BY <2>1
<1>2. CASE k # q
  <2>1. evque'[k] = evque[k] /\ getix'[k] = getix[k] /\ putix'[k] = putix[k]
    BY <1>2 DEF TypeOK, QueTypeOK
  <2>. QED  BY <2>1 DEF RingIntact
<1>. QED  BY <1>1, <1>2

\* db_queue_event_log, its assertion holding, keeps the entries one run.
LEMMA RingQueueLog ==
  ASSUME TypeOK, RingIntact, NEW s \in Subs, NEW v, ~SlotTaken(s), QueueLog(s, v)
  PROVE  RingIntact'
<1>1. CASE Replaces(s)
  BY <1>1, RingSame DEF QueueLog, ReplaceLast
<1>2. CASE ~Replaces(s)
  <2>. DEFINE q == ev_que[s]  p == putix[q]  g == getix[q]  f == evque[q]
  <2>1. /\ q \in Queues /\ p \in Slots /\ g \in Slots
        /\ f \in [Slots -> SlotValues]
    BY DEF TypeOK, QueTypeOK, SubTypeOK
  <2>2. OneRun(f, g, p) /\ f[p] = EVENTQEMPTY
    BY <1>2, <2>1 DEF RingIntact, SlotTaken
  <2>3. OneRun([f EXCEPT ![p] = s], g, RNGINC(p))
    <3>. HIDE DEF f, g, p
    <3>. QED  BY <2>1, <2>2, RunAppend
  <2>4. /\ evque' = [evque EXCEPT ![q] = [f EXCEPT ![p] = s]]
        /\ getix' = [getix EXCEPT ![q] = g]
        /\ putix' = [putix EXCEPT ![q] = RNGINC(p)]
    BY <1>2, <2>1 DEF QueueLog, AppendEntry, TypeOK, QueTypeOK
  <2>. HIDE DEF f, g, p, q
  <2>. QED  BY <2>1, <2>3, <2>4, RingOne
<1>. QED  BY <1>1, <1>2

\* event_remove by event_read empties the slot at getix and moves getix on.
LEMMA RingTake ==
  ASSUME TypeOK, RingIntact, HeadEntry # EVENTQEMPTY,
         evque' = [evque EXCEPT ![tq][getix[tq]] = EVENTQEMPTY],
         getix' = [getix EXCEPT ![tq] = RNGINC(@)], UNCHANGED putix
  PROVE  RingIntact'
<1>. DEFINE p == putix[tq]  g == getix[tq]  f == evque[tq]
<1>1. /\ tq \in Queues /\ p \in Slots /\ g \in Slots
      /\ f \in [Slots -> SlotValues]
  BY DEF TypeOK, QueTypeOK, TaskTypeOK
<1>2. OneRun(f, g, p) /\ f[g] # EVENTQEMPTY
  BY <1>1 DEF RingIntact, HeadEntry
<1>3. OneRun([f EXCEPT ![g] = EVENTQEMPTY], RNGINC(g), p)
  <2>. HIDE DEF f, g, p
  <2>. QED  BY <1>1, <1>2, RunRemove
<1>4. /\ evque' = [evque EXCEPT ![tq] = [f EXCEPT ![g] = EVENTQEMPTY]]
      /\ getix' = [getix EXCEPT ![tq] = RNGINC(g)]
      /\ putix' = [putix EXCEPT ![tq] = p]
  BY <1>1 DEF TypeOK, QueTypeOK
<1>. HIDE DEF f, g, p
<1>. QED  BY <1>1, <1>3, <1>4, RingOne

\* db_cancel_event's purge leaves placeholders, never a hole.
LEMMA RingPurge ==
  ASSUME TypeOK, RingIntact, NEW t \in Threads, CancelPurge(t)
  PROVE  RingIntact'
<1>. DEFINE s == arg[t]  q == ev_que[s]  H == {i \in Visited(q) : evque[q][i] = s}
            p == putix[q]  g == getix[q]  f == evque[q]
            h == [i \in Slots |-> IF i \in H THEN canceledEvent ELSE f[i]]
<1>1. s \in Subs /\ q \in Queues
  BY DEF CancelPurge, TypeOK, SubTypeOK, CtlTypeOK
<1>2. p \in Slots /\ g \in Slots /\ f \in [Slots -> SlotValues] /\ OneRun(f, g, p)
  BY <1>1 DEF TypeOK, QueTypeOK, RingIntact
<1>3. \A i \in Slots : i \in H => f[i] # EVENTQEMPTY
  BY <1>1
<1>4. Purge(s, H) /\ UNCHANGED <<putix, getix>>
  BY DEF CancelPurge
<1>5. /\ evque' = [evque EXCEPT ![q] = h]
      /\ getix' = [getix EXCEPT ![q] = g] /\ putix' = [putix EXCEPT ![q] = p]
  BY <1>1, <1>4 DEF Purge, PurgedSlot, TypeOK, QueTypeOK
<1>6. OneRun(h, g, p)
  <2>. HIDE DEF f, g, p, H
  <2>. QED  BY <1>2, <1>3, RunPurge
<1>. HIDE DEF f, g, p, h, q
<1>. QED  BY <1>1, <1>5, <1>6, RingOne

\* Every step keeps the entries of each queue one run.
LEMMA RingStep == TypeOK /\ RingIntact /\ [Next]_vars => RingIntact'
<1>. SUFFICES ASSUME TypeOK, RingIntact, [Next]_vars PROVE RingIntact'
  OBVIOUS
<1>1. ASSUME NEW r \in Recs, PostBegin(r) \/ PostStep(r) PROVE RingIntact'
  <2>1. CASE PostBegin(r) \/ PostSignal(r)
    BY <2>1, RingSame DEF PostBegin, PostSignal, queVars
  <2>2. CASE PostNext(r)
    <3>1. PICK s \in todo[r] :
            \/ UNCHANGED <<queVars, subVars, logVars>>
            \/ ~SlotTaken(s) /\ QueueLog(s, val[r])
      BY <2>2 DEF PostNext
    <3>2. s \in Subs
      BY DEF TypeOK, RecTypeOK
    <3>. QED  BY <3>1, <3>2, RingQueueLog, RingSame DEF queVars
  <2>. QED  BY <1>1, <2>1, <2>2 DEF PostStep
<1>2. ASSUME NEW t \in Threads, ThreadStep(t) PROVE RingIntact'
  <2>1. CASE PostSingle(t)
    <3>1. \/ UNCHANGED <<queVars, subVars, logVars>>
          \/ ~SlotTaken(arg[t]) /\ QueueLog(arg[t], val[chan[arg[t]]])
      BY <2>1 DEF PostSingle
    <3>2. arg[t] \in Subs
      BY <2>1 DEF PostSingle, TypeOK, CtlTypeOK
    <3>. QED  BY <3>1, <3>2, RingQueueLog, RingSame DEF queVars
  <2>2. CASE CancelPurge(t)
    BY <2>2, RingPurge
  <2>3. CASE AddWalk(t)
    BY <2>3, RingSame DEF AddWalk
  <2>4. CASE CancelRecheck(t)
    BY <2>4, RingSame DEF CancelRecheck, Release
  <2>5. CASE Signal(t) \/ Enable(t) \/ Disable(t) \/ CancelWait(t)
    BY <2>5, RingSame DEF Signal, Enable, Disable, CancelWait, queVars
  <2>6. CASE CloseFlush(t) \/ CloseSweep(t) \/ CloseExit(t) \/ CloseJoin(t)
    BY <2>6, RingSame DEF CloseFlush, CloseSweep, CloseExit, CloseJoin, queVars
  <2>. QED  BY <1>2, <2>1, <2>2, <2>3, <2>4, <2>5, <2>6 DEF ThreadStep
<1>3. ASSUME NEW t \in Clients, Call(t) PROVE RingIntact'
  <2>1. UNCHANGED queVars
    BY <1>3 DEF Call, AddBegin, Grant, Revoke, ChangeRights, CancelBegin, FlowCtrl,
                PostLabor, CloseBegin
  <2>. QED  BY <2>1, RingSame DEF queVars
<1>4. CASE CallbackCancel
  BY <1>4, RingSame DEF CallbackCancel, queVars
<1>5. CASE TaskStep
  <2>1. CASE TaskSkip
    <3>1. HeadEntry # EVENTQEMPTY
      BY <2>1 DEF TaskSkip
    <3>. QED  BY <2>1, <3>1, RingTake DEF TaskSkip
  <2>2. CASE TaskTake
    <3>1. HeadEntry # EVENTQEMPTY
      BY <2>2 DEF TaskTake
    <3>. QED  BY <2>2, <3>1, RingTake DEF TaskTake
  <2>3. CASE \/ TaskWake \/ TaskStart \/ TaskLaborDone \/ TaskRead \/ TaskDrained
             \/ TaskCallback \/ TaskReturn \/ TaskNext
    BY <2>3, RingSame DEF TaskWake, TaskStart, TaskLaborDone, TaskRead, TaskDrained,
                          TaskCallback, TaskReturn, TaskNext, queVars
  <2>. QED  BY <1>5, <2>1, <2>2, <2>3 DEF TaskStep
<1>6. CASE UNCHANGED vars
  BY <1>6, RingSame DEF vars, queVars
<1>. QED  BY <1>1, <1>2, <1>3, <1>4, <1>5, <1>6 DEF Next

\* In every reachable state the entries of each queue are one run of slots from
\* getix to putix, whatever is posted, replaced, canceled and read in whatever
\* order: RingIntact.
THEOREM RingIntactHolds == Spec => []RingIntact
<1>1. Init => RingIntact
  <2>. SUFFICES ASSUME Init PROVE RingIntact
    OBVIOUS
  <2>. QED  BY DEF Init, RingIntact, OneRun
<1>2. TypeOK /\ RingIntact /\ [Next]_vars => RingIntact'
  BY RingStep
<1>. QED  BY <1>1, <1>2, TypeCorrect, PTL DEF Spec
----------------------------------------------------------------------------
(* The purge of a cancel *)

\* db_cancel_event leaves no entry of the subscription it frees: its loop, which
\* stops at the first empty slot, comes to all of them.
THEOREM PurgeComplete ==
  Spec => [][\A t \in Threads : CancelPurge(t) =>
                 \A i \in Slots : evque'[ev_que[arg[t]]][i] # arg[t]]_vars
<1>. DEFINE Clean == \A t \in Threads : CancelPurge(t) =>
                         \A i \in Slots : evque'[ev_que[arg[t]]][i] # arg[t]
<1>1. TypeOK /\ RingIntact => Clean
  <2>. SUFFICES ASSUME TypeOK, RingIntact, NEW t \in Threads, CancelPurge(t),
                       NEW i \in Slots
                PROVE  evque'[ev_que[arg[t]]][i] # arg[t]
    OBVIOUS
  <2>. DEFINE s == arg[t]  q == ev_que[s]  H == {j \in Visited(q) : evque[q][j] = s}
              h == [j \in Slots |-> IF j \in H THEN canceledEvent ELSE evque[q][j]]
  <2>1. s \in Subs /\ q \in Queues
    BY DEF CancelPurge, TypeOK, SubTypeOK, CtlTypeOK
  <2>2. evque' = [evque EXCEPT ![q] = h]
    BY <2>1 DEF CancelPurge, Purge, PurgedSlot, TypeOK, QueTypeOK
  <2>3. evque'[q] = h
    <3>. HIDE DEF h, q
    <3>. QED  BY <2>1, <2>2 DEF TypeOK, QueTypeOK
  <2>4. h[i] # s
    <3>1. CASE evque[q][i] = s
      <4>1. i \in H
        BY <2>1, <3>1, VisitsAll
      <4>. QED  BY <2>1, <4>1
    <3>2. CASE evque[q][i] # s
      BY <2>1, <3>2
    <3>. QED  BY <3>1, <3>2
  <2>. QED  BY <2>3, <2>4
<1>. HIDE DEF Clean
<1>2. TypeOK /\ RingIntact => [Clean]_vars
  BY <1>1
<1>3. Spec => [][Clean]_vars
  BY <1>2, TypeCorrect, RingIntactHolds, PTL
<1>. QED  BY <1>3 DEF Clean
----------------------------------------------------------------------------
(* The wakeup of the event task *)

\* Queues that are not allocated are empty, and the event task begins its round
\* with the first queue.
QueuesUsed ==
    /\ tq <= nque
    /\ tpc \in {"pend", "start", "laboring", "done"} => tq = 1
    /\ \A t \in Threads : walk[t] <= nque
    /\ \A s \in Subs : ev_que[s] <= nque
    /\ \A q \in Queues : q > nque => evque[q][getix[q]] = EVENTQEMPTY

\* queue q has something to deliver
Owed(q) == evque[q][getix[q]] # EVENTQEMPTY /\ (flowCtrlMode => nDuplicates[q] > 0)

\* A wakeup on its way to the event task stays on its way.
LEMMA WakeupKept ==
  ASSUME NEW q \in Queues, WillVisit(q), UNCHANGED <<tpc, tq>>,
         ppendsem => ppendsem',
         \A r \in Recs : ppc[r] = "signal" => ppc'[r] = "signal" \/ ppendsem',
         \A t \in Threads : pc[t] = "signal" => pc'[t] = "signal" \/ ppendsem'
  PROVE  WillVisit(q)'
BY DEF WillVisit

\* A value queued in a ring that was not empty makes nothing new to deliver.
LEMMA QueueLogOwed ==
  ASSUME TypeOK, RingIntact, NEW s \in Subs, NEW v, ~SlotTaken(s), QueueLog(s, v),
         ~FirstEvent(s), UNCHANGED flowCtrlMode, NEW k \in Queues, Owed(k)'
  PROVE  Owed(k)
<1>1. CASE Replaces(s)
  BY <1>1 DEF QueueLog, ReplaceLast, Owed
<1>2. CASE ~Replaces(s)
  <2>. DEFINE q == ev_que[s]  p == putix[q]
  <2>1. q \in Queues /\ p \in Slots /\ getix[q] \in Slots
    BY DEF TypeOK, QueTypeOK, SubTypeOK
  <2>2. /\ evque' = [evque EXCEPT ![q][p] = s]
        /\ nDuplicates' = IF npend[s] > 0 THEN [nDuplicates EXCEPT ![q] = @ + 1]
                                          ELSE nDuplicates
        /\ UNCHANGED getix
    BY <1>2 DEF QueueLog, AppendEntry
  <2>. HIDE DEF p
  <2>3. CASE k = q
    <3>1. ringSpace(q) # EVENTQUESIZE
      BY <1>2 DEF FirstEvent
    <3>2. evque[q][getix[q]] # EVENTQEMPTY
      BY <2>1, <3>1, EmptyRing
    <3>3. flowCtrlMode => nDuplicates' = nDuplicates
      BY <1>2, <2>2 DEF Replaces
    <3>. QED  BY <2>3, <3>2, <3>3 DEF Owed
  <2>4. CASE k # q
    <3>1. evque'[k] = evque[k] /\ nDuplicates'[k] = nDuplicates[k]
      BY <2>2, <2>4 DEF TypeOK, QueTypeOK
    <3>. QED  BY <2>2, <3>1 DEF Owed
  <2>. QED  BY <2>3, <2>4
<1>. QED  BY <1>1, <1>2

\* A cancel makes nothing new to deliver.
LEMMA PurgeOwed ==
  ASSUME TypeOK, NEW t \in Threads, CancelPurge(t), NEW k \in Queues, Owed(k)'
  PROVE  Owed(k)
<1>. DEFINE s == arg[t]  q == ev_que[s]  H == {i \in Visited(q) : evque[q][i] = s}
            n == Cardinality(H)  d == DuplicatesPurged(s, n)
<1>1. s \in Subs /\ q \in Queues /\ getix[k] \in Slots
  BY DEF CancelPurge, TypeOK, SubTypeOK, CtlTypeOK, QueTypeOK
<1>2. d \in Nat
  <2>1. H \in SUBSET Slots
    BY DEF Visited
  <2>2. n \in Nat
    BY <2>1, HitsFinite
  <2>. QED  BY <2>2 DEF DuplicatesPurged
<1>3. /\ evque' = [evque EXCEPT ![q] =
             [i \in Slots |-> IF i \in H THEN canceledEvent ELSE evque[q][i]]]
      /\ nDuplicates' = [nDuplicates EXCEPT ![q] = nDuplicates[q] - d]
      /\ UNCHANGED <<getix, flowCtrlMode>>
  BY <1>1 DEF CancelPurge, Purge, PurgedSlot, TypeOK, QueTypeOK
<1>4. \A i \in H : evque[q][i] = s
  OBVIOUS
<1>. HIDE DEF d, H, q, s
<1>5. CASE k = q
  <2>1. evque[k][getix[k]] # EVENTQEMPTY
    BY <1>1, <1>3, <1>4, <1>5 DEF Owed, TypeOK, QueTypeOK
  <2>2. nDuplicates'[k] = nDuplicates[k] - d /\ nDuplicates[k] \in Int
    BY <1>3, <1>5 DEF TypeOK, QueTypeOK
  <2>. QED  BY <1>2, <1>3, <2>1, <2>2 DEF Owed
<1>6. CASE k # q
  <2>1. evque'[k] = evque[k] /\ nDuplicates'[k] = nDuplicates[k]
    BY <1>3, <1>6 DEF TypeOK, QueTypeOK
  <2>. QED  BY <1>3, <2>1 DEF Owed
<1>. QED  BY <1>5, <1>6

\* What the steps other than those on a queue leave of QueuesUsed.
LEMMA UsedSame ==
  ASSUME QueuesUsed, UNCHANGED <<nque, evque, getix, ev_que, walk, tpc, tq>>
  PROVE  QueuesUsed'
BY DEF QueuesUsed

\* db_queue_event_log writes the queue of its subscription.
LEMMA UsedQueueLog ==
  ASSUME TypeOK, QueuesUsed, NEW s \in Subs, NEW v, QueueLog(s, v),
         NEW w, walk' = w, \A t \in Threads : w[t] <= nque, UNCHANGED <<tpc, tq>>
  PROVE  QueuesUsed'
<1>1. ev_que[s] \in Queues /\ ev_que[s] <= nque
  BY DEF TypeOK, SubTypeOK, QueuesUsed
<1>2. CASE Replaces(s)
  BY <1>2 DEF QueueLog, ReplaceLast, QueuesUsed
<1>3. CASE ~Replaces(s)
  <2>1. PICK f : evque' = [evque EXCEPT ![ev_que[s]] = f]
    BY <1>3 DEF QueueLog, AppendEntry
  <2>2. ASSUME NEW k \in Queues, k > nque PROVE evque'[k] = evque[k]
    <3>1. k # ev_que[s]
      BY <1>1, <2>2 DEF TypeOK, QueTypeOK
    <3>. QED  BY <2>1, <3>1 DEF TypeOK, QueTypeOK
  <2>3. UNCHANGED <<nque, getix, ev_que>>
    BY <1>3 DEF QueueLog, AppendEntry
  <2>. QED  BY <2>2, <2>3 DEF QueuesUsed
<1>. QED  BY <1>2, <1>3

\* event_read moves on in the queue it reads.
LEMMA UsedRead ==
  ASSUME TypeOK, QueuesUsed, tpc = "loop", NEW f, NEW g, evque' = [evque EXCEPT ![tq] = f],
         getix' = [getix EXCEPT ![tq] = g], UNCHANGED <<nque, ev_que, walk, tq>>,
         tpc' \in {"loop", "callback"}
  PROVE  QueuesUsed'
<1>1. ASSUME NEW k \in Queues, k > nque PROVE evque'[k] = evque[k] /\ getix'[k] = getix[k]
  <2>1. k # tq
    BY <1>1 DEF TypeOK, QueTypeOK, TaskTypeOK, QueuesUsed
  <2>. QED  BY <2>1 DEF TypeOK, QueTypeOK
<1>. QED  BY <1>1 DEF QueuesUsed

\* What becomes of the place in the search for a queue.
LEMMA WalkStep ==
  ASSUME TypeOK, \A t \in Threads : walk[t] <= nque, NEW t \in Threads,
         \/ UNCHANGED walk
         \/ walk' = [walk EXCEPT ![t] = 1]
  PROVE  \A u \in Threads : walk'[u] <= nque
<1>1. 1 <= nque
  BY DEF TypeOK, QueTypeOK
<1>. QED  BY <1>1 DEF TypeOK, ThrTypeOK

\* db_add_event goes on to a queue that is there, or allocates the next one.
LEMMA UsedAdd ==
  ASSUME TypeOK, QueuesUsed, NEW t \in Threads, AddWalk(t)
  PROVE  QueuesUsed'
<1>. DEFINE q == walk[t]
<1>1. /\ q \in Queues /\ q <= nque /\ nque \in Queues
      /\ nque' \in {nque, nque + 1}
      /\ UNCHANGED <<evque, getix, tpc, tq>>
  BY DEF AddWalk, TypeOK, ThrTypeOK, QueTypeOK, QueuesUsed, taskVars
<1>2. \A u \in Threads : walk'[u] <= nque'
  <2>1. CASE walk' = [walk EXCEPT ![t] = q + 1] /\ nque' = IF q < nque THEN nque ELSE nque + 1
    BY <1>1, <2>1 DEF TypeOK, ThrTypeOK, QueuesUsed
  <2>2. CASE UNCHANGED <<walk, nque>>
    BY <2>2 DEF QueuesUsed
  <2>3. CASE walk' = [walk EXCEPT ![t] = 1] /\ UNCHANGED nque
    BY <2>3, WalkStep DEF QueuesUsed
  <2>. QED  BY <2>1, <2>2, <2>3 DEF AddWalk, Goto, Return
<1>3. \A s \in Subs : ev_que'[s] <= nque'
  <2>1. CASE ev_que' = [ev_que EXCEPT ![arg[t]] = q] /\ UNCHANGED nque
    BY <1>1, <2>1 DEF TypeOK, SubTypeOK, QueuesUsed
  <2>2. CASE UNCHANGED ev_que
    BY <1>1, <2>2 DEF TypeOK, SubTypeOK, QueuesUsed
  <2>. QED  BY <2>1, <2>2 DEF AddWalk
<1>4. tq \in Queues
  BY DEF TypeOK, TaskTypeOK
<1>. QED  BY <1>1, <1>2, <1>3, <1>4 DEF QueuesUsed

\* Every step keeps QueuesUsed.
LEMMA UsedStep == TypeOK /\ QueuesUsed /\ [Next]_vars => QueuesUsed'
<1>. SUFFICES ASSUME TypeOK, QueuesUsed, [Next]_vars PROVE QueuesUsed'
  OBVIOUS
<1>0. ASSUME UNCHANGED <<nque, evque, getix, ev_que, tpc, tq>>, NEW t \in Threads,
             UNCHANGED walk \/ walk' = [walk EXCEPT ![t] = 1]
      PROVE  QueuesUsed'
  <2>1. \A u \in Threads : walk'[u] <= nque
    BY <1>0, WalkStep DEF QueuesUsed
  <2>. QED  BY <1>0, <2>1 DEF QueuesUsed
<1>1. ASSUME NEW r \in Recs, PostBegin(r) \/ PostStep(r) PROVE QueuesUsed'
  <2>1. CASE PostBegin(r) \/ PostSignal(r)
    BY <2>1, UsedSame DEF PostBegin, PostSignal, queVars, subVars, thrVars, taskVars
  <2>2. CASE PostNext(r)
    <3>1. PICK s \in todo[r] :
            UNCHANGED <<queVars, subVars, logVars>> \/ QueueLog(s, val[r])
      BY <2>2 DEF PostNext
    <3>2. s \in Subs
      BY DEF TypeOK, RecTypeOK
    <3>3. UNCHANGED <<walk, tpc, tq>> /\ \A t \in Threads : walk[t] <= nque
      BY <2>2 DEF PostNext, thrVars, taskVars, QueuesUsed
    <3>. QED  BY <3>1, <3>2, <3>3, UsedQueueLog, UsedSame DEF queVars, subVars
  <2>. QED  BY <1>1, <2>1, <2>2 DEF PostStep
<1>2. ASSUME NEW t \in Threads, ThreadStep(t) PROVE QueuesUsed'
  <2>1. CASE PostSingle(t)
    <3>1. UNCHANGED <<queVars, subVars, logVars>> \/ QueueLog(arg[t], val[chan[arg[t]]])
      BY <2>1 DEF PostSingle
    <3>2. arg[t] \in Subs
      BY <2>1 DEF PostSingle, TypeOK, CtlTypeOK
    <3>3. UNCHANGED <<tpc, tq>> /\ (UNCHANGED walk \/ walk' = [walk EXCEPT ![t] = 1])
      BY <2>1 DEF PostSingle, AfterPost, Goto, Return, taskVars
    <3>4. \A u \in Threads : walk'[u] <= nque
      BY <3>3, WalkStep DEF QueuesUsed
    <3>. QED  BY <1>0, <3>1, <3>2, <3>3, <3>4, UsedQueueLog DEF queVars, subVars
  <2>2. CASE CancelPurge(t)
    <3>1. arg[t] \in Subs /\ ev_que[arg[t]] \in Queues /\ ev_que[arg[t]] <= nque
      BY <2>2 DEF CancelPurge, TypeOK, SubTypeOK, CtlTypeOK, QueuesUsed
    <3>2. PICK f : evque' = [evque EXCEPT ![ev_que[arg[t]]] = f]
      BY <2>2 DEF CancelPurge, Purge
    <3>3. /\ UNCHANGED <<nque, getix, ev_que, tpc, tq>>
          /\ UNCHANGED walk \/ walk' = [walk EXCEPT ![t] = 1]
      BY <2>2 DEF CancelPurge, Release, Goto, Return, taskVars
    <3>4. \A u \in Threads : walk'[u] <= nque
      BY <3>3, WalkStep DEF QueuesUsed
    <3>5. ASSUME NEW k \in Queues, k > nque PROVE evque'[k] = evque[k]
      <4>1. k # ev_que[arg[t]]
        BY <3>1, <3>5 DEF TypeOK, QueTypeOK
      <4>. QED  BY <3>2, <4>1 DEF TypeOK, QueTypeOK
    <3>. QED  BY <3>3, <3>4, <3>5 DEF QueuesUsed
  <2>3. CASE AddWalk(t)
    BY <2>3, UsedAdd
  <2>4. CASE CancelRecheck(t) \/ Signal(t) \/ Enable(t)
    <3>1. /\ UNCHANGED <<nque, evque, getix, ev_que, tpc, tq>>
          /\ UNCHANGED walk \/ walk' = [walk EXCEPT ![t] = 1]
      BY <2>4 DEF CancelRecheck, Release, Signal, Enable, AfterPost, Goto, Return,
                  queVars, subVars, taskVars
    <3>. QED  BY <1>0, <3>1
  <2>5. CASE Disable(t) \/ CancelWait(t)
    <3>1. /\ UNCHANGED <<nque, evque, getix, ev_que, tpc, tq>>
          /\ UNCHANGED walk \/ walk' = [walk EXCEPT ![t] = 1]
      BY <2>5 DEF Disable, CancelWait, Goto, Return, queVars, subVars, taskVars
    <3>. QED  BY <1>0, <3>1
  <2>6. CASE CloseFlush(t) \/ CloseSweep(t) \/ CloseExit(t) \/ CloseJoin(t)
    <3>1. UNCHANGED <<nque, evque, getix, ev_que, walk, tpc, tq>>
      BY <2>6 DEF CloseFlush, CloseSweep, CloseExit, CloseJoin, Goto,
                  queVars, subVars, taskVars
    <3>. QED  BY <3>1, UsedSame
  <2>. QED  BY <1>2, <2>1, <2>2, <2>3, <2>4, <2>5, <2>6 DEF ThreadStep
<1>3. ASSUME NEW t \in Clients, Call(t) PROVE QueuesUsed'
  <2>1. /\ UNCHANGED <<nque, evque, getix, ev_que, tpc, tq>>
        /\ walk' = [walk EXCEPT ![t] = 1]
    BY <1>3 DEF Call, AddBegin, Grant, Revoke, ChangeRights, CancelBegin, FlowCtrl,
                PostLabor, CloseBegin, Enter, queVars, subVars, taskVars
  <2>. QED  BY <1>0, <2>1
<1>4. CASE CallbackCancel
  <2>1. /\ UNCHANGED <<nque, evque, getix, ev_que, tpc, tq>>
        /\ walk' = [walk EXCEPT ![Task] = 1]
    BY <1>4 DEF CallbackCancel, Enter, queVars, subVars, taskVars
  <2>. QED  BY <1>0, <2>1
<1>5. CASE TaskStep
  <2>1. CASE TaskSkip
    <3>1. PICK f : evque' = [evque EXCEPT ![tq] = f]
      BY <2>1 DEF TaskSkip
    <3>2. /\ tpc = "loop" /\ getix' = [getix EXCEPT ![tq] = RNGINC(@)]
          /\ UNCHANGED <<nque, ev_que, walk, tpc, tq>>
      BY <2>1 DEF TaskSkip, subVars, thrVars, taskVars
    <3>. QED  BY <3>1, <3>2, UsedRead
  <2>2. CASE TaskTake
    <3>1. PICK f : evque' = [evque EXCEPT ![tq] = f]
      BY <2>2 DEF TaskTake
    <3>2. /\ tpc = "loop" /\ getix' = [getix EXCEPT ![tq] = RNGINC(@)]
          /\ UNCHANGED <<nque, ev_que, walk, tq>> /\ tpc' \in {"loop", "callback"}
      BY <2>2 DEF TaskTake, thrVars
    <3>. QED  BY <3>1, <3>2, UsedRead
  <2>3. CASE TaskNext
    <3>1. UNCHANGED <<nque, evque, getix, ev_que, walk>>
      BY <2>3 DEF TaskNext, queVars, subVars, thrVars
    <3>2. tq' <= nque /\ (tpc' \in {"pend", "start", "laboring", "done"} => tq' = 1)
      BY <2>3 DEF TaskNext, TypeOK, TaskTypeOK, QueTypeOK, QueuesUsed
    <3>. QED  BY <3>1, <3>2 DEF QueuesUsed
  <2>4. CASE TaskWake \/ TaskStart \/ TaskLaborDone
    BY <2>4 DEF TaskWake, TaskStart, TaskLaborDone, QueuesUsed, queVars, subVars, thrVars
  <2>5. CASE TaskRead \/ TaskDrained \/ TaskCallback \/ TaskReturn
    BY <2>5 DEF TaskRead, TaskDrained, TaskCallback, TaskReturn, QueuesUsed,
                queVars, subVars, thrVars
  <2>. QED  BY <1>5, <2>1, <2>2, <2>3, <2>4, <2>5 DEF TaskStep
<1>6. CASE UNCHANGED vars
  BY <1>6, UsedSame DEF vars, queVars, subVars, thrVars, taskVars
<1>. QED  BY <1>1, <1>2, <1>3, <1>4, <1>5, <1>6 DEF Next

\* A step of a thread that leaves the queues and flow control alone, and no
\* signal unsent, leaves every queue that has something to deliver to be visited.
LEMMA WakeupSame ==
  ASSUME NoLostWakeup,
         UNCHANGED <<evque, getix, nDuplicates, flowCtrlMode, tpc, tq>>,
         ppendsem => ppendsem',
         \A r \in Recs : ppc[r] = "signal" => ppc'[r] = "signal" \/ ppendsem',
         \A t \in Threads : pc[t] = "signal" => pc'[t] = "signal" \/ ppendsem'
  PROVE  NoLostWakeup'
<1>1. NoLostWakeup <=> \A q \in Queues : Owed(q) => WillVisit(q)
  BY DEF NoLostWakeup, Owed
<1>2. (\A q \in Queues : Owed(q)' => WillVisit(q)') => NoLostWakeup'
  BY DEF NoLostWakeup, Owed
<1>3. \A q \in Queues : Owed(q)' => Owed(q)
  BY DEF Owed
<1>4. \A q \in Queues : WillVisit(q) => WillVisit(q)'
  BY WakeupKept
<1>. QED  BY <1>1, <1>2, <1>3, <1>4

\* A step that makes nothing new to deliver and leaves the event task where it
\* is, or wakes it.
LEMMA WakeupOwed ==
  ASSUME NoLostWakeup, \A q \in Queues : Owed(q)' => Owed(q), UNCHANGED <<tpc, tq>>,
         ppendsem => ppendsem',
         \A r \in Recs : ppc[r] = "signal" => ppc'[r] = "signal" \/ ppendsem',
         \A t \in Threads : pc[t] = "signal" => pc'[t] = "signal" \/ ppendsem'
  PROVE  NoLostWakeup'
<1>1. \A q \in Queues : Owed(q) => WillVisit(q)
  BY DEF NoLostWakeup, Owed
<1>2. \A q \in Queues : WillVisit(q) => WillVisit(q)'
  BY WakeupKept
<1>. QED  BY <1>1, <1>2 DEF NoLostWakeup, Owed

\* A signal that is on its way promises a visit to every queue.
LEMMA WakeupSignal ==
  ASSUME \/ ppendsem' \/ tpc' \in {"start", "laboring", "done"}
         \/ \E r \in Recs : ppc'[r] = "signal"
         \/ \E t \in Threads : pc'[t] = "signal"
  PROVE  NoLostWakeup'
BY DEF NoLostWakeup, WillVisit

\* No step of a record that posts loses a wakeup.
LEMMA WakeupPost ==
  ASSUME TypeOK, RingIntact, NoLostWakeup, NEW r \in Recs, PostBegin(r) \/ PostStep(r)
  PROVE  NoLostWakeup'
<1>1. CASE PostBegin(r)
  <2>1. \A k \in Recs : ppc[k] = "signal" => ppc'[k] = "signal"
    BY <1>1 DEF PostBegin, ScanLocked, TypeOK, RecTypeOK
  <2>. QED
    BY <1>1, <2>1, WakeupSame DEF PostBegin, queVars, semVars, userVars, thrVars, taskVars
<1>2. CASE PostSignal(r)
  BY <1>2, WakeupSignal DEF PostSignal
<1>3. CASE PostNext(r)
  <2>1. PICK s \in todo[r] :
          \/ UNCHANGED queVars /\ ppc' = [ppc EXCEPT ![r] = "suspended"]
          \/ /\ ~SlotTaken(s) /\ QueueLog(s, val[r])
             /\ ppc' = [ppc EXCEPT ![r] = IF FirstEvent(s) THEN "signal" ELSE
                           IF todo[r] \ {s} = {} THEN "idle" ELSE "loop"]
    BY <1>3 DEF PostNext
  <2>2. s \in Subs
    BY DEF TypeOK, RecTypeOK
  <2>3. CASE FirstEvent(s) /\ ppc'[r] = "signal"
    BY <2>3, WakeupSignal
  <2>4. CASE ~(FirstEvent(s) /\ ppc'[r] = "signal")
    <3>1. \A k \in Recs : ppc[k] = "signal" => ppc'[k] = "signal"
      BY <1>3, <2>1 DEF PostNext, TypeOK, RecTypeOK
    <3>2. UNCHANGED <<ppendsem, flowCtrlMode, pc, tpc, tq>>
      BY <1>3 DEF PostNext, semVars, userVars, thrVars, taskVars
    <3>3. UNCHANGED queVars \/ (~SlotTaken(s) /\ QueueLog(s, val[r]) /\ ~FirstEvent(s))
      BY <2>1, <2>4 DEF TypeOK, RecTypeOK
    <3>4. \A q \in Queues : Owed(q)' => Owed(q)
      BY <2>2, <3>2, <3>3, QueueLogOwed DEF Owed, queVars
    <3>. QED  BY <3>1, <3>2, <3>4, WakeupOwed
  <2>. QED  BY <2>3, <2>4
<1>. QED  BY <1>1, <1>2, <1>3 DEF PostStep

\* No step of a thread in an operation loses a wakeup.
LEMMA WakeupThread ==
  ASSUME TypeOK, RingIntact, NoLostWakeup, NEW t \in Threads, ThreadStep(t)
  PROVE  NoLostWakeup'
<1>1. CASE Signal(t)
  BY <1>1, WakeupSignal DEF Signal
<1>2. ASSUME NEW x, NEW y, pc[t] = x, x # "signal", pc' = [pc EXCEPT ![t] = y]
      PROVE  \A u \in Threads : pc[u] = "signal" => pc'[u] = "signal"
  BY <1>2 DEF TypeOK, ThrTypeOK
<1>3. CASE PostSingle(t)
  <2>1. /\ pc[t] = "post" /\ arg[t] \in Subs
        /\ UNCHANGED <<ppendsem, flowCtrlMode, ppc, tpc, tq>>
    BY <1>3 DEF PostSingle, semVars, userVars, recVars, taskVars, TypeOK, CtlTypeOK
  <2>2. PICK y : pc' = [pc EXCEPT ![t] = y]
    BY <1>3 DEF PostSingle, AfterPost, Goto, Return
  <2>3. \A u \in Threads : pc[u] = "signal" => pc'[u] = "signal"
    BY <1>2, <2>1, <2>2
  <2>4. \/ UNCHANGED queVars
        \/ ~SlotTaken(arg[t]) /\ QueueLog(arg[t], val[chan[arg[t]]])
    BY <1>3 DEF PostSingle
  <2>5. CASE FirstEvent(arg[t]) /\ pc'[t] = "signal"
    BY <2>5, WakeupSignal
  <2>6. CASE ~(FirstEvent(arg[t]) /\ pc'[t] = "signal")
    <3>1. UNCHANGED queVars \/ (/\ ~SlotTaken(arg[t]) /\ ~FirstEvent(arg[t])
                                /\ QueueLog(arg[t], val[chan[arg[t]]]))
      BY <1>3, <2>6 DEF PostSingle, Goto, TypeOK, ThrTypeOK
    <3>2. \A q \in Queues : Owed(q)' => Owed(q)
      BY <2>1, <3>1, QueueLogOwed DEF Owed, queVars
    <3>. QED  BY <2>1, <2>3, <3>2, WakeupOwed
  <2>. QED  BY <2>5, <2>6
<1>4. CASE CancelPurge(t)
  <2>1. pc[t] = "purge" /\ UNCHANGED <<ppendsem, ppc, tpc, tq>>
    BY <1>4 DEF CancelPurge, semVars, recVars, taskVars
  <2>2. PICK y : pc' = [pc EXCEPT ![t] = y]
    BY <1>4 DEF CancelPurge, Release, Goto, Return
  <2>3. \A u \in Threads : pc[u] = "signal" => pc'[u] = "signal"
    BY <1>2, <2>1, <2>2
  <2>4. \A q \in Queues : Owed(q)' => Owed(q)
    BY <1>4, PurgeOwed
  <2>. QED  BY <2>1, <2>3, <2>4, WakeupOwed
<1>5. CASE AddWalk(t) \/ CancelRecheck(t)
  <2>1. /\ pc[t] # "signal"
        /\ UNCHANGED <<evque, getix, nDuplicates, flowCtrlMode, tpc, tq, ppendsem, ppc>>
    BY <1>5 DEF AddWalk, CancelRecheck, semVars, userVars, recVars, taskVars
  <2>2. UNCHANGED pc \/ \E y : pc' = [pc EXCEPT ![t] = y]
    BY <1>5 DEF AddWalk, CancelRecheck, Release, Goto, Return
  <2>. QED  BY <1>2, <2>1, <2>2, WakeupSame
<1>6. CASE Enable(t) \/ Disable(t) \/ CancelWait(t)
  <2>1. /\ pc[t] # "signal"
        /\ UNCHANGED <<evque, getix, nDuplicates, flowCtrlMode, tpc, tq, ppendsem, ppc>>
    BY <1>6 DEF Enable, Disable, CancelWait, queVars, semVars, userVars, recVars, taskVars
  <2>2. PICK y : pc' = [pc EXCEPT ![t] = y]
    BY <1>6 DEF Enable, Disable, CancelWait, Goto, Return
  <2>. QED  BY <1>2, <2>1, <2>2, WakeupSame
<1>7. CASE CloseFlush(t) \/ CloseSweep(t) \/ CloseExit(t) \/ CloseJoin(t)
  <2>1. /\ pc[t] # "signal"
        /\ UNCHANGED <<evque, getix, nDuplicates, flowCtrlMode, tpc, tq, ppendsem, ppc>>
    BY <1>7 DEF CloseFlush, CloseSweep, CloseExit, CloseJoin, queVars, semVars, userVars,
                recVars, taskVars
  <2>2. PICK y : pc' = [pc EXCEPT ![t] = y]
    BY <1>7 DEF CloseFlush, CloseSweep, CloseExit, CloseJoin, Goto
  <2>. QED  BY <1>2, <2>1, <2>2, WakeupSame
<1>. QED  BY <1>1, <1>3, <1>4, <1>5, <1>6, <1>7 DEF ThreadStep

\* A call of an operation loses no wakeup: to switch flow control is to signal.
LEMMA WakeupCall ==
  ASSUME TypeOK, NoLostWakeup,
         (\E t \in Clients : Call(t)) \/ CallbackCancel
  PROVE  NoLostWakeup'
<1>1. CASE \E t \in Clients : FlowCtrl(t)
  <2>1. PICK t \in Clients : pc' = [pc EXCEPT ![t] = "signal"]
    BY <1>1 DEF FlowCtrl, Enter
  <2>2. pc'[t] = "signal"
    BY <2>1 DEF TypeOK, ThrTypeOK
  <2>. QED  BY <2>2, WakeupSignal
<1>2. CASE ~ \E t \in Clients : FlowCtrl(t)
  <2>1. PICK t \in Threads : pc[t] = "idle" /\ \E y : pc' = [pc EXCEPT ![t] = y]
    BY <1>2 DEF Call, AddBegin, Grant, Revoke, ChangeRights, CancelBegin, PostLabor,
                CloseBegin, CallbackCancel, Enter
  <2>2. \A u \in Threads : pc[u] = "signal" => pc'[u] = "signal"
    BY <2>1 DEF TypeOK, ThrTypeOK
  <2>3. UNCHANGED <<evque, getix, nDuplicates, flowCtrlMode, tpc, tq, ppendsem, ppc>>
    BY <1>2 DEF Call, AddBegin, Grant, Revoke, ChangeRights, CancelBegin, PostLabor,
                CloseBegin, CallbackCancel, queVars, semVars, userVars, recVars, taskVars
  <2>. QED  BY <2>2, <2>3, WakeupSame
<1>. QED  BY <1>1, <1>2

\* The event task leaves no queue behind with something to deliver.
LEMMA WakeupTask ==
  ASSUME TypeOK, QueuesUsed, NoLostWakeup, TaskStep
  PROVE  NoLostWakeup'
<1>0. tq \in Queues /\ nque \in Queues
  BY DEF TypeOK, TaskTypeOK, QueTypeOK
<1>1. \A q \in Queues : Owed(q) => WillVisit(q)
  BY DEF NoLostWakeup, Owed
<1>. SUFFICES ASSUME NEW q \in Queues, Owed(q)' PROVE WillVisit(q)'
  BY DEF NoLostWakeup, Owed
<1>3. CASE TaskWake
  BY <1>3 DEF TaskWake, WillVisit
<1>4. CASE TaskStart \/ TaskLaborDone
  <2>1. tq' = 1 /\ tpc' \in {"laboring", "read"}
    BY <1>4 DEF TaskStart, TaskLaborDone, QueuesUsed
  <2>. QED  BY <2>1 DEF WillVisit
<1>5. ASSUME UNCHANGED <<evque, getix, nDuplicates, flowCtrlMode, ppendsem, ppc, pc, tq>>,
             tpc \in {"read", "loop", "callback", "called"},
             \/ tpc' \in {"read", "loop", "callback", "called"}
             \/ tpc' = "next" /\ ~Owed(tq)
      PROVE  WillVisit(q)'
  <2>1. Owed(q)
    BY <1>5 DEF Owed
  <2>. QED  BY <1>0, <1>1, <1>5, <2>1 DEF WillVisit
<1>6. CASE TaskRead \/ TaskDrained
  <2>1. tpc' = "next" => ~Owed(tq)
    BY <1>6 DEF TaskRead, TaskDrained, HeadEntry, Owed
  <2>. QED
    BY <1>5, <1>6, <2>1 DEF TaskRead, TaskDrained, queVars, semVars, userVars, recVars, thrVars
<1>7. CASE TaskCallback \/ TaskReturn
  BY <1>5, <1>7 DEF TaskCallback, TaskReturn, queVars, semVars, userVars, recVars, thrVars
<1>8. CASE TaskSkip \/ TaskTake
  <2>1. /\ tpc = "loop" /\ tpc' \in {"loop", "callback"} /\ tq' = tq
        /\ UNCHANGED <<flowCtrlMode, ppendsem, ppc, pc>>
    BY <1>8 DEF TaskSkip, TaskTake, semVars, userVars, recVars, thrVars, taskVars
  <2>2. CASE q = tq
    BY <1>0, <2>1, <2>2 DEF WillVisit
  <2>3. CASE q # tq
    <3>1. UNCHANGED <<evque[q], getix[q], nDuplicates[q]>>
      BY <1>8, <2>3 DEF TaskSkip, TaskTake, TypeOK, QueTypeOK
    <3>2. Owed(q)
      BY <2>1, <3>1 DEF Owed
    <3>. QED  BY <1>0, <1>1, <2>1, <3>2 DEF WillVisit
  <2>. QED  BY <2>2, <2>3
<1>9. CASE TaskNext
  <2>1. /\ tpc = "next"
        /\ UNCHANGED <<evque, getix, nDuplicates, flowCtrlMode, ppendsem, ppc, pc>>
        /\ \/ tq < nque /\ tq' = tq + 1 /\ tpc' = "read"
           \/ tq = nque /\ tpc' \in {"pend", "done"}
    BY <1>0, <1>9 DEF TaskNext, queVars, semVars, userVars, recVars, thrVars, QueuesUsed
  <2>2. Owed(q)
    BY <2>1 DEF Owed
  <2>3. q <= nque
    BY <1>0, <2>2 DEF QueuesUsed, Owed
  <2>. QED  BY <1>0, <1>1, <2>1, <2>2, <2>3 DEF WillVisit
<1>. QED  BY <1>3, <1>4, <1>6, <1>7, <1>8, <1>9 DEF TaskStep

\* No queue is left with something to deliver while the event task sleeps and
\* nobody is about to wake it: NoLostWakeup, for any number of queues, records
\* and threads.
THEOREM NoLostWakeupHolds == Spec => []NoLostWakeup
<1>1. Init => NoLostWakeup /\ QueuesUsed
  <2>. SUFFICES ASSUME Init PROVE NoLostWakeup /\ QueuesUsed
    OBVIOUS
  <2>0. 0 \in Slots
    BY SizePositive DEF Slots
  <2>1. \A q \in Queues : evque[q][getix[q]] = EVENTQEMPTY
    BY <2>0 DEF Init
  <2>2. NoLostWakeup
    BY <2>1 DEF NoLostWakeup
  <2>3. QueuesUsed
    <3>1. nque = 1 /\ tq = 1 /\ \A t \in Threads : walk[t] = 1
      BY DEF Init
    <3>2. \A s \in Subs : ev_que[s] = 1
      BY DEF Init
    <3>. QED  BY <2>1, <3>1, <3>2 DEF QueuesUsed
  <2>. QED  BY <2>2, <2>3
<1>2. TypeOK /\ RingIntact /\ QueuesUsed /\ NoLostWakeup /\ [Next]_vars => NoLostWakeup'
  <2>. SUFFICES ASSUME TypeOK, RingIntact, QueuesUsed, NoLostWakeup, [Next]_vars
                PROVE  NoLostWakeup'
    OBVIOUS
  <2>1. CASE UNCHANGED vars
    BY <2>1, WakeupSame DEF vars, queVars, semVars, userVars, recVars, thrVars, taskVars
  <2>. QED  BY <2>1, WakeupPost, WakeupThread, WakeupCall, WakeupTask DEF Next
<1>3. TypeOK /\ QueuesUsed /\ [Next]_vars => QueuesUsed'
  BY UsedStep
<1>. QED  BY <1>1, <1>2, <1>3, TypeCorrect, RingIntactHolds, PTL DEF Spec
----------------------------------------------------------------------------
(* The life of a subscription, from the cell db_add_event takes to the one *)
(* db_cancel_event gives back, and the end of an event user: who refers to *)
(* a cell, and when nobody does.                                           *)

\* A subscription in use is a cell in use, and a monitor list has only
\* subscriptions in use.
CellsOK == \A s \in Subs : (user_sub[s] => inuse[s]) /\ (enabled[s] => user_sub[s])

\* A record walks its monitor list, whose subscriptions stay on it meanwhile.
ListsOK == \A r \in Recs : /\ ppc[r] = "idle" => todo[r] = {}
                           /\ \A s \in todo[r] : enabled[s] /\ chan[s] = r

\* The entries of a queue are those of subscriptions in use, assigned to it.
SlotsOK == \A q \in Queues, i \in Slots : evque[q][i] \in Subs =>
               user_sub[evque[q][i]] /\ ev_que[evque[q][i]] = q

\* What a thread knows of its subscription, by the place it has come to.
HeldOK == \A t \in Threads :
    /\ pc[t] = "walk" => /\ inuse[arg[t]] /\ ~user_sub[arg[t]]
                         /\ ~callBackInProgress[arg[t]]
    /\ op[t] \in {"add", "grant", "revoke"} /\ pc[t] # "walk" => user_sub[arg[t]]
    /\ pc[t] \in {"disable", "purge"} => user_sub[arg[t]]
    /\ pc[t] = "purge" => ~enabled[arg[t]]
    /\ pc[t] \in {"wait", "recheck"} => inuse[arg[t]] /\ ~user_sub[arg[t]]

\* No two threads work on one subscription, but a change of access rights may
\* come to one that is still being added.
Shares(t, u) == op[t] = "add" /\ pc[t] # "walk" /\ op[u] \in {"grant", "revoke"}
ExclusiveOK == \A t, u \in Threads :
    t # u /\ arg[t] = arg[u] /\ arg[t] \in Subs => Shares(t, u) \/ Shares(u, t)

\* The subscription in a callback is marked, so that a cancel waits for it,
\* unless the callback itself has canceled it.
CallbackOK ==
    /\ op[Task] \in {"none", "cancel"}
    /\ op[Task] = "cancel" => tpc = "called" /\ arg[Task] = tev
    /\ tpc \in {"callback", "called"} => tev \in Subs
    /\ tpc = "callback" => inuse[tev] /\ callBackInProgress[tev]
    /\ tpc = "called" => (inuse[tev] /\ callBackInProgress[tev]) \/ pSuicideEvent = tev
    /\ pSuicideEvent \in Subs => tpc = "called" /\ tev = pSuicideEvent

\* Once a client closes, its labor has been taken away; once the event task is
\* to exit, every subscription has been canceled and none can be added.
CloseOK ==
    /\ \A t \in Threads : op[t] = "close" =>
           ~extralabor_sub /\ (pc[t] # "flush" => tpc # "laboring")
    /\ tpc = "laboring" => extraLaborBusy
    /\ pendexit => Closing /\ \A s \in Subs : ~inuse[s]

LifeInv == /\ CellsOK /\ ListsOK /\ SlotsOK /\ HeldOK /\ ExclusiveOK
           /\ CallbackOK /\ CloseOK

\* A part of LifeInv holds on if a step leaves alone what it speaks of.
LEMMA LifeSame ==
  /\ CellsOK /\ UNCHANGED <<inuse, enabled, user_sub>> => CellsOK'
  /\ ListsOK /\ UNCHANGED <<ppc, todo, enabled, chan>> => ListsOK'
  /\ SlotsOK /\ UNCHANGED <<evque, user_sub, ev_que>> => SlotsOK'
  /\ HeldOK /\ UNCHANGED <<pc, op, arg, inuse, enabled, user_sub, callBackInProgress>>
       => HeldOK'
  /\ ExclusiveOK /\ UNCHANGED <<pc, op, arg>> => ExclusiveOK'
  /\ CallbackOK /\ UNCHANGED <<op, arg, tpc, tev, inuse, callBackInProgress,
                               pSuicideEvent>> => CallbackOK'
  /\ CloseOK /\ UNCHANGED <<pc, op, tpc, inuse, extralabor_sub, extraLaborBusy, pendexit>>
       => CloseOK'
<1>1. CellsOK /\ UNCHANGED <<inuse, enabled, user_sub>> => CellsOK'
  BY DEF CellsOK
<1>2. ListsOK /\ UNCHANGED <<ppc, todo, enabled, chan>> => ListsOK'
  BY DEF ListsOK
<1>3. SlotsOK /\ UNCHANGED <<evque, user_sub, ev_que>> => SlotsOK'
  BY DEF SlotsOK
<1>4. HeldOK /\ UNCHANGED <<pc, op, arg, inuse, enabled, user_sub, callBackInProgress>>
        => HeldOK'
  BY DEF HeldOK
<1>5. ExclusiveOK /\ UNCHANGED <<pc, op, arg>> => ExclusiveOK'
  BY DEF ExclusiveOK, Shares
<1>6. CallbackOK /\ UNCHANGED <<op, arg, tpc, tev, inuse, callBackInProgress,
                                pSuicideEvent>> => CallbackOK'
  BY DEF CallbackOK
<1>7. CloseOK /\ UNCHANGED <<pc, op, tpc, inuse, extralabor_sub, extraLaborBusy, pendexit>>
        => CloseOK'
  BY DEF CloseOK, Closing
<1>. QED  BY <1>1, <1>2, <1>3, <1>4, <1>5, <1>6, <1>7

\* The cell a thread works on is in use; only its places of db_cancel_event
\* are those of a subscription without an owner.
LEMMA ArgInUse ==
  ASSUME TypeOK, CellsOK, HeldOK, NEW t \in Threads, arg[t] \in Subs
  PROVE  inuse[arg[t]]
<1>1. op[t] \in {"add", "grant", "revoke"} \/ pc[t] \in {"disable", "purge", "wait", "recheck"}
  BY DEF TypeOK, ThrTypeOK, CtlTypeOK, Places, Operations
<1>. QED  BY <1>1 DEF HeldOK, CellsOK

\* db_queue_event_log adds an entry of a subscription in use to its queue.
LEMMA SlotsQueueLog ==
  ASSUME TypeOK, SlotsOK, NEW s \in Subs, NEW v, user_sub[s], QueueLog(s, v)
  PROVE  SlotsOK'
<1>1. CASE Replaces(s)
  BY <1>1 DEF QueueLog, ReplaceLast, SlotsOK
<1>2. CASE ~Replaces(s)
  <2>1. evque' = [evque EXCEPT ![ev_que[s]][putix[ev_que[s]]] = s]
    BY <1>2 DEF QueueLog, AppendEntry
  <2>2. UNCHANGED <<user_sub, ev_que>>
    BY DEF QueueLog
  <2>. SUFFICES ASSUME NEW q \in Queues, NEW i \in Slots, evque'[q][i] \in Subs
                PROVE  user_sub[evque'[q][i]] /\ ev_que[evque'[q][i]] = q
    BY <2>2 DEF SlotsOK
  <2>3. evque'[q][i] = evque[q][i] \/ (evque'[q][i] = s /\ q = ev_que[s])
    BY <2>1 DEF TypeOK, QueTypeOK
  <2>. QED  BY <2>3 DEF SlotsOK
<1>. QED  BY <1>1, <1>2

\* A thread that goes on with its operation, or leaves it, disturbs no other.
LEMMA ExclusiveMove ==
  ASSUME TypeOK, ExclusiveOK, NEW t \in Threads, NEW p, p # "walk",
         pc' = [pc EXCEPT ![t] = p],
         \/ UNCHANGED <<op, arg>>
         \/ /\ arg' = [arg EXCEPT ![t] = EVENTQEMPTY]
            /\ op' = op \/ op' = [op EXCEPT ![t] = "none"]
  PROVE  ExclusiveOK'
<1>. SUFFICES ASSUME NEW u \in Threads, NEW v \in Threads, u # v,
                     arg'[u] = arg'[v], arg'[u] \in Subs
              PROVE  Shares(u, v)' \/ Shares(v, u)'
  BY DEF ExclusiveOK, Shares
<1>1. arg'[u] = arg[u] /\ arg'[v] = arg[v] /\ op'[u] = op[u] /\ op'[v] = op[v]
  BY DEF TypeOK, ThrTypeOK
<1>2. Shares(u, v) \/ Shares(v, u)
  BY <1>1 DEF ExclusiveOK
<1>3. \A x \in Threads : pc[x] # "walk" => pc'[x] # "walk"
  BY DEF TypeOK, ThrTypeOK
<1>. QED  BY <1>1, <1>2, <1>3 DEF Shares

\* Nor does it end the closing of the client, unless it closes it.
LEMMA CloseMove ==
  ASSUME TypeOK, CloseOK, NEW t \in Threads, NEW p, pc' = [pc EXCEPT ![t] = p],
         \/ UNCHANGED op
         \/ op[t] # "close" /\ op' = [op EXCEPT ![t] = "none"],
         op[t] = "close" /\ pc[t] = "flush" => tpc # "laboring",
         \A s \in Subs : inuse'[s] => inuse[s],
         UNCHANGED <<tpc, extralabor_sub, extraLaborBusy, pendexit>>
  PROVE  CloseOK'
<1>1. \A u \in Threads : (op'[u] = "close") = (op[u] = "close")
  BY DEF TypeOK, ThrTypeOK
<1>2. \A u \in Threads : u # t => pc'[u] = pc[u]
  BY DEF TypeOK, ThrTypeOK
<1>3. Closing => Closing'
  BY <1>1 DEF Closing
<1>4. \A u \in Threads : op'[u] = "close" =>
          ~extralabor_sub' /\ (pc'[u] # "flush" => tpc' # "laboring")
  BY <1>1, <1>2 DEF CloseOK
<1>5. tpc' = "laboring" => extraLaborBusy'
  BY DEF CloseOK
<1>6. pendexit' => Closing' /\ \A s \in Subs : ~inuse'[s]
  BY <1>3 DEF CloseOK
<1>. QED  BY <1>4, <1>5, <1>6 DEF CloseOK

\* The mark of a callback in progress, and the task's own cancel, are the
\* task's: another thread touches the subscription in it only by its cancel.
LEMMA CallbackMove ==
  ASSUME TypeOK, CallbackOK, NEW t \in Threads,
         UNCHANGED <<tpc, tev, pSuicideEvent, callBackInProgress>>,
         \/ UNCHANGED <<op, arg>>
         \/ /\ arg' = [arg EXCEPT ![t] = EVENTQEMPTY]
            /\ \/ op' = op /\ op[t] = "close"
               \/ op' = [op EXCEPT ![t] = "none"],
         \A s \in Subs : inuse[s] /\ callBackInProgress[s] => inuse'[s]
  PROVE  CallbackOK'
<1>1. /\ op'[Task] \in {"none", "cancel"}
      /\ op'[Task] = "cancel" => op[Task] = "cancel" /\ arg'[Task] = arg[Task]
  BY DEF TypeOK, ThrTypeOK, CallbackOK
<1>. QED  BY <1>1 DEF CallbackOK
----------------------------------------------------------------------------
(* The steps *)

\* A record that posts queues entries only of subscriptions it has on its list.
LEMMA LifePost ==
  ASSUME TypeOK, LifeInv, NEW r \in Recs, PostBegin(r) \/ PostStep(r)
  PROVE  LifeInv'
<1>1. CASE PostBegin(r)
  <2>1. ListsOK'
    BY <1>1 DEF PostBegin, mlis, LifeInv, ListsOK, TypeOK, RecTypeOK, subVars
  <2>. QED
    BY <1>1, <2>1, LifeSame DEF PostBegin, LifeInv, queVars, subVars, thrVars, taskVars, userVars
<1>2. CASE PostSignal(r)
  <2>1. ListsOK'
    BY <1>2 DEF PostSignal, LifeInv, ListsOK, TypeOK, RecTypeOK, subVars
  <2>. QED
    BY <1>2, <2>1, LifeSame DEF PostSignal, LifeInv, queVars, subVars, thrVars, taskVars, userVars
<1>3. CASE PostNext(r)
  <2>1. PICK s \in todo[r] :
          \/ /\ todo' = [todo EXCEPT ![r] = {s}]
             /\ ppc' = [ppc EXCEPT ![r] = "suspended"]
             /\ UNCHANGED <<queVars, subVars>>
          \/ /\ QueueLog(s, val[r])
             /\ todo' = [todo EXCEPT ![r] = todo[r] \ {s}]
             /\ ppc' = [ppc EXCEPT ![r] = IF FirstEvent(s) THEN "signal" ELSE
                           IF todo[r] \ {s} = {} THEN "idle" ELSE "loop"]
    BY <1>3 DEF PostNext
  <2>2. s \in Subs /\ user_sub[s]
    BY DEF TypeOK, RecTypeOK, LifeInv, ListsOK, CellsOK
  <2>3. UNCHANGED <<inuse, enabled, user_sub, callBackInProgress, chan, ev_que>>
    BY <2>1 DEF QueueLog, subVars
  <2>4. SlotsOK'
    BY <2>1, <2>2, <2>3, SlotsQueueLog, LifeSame DEF LifeInv, queVars
  <2>5. ListsOK'
    BY <2>1, <2>3 DEF LifeInv, ListsOK, TypeOK, RecTypeOK
  <2>. QED
    BY <1>3, <2>3, <2>4, <2>5, LifeSame DEF PostNext, LifeInv, thrVars, taskVars, userVars
<1>. QED  BY <1>1, <1>2, <1>3 DEF PostStep

\* The event task enters a callback only for a subscription in use, and leaves
\* it before the cell can be given back.
LEMMA LifeTask ==
  ASSUME TypeOK, LifeInv, TaskStep
  PROVE  LifeInv'
<1>0. tq \in Queues /\ getix[tq] \in Slots
  BY DEF TypeOK, TaskTypeOK, QueTypeOK
<1>1. CASE TaskTake
  <2>. DEFINE s == HeadEntry
  <2>1. s \in Subs /\ user_sub[s] /\ inuse[s]
    BY <1>0, <1>1 DEF TaskTake, HeadEntry, LifeInv, SlotsOK, CellsOK
  <2>2. /\ callBackInProgress' = [callBackInProgress EXCEPT ![s] = TRUE]
        /\ tpc' = "callback" /\ tev' = s /\ tpc = "loop"
        /\ UNCHANGED <<inuse, enabled, user_sub, chan, ev_que>>
        /\ UNCHANGED <<userVars, recVars, thrVars>>
    BY <1>1, <2>1 DEF TaskTake
  <2>3. SlotsOK'
    <3>1. \A q \in Queues, i \in Slots : evque'[q][i] \in Subs => evque'[q][i] = evque[q][i]
      <4>1. evque' = [evque EXCEPT ![tq][getix[tq]] = EVENTQEMPTY]
        BY <1>1 DEF TaskTake
      <4>. QED  BY <1>0, <4>1 DEF TypeOK, QueTypeOK
    <3>. QED  BY <2>2, <3>1 DEF LifeInv, SlotsOK
  <2>. HIDE DEF s
  <2>4. HeldOK'
    <3>1. \A c \in Subs : c # s => callBackInProgress'[c] = callBackInProgress[c]
      BY <2>2 DEF TypeOK, SubTypeOK
    <3>2. \A t \in Threads : pc[t] = "walk" => arg[t] \in Subs /\ arg[t] # s
      BY <2>1 DEF LifeInv, HeldOK, TypeOK, CtlTypeOK
    <3>. QED  BY <2>2, <3>1, <3>2 DEF LifeInv, HeldOK, thrVars
  <2>5. CallbackOK'
    BY <2>1, <2>2 DEF LifeInv, CallbackOK, TypeOK, SubTypeOK, thrVars, userVars
  <2>6. CloseOK'
    BY <2>2 DEF LifeInv, CloseOK, Closing, thrVars, userVars
  <2>. QED
    BY <2>2, <2>3, <2>4, <2>5, <2>6, LifeSame DEF LifeInv, recVars, thrVars
<1>2. CASE TaskReturn
  <2>1. /\ tpc = "called" /\ pc[Task] = "idle" /\ tpc' = "loop" /\ tev' = EVENTQEMPTY
        /\ UNCHANGED <<inuse, enabled, user_sub, chan, ev_que>>
        /\ UNCHANGED <<queVars, recVars, thrVars>>
        /\ UNCHANGED <<extralabor_sub, extraLaborBusy, pendexit>>
    BY <1>2 DEF TaskReturn
  <2>2. /\ tev \in Subs
        /\ \/ callBackInProgress' = callBackInProgress
           \/ callBackInProgress' = [callBackInProgress EXCEPT ![tev] = FALSE]
    BY <1>2, <2>1 DEF TaskReturn, LifeInv, CallbackOK
  <2>3. HeldOK'
    <3>1. \A c \in Subs : callBackInProgress'[c] => callBackInProgress[c]
      BY <2>2 DEF TypeOK, SubTypeOK
    <3>2. \A t \in Threads : pc[t] = "walk" => arg[t] \in Subs
      BY DEF TypeOK, CtlTypeOK
    <3>. QED  BY <2>1, <3>1, <3>2 DEF LifeInv, HeldOK, thrVars
  <2>4. pSuicideEvent' \notin Subs
    <3>1. pSuicideEvent' = EVENTQEMPTY \/ (pSuicideEvent' = pSuicideEvent /\ pSuicideEvent # tev)
      BY <1>2 DEF TaskReturn
    <3>2. pSuicideEvent \in Subs => tev = pSuicideEvent
      BY DEF LifeInv, CallbackOK
    <3>. QED  BY <3>1, <3>2
  <2>5. CallbackOK'
    <3>1. op[Task] = "none"
      BY <2>1 DEF TypeOK, CtlTypeOK
    <3>. QED  BY <2>1, <2>4, <3>1 DEF CallbackOK, thrVars
  <2>6. CloseOK'
    BY <2>1 DEF LifeInv, CloseOK, Closing, thrVars
  <2>. QED
    BY <2>1, <2>3, <2>5, <2>6, LifeSame DEF LifeInv, queVars, recVars, thrVars
<1>3. CASE TaskSkip
  <2>1. SlotsOK'
    <3>1. \A q \in Queues, i \in Slots : evque'[q][i] \in Subs => evque'[q][i] = evque[q][i]
      <4>1. evque' = [evque EXCEPT ![tq][getix[tq]] = EVENTQEMPTY]
        BY <1>3 DEF TaskSkip
      <4>. QED  BY <1>0, <4>1 DEF TypeOK, QueTypeOK
    <3>. QED  BY <1>3, <3>1 DEF TaskSkip, LifeInv, SlotsOK, subVars
  <2>. QED
    BY <1>3, <2>1, LifeSame DEF TaskSkip, LifeInv, subVars, recVars, thrVars, taskVars, userVars
<1>4. CASE TaskWake \/ TaskRead \/ TaskDrained \/ TaskNext
  <2>1. /\ tpc \in {"pend", "read", "loop", "next"} /\ tev' = tev
        /\ tpc' \in {"start", "next", "loop", "read", "pend", "done"}
        /\ UNCHANGED <<queVars, subVars, userVars, recVars, thrVars>>
    BY <1>4 DEF TaskWake, TaskRead, TaskDrained, TaskNext
  <2>2. CallbackOK'
    BY <2>1 DEF LifeInv, CallbackOK, subVars, userVars, thrVars
  <2>3. CloseOK'
    BY <2>1 DEF LifeInv, CloseOK, Closing, subVars, userVars, thrVars
  <2>. QED
    BY <2>1, <2>2, <2>3, LifeSame DEF LifeInv, queVars, subVars, recVars, thrVars
<1>5. CASE TaskStart \/ TaskLaborDone
  <2>1. /\ tpc \in {"start", "laboring"} /\ tpc' \in {"laboring", "read"} /\ tev' = tev
        /\ tpc' = "laboring" => extralabor_sub /\ extraLaborBusy'
        /\ UNCHANGED <<queVars, subVars, recVars, thrVars, pSuicideEvent, extralabor_sub,
                       pendexit>>
    BY <1>5 DEF TaskStart, TaskLaborDone, LaborReady
  <2>2. CallbackOK'
    BY <2>1 DEF LifeInv, CallbackOK, subVars, thrVars
  <2>3. CloseOK'
    BY <2>1 DEF LifeInv, CloseOK, Closing, subVars, thrVars
  <2>. QED
    BY <2>1, <2>2, <2>3, LifeSame DEF LifeInv, queVars, subVars, recVars, thrVars
<1>6. CASE TaskCallback
  <2>1. /\ tpc = "callback" /\ tpc' = "called" /\ tev' = tev
        /\ UNCHANGED <<queVars, subVars, userVars, recVars, thrVars>>
    BY <1>6 DEF TaskCallback
  <2>2. CallbackOK'
    BY <2>1 DEF LifeInv, CallbackOK, subVars, userVars, thrVars
  <2>3. CloseOK'
    BY <2>1 DEF LifeInv, CloseOK, Closing, subVars, userVars, thrVars
  <2>. QED
    BY <2>1, <2>2, <2>3, LifeSame DEF LifeInv, queVars, subVars, recVars, thrVars
<1>. QED  BY <1>1, <1>2, <1>3, <1>4, <1>5, <1>6 DEF TaskStep

\* A subscription is linked into the queue it is assigned to, with no entry of
\* its own there yet.
LEMMA LifeAddWalk ==
  ASSUME TypeOK, LifeInv, NEW t \in Threads, AddWalk(t)
  PROVE  LifeInv'
<1>. DEFINE s == arg[t]
<1>1. /\ s \in Subs /\ pc[t] = "walk" /\ op[t] = "add" /\ inuse[s] /\ ~user_sub[s]
      /\ ~callBackInProgress[s]
  BY DEF AddWalk, LifeInv, HeldOK, TypeOK, CtlTypeOK
<1>2. UNCHANGED <<evque, enabled, callBackInProgress, chan, userVars, recVars, taskVars>>
  BY DEF AddWalk
<1>3. \A u \in Threads : u # t => arg[u] # s
  BY <1>1 DEF LifeInv, ExclusiveOK, Shares, TypeOK, CtlTypeOK
<1>4. ListsOK'
  BY <1>2, LifeSame DEF LifeInv, recVars
<1>5. ~enabled[s]
  BY <1>1 DEF LifeInv, CellsOK
<1>6. CASE /\ user_sub' = [user_sub EXCEPT ![s] = TRUE] /\ UNCHANGED inuse
           /\ \E q : ev_que' = [ev_que EXCEPT ![s] = q]
           /\ Goto(t, "post")
  <2>. HIDE DEF s
  <2>1. CellsOK'
    BY <1>1, <1>2, <1>6 DEF LifeInv, CellsOK, TypeOK, SubTypeOK
  <2>2. SlotsOK'
    <3>. SUFFICES ASSUME NEW q \in Queues, NEW i \in Slots, evque[q][i] \in Subs
                  PROVE  user_sub'[evque[q][i]] /\ ev_que'[evque[q][i]] = q
      BY <1>2 DEF SlotsOK
    <3>1. user_sub[evque[q][i]] /\ ev_que[evque[q][i]] = q
      BY DEF LifeInv, SlotsOK
    <3>. QED  BY <1>1, <1>6, <3>1 DEF TypeOK, SubTypeOK
  <2>3. HeldOK'
    <3>. SUFFICES ASSUME NEW u \in Threads PROVE HeldOK!(u)'
      BY DEF HeldOK
    <3>1. CASE u = t
      BY <1>1, <1>6, <3>1 DEF s, Goto, TypeOK, ThrTypeOK, SubTypeOK
    <3>2. CASE u # t
      <4>1. /\ pc'[u] = pc[u] /\ UNCHANGED <<op, arg>> /\ arg[u] # s
        BY <1>3, <1>6, <3>2 DEF Goto, TypeOK, ThrTypeOK
      <4>2. user_sub'[arg[u]] = user_sub[arg[u]]
        BY <1>6, <4>1 DEF TypeOK, SubTypeOK
      <4>. QED  BY <1>2, <1>6, <4>1, <4>2 DEF LifeInv, HeldOK
    <3>. QED  BY <3>1, <3>2
  <2>4. ExclusiveOK'
    BY <1>6, ExclusiveMove DEF LifeInv, Goto
  <2>5. CallbackOK'
    BY <1>2, <1>6, CallbackMove DEF LifeInv, Goto, userVars, taskVars
  <2>6. CloseOK'
    BY <1>1, <1>2, <1>6, CloseMove DEF LifeInv, Goto, userVars, taskVars
  <2>. QED  BY <1>4, <2>1, <2>2, <2>3, <2>4, <2>5, <2>6 DEF LifeInv
<1>7. CASE UNCHANGED <<inuse, user_sub, ev_que, pc, op, arg>>
  BY <1>2, <1>7, LifeSame DEF LifeInv, userVars, recVars, taskVars
<1>8. CASE inuse' = [inuse EXCEPT ![s] = FALSE] /\ Return(t) /\ UNCHANGED <<user_sub, ev_que>>
  <2>. HIDE DEF s
  <2>0. \A c \in Subs : /\ c # s => inuse'[c] = inuse[c]
                        /\ inuse'[c] => inuse[c]
    BY <1>8 DEF TypeOK, SubTypeOK
  <2>1. CellsOK'
    BY <1>1, <1>2, <1>8, <2>0 DEF LifeInv, CellsOK
  <2>2. SlotsOK'
    BY <1>2, <1>8, LifeSame DEF LifeInv
  <2>3. HeldOK'
    <3>. SUFFICES ASSUME NEW u \in Threads PROVE HeldOK!(u)'
      BY DEF HeldOK
    <3>1. CASE u = t
      BY <1>8, <3>1 DEF Return, TypeOK, ThrTypeOK
    <3>2. CASE u # t
      <4>1. pc'[u] = pc[u] /\ op'[u] = op[u] /\ arg'[u] = arg[u] /\ arg[u] # s
        BY <1>3, <1>8, <3>2 DEF Return, TypeOK, ThrTypeOK
      <4>2. arg[u] \in Subs => inuse'[arg[u]] = inuse[arg[u]]
        BY <2>0, <4>1
      <4>3. pc[u] \in {"walk", "wait", "recheck"} => arg[u] \in Subs
        BY DEF TypeOK, CtlTypeOK
      <4>. QED  BY <1>2, <1>8, <4>1, <4>2, <4>3 DEF LifeInv, HeldOK
    <3>. QED  BY <3>1, <3>2
  <2>4. ExclusiveOK'
    BY <1>8, ExclusiveMove DEF LifeInv, Return
  <2>5. CallbackOK'
    <3>1. \A c \in Subs : inuse[c] /\ callBackInProgress[c] => inuse'[c]
      BY <1>1, <2>0
    <3>. QED  BY <1>2, <1>8, <3>1, CallbackMove DEF LifeInv, Return, userVars, taskVars
  <2>6. CloseOK'
    BY <1>1, <1>2, <1>8, <2>0, CloseMove DEF LifeInv, Return, userVars, taskVars
  <2>. QED  BY <1>4, <2>1, <2>2, <2>3, <2>4, <2>5, <2>6 DEF LifeInv
<1>. QED  BY <1>6, <1>7, <1>8 DEF AddWalk

\* A thread that leaves the cells alone goes on: what it takes to its next place
\* is all the others ask of it.
LEMMA HeldMove ==
  ASSUME TypeOK, HeldOK, NEW t \in Threads, HeldOK!(t)',
         \A u \in Threads \ {t} : pc'[u] = pc[u] /\ op'[u] = op[u] /\ arg'[u] = arg[u],
         UNCHANGED <<inuse, enabled, user_sub, callBackInProgress>>
  PROVE  HeldOK'
<1>. SUFFICES ASSUME NEW u \in Threads, u # t PROVE HeldOK!(u)'
  BY DEF HeldOK
<1>. QED  BY DEF HeldOK

\* To post once for a subscription, and to signal, need it to be in use.
LEMMA LifePostSingle ==
  ASSUME TypeOK, LifeInv, NEW t \in Threads, PostSingle(t)
  PROVE  LifeInv'
<1>1. /\ arg[t] \in Subs /\ pc[t] = "post" /\ op[t] \in {"add", "grant", "revoke"}
      /\ user_sub[arg[t]]
  BY DEF PostSingle, LifeInv, HeldOK, TypeOK, CtlTypeOK
<1>2. /\ UNCHANGED <<queVars, subVars>> \/ QueueLog(arg[t], val[chan[arg[t]]])
      /\ UNCHANGED <<userVars, recVars, taskVars>>
  BY DEF PostSingle
<1>3. /\ SlotsOK'
      /\ UNCHANGED <<inuse, enabled, user_sub, callBackInProgress, chan, ev_que>>
  BY <1>1, <1>2, SlotsQueueLog, LifeSame DEF LifeInv, QueueLog, queVars, subVars
<1>4. \/ \E p \in {"suspended", "signal", "enable", "disable"} :
            Goto(t, p) /\ (p = "disable" => op[t] = "revoke")
      \/ Return(t)
  BY DEF PostSingle, AfterPost
<1>5. HeldOK'
  <2>1. HeldOK!(t)'
    BY <1>1, <1>3, <1>4 DEF Goto, Return, TypeOK, ThrTypeOK
  <2>2. \A u \in Threads \ {t} : pc'[u] = pc[u] /\ op'[u] = op[u] /\ arg'[u] = arg[u]
    BY <1>4 DEF Goto, Return, TypeOK, ThrTypeOK
  <2>. QED  BY <1>3, <2>1, <2>2, HeldMove DEF LifeInv
<1>6. ExclusiveOK'
  BY <1>4, ExclusiveMove DEF LifeInv, Goto, Return
<1>7. CallbackOK'
  BY <1>2, <1>3, <1>4, CallbackMove DEF LifeInv, Goto, Return, userVars, taskVars
<1>8. CloseOK'
  BY <1>1, <1>2, <1>3, <1>4, CloseMove DEF LifeInv, Goto, Return, userVars, taskVars
<1>. QED
  BY <1>2, <1>3, <1>5, <1>6, <1>7, <1>8, LifeSame DEF LifeInv, recVars

\* A signal is made with no lock held, and changes nothing a cell depends on.
LEMMA LifeSignal ==
  ASSUME TypeOK, LifeInv, NEW t \in Threads, Signal(t)
  PROVE  LifeInv'
<1>1. pc[t] = "signal" /\ op[t] # "cancel"
  BY DEF Signal, TypeOK, CtlTypeOK
<1>2. UNCHANGED <<queVars, subVars, userVars, recVars, taskVars>>
  BY DEF Signal
<1>3. \/ Goto(t, "enable") /\ op[t] = "add"
      \/ Goto(t, "disable") /\ op[t] = "revoke"
      \/ Goto(t, "join") /\ op[t] = "close"
      \/ Return(t) /\ op[t] # "close"
  BY DEF Signal, AfterPost
<1>4. HeldOK'
  <2>1. HeldOK!(t)'
    BY <1>1, <1>2, <1>3 DEF Goto, Return, TypeOK, ThrTypeOK, LifeInv, HeldOK, subVars
  <2>2. \A u \in Threads \ {t} : pc'[u] = pc[u] /\ op'[u] = op[u] /\ arg'[u] = arg[u]
    BY <1>3 DEF Goto, Return, TypeOK, ThrTypeOK
  <2>. QED  BY <1>2, <2>1, <2>2, HeldMove DEF LifeInv, subVars
<1>5. ExclusiveOK'
  BY <1>3, ExclusiveMove DEF LifeInv, Goto, Return
<1>6. CallbackOK'
  BY <1>2, <1>3, CallbackMove DEF LifeInv, Goto, Return, subVars, userVars, taskVars
<1>7. CloseOK'
  BY <1>1, <1>2, <1>3, CloseMove DEF LifeInv, Goto, Return, subVars, userVars, taskVars
<1>. QED
  BY <1>2, <1>4, <1>5, <1>6, <1>7, LifeSame DEF LifeInv, queVars, subVars, recVars

\* db_event_enable puts only a subscription in use on a monitor list.
LEMMA LifeEnable ==
  ASSUME TypeOK, LifeInv, NEW t \in Threads, Enable(t)
  PROVE  LifeInv'
<1>. DEFINE s == arg[t]
<1>1. s \in Subs /\ pc[t] = "enable" /\ op[t] \in {"add", "grant"} /\ user_sub[s]
  BY DEF Enable, LifeInv, HeldOK, TypeOK, CtlTypeOK
<1>2. /\ UNCHANGED <<inuse, user_sub, callBackInProgress, chan, ev_que, queVars,
                     userVars, recVars, taskVars>>
      /\ UNCHANGED enabled \/ enabled' = [enabled EXCEPT ![s] = TRUE]
      /\ \/ Return(t)
         \/ op[t] = "grant" /\ Goto(t, "post")
  BY <1>1 DEF Enable
<1>3. \A u \in Threads : pc[u] = "purge" => arg[u] \in Subs /\ arg[u] # s
  BY <1>1 DEF LifeInv, ExclusiveOK, Shares, TypeOK, CtlTypeOK
<1>. HIDE DEF s
<1>4. \A c \in Subs : /\ c # s => enabled'[c] = enabled[c]
                      /\ enabled[c] => enabled'[c]
  BY <1>2 DEF TypeOK, SubTypeOK
<1>5. CellsOK'
  BY <1>1, <1>2, <1>4 DEF LifeInv, CellsOK
<1>6. ListsOK'
  BY <1>2, <1>4 DEF LifeInv, ListsOK, recVars, TypeOK, RecTypeOK
<1>7. HeldOK'
  <2>. SUFFICES ASSUME NEW u \in Threads PROVE HeldOK!(u)'
    BY DEF HeldOK
  <2>1. CASE u = t
    BY <1>1, <1>2, <2>1 DEF s, Goto, Return, TypeOK, ThrTypeOK
  <2>2. CASE u # t
    <3>1. pc'[u] = pc[u] /\ op'[u] = op[u] /\ arg'[u] = arg[u]
      BY <1>2, <2>2 DEF Goto, Return, TypeOK, ThrTypeOK
    <3>. QED  BY <1>2, <1>3, <1>4, <3>1 DEF LifeInv, HeldOK
  <2>. QED  BY <2>1, <2>2
<1>8. ExclusiveOK'
  BY <1>2, ExclusiveMove DEF LifeInv, Goto, Return
<1>9. CallbackOK'
  BY <1>2, CallbackMove DEF LifeInv, Goto, Return, userVars, taskVars
<1>10. CloseOK'
  BY <1>1, <1>2, CloseMove DEF LifeInv, Goto, Return, userVars, taskVars
<1>. QED
  BY <1>2, <1>5, <1>6, <1>7, <1>8, <1>9, <1>10, LifeSame DEF LifeInv, queVars

\* db_event_disable takes a subscription off the monitor list while no record
\* walks it.
LEMMA LifeDisable ==
  ASSUME TypeOK, LifeInv, NEW t \in Threads, Disable(t)
  PROVE  LifeInv'
<1>. DEFINE s == arg[t]
<1>1. /\ s \in Subs /\ pc[t] = "disable" /\ op[t] \in {"revoke", "cancel", "close"}
      /\ user_sub[s] /\ ppc[chan[s]] = "idle"
  BY DEF Disable, RecLocked, LifeInv, HeldOK, TypeOK, CtlTypeOK
<1>2. /\ UNCHANGED <<inuse, user_sub, callBackInProgress, chan, ev_que, queVars,
                     userVars, recVars, taskVars>>
      /\ enabled' = [enabled EXCEPT ![s] = FALSE]
      /\ \/ op[t] = "revoke" /\ Return(t)
         \/ op[t] # "revoke" /\ Goto(t, "purge")
  BY DEF Disable
<1>. HIDE DEF s
<1>4. \A c \in Subs : /\ c # s => enabled'[c] = enabled[c]
                      /\ enabled'[c] => enabled[c]
  BY <1>2 DEF TypeOK, SubTypeOK
<1>5. CellsOK'
  BY <1>1, <1>2, <1>4 DEF LifeInv, CellsOK
<1>6. ListsOK'
  <2>1. \A r \in Recs : s \notin todo[r]
    BY <1>1 DEF LifeInv, ListsOK, TypeOK, RecTypeOK, SubTypeOK
  <2>2. \A r \in Recs : \A c \in todo[r] : c \in Subs
    BY DEF TypeOK, RecTypeOK
  <2>. QED  BY <1>2, <1>4, <2>1, <2>2 DEF LifeInv, ListsOK, recVars
<1>7. HeldOK'
  <2>. SUFFICES ASSUME NEW u \in Threads PROVE HeldOK!(u)'
    BY DEF HeldOK
  <2>1. CASE u = t
    BY <1>1, <1>2, <2>1 DEF s, Goto, Return, TypeOK, ThrTypeOK, SubTypeOK
  <2>2. CASE u # t
    <3>1. pc'[u] = pc[u] /\ op'[u] = op[u] /\ arg'[u] = arg[u]
      BY <1>2, <2>2 DEF Goto, Return, TypeOK, ThrTypeOK
    <3>2. pc[u] = "purge" => arg[u] \in Subs
      BY DEF TypeOK, CtlTypeOK
    <3>. QED  BY <1>2, <1>4, <3>1, <3>2 DEF LifeInv, HeldOK
  <2>. QED  BY <2>1, <2>2
<1>8. ExclusiveOK'
  BY <1>2, ExclusiveMove DEF LifeInv, Goto, Return
<1>9. CallbackOK'
  BY <1>2, CallbackMove DEF LifeInv, Goto, Return, userVars, taskVars
<1>10. CloseOK'
  BY <1>1, <1>2, CloseMove DEF LifeInv, Goto, Return, userVars, taskVars
<1>. QED
  BY <1>2, <1>5, <1>6, <1>7, <1>8, <1>9, <1>10, LifeSame DEF LifeInv, queVars

\* db_cancel_event leaves only entries of other subscriptions.
LEMMA SlotsPurge ==
  ASSUME TypeOK, RingIntact, SlotsOK, NEW t \in Threads, CancelPurge(t)
  PROVE  SlotsOK'
<1>. DEFINE s == arg[t]  q == ev_que[s]  H == {j \in Visited(q) : evque[q][j] = s}
            h == [j \in Slots |-> IF j \in H THEN canceledEvent ELSE evque[q][j]]
<1>1. s \in Subs /\ q \in Queues
  BY DEF CancelPurge, TypeOK, SubTypeOK, CtlTypeOK
<1>2. evque' = [evque EXCEPT ![q] = h]
  BY <1>1 DEF CancelPurge, Purge, PurgedSlot, TypeOK, QueTypeOK
<1>3. user_sub' = [user_sub EXCEPT ![s] = FALSE] /\ UNCHANGED ev_que
  BY DEF CancelPurge
<1>4. \A i \in Slots : h[i] \in Subs => h[i] = evque[q][i] /\ h[i] # s
  <2>. SUFFICES ASSUME NEW i \in Slots, h[i] \in Subs
                PROVE  h[i] = evque[q][i] /\ h[i] # s
    OBVIOUS
  <2>1. i \notin H
    OBVIOUS
  <2>2. evque[q][i] # s
    BY <1>1, <2>1, VisitsAll
  <2>. QED  BY <2>1, <2>2
<1>. HIDE DEF h, q, s
<1>. SUFFICES ASSUME NEW k \in Queues, NEW i \in Slots, evque'[k][i] \in Subs
              PROVE  user_sub'[evque'[k][i]] /\ ev_que'[evque'[k][i]] = k
  BY DEF SlotsOK
<1>5. evque'[k][i] = evque[k][i] /\ evque'[k][i] # s
  <2>1. CASE k = q
    BY <1>1, <1>2, <1>4, <2>1 DEF TypeOK, QueTypeOK
  <2>2. CASE k # q
    <3>1. evque'[k] = evque[k]
      BY <1>2, <2>2 DEF TypeOK, QueTypeOK
    <3>2. ev_que[evque[k][i]] = k
      BY <3>1 DEF SlotsOK
    <3>. QED  BY <2>2, <3>1, <3>2 DEF q
  <2>. QED  BY <2>1, <2>2
<1>. QED  BY <1>1, <1>3, <1>5 DEF SlotsOK, TypeOK, SubTypeOK

\* A thread that gives back its cell, no longer a subscription and in no
\* callback that is to return, takes it from nobody.
LEMMA LifeRelease ==
  ASSUME TypeOK, LifeInv, NEW t \in Threads, pc[t] \in {"purge", "recheck"},
         op[t] \in {"cancel", "close"}, Release(t, arg[t]),
         UNCHANGED <<enabled, callBackInProgress>>,
         ~user_sub'[arg[t]], \A c \in Subs : c # arg[t] => user_sub'[c] = user_sub[c]
  PROVE  CellsOK' /\ HeldOK' /\ ExclusiveOK'
<1>. DEFINE s == arg[t]
<1>0. s \in Subs /\ ~enabled[s]
  BY DEF LifeInv, HeldOK, CellsOK, TypeOK, CtlTypeOK
<1>1. \A u \in Threads : u # t => arg[u] # s
  BY <1>0 DEF LifeInv, ExclusiveOK, Shares, TypeOK, CtlTypeOK
<1>2. /\ inuse' = [inuse EXCEPT ![s] = FALSE]
      /\ arg' = [arg EXCEPT ![t] = EVENTQEMPTY]
      /\ \/ op' = op /\ op[t] = "close" /\ pc' = [pc EXCEPT ![t] = "sweep"]
         \/ op' = [op EXCEPT ![t] = "none"] /\ pc' = [pc EXCEPT ![t] = "idle"]
  BY DEF Release, Return
<1>3. ExclusiveOK'
  BY <1>2, ExclusiveMove DEF LifeInv
<1>. HIDE DEF s
<1>4. \A c \in Subs : c # s => inuse'[c] = inuse[c] /\ user_sub'[c] = user_sub[c]
  BY <1>2 DEF s, TypeOK, SubTypeOK
<1>5. CellsOK'
  <2>1. ~user_sub'[s]
    BY DEF s
  <2>. QED  BY <1>0, <1>4, <2>1 DEF LifeInv, CellsOK
<1>6. HeldOK'
  <2>. SUFFICES ASSUME NEW u \in Threads PROVE HeldOK!(u)'
    BY DEF HeldOK
  <2>1. CASE u = t
    BY <1>2, <2>1 DEF TypeOK, ThrTypeOK
  <2>2. CASE u # t
    <3>1. pc'[u] = pc[u] /\ op'[u] = op[u] /\ arg'[u] = arg[u]
      BY <1>2, <2>2 DEF TypeOK, ThrTypeOK
    <3>2. arg[u] \in Subs =>
            inuse'[arg[u]] = inuse[arg[u]] /\ user_sub'[arg[u]] = user_sub[arg[u]]
      BY <1>1, <1>4, <2>2
    <3>3. arg[u] \notin Subs => op[u] \notin {"add", "grant", "revoke"} /\
            pc[u] \notin {"walk", "disable", "purge", "wait", "recheck"}
      BY DEF TypeOK, CtlTypeOK, ThrTypeOK
    <3>. QED  BY <3>1, <3>2, <3>3 DEF LifeInv, HeldOK
  <2>. QED  BY <2>1, <2>2
<1>. QED  BY <1>3, <1>5, <1>6

\* A cancel gives the cell back at once only if no callback is to come back to
\* it, or is the canceling callback itself, which is then told.
LEMMA LifePurge ==
  ASSUME TypeOK, RingIntact, LifeInv, NEW t \in Threads, CancelPurge(t)
  PROVE  LifeInv'
<1>. DEFINE s == arg[t]
<1>1. /\ s \in Subs /\ pc[t] = "purge" /\ op[t] \in {"cancel", "close"}
      /\ user_sub[s] /\ inuse[s]
  BY DEF CancelPurge, LifeInv, HeldOK, CellsOK, TypeOK, CtlTypeOK
<1>2. /\ user_sub' = [user_sub EXCEPT ![s] = FALSE]
      /\ UNCHANGED <<enabled, callBackInProgress, chan, ev_que, extralabor_sub,
                     extraLaborBusy, pendexit, recVars, taskVars>>
  BY DEF CancelPurge
<1>3. \/ /\ t = Task /\ pSuicideEvent' = s /\ Release(t, s)
      \/ /\ t # Task /\ Goto(t, "wait") /\ UNCHANGED <<inuse, pSuicideEvent>>
      \/ /\ t # Task /\ ~callBackInProgress[s]
         /\ Release(t, s) /\ UNCHANGED pSuicideEvent
  BY DEF CancelPurge
<1>4. SlotsOK'
  BY SlotsPurge DEF LifeInv
<1>5. ListsOK'
  BY <1>2, LifeSame DEF LifeInv, recVars
<1>6. ~user_sub'[s] /\ \A c \in Subs : c # s => user_sub'[c] = user_sub[c]
  BY <1>1, <1>2 DEF TypeOK, SubTypeOK
<1>7. CASE Release(t, s)
  <2>1. CellsOK' /\ HeldOK' /\ ExclusiveOK'
    BY <1>1, <1>2, <1>6, <1>7, LifeRelease
  <2>2. /\ inuse' = [inuse EXCEPT ![s] = FALSE]
        /\ arg' = [arg EXCEPT ![t] = EVENTQEMPTY]
        /\ \/ op' = op /\ op[t] = "close" /\ pc' = [pc EXCEPT ![t] = "sweep"]
           \/ /\ op' = [op EXCEPT ![t] = "none"] /\ pc' = [pc EXCEPT ![t] = "idle"]
              /\ op[t] # "close"
    BY <1>7 DEF Release, Return
  <2>. HIDE DEF s
  <2>3. \A c \in Subs : /\ c # s => inuse'[c] = inuse[c]
                        /\ inuse'[c] => inuse[c]
    BY <2>2 DEF TypeOK, SubTypeOK
  <2>4. CloseOK'
    BY <1>1, <1>2, <2>2, <2>3, CloseMove DEF LifeInv, taskVars
  <2>5. CASE t # Task
    <3>1. UNCHANGED pSuicideEvent /\ (callBackInProgress[s] => inuse'[s])
      BY <1>3, <2>2, <2>5 DEF Goto, Release, Return, TypeOK, ThrTypeOK, SubTypeOK
    <3>2. CallbackOK'
      BY <1>1, <1>2, <2>2, <2>3, <3>1, CallbackMove DEF LifeInv, taskVars
    <3>. QED  BY <1>4, <1>5, <2>1, <2>4, <3>2 DEF LifeInv
  <2>6. CASE t = Task
    <3>1. pSuicideEvent' = s /\ tpc = "called" /\ s = tev
      BY <1>1, <1>3, <2>6 DEF s, LifeInv, CallbackOK
    <3>2. op'[Task] = "none"
      BY <1>1, <2>2, <2>6 DEF LifeInv, CallbackOK, TypeOK, ThrTypeOK
    <3>3. CallbackOK'
      BY <1>1, <1>2, <3>1, <3>2 DEF CallbackOK, taskVars
    <3>. QED  BY <1>4, <1>5, <2>1, <2>4, <3>3 DEF LifeInv
  <2>. QED  BY <2>5, <2>6
<1>8. CASE Goto(t, "wait") /\ UNCHANGED <<inuse, pSuicideEvent>>
  <2>1. \A u \in Threads : u # t => arg[u] # s
    BY <1>1 DEF LifeInv, ExclusiveOK, Shares, TypeOK, CtlTypeOK
  <2>. HIDE DEF s
  <2>2. CellsOK'
    BY <1>1, <1>2, <1>6, <1>8 DEF s, LifeInv, CellsOK, HeldOK
  <2>3. HeldOK'
    <3>. SUFFICES ASSUME NEW u \in Threads PROVE HeldOK!(u)'
      BY DEF HeldOK
    <3>1. CASE u = t
      BY <1>1, <1>6, <1>8, <3>1 DEF s, Goto, TypeOK, ThrTypeOK
    <3>2. CASE u # t
      <4>1. pc'[u] = pc[u] /\ op'[u] = op[u] /\ arg'[u] = arg[u]
        BY <1>8, <3>2 DEF Goto, TypeOK, ThrTypeOK
      <4>2. arg[u] \in Subs => user_sub'[arg[u]] = user_sub[arg[u]]
        BY <1>6, <2>1, <3>2
      <4>3. arg[u] \notin Subs => op[u] \notin {"add", "grant", "revoke"} /\
              pc[u] \notin {"walk", "disable", "purge", "wait", "recheck"}
        BY DEF TypeOK, CtlTypeOK, ThrTypeOK
      <4>. QED  BY <1>2, <1>8, <4>1, <4>2, <4>3 DEF LifeInv, HeldOK
    <3>. QED  BY <3>1, <3>2
  <2>4. ExclusiveOK'
    BY <1>8, ExclusiveMove DEF LifeInv, Goto
  <2>5. CallbackOK'
    BY <1>2, <1>8, CallbackMove DEF LifeInv, Goto, taskVars
  <2>6. CloseOK'
    BY <1>1, <1>2, <1>8, CloseMove DEF LifeInv, Goto, taskVars
  <2>. QED  BY <1>4, <1>5, <2>2, <2>3, <2>4, <2>5, <2>6 DEF LifeInv
<1>. QED  BY <1>3, <1>7, <1>8

\* A cancel that waits, and looks again when it is told.
LEMMA LifeRecheck ==
  ASSUME TypeOK, LifeInv, NEW t \in Threads, CancelWait(t) \/ CancelRecheck(t)
  PROVE  LifeInv'
<1>. DEFINE s == arg[t]
<1>1. /\ s \in Subs /\ pc[t] \in {"wait", "recheck"} /\ op[t] \in {"cancel", "close"}
      /\ inuse[s] /\ ~user_sub[s]
  BY DEF CancelWait, CancelRecheck, LifeInv, HeldOK, TypeOK, CtlTypeOK
<1>2. UNCHANGED <<evque, enabled, user_sub, callBackInProgress, chan, ev_que, userVars,
                  recVars, taskVars>>
  BY DEF CancelWait, CancelRecheck, queVars, subVars
<1>3. \/ (Goto(t, "recheck") \/ Goto(t, "wait")) /\ UNCHANGED inuse
      \/ pc[t] = "recheck" /\ ~callBackInProgress[s] /\ Release(t, s)
  BY DEF CancelWait, CancelRecheck, subVars
<1>4. ListsOK' /\ SlotsOK'
  BY <1>2, LifeSame DEF LifeInv, recVars
<1>5. CASE (Goto(t, "recheck") \/ Goto(t, "wait")) /\ UNCHANGED inuse
  <2>1. HeldOK'
    <3>1. HeldOK!(t)'
      BY <1>1, <1>2, <1>5 DEF Goto, TypeOK, ThrTypeOK
    <3>2. \A u \in Threads \ {t} : pc'[u] = pc[u] /\ op'[u] = op[u] /\ arg'[u] = arg[u]
      BY <1>5 DEF Goto, TypeOK, ThrTypeOK
    <3>. QED  BY <1>2, <1>5, <3>1, <3>2, HeldMove DEF LifeInv
  <2>2. ExclusiveOK'
    BY <1>5, ExclusiveMove DEF LifeInv, Goto
  <2>3. CallbackOK'
    BY <1>2, <1>5, CallbackMove DEF LifeInv, Goto, userVars, taskVars
  <2>4. CloseOK'
    BY <1>1, <1>2, <1>5, CloseMove DEF LifeInv, Goto, userVars, taskVars
  <2>. QED  BY <1>2, <1>4, <1>5, <2>1, <2>2, <2>3, <2>4, LifeSame DEF LifeInv
<1>6. CASE pc[t] = "recheck" /\ ~callBackInProgress[s] /\ Release(t, s)
  <2>1. CellsOK' /\ HeldOK' /\ ExclusiveOK'
    BY <1>1, <1>2, <1>6, LifeRelease
  <2>2. /\ inuse' = [inuse EXCEPT ![s] = FALSE]
        /\ arg' = [arg EXCEPT ![t] = EVENTQEMPTY]
        /\ \/ op' = op /\ op[t] = "close" /\ pc' = [pc EXCEPT ![t] = "sweep"]
           \/ /\ op' = [op EXCEPT ![t] = "none"] /\ pc' = [pc EXCEPT ![t] = "idle"]
              /\ op[t] # "close"
    BY <1>6 DEF Release, Return
  <2>. HIDE DEF s
  <2>3. \A c \in Subs : /\ c # s => inuse'[c] = inuse[c]
                        /\ inuse'[c] => inuse[c]
    BY <2>2 DEF TypeOK, SubTypeOK
  <2>4. CloseOK'
    BY <1>1, <1>2, <2>2, <2>3, CloseMove DEF LifeInv, taskVars, userVars
  <2>5. CallbackOK'
    BY <1>1, <1>2, <1>6, <2>2, <2>3, CallbackMove DEF LifeInv, taskVars, userVars
  <2>. QED  BY <1>4, <2>1, <2>4, <2>5 DEF LifeInv
<1>. QED  BY <1>3, <1>5, <1>6

\* The client that closes takes up the subscriptions that are left, one at a
\* time, and lets the event task exit when there is none.
LEMMA LifeClose ==
  ASSUME TypeOK, LifeInv, NEW t \in Threads,
         CloseFlush(t) \/ CloseSweep(t) \/ CloseExit(t) \/ CloseJoin(t)
  PROVE  LifeInv'
<1>0. op[t] = "close" /\ arg[t] \notin Subs
  BY DEF CloseFlush, CloseSweep, CloseExit, CloseJoin, TypeOK, CtlTypeOK
<1>1. /\ UNCHANGED <<queVars, subVars, recVars, taskVars, op>>
      /\ UNCHANGED <<pSuicideEvent, extralabor_sub, extraLaborBusy>>
  BY DEF CloseFlush, CloseSweep, CloseExit, CloseJoin, Goto, userVars
<1>2. CellsOK' /\ ListsOK' /\ SlotsOK'
  BY <1>1, LifeSame DEF LifeInv, queVars, subVars, recVars
<1>3. CASE CloseFlush(t) \/ CloseExit(t) \/ CloseJoin(t)
  <2>1. \E p \in {"sweep", "signal", "closed"} : Goto(t, p)
    BY <1>3 DEF CloseFlush, CloseExit, CloseJoin
  <2>2. HeldOK'
    <3>1. HeldOK!(t)'
      BY <1>0, <1>1, <2>1 DEF Goto, TypeOK, ThrTypeOK
    <3>2. \A u \in Threads \ {t} : pc'[u] = pc[u] /\ op'[u] = op[u] /\ arg'[u] = arg[u]
      BY <2>1 DEF Goto, TypeOK, ThrTypeOK
    <3>. QED  BY <1>1, <3>1, <3>2, HeldMove DEF LifeInv, subVars
  <2>3. ExclusiveOK'
    BY <2>1, ExclusiveMove DEF LifeInv, Goto
  <2>4. CallbackOK'
    BY <1>1, <2>1, CallbackMove DEF LifeInv, Goto, subVars, taskVars
  <2>5. CloseOK'
    <3>1. CASE CloseFlush(t) \/ CloseJoin(t)
      <4>1. pc[t] = "flush" => tpc # "laboring"
        BY <3>1 DEF CloseFlush, CloseJoin, LifeInv, CloseOK
      <4>2. UNCHANGED pendexit
        BY <3>1 DEF CloseFlush, CloseJoin, userVars
      <4>. QED
        BY <1>1, <2>1, <4>1, <4>2, CloseMove DEF LifeInv, Goto, subVars, taskVars
    <3>2. CASE CloseExit(t)
      <4>1. pc[t] = "sweep" /\ (\A s \in Subs : ~inuse[s]) /\ Goto(t, "signal")
        BY <3>2 DEF CloseExit
      <4>2. Closing
        <5>1. t # Task
          BY <1>0 DEF LifeInv, CallbackOK
        <5>. QED  BY <1>0, <5>1 DEF Closing
      <4>. QED
        BY <1>1, <4>1, <4>2 DEF LifeInv, CloseOK, Closing, Goto, subVars, taskVars, TypeOK, ThrTypeOK
    <3>. QED  BY <1>3, <3>1, <3>2
  <2>. QED  BY <1>2, <2>2, <2>3, <2>4, <2>5 DEF LifeInv
<1>4. CASE CloseSweep(t)
  <2>1. PICK s \in Subs :
          /\ user_sub[s] /\ \A u \in Threads \ {t} : arg[u] # s
          /\ arg' = [arg EXCEPT ![t] = s]
          /\ pc' = [pc EXCEPT ![t] = "disable"]
    BY <1>4 DEF CloseSweep
  <2>2. UNCHANGED pendexit /\ pc[t] = "sweep"
    BY <1>4 DEF CloseSweep, userVars
  <2>3. HeldOK'
    <3>1. HeldOK!(t)'
      BY <1>0, <1>1, <2>1 DEF TypeOK, ThrTypeOK, subVars
    <3>2. \A u \in Threads \ {t} : pc'[u] = pc[u] /\ op'[u] = op[u] /\ arg'[u] = arg[u]
      BY <1>1, <2>1 DEF TypeOK, ThrTypeOK
    <3>. QED  BY <1>1, <3>1, <3>2, HeldMove DEF LifeInv, subVars
  <2>4. ExclusiveOK'
    <3>. SUFFICES ASSUME NEW u \in Threads, NEW v \in Threads, u # v,
                         arg'[u] = arg'[v], arg'[u] \in Subs
                  PROVE  Shares(u, v)' \/ Shares(v, u)'
      BY DEF ExclusiveOK, Shares
    <3>1. u # t /\ v # t
      BY <2>1 DEF TypeOK, ThrTypeOK
    <3>2. arg[u] = arg[v] /\ arg[u] \in Subs /\ pc'[u] = pc[u] /\ pc'[v] = pc[v]
      BY <2>1, <3>1 DEF TypeOK, ThrTypeOK
    <3>. QED  BY <1>1, <3>2 DEF LifeInv, ExclusiveOK, Shares
  <2>5. CallbackOK'
    <3>1. t # Task
      BY <1>0 DEF LifeInv, CallbackOK
    <3>2. arg'[Task] = arg[Task]
      BY <2>1, <3>1 DEF TypeOK, ThrTypeOK
    <3>. QED  BY <1>1, <3>2 DEF LifeInv, CallbackOK, subVars, taskVars
  <2>6. CloseOK'
    BY <1>1, <2>1, <2>2, CloseMove DEF LifeInv, subVars, taskVars
  <2>. QED  BY <1>2, <2>3, <2>4, <2>5, <2>6 DEF LifeInv
<1>. QED  BY <1>3, <1>4

\* What a thread that enters an operation brings with it; the others do not
\* notice.
LEMMA EnterFacts ==
  ASSUME TypeOK, NEW t \in Threads, NEW o, NEW s, NEW p, Enter(t, o, s, p)
  PROVE  /\ op[t] = "none" /\ arg[t] \notin Subs
         /\ pc'[t] = p /\ op'[t] = o /\ arg'[t] = s
         /\ \A u \in Threads \ {t} : pc'[u] = pc[u] /\ op'[u] = op[u] /\ arg'[u] = arg[u]
BY DEF Enter, TypeOK, ThrTypeOK, CtlTypeOK

\* An operation on no subscription, or on one that nobody works on, except that
\* access rights may change while it is being added.
LEMMA ExclusiveEnter ==
  ASSUME TypeOK, ExclusiveOK, NEW t \in Threads, NEW o, NEW s, NEW p, Enter(t, o, s, p),
         \A u \in Threads \ {t} : s \in Subs /\ arg[u] = s =>
             op[u] = "add" /\ pc[u] # "walk" /\ o \in {"grant", "revoke"}
  PROVE  ExclusiveOK'
<1>. SUFFICES ASSUME NEW u \in Threads, NEW v \in Threads, u # v,
                     arg'[u] = arg'[v], arg'[u] \in Subs
              PROVE  Shares(u, v)' \/ Shares(v, u)'
  BY DEF ExclusiveOK, Shares
<1>1. CASE u # t /\ v # t
  BY <1>1, EnterFacts DEF ExclusiveOK, Shares
<1>2. CASE u = t /\ v # t
  BY <1>2, EnterFacts DEF Shares
<1>3. CASE u # t /\ v = t
  BY <1>3, EnterFacts DEF Shares
<1>. QED  BY <1>1, <1>2, <1>3

\* A call that only enters its operation.
LEMMA LifeEnter ==
  ASSUME TypeOK, LifeInv, NEW t \in Clients, NEW o, NEW s, NEW p, Enter(t, o, s, p),
         ExclusiveOK', HeldOK!(t)',
         UNCHANGED <<queVars, subVars, recVars, taskVars, pSuicideEvent, extraLaborBusy,
                     pendexit>>,
         IF o = "close" THEN p = "flush" /\ ~extralabor_sub' ELSE UNCHANGED extralabor_sub
  PROVE  LifeInv'
<1>1. t \in Threads /\ t # Task
  OBVIOUS
<1>2. HeldOK'
  BY <1>1, EnterFacts, HeldMove DEF LifeInv, subVars
<1>3. CallbackOK'
  <2>1. op'[Task] = op[Task] /\ arg'[Task] = arg[Task]
    BY <1>1, EnterFacts
  <2>. QED  BY <2>1 DEF LifeInv, CallbackOK, subVars, taskVars
<1>4. CloseOK'
  <2>1. \A u \in Threads \ {t} : op'[u] = op[u] /\ pc'[u] = pc[u]
    BY <1>1, EnterFacts
  <2>2. op[t] = "none" /\ op'[t] = o /\ pc'[t] = p
    BY <1>1, EnterFacts
  <2>3. Closing => Closing'
    BY <2>1, <2>2 DEF Closing
  <2>4. \A u \in Threads : op'[u] = "close" =>
            ~extralabor_sub' /\ (pc'[u] # "flush" => tpc' # "laboring")
    <3>. SUFFICES ASSUME NEW u \in Threads, op'[u] = "close"
                  PROVE  ~extralabor_sub' /\ (pc'[u] # "flush" => tpc' # "laboring")
      OBVIOUS
    <3>1. CASE u = t
      BY <2>2, <3>1
    <3>2. CASE u # t
      BY <2>1, <3>2 DEF LifeInv, CloseOK, taskVars
    <3>. QED  BY <3>1, <3>2
  <2>. QED  BY <2>3, <2>4 DEF LifeInv, CloseOK, subVars, taskVars
<1>. QED  BY <1>2, <1>3, <1>4, LifeSame DEF LifeInv, queVars, subVars, recVars

\* A subscription is taken up only while it is in use.
LEMMA LifeCall ==
  ASSUME TypeOK, LifeInv, NEW t \in Clients,
         Grant(t) \/ Revoke(t) \/ CancelBegin(t) \/ FlowCtrl(t) \/ PostLabor(t)
           \/ CloseBegin(t)
  PROVE  LifeInv'
<1>0. t \in Threads
  OBVIOUS
<1>1. CASE Grant(t) \/ Revoke(t)
  <2>1. PICK s \in Subs, o \in {"grant", "revoke"} : ChangeRights(t, s, o)
    BY <1>1 DEF Grant, Revoke
  <2>. DEFINE p == IF o = "grant" THEN "enable" ELSE "post"
  <2>2. Enter(t, o, s, p) /\ user_sub[s] /\ p \in {"enable", "post"}
    BY <2>1 DEF ChangeRights
  <2>. HIDE DEF p
  <2>3. \A u \in Threads \ {t} : arg[u] = s => op[u] = "add" /\ pc[u] # "walk"
    BY <2>1 DEF ChangeRights, LifeInv, HeldOK
  <2>4. ExclusiveOK'
    BY <1>0, <2>2, <2>3, ExclusiveEnter DEF LifeInv
  <2>5. HeldOK!(t)'
    BY <1>0, <2>1, <2>2, EnterFacts DEF ChangeRights, subVars
  <2>. QED
    BY <2>1, <2>2, <2>4, <2>5, LifeEnter DEF ChangeRights, userVars
<1>2. CASE CancelBegin(t)
  <2>1. PICK s \in Subs : user_sub[s] /\ ~Busy(s) /\ Enter(t, "cancel", s, "disable")
    BY <1>2 DEF CancelBegin
  <2>2. ExclusiveOK'
    BY <1>0, <2>1, ExclusiveEnter DEF LifeInv, Busy
  <2>3. HeldOK!(t)'
    BY <1>0, <1>2, <2>1, EnterFacts DEF CancelBegin, subVars
  <2>. QED
    BY <1>2, <2>1, <2>2, <2>3, LifeEnter DEF CancelBegin, userVars
<1>3. CASE FlowCtrl(t) \/ PostLabor(t) \/ CloseBegin(t)
  <2>1. PICK o \in {"flow", "labor", "close"}, p \in {"signal", "flush"} :
          /\ Enter(t, o, EVENTQEMPTY, p)
          /\ IF o = "close" THEN p = "flush" /\ ~extralabor_sub'
                            ELSE UNCHANGED extralabor_sub
    BY <1>3 DEF FlowCtrl, PostLabor, CloseBegin
  <2>2. ExclusiveOK'
    BY <1>0, <2>1, ExclusiveEnter DEF LifeInv
  <2>3. HeldOK!(t)'
    BY <1>0, <2>1, EnterFacts
  <2>4. UNCHANGED <<queVars, subVars, recVars, taskVars, pSuicideEvent, extraLaborBusy,
                    pendexit>>
    BY <1>3 DEF FlowCtrl, PostLabor, CloseBegin
  <2>. QED  BY <2>1, <2>2, <2>3, <2>4, LifeEnter
<1>. QED  BY <1>1, <1>2, <1>3

\* A new subscription takes a cell that nobody refers to any more.
LEMMA LifeAdd ==
  ASSUME TypeOK, LifeInv, NEW t \in Clients, AddBegin(t)
  PROVE  LifeInv'
<1>1. PICK s \in Subs, r \in Recs :
        /\ ~inuse[s] /\ Enter(t, "add", s, "walk")
        /\ inuse' = [inuse EXCEPT ![s] = TRUE]
        /\ chan' = [chan EXCEPT ![s] = r]
        /\ callBackInProgress' = [callBackInProgress EXCEPT ![s] = FALSE]
        /\ UNCHANGED <<enabled, user_sub, ev_que>>
  BY DEF AddBegin
<1>2. ~Closing /\ UNCHANGED <<evque, userVars, recVars, taskVars>>
  BY DEF AddBegin, queVars
<1>3. t \in Threads /\ t # Task
  OBVIOUS
<1>4. ~user_sub[s] /\ ~enabled[s] /\ \A u \in Threads : arg[u] # s
  BY <1>1, ArgInUse DEF LifeInv, CellsOK
<1>5. \A c \in Subs : /\ c # s => /\ inuse'[c] = inuse[c] /\ chan'[c] = chan[c]
                                 /\ callBackInProgress'[c] = callBackInProgress[c]
                      /\ inuse[c] => inuse'[c]
  BY <1>1 DEF TypeOK, SubTypeOK
<1>6. CellsOK'
  BY <1>1, <1>5 DEF LifeInv, CellsOK
<1>7. ListsOK'
  <2>1. \A k \in Recs : \A c \in todo[k] : c \in Subs /\ c # s
    BY <1>4 DEF LifeInv, ListsOK, TypeOK, RecTypeOK
  <2>. QED  BY <1>1, <1>2, <1>5, <2>1 DEF LifeInv, ListsOK, recVars
<1>8. SlotsOK'
  BY <1>1, <1>2, LifeSame DEF LifeInv
<1>9. HeldOK'
  <2>. SUFFICES ASSUME NEW u \in Threads PROVE HeldOK!(u)'
    BY DEF HeldOK
  <2>1. CASE u = t
    <3>1. pc'[t] = "walk" /\ op'[t] = "add" /\ arg'[t] = s
      BY <1>1, <1>3, EnterFacts
    <3>2. inuse'[s] /\ ~user_sub'[s] /\ ~callBackInProgress'[s]
      BY <1>1, <1>4 DEF TypeOK, SubTypeOK
    <3>. QED  BY <2>1, <3>1, <3>2
  <2>2. CASE u # t
    <3>1. pc'[u] = pc[u] /\ op'[u] = op[u] /\ arg'[u] = arg[u]
      BY <1>1, <1>3, <2>2, EnterFacts
    <3>2. arg[u] \in Subs => /\ inuse'[arg[u]] = inuse[arg[u]]
                             /\ callBackInProgress'[arg[u]] = callBackInProgress[arg[u]]
      BY <1>4, <1>5
    <3>3. pc[u] \in {"walk", "wait", "recheck"} => arg[u] \in Subs
      BY DEF TypeOK, CtlTypeOK
    <3>. QED  BY <1>1, <3>1, <3>2, <3>3 DEF LifeInv, HeldOK
  <2>. QED  BY <2>1, <2>2
<1>10. ExclusiveOK'
  BY <1>1, <1>3, <1>4, ExclusiveEnter DEF LifeInv
<1>11. CallbackOK'
  <2>1. op'[Task] = op[Task] /\ arg'[Task] = arg[Task]
    BY <1>1, <1>3, EnterFacts
  <2>2. inuse[tev] => tev # s
    BY <1>1
  <2>. QED  BY <1>1, <1>2, <1>5, <2>1, <2>2 DEF LifeInv, CallbackOK, userVars, taskVars
<1>12. CloseOK'
  <2>1. \A u \in Threads : op'[u] = "close" => op[u] = "close" /\ pc'[u] = pc[u]
    <3>1. op'[t] = "add"
      BY <1>1, <1>3, EnterFacts
    <3>2. \A u \in Threads \ {t} : op'[u] = op[u] /\ pc'[u] = pc[u]
      BY <1>1, <1>3, EnterFacts
    <3>. QED  BY <3>1, <3>2
  <2>2. ~pendexit
    BY <1>2 DEF LifeInv, CloseOK
  <2>. QED  BY <1>2, <2>1, <2>2 DEF LifeInv, CloseOK, userVars, taskVars
<1>. QED
  BY <1>6, <1>7, <1>8, <1>9, <1>10, <1>11, <1>12 DEF LifeInv

\* A callback cancels its own subscription, which it keeps in use until then.
LEMMA LifeCallbackCancel ==
  ASSUME TypeOK, LifeInv, CallbackCancels # "any", CallbackCancel
  PROVE  LifeInv'
<1>1. PICK s \in Subs :
        /\ user_sub[s] /\ ~Busy(s) /\ s = tev /\ Enter(Task, "cancel", s, "disable")
  BY DEF CallbackCancel
<1>2. /\ tpc = "called" /\ Task \in Threads
      /\ UNCHANGED <<queVars, subVars, userVars, recVars, taskVars>>
  BY DEF CallbackCancel
<1>3. ExclusiveOK'
  BY <1>1, <1>2, ExclusiveEnter DEF LifeInv, Busy
<1>4. HeldOK'
  <2>1. HeldOK!(Task)'
    BY <1>1, <1>2, EnterFacts DEF subVars
  <2>. QED  BY <1>1, <1>2, <2>1, EnterFacts, HeldMove DEF LifeInv, subVars
<1>5. CallbackOK'
  <2>1. op'[Task] = "cancel" /\ arg'[Task] = tev
    BY <1>1, <1>2, EnterFacts
  <2>. QED  BY <1>1, <1>2, <2>1 DEF LifeInv, CallbackOK, subVars, userVars, taskVars
<1>6. CloseOK'
  <2>1. \A u \in Threads : op'[u] = "close" => op[u] = "close" /\ pc'[u] = pc[u]
    <3>1. op'[Task] = "cancel"
      BY <1>1, <1>2, EnterFacts
    <3>2. \A u \in Threads \ {Task} : op'[u] = op[u] /\ pc'[u] = pc[u]
      BY <1>1, <1>2, EnterFacts
    <3>. QED  BY <3>1, <3>2
  <2>2. Closing => Closing'
    BY <1>1, <1>2, EnterFacts DEF Closing
  <2>. QED  BY <1>2, <2>1, <2>2 DEF LifeInv, CloseOK, subVars, userVars, taskVars
<1>. QED
  BY <1>2, <1>3, <1>4, <1>5, <1>6, LifeSame DEF LifeInv, queVars, subVars, recVars
----------------------------------------------------------------------------
(* The theorems *)

\* LifeInv follows from where the event user starts and from every step.
LEMMA LifeStep ==
  ASSUME CallbackCancels # "any", TypeOK, RingIntact, LifeInv, [Next]_vars
  PROVE  LifeInv'
<1>1. CASE UNCHANGED vars
  BY <1>1, LifeSame
     DEF LifeInv, vars, queVars, subVars, userVars, recVars, thrVars, taskVars
<1>2. ASSUME NEW t \in Threads, ThreadStep(t) PROVE LifeInv'
  BY <1>2, LifeAddWalk, LifePostSingle, LifeSignal, LifeEnable, LifeDisable, LifePurge,
     LifeRecheck, LifeClose DEF ThreadStep
<1>3. ASSUME NEW t \in Clients, Call(t) PROVE LifeInv'
  BY <1>3, LifeAdd, LifeCall DEF Call
<1>. QED
  BY <1>1, <1>2, <1>3, LifePost, LifeTask, LifeCallbackCancel DEF Next

\* ... and so a cell's life is in order, where a callback cancels no other's.
LEMMA LifeHolds ==
  ASSUME CallbackCancels # "any"
  PROVE  Spec => []LifeInv
<1>1. Init => LifeInv
  <2>. SUFFICES ASSUME Init PROVE LifeInv
    OBVIOUS
  <2>1. CellsOK /\ ListsOK
    BY DEF Init, CellsOK, ListsOK
  <2>2. SlotsOK
    BY DEF Init, SlotsOK
  <2>3. HeldOK /\ ExclusiveOK
    BY DEF Init, HeldOK, ExclusiveOK
  <2>4. CallbackOK /\ CloseOK
    BY DEF Init, CallbackOK, CloseOK
  <2>. QED  BY <2>1, <2>2, <2>3, <2>4 DEF LifeInv
<1>2. TypeOK /\ RingIntact /\ LifeInv /\ [Next]_vars => LifeInv'
  BY LifeStep
<1>. QED  BY <1>1, <1>2, TypeCorrect, RingIntactHolds, PTL DEF Spec

\* If a callback cancels no subscription but its own, a freed evSubscrip is no
\* longer reachable: not from a slot of a queue, not from the monitor list a
\* record walks, and not from a callback that did not free it: the waiting of
\* db_cancel_event, pSuicideEvent and the purge together.
THEOREM NoUseAfterFreeHolds ==
  ASSUME CallbackCancels # "any"
  PROVE  Spec => []NoUseAfterFree
<1>1. LifeInv => NoUseAfterFree
  BY DEF LifeInv, CellsOK, ListsOK, SlotsOK, CallbackOK, NoUseAfterFree
<1>. QED  BY <1>1, LifeHolds, PTL

\* Under the same condition a client that ends is left alone: after
\* db_flush_extra_labor_event its labor does not run, and once the event task
\* is told to exit no callback is entered any more.
THEOREM CloseIsQuietHolds ==
  ASSUME CallbackCancels # "any"
  PROVE  Spec => []CloseIsQuiet
<1>1. TypeOK /\ LifeInv => CloseIsQuiet
  BY DEF TypeOK, TaskTypeOK, LifeInv, CallbackOK, CloseOK, CloseIsQuiet
<1>. QED  BY <1>1, LifeHolds, TypeCorrect, PTL
-----------------------------------------------------------------------------
(* The counters of DbEvent, kept by hand in four functions of dbEvent.c,   *)
(* agree with the slots of the rings; from this there is always room for   *)
(* each subscription, and the newest value queued is never lost.           *)

\* The subscriptions whose quota a queue holds.
Members(q) == Assigned(q) \cup Dying(q)

\* i is the newest entry of s in queue q
Newest(q, s, i) == /\ i \in Entries(q, s)
                   /\ \A j \in Entries(q, s) : Age(q, j) <= Age(q, i)

\* npend counts the entries of a subscription and pLastLog is the newest; one
\* that is just being added has none.
PendOK ==
    /\ \A s \in Subs : user_sub[s] =>
        /\ npend[s] = Cardinality(Entries(ev_que[s], s))
        /\ npend[s] = 0 => pLastLog[s] = NoSlot
        /\ npend[s] # 0 => Newest(ev_que[s], s, pLastLog[s])
    /\ \A t \in Threads : pc[t] = "walk" => npend[arg[t]] = 0 /\ pLastLog[arg[t]] = NoSlot

\* nCanceled counts placeholders and nDuplicates the entries that are not the
\* newest; these never come near the end of the ring.
CountOK == \A q \in Queues :
    /\ nCanceled[q] = Cardinality(Entries(q, canceledEvent))
    /\ nDuplicates[q] = Cardinality(Extra(q))
    /\ nDuplicates[q] <= EVENTQUESIZE - EVENTSPERQUE

\* The quota is that of the members, which leaves a share of the ring free.
QuotaOK == \A q \in Queues :
    /\ IsFiniteSet(Members(q))
    /\ quota[q] = EVENTENTRIES * Cardinality(Members(q))
    /\ quota[q] <= EVENTQUESIZE - EVENTENTRIES

\* The newest value of a subscription is in its newest entry, on the way to its
\* callback, or has been seen; a cell that is taken anew knows of none.
NewestOK ==
    /\ \A s \in Subs : user_sub[s] =>
        /\ last[s] <= val[chan[s]]
        /\ npend[s] # 0 => valque[ev_que[s]][pLastLog[s]] = last[s]
        /\ npend[s] = 0 =>
             IF tpc = "callback" /\ tev = s THEN tlog = last[s]
             ELSE IF chan[s] \in RefRecs THEN got[s] >= last[s] ELSE got[s] = last[s]
    /\ \A s \in Subs : ~inuse[s] => last[s] = NoLog /\ got[s] = NoLog
    /\ \A t \in Threads : pc[t] = "walk" => last[arg[t]] = NoLog /\ got[arg[t]] = NoLog
----------------------------------------------------------------------------
(* Slots and ages *)

\* The slots of a ring are finitely many, and so are those of any kind.
LEMMA SlotsFinite ==
  /\ IsFiniteSet(Slots) /\ Cardinality(Slots) = EVENTQUESIZE
  /\ \A H \in SUBSET Slots : IsFiniteSet(H) /\ Cardinality(H) \in Nat
<1>1. IsFiniteSet(Slots) /\ Cardinality(Slots) = EVENTQUESIZE
  BY SizePositive, FS_Interval DEF Slots
<1>. QED  BY <1>1, HitsFinite

\* An age is the number of slots to read before; only the slot at getix has none.
LEMMA AgeFacts ==
  ASSUME TypeOK, NEW q \in Queues, NEW i \in Slots
  PROVE  Age(q, i) \in Nat /\ (Age(q, i) = 0 <=> i = getix[q])
<1>1. getix[q] \in Slots
  BY DEF TypeOK, QueTypeOK
<1>. QED  BY <1>1, SizePositive DEF Age, Slots

\* When the slot at getix is read, the others come nearer.
LEMMA AgeRead ==
  ASSUME TypeOK, NEW q \in Queues, getix'[q] = RNGINC(getix[q]), NEW i \in Slots,
         i # getix[q]
  PROVE  Age(q, i)' = Age(q, i) - 1
<1>1. getix[q] \in Slots
  BY DEF TypeOK, QueTypeOK
<1>. QED  BY <1>1, SizePositive DEF Age, Slots, RNGINC

\* An empty slot at putix is younger than every entry.
LEMMA AgeAppend ==
  ASSUME TypeOK, RingIntact, NEW q \in Queues, evque[q][putix[q]] = EVENTQEMPTY,
         NEW i \in Slots, evque[q][i] # EVENTQEMPTY
  PROVE  Age(q, i) <= Age(q, putix[q])
<1>1. /\ getix[q] \in Slots /\ putix[q] \in Slots
      /\ OneRun(evque[q], getix[q], putix[q])
  BY DEF TypeOK, QueTypeOK, RingIntact
<1>. QED  BY <1>1, SizePositive DEF Age, Slots, OneRun, OnTheWay

\* ringSpace is what the entries leave: with a free slot at putix, they are at
\* most as many as it does not count.
LEMMA RunLength ==
  ASSUME TypeOK, RingIntact, NEW q \in Queues, evque[q][putix[q]] = EVENTQEMPTY
  PROVE  Cardinality({i \in Slots : evque[q][i] # EVENTQEMPTY})
           <= EVENTQUESIZE - ringSpace(q)
<1>. DEFINE g == getix[q]  p == putix[q]  f == evque[q]
            U == {i \in Slots : f[i] # EVENTQEMPTY}
<1>1. /\ g \in Slots /\ p \in Slots /\ OneRun(f, g, p) /\ f[p] = EVENTQEMPTY
  BY DEF TypeOK, QueTypeOK, RingIntact
<1>2. ringSpace(q) = IF g > p THEN g - p ELSE EVENTQUESIZE + g - p
  BY DEF ringSpace
<1>. HIDE DEF g, p, f
<1>3. g \in Int /\ p \in Int /\ g >= 0 /\ p >= 0 /\ g < EVENTQUESIZE /\ p < EVENTQUESIZE
  BY <1>1, SizePositive DEF Slots
<1>4. CASE g <= p
  <2>. DEFINE A == g .. (p - 1)
  <2>1. U \in SUBSET A
    BY <1>1, <1>3, <1>4, SizePositive DEF OneRun, OnTheWay, Slots
  <2>2. IsFiniteSet(A) /\ Cardinality(A) = p - g
    BY <1>3, <1>4, FS_Interval
  <2>. HIDE DEF U, A
  <2>3. Cardinality(U) <= p - g
    BY <2>1, <2>2, FS_Subset
  <2>4. ringSpace(q) = EVENTQUESIZE + g - p
    BY <1>2, <1>3, <1>4
  <2>. QED  BY <1>3, <2>3, <2>4, SizePositive DEF U, f
<1>5. CASE g > p
  <2>. DEFINE A == 0 .. (p - 1)  B == g .. (EVENTQUESIZE - 1)
  <2>1. U \in SUBSET (A \cup B)
    BY <1>1, <1>3, <1>5, SizePositive DEF OneRun, OnTheWay, Slots
  <2>2. IsFiniteSet(A) /\ Cardinality(A) = p
    <3>1. p - 1 \in Int /\ 0 \in Int
      BY <1>3
    <3>2. /\ IsFiniteSet(0 .. (p - 1))
          /\ Cardinality(0 .. (p - 1)) = IF 0 > p - 1 THEN 0 ELSE (p - 1) - 0 + 1
      BY ONLY <3>1, FS_Interval
    <3>3. (IF 0 > p - 1 THEN 0 ELSE (p - 1) - 0 + 1) = p
      BY <1>3
    <3>. QED  BY <3>2, <3>3
  <2>3. IsFiniteSet(B) /\ Cardinality(B) = EVENTQUESIZE - g
    BY <1>3, SizePositive, FS_Interval
  <2>4. A \cap B = {}
    BY <1>3, <1>5, SizePositive
  <2>. HIDE DEF A, B
  <2>5. IsFiniteSet(A \cup B) /\ Cardinality(A \cup B) = p + (EVENTQUESIZE - g)
    <3>1. /\ IsFiniteSet(A \cup B)
          /\ Cardinality(A \cup B) = Cardinality(A) + Cardinality(B) - Cardinality(A \cap B)
      BY <2>2, <2>3, FS_Union
    <3>2. Cardinality(A \cap B) = 0
      BY <2>4, FS_EmptySet
    <3>. QED  BY <1>3, <2>2, <2>3, <3>1, <3>2, SizePositive
  <2>6. Cardinality(U) <= p + (EVENTQUESIZE - g)
    BY <2>1, <2>5, FS_Subset
  <2>7. ringSpace(q) = g - p
    BY <1>2, <1>5
  <2>8. IsFiniteSet(U) /\ Cardinality(U) \in Nat
    BY SlotsFinite
  <2>. QED  BY <1>3, <2>6, <2>7, <2>8, SizePositive DEF U, f
<1>. QED  BY <1>3, <1>4, <1>5

\* One slot more, one slot less.
LEMMA CardOne ==
  ASSUME NEW H \in SUBSET Slots, NEW i \in Slots
  PROVE  /\ i \notin H => Cardinality(H \cup {i}) = Cardinality(H) + 1
         /\ i \in H => Cardinality(H \ {i}) = Cardinality(H) - 1
BY SlotsFinite, FS_AddElement, FS_RemoveElement

\* A set of slots has no element, one element, or another beside a given one.
LEMMA CardFew ==
  ASSUME NEW H \in SUBSET Slots
  PROVE  /\ Cardinality(H) = 0 <=> H = {}
         /\ \A i \in H : Cardinality(H) = 1 <=> H = {i}
         /\ \A i \in H : Cardinality(H) # 1 => \E j \in H : j # i
<1>1. IsFiniteSet(H)
  BY SlotsFinite
<1>2. Cardinality(H) = 0 <=> H = {}
  BY <1>1, FS_EmptySet
<1>3. Cardinality(H) = 1 <=> \E x : H = {x}
  BY <1>1, FS_Singleton
<1>4. \A i \in H : Cardinality(H) = 1 <=> H = {i}
  BY <1>3
<1>5. \A i \in H : Cardinality(H) # 1 => \E j \in H : j # i
  BY <1>4
<1>. QED  BY <1>2, <1>4, <1>5

\* The entries of a subscription in use, and its newest one.
LEMMA PendFacts ==
  ASSUME TypeOK, PendOK, NEW s \in Subs, user_sub[s], NEW q \in Queues, q = ev_que[s]
  PROVE  /\ Entries(q, s) \in SUBSET Slots
         /\ npend[s] = Cardinality(Entries(q, s)) /\ npend[s] \in Nat
         /\ npend[s] = 0 <=> Entries(q, s) = {}
         /\ npend[s] # 0 => /\ pLastLog[s] \in Slots
                            /\ evque[q][pLastLog[s]] = s
                            /\ Newest(q, s, pLastLog[s])
         /\ npend[s] = 0 => pLastLog[s] \notin Slots
<1>1. Entries(q, s) \in SUBSET Slots
  BY DEF Entries
<1>2. npend[s] = Cardinality(Entries(q, s))
  BY DEF PendOK
<1>3. npend[s] # 0 => /\ pLastLog[s] \in Slots
                      /\ evque[q][pLastLog[s]] = s
                      /\ Newest(q, s, pLastLog[s])
  BY DEF PendOK, Newest, Entries
<1>4. npend[s] = 0 => pLastLog[s] \notin Slots
  BY SizePositive DEF PendOK, Slots
<1>. QED  BY <1>1, <1>2, <1>3, <1>4, CardFew, SlotsFinite

\* Entries, and members, of what a step leaves alone.
LEMMA CountSame ==
  /\ PendOK /\ UNCHANGED <<user_sub, npend, pLastLog, evque, ev_que, getix>>
       /\ (\A t \in Threads : pc'[t] = "walk" => pc[t] = "walk" /\ arg'[t] = arg[t])
       => PendOK'
  /\ CountOK /\ UNCHANGED <<nCanceled, nDuplicates, evque, pLastLog>> => CountOK'
  /\ QuotaOK /\ UNCHANGED <<quota, user_sub, ev_que>>
       /\ (\A t \in Threads :
             /\ pc'[t] \in {"wait", "recheck"} <=> pc[t] \in {"wait", "recheck"}
             /\ pc[t] \in {"wait", "recheck"} => arg'[t] = arg[t])
       => QuotaOK'
  /\ NewestOK /\ UNCHANGED <<inuse, user_sub, npend, pLastLog, chan, ev_que, valque, val>>
       /\ UNCHANGED <<tpc, tev, tlog, last, got>>
       /\ (\A t \in Threads : pc'[t] = "walk" => pc[t] = "walk" /\ arg'[t] = arg[t])
       => NewestOK'
<1>1. ASSUME PendOK, UNCHANGED <<user_sub, npend, pLastLog, evque, ev_que, getix>>,
             \A t \in Threads : pc'[t] = "walk" => pc[t] = "walk" /\ arg'[t] = arg[t]
      PROVE  PendOK'
  BY <1>1 DEF PendOK, Newest, Entries, Age
<1>2. ASSUME CountOK, UNCHANGED <<nCanceled, nDuplicates, evque, pLastLog>>
      PROVE  CountOK'
  BY <1>2 DEF CountOK, Entries, Extra
<1>3. ASSUME QuotaOK, UNCHANGED <<quota, user_sub, ev_que>>,
             \A t \in Threads :
               /\ pc'[t] \in {"wait", "recheck"} <=> pc[t] \in {"wait", "recheck"}
               /\ pc[t] \in {"wait", "recheck"} => arg'[t] = arg[t]
      PROVE  QuotaOK'
  <2>1. \A q \in Queues : Members(q)' = Members(q)
    BY <1>3 DEF Members, Assigned, Dying
  <2>. QED  BY <1>3, <2>1 DEF QuotaOK
<1>4. ASSUME NewestOK,
             UNCHANGED <<inuse, user_sub, npend, pLastLog, chan, ev_que, valque, val>>,
             UNCHANGED <<tpc, tev, tlog, last, got>>,
             \A t \in Threads : pc'[t] = "walk" => pc[t] = "walk" /\ arg'[t] = arg[t]
      PROVE  NewestOK'
  BY <1>4 DEF NewestOK
<1>. QED  BY <1>1, <1>2, <1>3, <1>4

\* A subscription whose entries and books are left alone.
LEMMA PendKept ==
  ASSUME TypeOK, PendOK, NEW c \in Subs, user_sub[c], UNCHANGED getix,
         npend'[c] = npend[c], pLastLog'[c] = pLastLog[c], ev_que'[c] = ev_que[c],
         \A k \in Queues, i \in Slots : evque'[k][i] = c <=> evque[k][i] = c
  PROVE  /\ npend'[c] = Cardinality(Entries(ev_que[c], c)')
         /\ npend'[c] = 0 => pLastLog'[c] = NoSlot
         /\ npend'[c] # 0 => Newest(ev_que[c], c, pLastLog[c])'
<1>1. PICK k \in Queues : k = ev_que[c]
  BY DEF TypeOK, SubTypeOK
<1>2. PICK m : m = pLastLog[c]
  OBVIOUS
<1>3. Entries(k, c)' = Entries(k, c)
  BY DEF Entries
<1>4. npend[c] # 0 => Newest(k, c, m)
  BY <1>1, <1>2 DEF PendOK
<1>5. \A i \in Slots : Age(k, i)' = Age(k, i)
  BY DEF Age
<1>6. npend[c] # 0 => Newest(k, c, m)'
  BY <1>3, <1>4, <1>5 DEF Newest, Entries
<1>7. ev_que'[c] = k /\ pLastLog'[c] = m
  BY <1>1, <1>2
<1>8. npend[c] = Cardinality(Entries(k, c)) /\ (npend[c] = 0 => pLastLog[c] = NoSlot)
  BY <1>1 DEF PendOK
<1>9. Cardinality(Entries(ev_que[c], c)') = Cardinality(Entries(k, c))
  BY <1>3, <1>7
<1>10. npend[c] # 0 => Newest(ev_que[c], c, pLastLog[c])'
  BY <1>6, <1>7
<1>. QED  BY <1>8, <1>9, <1>10
----------------------------------------------------------------------------
(* db_queue_event_log *)

\* What a new entry changes: one empty slot becomes the newest entry of s.
LEMMA AppendFacts ==
  ASSUME TypeOK, NEW s \in Subs, NEW v \in Logs, ~SlotTaken(s), ~Replaces(s),
         QueueLog(s, v), NEW q \in Queues, q = ev_que[s], NEW p \in Slots, p = putix[q]
  PROVE  /\ evque[q][p] = EVENTQEMPTY
         /\ \A k \in Queues, i \in Slots :
              /\ evque'[k][i] = IF k = q /\ i = p THEN s ELSE evque[k][i]
              /\ valque'[k][i] = IF k = q /\ i = p THEN v ELSE valque[k][i]
         /\ \A c \in Subs :
              /\ npend'[c] = IF c = s THEN npend[s] + 1 ELSE npend[c]
              /\ pLastLog'[c] = IF c = s THEN p ELSE pLastLog[c]
              /\ last'[c] = IF c = s THEN v ELSE last[c]
         /\ \A k \in Queues : nDuplicates'[k] =
               IF k = q /\ npend[s] > 0 THEN nDuplicates[q] + 1 ELSE nDuplicates[k]
         /\ UNCHANGED <<getix, nCanceled, inuse, user_sub, chan, ev_que, got>>
<1>1. AppendEntry(s, v)
  BY DEF QueueLog
<1>2. evque[q][p] = EVENTQEMPTY
  BY DEF SlotTaken
<1>3. \A k \in Queues, i \in Slots :
        evque'[k][i] = IF k = q /\ i = p THEN s ELSE evque[k][i]
  <2>1. evque' = [evque EXCEPT ![q][p] = s]
    BY <1>1 DEF AppendEntry
  <2>. QED  BY <2>1 DEF TypeOK, QueTypeOK
<1>4. \A k \in Queues, i \in Slots :
        valque'[k][i] = IF k = q /\ i = p THEN v ELSE valque[k][i]
  <2>1. valque' = [valque EXCEPT ![q][p] = v]
    BY <1>1 DEF AppendEntry
  <2>. QED  BY <2>1 DEF TypeOK, QueTypeOK
<1>5. \A c \in Subs :
        /\ npend'[c] = IF c = s THEN npend[s] + 1 ELSE npend[c]
        /\ pLastLog'[c] = IF c = s THEN p ELSE pLastLog[c]
        /\ last'[c] = IF c = s THEN v ELSE last[c]
  BY <1>1 DEF AppendEntry, TypeOK, SubTypeOK, LogTypeOK
<1>6. \A k \in Queues : nDuplicates'[k] =
        IF k = q /\ npend[s] > 0 THEN nDuplicates[q] + 1 ELSE nDuplicates[k]
  BY <1>1 DEF AppendEntry, TypeOK, QueTypeOK
<1>. QED  BY <1>2, <1>3, <1>4, <1>5, <1>6 DEF QueueLog

\* The new entry is counted and is the newest.
LEMMA AppendPend ==
  ASSUME TypeOK, RingIntact, LifeInv, PendOK, NEW s \in Subs, NEW v \in Logs, user_sub[s],
         ~SlotTaken(s), ~Replaces(s), QueueLog(s, v),
         \A t \in Threads : pc'[t] = "walk" => pc[t] = "walk" /\ arg'[t] = arg[t]
  PROVE  PendOK'
<1>1. PICK q \in Queues : q = ev_que[s]
  BY DEF TypeOK, SubTypeOK
<1>2. PICK p \in Slots : p = putix[q]
  BY DEF TypeOK, QueTypeOK
<1>3. /\ evque[q][p] = EVENTQEMPTY
      /\ \A k \in Queues, i \in Slots :
           evque'[k][i] = IF k = q /\ i = p THEN s ELSE evque[k][i]
      /\ \A c \in Subs :
           /\ npend'[c] = IF c = s THEN npend[s] + 1 ELSE npend[c]
           /\ pLastLog'[c] = IF c = s THEN p ELSE pLastLog[c]
      /\ UNCHANGED <<getix, user_sub, ev_que>>
  BY <1>1, <1>2, AppendFacts
<1>4. \A t \in Threads : pc'[t] = "walk" =>
          npend'[arg'[t]] = 0 /\ pLastLog'[arg'[t]] = NoSlot
  <2>. SUFFICES ASSUME NEW t \in Threads, pc'[t] = "walk"
                PROVE  npend'[arg'[t]] = 0 /\ pLastLog'[arg'[t]] = NoSlot
    OBVIOUS
  <2>1. pc[t] = "walk" /\ arg'[t] = arg[t]
    OBVIOUS
  <2>2. arg[t] \in Subs /\ arg[t] # s
    BY <2>1 DEF LifeInv, HeldOK, TypeOK, CtlTypeOK
  <2>. QED  BY <1>3, <2>1, <2>2 DEF PendOK
<1>5. ASSUME NEW c \in Subs, user_sub[c], c # s
      PROVE  /\ npend'[c] = Cardinality(Entries(ev_que[c], c)')
             /\ npend'[c] = 0 => pLastLog'[c] = NoSlot
             /\ npend'[c] # 0 => Newest(ev_que[c], c, pLastLog[c])'
  BY <1>3, <1>5, PendKept
<1>6. /\ npend'[s] = Cardinality(Entries(ev_que[s], s)')
      /\ npend'[s] # 0 /\ Newest(ev_que[s], s, pLastLog[s])'
  <2>1. Entries(q, s)' = Entries(q, s) \cup {p} /\ p \notin Entries(q, s)
    BY <1>3 DEF Entries
  <2>2. /\ npend[s] = Cardinality(Entries(q, s)) /\ npend[s] \in Nat
        /\ Entries(q, s) \in SUBSET Slots
    BY <1>1, PendFacts
  <2>3. Cardinality(Entries(q, s) \cup {p}) = npend[s] + 1
    BY <2>1, <2>2, CardOne
  <2>4. Newest(q, s, p)'
    <3>1. \A i \in Slots : Age(q, i)' = Age(q, i)
      BY <1>3 DEF Age
    <3>2. \A i \in Entries(q, s) : Age(q, i) <= Age(q, p)
      BY <1>2, <1>3, AgeAppend DEF Entries
    <3>3. Age(q, p) <= Age(q, p)
      BY AgeFacts
    <3>. QED  BY <2>1, <3>1, <3>2, <3>3 DEF Newest, Entries
  <2>5. Entries(ev_que[s], s)' = Entries(q, s)' /\ pLastLog'[s] = p /\ ev_que'[s] = q
    BY <1>1, <1>3
  <2>. QED  BY <1>3, <2>1, <2>2, <2>3, <2>4, <2>5
<1>. QED  BY <1>3, <1>4, <1>5, <1>6 DEF PendOK

\* The entry that was the newest is now one of the others; nothing comes near
\* the end of the ring but the first entry of a subscription.
LEMMA AppendCount ==
  ASSUME TypeOK, RingIntact, LifeInv, PendOK, CountOK, NEW s \in Subs, NEW v \in Logs,
         user_sub[s], ~SlotTaken(s), ~Replaces(s), QueueLog(s, v)
  PROVE  CountOK'
<1>1. PICK q \in Queues : q = ev_que[s]
  BY DEF TypeOK, SubTypeOK
<1>2. PICK p \in Slots : p = putix[q]
  BY DEF TypeOK, QueTypeOK
<1>3. /\ evque[q][p] = EVENTQEMPTY
      /\ \A k \in Queues, i \in Slots :
           evque'[k][i] = IF k = q /\ i = p THEN s ELSE evque[k][i]
      /\ \A c \in Subs : pLastLog'[c] = IF c = s THEN p ELSE pLastLog[c]
      /\ \A k \in Queues : nDuplicates'[k] =
            IF k = q /\ npend[s] > 0 THEN nDuplicates[q] + 1 ELSE nDuplicates[k]
      /\ UNCHANGED nCanceled
  BY <1>1, <1>2, AppendFacts
<1>4. \A k \in Queues : Entries(k, canceledEvent)' = Entries(k, canceledEvent)
  BY <1>3 DEF Entries
<1>5. ASSUME NEW k \in Queues, k # q
      PROVE  Extra(k)' = Extra(k) /\ nDuplicates'[k] = nDuplicates[k]
  <2>1. \A i \in Slots : evque[k][i] \in Subs => evque[k][i] # s
    BY <1>1, <1>5 DEF LifeInv, SlotsOK
  <2>. QED  BY <1>3, <1>5, <2>1 DEF Extra
<1>6. /\ npend[s] \in Nat
      /\ npend[s] = 0 <=> Entries(q, s) = {}
      /\ npend[s] # 0 => pLastLog[s] \in Slots /\ evque[q][pLastLog[s]] = s
  BY <1>1, PendFacts
<1>7. CASE npend[s] = 0
  <2>1. \A i \in Slots : evque[q][i] # s
    BY <1>6, <1>7 DEF Entries
  <2>2. Extra(q)' = Extra(q)
    BY <1>3, <2>1 DEF Extra
  <2>3. nDuplicates'[q] = nDuplicates[q]
    BY <1>3, <1>7
  <2>4. \A k \in Queues : Extra(k)' = Extra(k) /\ nDuplicates'[k] = nDuplicates[k]
    BY <1>5, <2>2, <2>3
  <2>. QED  BY <1>3, <1>4, <2>4 DEF CountOK
<1>8. CASE npend[s] # 0
  <2>1. PICK m \in Slots : m = pLastLog[s]
    BY <1>6, <1>8
  <2>2. Extra(q)' = Extra(q) \cup {m} /\ m \notin Extra(q)
    <3>1. evque[q][m] = s /\ m # p
      BY <1>3, <1>6, <1>8, <2>1
    <3>2. \A i \in Slots : i \in Extra(q)' <=> i \in Extra(q) \/ i = m
      <4>. SUFFICES ASSUME NEW i \in Slots
                    PROVE  i \in Extra(q)' <=> i \in Extra(q) \/ i = m
        OBVIOUS
      <4>1. CASE i = p
        BY <1>3, <3>1, <4>1 DEF Extra
      <4>2. CASE i # p /\ evque[q][i] = s
        BY <1>2, <1>3, <2>1, <4>2 DEF Extra
      <4>3. CASE i # p /\ evque[q][i] # s
        BY <1>3, <3>1, <4>3 DEF Extra
      <4>. QED  BY <4>1, <4>2, <4>3
    <3>. QED  BY <2>1, <3>1, <3>2 DEF Extra
  <2>3. /\ nDuplicates[q] = Cardinality(Extra(q)) /\ nDuplicates[q] \in Nat
        /\ nDuplicates'[q] = nDuplicates[q] + 1
    <3>1. Extra(q) \in SUBSET Slots
      BY DEF Extra
    <3>2. nDuplicates[q] = Cardinality(Extra(q)) /\ nDuplicates[q] \in Nat
      BY <3>1, SlotsFinite DEF CountOK
    <3>3. npend[s] > 0
      BY <1>6, <1>8
    <3>. QED  BY <1>3, <3>2, <3>3
  <2>4. Cardinality(Extra(q) \cup {m}) = nDuplicates[q] + 1
    BY <2>2, <2>3, CardOne DEF Extra
  <2>5. nDuplicates[q] + 1 <= EVENTQUESIZE - EVENTSPERQUE
    <3>. DEFINE U == {i \in Slots : evque[q][i] # EVENTQEMPTY}
    <3>1. Cardinality(U) <= EVENTQUESIZE - ringSpace(q)
      BY <1>2, <1>3, RunLength
    <3>2. Extra(q) \in SUBSET U
      BY DEF Extra
    <3>3. IsFiniteSet(U) /\ Cardinality(U) \in Nat
      BY SlotsFinite
    <3>. HIDE DEF U
    <3>4. nDuplicates[q] <= Cardinality(U)
      BY <2>3, <3>2, <3>3, FS_Subset
    <3>5. ringSpace(q) \in Int /\ ringSpace(q) > EVENTSPERQUE
      <4>1. getix[q] \in Int /\ putix[q] \in Int
        BY SizePositive DEF TypeOK, QueTypeOK, Slots
      <4>2. ringSpace(q) \in Int
        BY <4>1, SizePositive DEF ringSpace
      <4>3. npend[s] > 0 /\ ~(ringSpace(q) <= EVENTSPERQUE)
        BY <1>1, <1>6, <1>8 DEF Replaces
      <4>. QED  BY <4>2, <4>3
    <3>. QED  BY <2>3, <3>1, <3>3, <3>4, <3>5, SizePositive
  <2>6. \A k \in Queues : /\ nCanceled'[k] = Cardinality(Entries(k, canceledEvent)')
                          /\ nDuplicates'[k] = Cardinality(Extra(k)')
                          /\ nDuplicates'[k] <= EVENTQUESIZE - EVENTSPERQUE
    BY <1>3, <1>4, <1>5, <2>2, <2>3, <2>4, <2>5 DEF CountOK
  <2>. QED  BY <2>6 DEF CountOK
<1>. QED  BY <1>7, <1>8

\* A value that is queued is the newest, whether it takes a new slot or the
\* place of the newest entry; the newest entries of the others keep theirs.
LEMMA QueueLogNewest ==
  ASSUME TypeOK, LifeInv, PendOK, NewestOK, NEW s \in Subs, user_sub[s],
         ~SlotTaken(s), QueueLog(s, val[chan[s]]), UNCHANGED <<val, tpc, tev, tlog>>,
         \A t \in Threads : pc'[t] = "walk" => pc[t] = "walk" /\ arg'[t] = arg[t]
  PROVE  NewestOK'
<1>1. PICK q \in Queues : q = ev_que[s]
  BY DEF TypeOK, SubTypeOK
<1>2. PICK p \in Slots : p = putix[q]
  BY DEF TypeOK, QueTypeOK
<1>3. PICK v \in Logs : v = val[chan[s]]
  BY DEF TypeOK, SubTypeOK, RecTypeOK
<1>4. UNCHANGED <<inuse, user_sub, chan, ev_que, got>>
  BY DEF QueueLog
<1>5. \A c \in Subs : last'[c] = IF c = s THEN v ELSE last[c]
  BY <1>3 DEF QueueLog, ReplaceLast, AppendEntry, TypeOK, LogTypeOK
<1>6. /\ npend'[s] # 0 /\ pLastLog'[s] \in Slots /\ valque'[q][pLastLog'[s]] = v
      /\ \A c \in Subs : user_sub[c] /\ c # s =>
            /\ npend'[c] = npend[c] /\ pLastLog'[c] = pLastLog[c]
            /\ npend[c] # 0 => valque'[ev_que[c]][pLastLog[c]] = valque[ev_que[c]][pLastLog[c]]
  <2>0. \A c \in Subs : user_sub[c] => npend[c] \in Nat /\ ev_que[c] \in Queues /\
           (npend[c] # 0 => pLastLog[c] \in Slots /\ evque[ev_que[c]][pLastLog[c]] = c)
    BY PendFacts DEF TypeOK, SubTypeOK
  <2>1. CASE Replaces(s)
    <3>1. /\ valque' = [valque EXCEPT ![q][pLastLog[s]] = v]
          /\ UNCHANGED <<npend, pLastLog>>
      BY <1>1, <1>3, <2>1 DEF QueueLog, ReplaceLast
    <3>2. PICK m \in Slots : m = pLastLog[s] /\ evque[q][m] = s /\ npend[s] # 0
      BY <1>1, <2>0, <2>1 DEF Replaces
    <3>3. \A k \in Queues, i \in Slots :
            valque'[k][i] = IF k = q /\ i = m THEN v ELSE valque[k][i]
      BY <3>1, <3>2, SMTT(60), ZenonT(60) DEF TypeOK, QueTypeOK
    <3>. QED  BY <2>0, <3>1, <3>2, <3>3
  <2>2. CASE ~Replaces(s)
    <3>1. /\ evque[q][p] = EVENTQEMPTY
          /\ \A k \in Queues, i \in Slots :
               valque'[k][i] = IF k = q /\ i = p THEN v ELSE valque[k][i]
          /\ \A c \in Subs :
               /\ npend'[c] = IF c = s THEN npend[s] + 1 ELSE npend[c]
               /\ pLastLog'[c] = IF c = s THEN p ELSE pLastLog[c]
      BY <1>1, <1>2, <1>3, <2>2, AppendFacts
    <3>. QED  BY <2>0, <3>1
  <2>. QED  BY <2>1, <2>2
<1>7. ASSUME NEW c \in Subs, user_sub[c]
      PROVE  /\ last'[c] <= val[chan[c]]
             /\ npend'[c] # 0 => valque'[ev_que[c]][pLastLog'[c]] = last'[c]
             /\ npend'[c] = 0 =>
                  IF tpc = "callback" /\ tev = c THEN tlog = last'[c]
                  ELSE IF chan[c] \in RefRecs THEN got[c] >= last'[c]
                                             ELSE got[c] = last'[c]
  <2>1. CASE c = s
    BY <1>1, <1>3, <1>5, <1>6, <2>1
  <2>2. CASE c # s
    BY <1>5, <1>6, <1>7, <2>2 DEF NewestOK
  <2>. QED  BY <2>1, <2>2
<1>8. \A c \in Subs : ~inuse[c] => last'[c] = NoLog /\ got[c] = NoLog
  BY <1>5 DEF NewestOK, LifeInv, CellsOK
<1>9. \A t \in Threads : pc'[t] = "walk" => last'[arg'[t]] = NoLog /\ got[arg'[t]] = NoLog
  <2>. SUFFICES ASSUME NEW t \in Threads, pc'[t] = "walk"
                PROVE  last'[arg'[t]] = NoLog /\ got[arg'[t]] = NoLog
    OBVIOUS
  <2>1. pc[t] = "walk" /\ arg'[t] = arg[t]
    OBVIOUS
  <2>2. arg[t] \in Subs /\ arg[t] # s
    BY <2>1 DEF LifeInv, HeldOK, TypeOK, CtlTypeOK
  <2>. QED  BY <1>5, <2>1, <2>2 DEF NewestOK
<1>. QED  BY <1>4, <1>7, <1>8, <1>9 DEF NewestOK

\* db_queue_event_log keeps all the books.
LEMMA QueueLogCounts ==
  ASSUME TypeOK, RingIntact, LifeInv, PendOK, CountOK, NewestOK, NEW s \in Subs,
         user_sub[s], ~SlotTaken(s), QueueLog(s, val[chan[s]]),
         UNCHANGED <<val, tpc, tev, tlog>>,
         \A t \in Threads : pc'[t] = "walk" => pc[t] = "walk" /\ arg'[t] = arg[t]
  PROVE  PendOK' /\ CountOK' /\ NewestOK'
<1>1. NewestOK'
  BY QueueLogNewest
<1>2. val[chan[s]] \in Logs
  BY DEF TypeOK, SubTypeOK, RecTypeOK
<1>3. CASE Replaces(s)
  BY <1>1, <1>3, CountSame DEF QueueLog, ReplaceLast
<1>4. CASE ~Replaces(s)
  BY <1>1, <1>2, <1>4, AppendPend, AppendCount
<1>. QED  BY <1>3, <1>4
----------------------------------------------------------------------------
(* event_read *)

\* Reading the oldest entry of a queue leaves the newest of what is left.
LEMMA NewestRead ==
  ASSUME TypeOK, NEW q \in Queues, getix' = [getix EXCEPT ![q] = RNGINC(@)],
         NEW k \in Queues, NEW c, NEW m, Newest(k, c, m), m \in Entries(k, c)',
         \A i \in Slots : evque'[k][i] = c => evque[k][i] = c /\ (k = q => i # getix[q])
  PROVE  Newest(k, c, m)'
<1>1. m \in Slots /\ \A i \in Slots : i \in Entries(k, c)' =>
          i \in Entries(k, c) /\ (k = q => i # getix[q])
  BY DEF Entries
<1>2. CASE k = q
  <2>1. getix'[k] = RNGINC(getix[k])
    BY <1>2 DEF TypeOK, QueTypeOK
  <2>2. \A i \in Slots : i # getix[k] => Age(k, i)' = Age(k, i) - 1
    BY <2>1, AgeRead
  <2>3. ASSUME NEW i \in Entries(k, c)' PROVE Age(k, i)' <= Age(k, m)'
    <3>1. i \in Slots /\ i \in Entries(k, c) /\ i # getix[k] /\ m # getix[k]
      BY <1>1, <1>2 DEF Entries
    <3>2. Age(k, i) <= Age(k, m) /\ Age(k, i) \in Nat /\ Age(k, m) \in Nat
      BY <1>1, <3>1, AgeFacts DEF Newest
    <3>. QED  BY <1>1, <2>2, <3>1, <3>2
  <2>. QED  BY <2>3 DEF Newest
<1>3. CASE k # q
  <2>1. getix'[k] = getix[k]
    BY <1>3 DEF TypeOK, QueTypeOK
  <2>2. \A i \in Slots : Age(k, i)' = Age(k, i)
    BY <2>1 DEF Age
  <2>3. ASSUME NEW i \in Entries(k, c)' PROVE Age(k, i)' <= Age(k, m)'
    <3>1. i \in Slots /\ i \in Entries(k, c)
      BY <1>1 DEF Entries
    <3>. QED  BY <1>1, <2>2, <3>1 DEF Newest
  <2>. QED  BY <2>3 DEF Newest
<1>. QED  BY <1>2, <1>3

\* A placeholder is skipped: it counts for no subscription.
LEMMA SkipCounts ==
  ASSUME TypeOK, LifeInv, PendOK, CountOK, QuotaOK, NewestOK, TaskSkip
  PROVE  PendOK' /\ CountOK' /\ QuotaOK' /\ NewestOK'
<1>1. PICK q \in Queues : q = tq
  BY DEF TypeOK, TaskTypeOK
<1>2. PICK g \in Slots : g = getix[q]
  BY DEF TypeOK, QueTypeOK
<1>3. /\ evque[q][g] = canceledEvent
      /\ \A k \in Queues, i \in Slots :
           /\ evque'[k][i] = IF k = q /\ i = g THEN EVENTQEMPTY ELSE evque[k][i]
           /\ valque'[k][i] = IF k = q /\ i = g THEN NoLog ELSE valque[k][i]
      /\ getix' = [getix EXCEPT ![q] = RNGINC(@)]
      /\ nCanceled' = [nCanceled EXCEPT ![q] = @ - 1]
  BY <1>1, <1>2 DEF TaskSkip, HeadEntry, TypeOK, QueTypeOK
<1>4. UNCHANGED <<quota, nDuplicates, logVars, taskVars, subVars, recVars, thrVars>>
  BY DEF TaskSkip
<1>5. PendOK'
  <2>1. ASSUME NEW c \in Subs, user_sub[c]
        PROVE  /\ npend[c] = Cardinality(Entries(ev_que[c], c)')
               /\ npend[c] = 0 => pLastLog[c] = NoSlot
               /\ npend[c] # 0 => Newest(ev_que[c], c, pLastLog[c])'
    <3>1. PICK k \in Queues : k = ev_que[c]
      BY DEF TypeOK, SubTypeOK
    <3>2. PICK m : m = pLastLog[c]
      OBVIOUS
    <3>3. Entries(k, c)' = Entries(k, c)
      BY <1>3 DEF Entries
    <3>4. npend[c] # 0 => Newest(k, c, m)
      BY <2>1, <3>1, <3>2 DEF PendOK
    <3>5. \A i \in Slots : evque'[k][i] = c => evque[k][i] = c /\ (k = q => i # getix[q])
      BY <1>2, <1>3
    <3>6. npend[c] # 0 => Newest(k, c, m)'
      <4>. SUFFICES ASSUME npend[c] # 0 PROVE Newest(k, c, m)'
        OBVIOUS
      <4>1. Newest(k, c, m) /\ m \in Entries(k, c)'
        BY <3>3, <3>4 DEF Newest
      <4>2. getix' = [getix EXCEPT ![q] = RNGINC(@)]
        BY <1>3
      <4>. QED  BY <3>5, <4>1, <4>2, NewestRead
    <3>7. ev_que'[c] = k /\ pLastLog'[c] = m
      BY <1>4, <3>1, <3>2 DEF subVars
    <3>. QED  BY <2>1, <3>1, <3>3, <3>6, <3>7 DEF PendOK
  <2>. QED  BY <1>4, <2>1 DEF PendOK, subVars, thrVars
<1>6. CountOK'
  <2>1. Entries(q, canceledEvent)' = Entries(q, canceledEvent) \ {g}
        /\ g \in Entries(q, canceledEvent)
    BY <1>3 DEF Entries
  <2>2. \A k \in Queues : k # q => Entries(k, canceledEvent)' = Entries(k, canceledEvent)
    BY <1>3 DEF Entries
  <2>3. \A k \in Queues : Extra(k)' = Extra(k)
    BY <1>3, <1>4 DEF Extra, subVars
  <2>4. Cardinality(Entries(q, canceledEvent) \ {g}) = nCanceled[q] - 1
    BY <2>1, CardOne DEF Entries, CountOK
  <2>5. \A k \in Queues : nCanceled'[k] = IF k = q THEN nCanceled[q] - 1 ELSE nCanceled[k]
    BY <1>3 DEF TypeOK, QueTypeOK
  <2>. QED  BY <1>4, <2>1, <2>2, <2>3, <2>4, <2>5 DEF CountOK
<1>7. QuotaOK'
  BY <1>4, CountSame DEF subVars, thrVars
<1>8. NewestOK'
  <2>1. \A c \in Subs : user_sub[c] /\ npend[c] # 0 =>
            valque'[ev_que[c]][pLastLog[c]] = valque[ev_que[c]][pLastLog[c]]
    <3>. SUFFICES ASSUME NEW c \in Subs, user_sub[c], npend[c] # 0
                  PROVE  valque'[ev_que[c]][pLastLog[c]] = valque[ev_que[c]][pLastLog[c]]
      OBVIOUS
    <3>1. PICK k \in Queues : k = ev_que[c]
      BY DEF TypeOK, SubTypeOK
    <3>2. pLastLog[c] \in Slots /\ evque[k][pLastLog[c]] = c
      BY <3>1, PendFacts
    <3>. QED  BY <1>3, <3>1, <3>2
  <2>. QED  BY <1>4, <2>1 DEF NewestOK, subVars, recVars, taskVars, logVars, thrVars
<1>. QED  BY <1>5, <1>6, <1>7, <1>8

\* An entry is taken: the newest only if it is the last, which is then on its
\* way to the callback.
LEMMA TakeCounts ==
  ASSUME TypeOK, LifeInv, PendOK, CountOK, QuotaOK, NewestOK, TaskTake
  PROVE  PendOK' /\ CountOK' /\ QuotaOK' /\ NewestOK'
<1>1. PICK q \in Queues : q = tq
  BY DEF TypeOK, TaskTypeOK
<1>2. PICK g \in Slots : g = getix[q]
  BY DEF TypeOK, QueTypeOK
<1>3. PICK s \in Subs : s = evque[q][g]
  BY <1>1, <1>2 DEF TaskTake, HeadEntry
<1>4. user_sub[s] /\ ev_que[s] = q
  BY <1>3 DEF LifeInv, SlotsOK
<1>5. /\ \A k \in Queues, i \in Slots :
           /\ evque'[k][i] = IF k = q /\ i = g THEN EVENTQEMPTY ELSE evque[k][i]
           /\ valque'[k][i] = IF k = q /\ i = g THEN NoLog ELSE valque[k][i]
      /\ getix' = [getix EXCEPT ![q] = RNGINC(@)]
      /\ \A c \in Subs :
           /\ npend'[c] = IF c = s THEN npend[s] - 1 ELSE npend[c]
           /\ pLastLog'[c] = IF c = s /\ npend[s] = 1 THEN NoSlot ELSE pLastLog[c]
      /\ \A k \in Queues : nDuplicates'[k] =
           IF k = q /\ npend[s] # 1 THEN nDuplicates[q] - 1 ELSE nDuplicates[k]
      /\ tpc = "loop" /\ tpc' = "callback" /\ tev' = s /\ tlog' = valque[q][g]
  <2>1. /\ evque'  = [evque EXCEPT ![q][g] = EVENTQEMPTY]
        /\ valque' = [valque EXCEPT ![q][g] = NoLog]
        /\ getix' = [getix EXCEPT ![q] = RNGINC(@)]
        /\ npend' = [npend EXCEPT ![s] = @ - 1]
        /\ pLastLog' = IF npend[s] = 1 THEN [pLastLog EXCEPT ![s] = NoSlot]
                                       ELSE pLastLog
        /\ nDuplicates' = IF npend[s] = 1 THEN nDuplicates
                          ELSE [nDuplicates EXCEPT ![q] = @ - 1]
        /\ tpc = "loop" /\ tpc' = "callback" /\ tev' = s /\ tlog' = valque[q][g]
    BY <1>1, <1>2, <1>3, <1>4 DEF TaskTake, HeadEntry
  <2>2. \A k \in Queues, i \in Slots :
           /\ evque'[k][i] = IF k = q /\ i = g THEN EVENTQEMPTY ELSE evque[k][i]
           /\ valque'[k][i] = IF k = q /\ i = g THEN NoLog ELSE valque[k][i]
    BY <2>1 DEF TypeOK, QueTypeOK
  <2>3. \A c \in Subs :
           /\ npend'[c] = IF c = s THEN npend[s] - 1 ELSE npend[c]
           /\ pLastLog'[c] = IF c = s /\ npend[s] = 1 THEN NoSlot ELSE pLastLog[c]
    BY <2>1 DEF TypeOK, SubTypeOK
  <2>4. \A k \in Queues : nDuplicates'[k] =
           IF k = q /\ npend[s] # 1 THEN nDuplicates[q] - 1 ELSE nDuplicates[k]
    BY <2>1 DEF TypeOK, QueTypeOK
  <2>. QED  BY <2>1, <2>2, <2>3, <2>4
<1>6. UNCHANGED <<quota, nCanceled, inuse, user_sub, chan, ev_que, logVars, recVars, thrVars>>
  BY DEF TaskTake
<1>7. /\ Entries(q, s)' = Entries(q, s) \ {g} /\ g \in Entries(q, s)
      /\ Entries(q, s) \in SUBSET Slots
  BY <1>3, <1>5 DEF Entries
<1>8. /\ npend[s] = Cardinality(Entries(q, s)) /\ npend[s] \in Nat /\ npend[s] # 0
      /\ pLastLog[s] \in Slots /\ evque[q][pLastLog[s]] = s
      /\ Newest(q, s, pLastLog[s])
  BY <1>4, <1>7, PendFacts
<1>9. npend[s] # 1 => pLastLog[s] # g
  <2>. SUFFICES ASSUME npend[s] # 1 PROVE pLastLog[s] # g
    OBVIOUS
  <2>1. PICK j \in Entries(q, s) : j # g
    BY <1>7, <1>8, CardFew
  <2>2. Age(q, j) # 0 /\ Age(q, j) \in Nat /\ Age(q, g) = 0
    BY <1>2, <1>7, <2>1, AgeFacts
  <2>3. Age(q, j) <= Age(q, pLastLog[s])
    BY <1>8, <2>1 DEF Newest
  <2>. QED  BY <2>2, <2>3
<1>10. npend[s] = 1 => pLastLog[s] = g /\ \A i \in Slots : evque[q][i] = s => i = g
  <2>. SUFFICES ASSUME npend[s] = 1
                PROVE  pLastLog[s] = g /\ \A i \in Slots : evque[q][i] = s => i = g
    OBVIOUS
  <2>1. Entries(q, s) = {g}
    BY <1>7, <1>8, CardFew
  <2>. QED  BY <1>8, <2>1 DEF Entries
<1>11. PendOK'
  <2>1. ASSUME NEW c \in Subs, user_sub[c], c # s
        PROVE  /\ npend'[c] = Cardinality(Entries(ev_que[c], c)')
               /\ npend'[c] = 0 => pLastLog'[c] = NoSlot
               /\ npend'[c] # 0 => Newest(ev_que[c], c, pLastLog[c])'
    <3>1. PICK k \in Queues : k = ev_que[c]
      BY DEF TypeOK, SubTypeOK
    <3>2. PICK m : m = pLastLog[c]
      OBVIOUS
    <3>3. Entries(k, c)' = Entries(k, c)
      BY <1>3, <1>5, <2>1 DEF Entries
    <3>4. npend[c] # 0 => Newest(k, c, m)
      BY <2>1, <3>1, <3>2 DEF PendOK
    <3>5. \A i \in Slots : evque'[k][i] = c => evque[k][i] = c /\ (k = q => i # getix[q])
      BY <1>2, <1>5
    <3>6. npend[c] # 0 => Newest(k, c, m)'
      <4>. SUFFICES ASSUME npend[c] # 0 PROVE Newest(k, c, m)'
        OBVIOUS
      <4>1. Newest(k, c, m) /\ m \in Entries(k, c)'
        BY <3>3, <3>4 DEF Newest
      <4>2. getix' = [getix EXCEPT ![q] = RNGINC(@)]
        BY <1>5
      <4>. QED  BY <3>5, <4>1, <4>2, NewestRead
    <3>7. ev_que'[c] = k /\ pLastLog'[c] = m /\ npend'[c] = npend[c]
      BY <1>5, <1>6, <2>1, <3>1, <3>2
    <3>. QED  BY <2>1, <3>1, <3>2, <3>3, <3>6, <3>7 DEF PendOK
  <2>2. /\ npend'[s] = Cardinality(Entries(q, s)')
        /\ npend'[s] = 0 => pLastLog'[s] = NoSlot
        /\ npend'[s] # 0 => Newest(ev_que[s], s, pLastLog[s])'
    <3>1. Cardinality(Entries(q, s) \ {g}) = npend[s] - 1
      BY <1>7, <1>8, CardOne
    <3>2. npend'[s] = npend[s] - 1
      BY <1>5
    <3>3. npend[s] # 1 => Newest(ev_que[s], s, pLastLog[s])'
      <4>. SUFFICES ASSUME npend[s] # 1 PROVE Newest(ev_que[s], s, pLastLog[s])'
        OBVIOUS
      <4>1. PICK m : m = pLastLog[s]
        OBVIOUS
      <4>2. Newest(q, s, m) /\ m \in Entries(q, s)'
        BY <1>7, <1>8, <1>9, <4>1 DEF Newest
      <4>3. \A i \in Slots : evque'[q][i] = s => evque[q][i] = s /\ i # getix[q]
        BY <1>2, <1>5
      <4>4. getix' = [getix EXCEPT ![q] = RNGINC(@)]
        BY <1>5
      <4>5. Newest(q, s, m)'
        BY <4>2, <4>3, <4>4, NewestRead
      <4>6. ev_que'[s] = q /\ pLastLog'[s] = m
        BY <1>4, <1>5, <1>6, <4>1
      <4>. QED  BY <4>5, <4>6
    <3>4. npend'[s] = 0 => npend[s] = 1
      BY <1>8, <3>2
    <3>. QED  BY <1>5, <1>7, <1>8, <3>1, <3>2, <3>3, <3>4
  <2>3. ASSUME NEW t \in Threads, pc'[t] = "walk"
        PROVE  npend'[arg'[t]] = 0 /\ pLastLog'[arg'[t]] = NoSlot
    <3>1. pc[t] = "walk" /\ arg'[t] = arg[t]
      BY <1>6, <2>3 DEF thrVars
    <3>2. arg[t] \in Subs /\ arg[t] # s
      BY <1>4, <3>1 DEF LifeInv, HeldOK, TypeOK, CtlTypeOK
    <3>. QED  BY <1>5, <3>1, <3>2 DEF PendOK
  <2>4. \A c \in Subs : user_sub'[c] =>
          /\ npend'[c] = Cardinality(Entries(ev_que[c], c)')
          /\ npend'[c] = 0 => pLastLog'[c] = NoSlot
          /\ npend'[c] # 0 => Newest(ev_que[c], c, pLastLog[c])'
    <3>1. Entries(ev_que[s], s)' = Entries(q, s)'
      BY <1>4, <1>6
    <3>. QED  BY <1>6, <2>1, <2>2, <3>1
  <2>. QED  BY <2>3, <2>4 DEF PendOK
<1>12. CountOK'
  <2>1. \A k \in Queues : Entries(k, canceledEvent)' = Entries(k, canceledEvent)
    BY <1>3, <1>5 DEF Entries
  <2>2. ASSUME NEW k \in Queues, k # q PROVE Extra(k)' = Extra(k)
    <3>1. \A i \in Slots : evque[k][i] \in Subs => evque[k][i] # s
      BY <1>4, <2>2 DEF LifeInv, SlotsOK
    <3>. QED  BY <1>5, <2>2, <3>1 DEF Extra
  <2>3. CASE npend[s] = 1
    <3>1. Extra(q)' = Extra(q)
      BY <1>3, <1>5, <1>10, <2>3 DEF Extra
    <3>2. \A k \in Queues : nDuplicates'[k] = nDuplicates[k]
      BY <1>5, <2>3
    <3>. QED  BY <1>6, <2>1, <2>2, <3>1, <3>2 DEF CountOK
  <2>4. CASE npend[s] # 1
    <3>1. Extra(q)' = Extra(q) \ {g} /\ g \in Extra(q) /\ Extra(q) \in SUBSET Slots
      BY <1>3, <1>5, <1>9, <2>4 DEF Extra
    <3>2. Cardinality(Extra(q) \ {g}) = nDuplicates[q] - 1
      BY <3>1, CardOne DEF CountOK
    <3>3. nDuplicates[q] \in Nat
      BY <3>1, SlotsFinite DEF CountOK
    <3>4. ASSUME NEW k \in Queues
          PROVE  /\ nCanceled'[k] = Cardinality(Entries(k, canceledEvent)')
                 /\ nDuplicates'[k] = Cardinality(Extra(k)')
      <4>1. nCanceled'[k] = Cardinality(Entries(k, canceledEvent)')
        BY <1>6, <2>1 DEF CountOK
      <4>2. CASE k = q
        <5>1. nDuplicates'[k] = nDuplicates[q] - 1
          BY <1>5, <2>4, <4>2
        <5>. QED  BY <3>1, <3>2, <4>1, <4>2, <5>1
      <4>3. CASE k # q
        <5>1. nDuplicates'[k] = nDuplicates[k]
          BY <1>5, <4>3
        <5>. QED  BY <2>2, <4>1, <4>3, <5>1 DEF CountOK
      <4>. QED  BY <4>2, <4>3
    <3>5. \A k \in Queues : nDuplicates'[k] <= EVENTQUESIZE - EVENTSPERQUE
      BY <1>5, <2>4, <3>3, SizePositive DEF CountOK
    <3>. QED  BY <3>4, <3>5 DEF CountOK
  <2>. QED  BY <2>3, <2>4
<1>13. QuotaOK'
  BY <1>6, CountSame DEF thrVars
<1>14. NewestOK'
  <2>1. ASSUME NEW c \in Subs, user_sub[c]
        PROVE  /\ last[c] <= val[chan[c]]
               /\ npend'[c] # 0 => valque'[ev_que[c]][pLastLog'[c]] = last[c]
               /\ npend'[c] = 0 =>
                    IF tpc' = "callback" /\ tev' = c THEN tlog' = last[c]
                    ELSE IF chan[c] \in RefRecs THEN got[c] >= last[c]
                                               ELSE got[c] = last[c]
    <3>1. PICK k \in Queues : k = ev_que[c]
      BY DEF TypeOK, SubTypeOK
    <3>2. npend[c] # 0 => pLastLog[c] \in Slots /\ evque[k][pLastLog[c]] = c
      BY <2>1, <3>1, PendFacts
    <3>3. CASE c = s
      <4>1. CASE npend[s] = 1
        BY <1>4, <1>5, <1>10, <2>1, <3>3, <4>1 DEF NewestOK
      <4>2. CASE npend[s] # 1
        BY <1>4, <1>5, <1>8, <1>9, <2>1, <3>3, <4>2 DEF NewestOK
      <4>. QED  BY <4>1, <4>2
    <3>4. CASE c # s
      BY <1>3, <1>5, <2>1, <3>1, <3>2, <3>4 DEF NewestOK
    <3>. QED  BY <3>3, <3>4
  <2>. QED  BY <1>6, <2>1 DEF NewestOK, logVars, recVars, thrVars
<1>. QED  BY <1>11, <1>12, <1>13, <1>14

----------------------------------------------------------------------------
(* The quota *)

\* A share more and a share less of the quota, and how many shares there are.
LEMMA QuotaShares ==
  ASSUME NEW n \in Nat
  PROVE  /\ EVENTENTRIES * (n + 1) = EVENTENTRIES * n + EVENTENTRIES
         /\ EVENTENTRIES * (n - 1) = EVENTENTRIES * n - EVENTENTRIES
         /\ EVENTENTRIES * n < EVENTQUESIZE - EVENTENTRIES
              => EVENTENTRIES * n + EVENTENTRIES <= EVENTQUESIZE - EVENTENTRIES
         /\ EVENTENTRIES * n <= EVENTQUESIZE - EVENTENTRIES => n + 1 <= EVENTSPERQUE
         /\ EVENTENTRIES * n \in Nat
<1>1. \A e \in Nat \ {0} : \A m \in Nat :
         /\ e * (m + 1) = e * m + e /\ e * (m - 1) = e * m - e /\ e * m \in Nat
  OBVIOUS
<1>2. \A e \in Nat \ {0} : \A m, p \in Nat : e * m < e * p => m < p
  <2>. SUFFICES ASSUME NEW e \in Nat \ {0}, NEW m \in Nat, NEW p \in Nat, m >= p
                PROVE  e * m >= e * p
    OBVIOUS
  <2>1. PICK d \in Nat : m = p + d
    BY m - p \in Nat
  <2>2. e * m = e * p + e * d /\ e * d \in Nat /\ e * p \in Nat
    BY <2>1
  <2>. QED  BY <2>2
<1>3. \A e \in Nat \ {0} : \A m, p \in Nat : m <= p => e * m <= e * p
  <2>. SUFFICES ASSUME NEW e \in Nat \ {0}, NEW m \in Nat, NEW p \in Nat, m <= p
                PROVE  e * m <= e * p
    OBVIOUS
  <2>1. PICK d \in Nat : p = m + d
    BY p - m \in Nat
  <2>2. e * p = e * m + e * d /\ e * d \in Nat /\ e * m \in Nat
    BY <2>1
  <2>. QED  BY <2>2
<1>. DEFINE E == EVENTENTRIES  P == EVENTSPERQUE
<1>4. E \in Nat \ {0} /\ P \in Nat \ {0} /\ EVENTQUESIZE = E * P
  BY DEF EVENTQUESIZE
<1>. HIDE DEF E, P
<1>5. P - 1 \in Nat /\ E * (P - 1) = EVENTQUESIZE - E /\ E * (P - 1) \in Nat
  <2>1. P - 1 \in Nat /\ P = (P - 1) + 1
    BY <1>4
  <2>2. PICK k \in Nat : k = P - 1
    BY <2>1
  <2>3. E * (k + 1) = E * k + E /\ E * k \in Nat
    BY <1>1, <1>4
  <2>. QED  BY <1>4, <2>1, <2>2, <2>3
<1>6. E * n < EVENTQUESIZE - E => E * n + E <= EVENTQUESIZE - E
  <2>. SUFFICES ASSUME E * n < E * (P - 1) PROVE E * (n + 1) <= E * (P - 1)
    BY <1>1, <1>4, <1>5
  <2>1. n < P - 1
    BY <1>2, <1>4, <1>5
  <2>2. n + 1 \in Nat /\ n + 1 <= P - 1
    BY <1>5, <2>1
  <2>. QED  BY <1>3, <1>4, <1>5, <2>2
<1>7. E * n <= EVENTQUESIZE - E => n + 1 <= P
  <2>. SUFFICES ASSUME E * n <= E * (P - 1) PROVE n <= P - 1
    BY <1>4, <1>5
  <2>1. E * (P - 1) < E * P
    BY <1>4, <1>5, SizePositive
  <2>2. E * n \in Nat /\ E * P \in Nat
    BY <1>1, <1>4
  <2>3. E * n < E * P
    BY <1>5, <2>1, <2>2
  <2>4. n < P
    BY <1>2, <1>4, <2>3
  <2>. QED  BY <1>4, <2>4
<1>8. E * (n + 1) = E * n + E /\ E * (n - 1) = E * n - E /\ E * n \in Nat
  BY <1>1, <1>4
<1>. QED  BY <1>6, <1>7, <1>8 DEF E, P

\* A subscription joins the queue that has quota for it.
LEMMA QuotaJoin ==
  ASSUME TypeOK, QuotaOK, CountOK, NEW q \in Queues, HasQuota(q), NEW s,
         s \notin Members(q), quota' = [quota EXCEPT ![q] = @ + EVENTENTRIES],
         \A k \in Queues : Members(k)' = IF k = q THEN Members(q) \cup {s} ELSE Members(k)
  PROVE  QuotaOK'
<1>1. \A k \in Queues :
        quota'[k] = IF k = q THEN quota[q] + EVENTENTRIES ELSE quota[k]
  BY DEF TypeOK, QueTypeOK
<1>2. nCanceled[q] \in Nat
  <2>1. Entries(q, canceledEvent) \in SUBSET Slots
    BY DEF Entries
  <2>. QED  BY <2>1, SlotsFinite DEF CountOK
<1>3. quota[q] \in Int /\ quota[q] < EVENTQUESIZE - EVENTENTRIES
  <2>1. quota[q] \in Int
    BY DEF TypeOK, QueTypeOK
  <2>2. EVENTENTRIES \in Nat
    OBVIOUS
  <2>. QED  BY <1>2, <2>1, <2>2, SizePositive DEF HasQuota
<1>4. IsFiniteSet(Members(q)) /\ quota[q] = EVENTENTRIES * Cardinality(Members(q))
  BY DEF QuotaOK
<1>5. PICK n \in Nat : n = Cardinality(Members(q))
  BY <1>4, FS_CardinalityType
<1>6. /\ IsFiniteSet(Members(q) \cup {s})
      /\ Cardinality(Members(q) \cup {s}) = n + 1
  BY <1>4, <1>5, FS_AddElement
<1>7. /\ EVENTENTRIES * (n + 1) = quota[q] + EVENTENTRIES
      /\ quota[q] + EVENTENTRIES <= EVENTQUESIZE - EVENTENTRIES
  BY <1>3, <1>4, <1>5, QuotaShares
<1>8. ASSUME NEW k \in Queues
      PROVE  /\ IsFiniteSet(Members(k)')
             /\ quota'[k] = EVENTENTRIES * Cardinality(Members(k)')
             /\ quota'[k] <= EVENTQUESIZE - EVENTENTRIES
  <2>1. CASE k = q
    <3>1. Members(k)' = Members(q) \cup {s} /\ quota'[k] = quota[q] + EVENTENTRIES
      BY <1>1, <2>1
    <3>. QED  BY <1>6, <1>7, <3>1
  <2>2. CASE k # q
    BY <1>1, <2>2 DEF QuotaOK
  <2>. QED  BY <2>1, <2>2
<1>. QED  BY <1>8 DEF QuotaOK

\* One that leaves gives its share back.
LEMMA QuotaLeave ==
  ASSUME TypeOK, QuotaOK, NEW q \in Queues, NEW s \in Members(q),
         quota' = [quota EXCEPT ![q] = @ - EVENTENTRIES],
         \A k \in Queues : Members(k)' = IF k = q THEN Members(q) \ {s} ELSE Members(k)
  PROVE  QuotaOK'
<1>1. \A k \in Queues :
        quota'[k] = IF k = q THEN quota[q] - EVENTENTRIES ELSE quota[k]
  BY DEF TypeOK, QueTypeOK
<1>2. /\ IsFiniteSet(Members(q)) /\ quota[q] = EVENTENTRIES * Cardinality(Members(q))
      /\ quota[q] <= EVENTQUESIZE - EVENTENTRIES /\ quota[q] \in Int
  BY DEF QuotaOK, TypeOK, QueTypeOK
<1>3. PICK n \in Nat : n = Cardinality(Members(q))
  BY <1>2, FS_CardinalityType
<1>4. IsFiniteSet(Members(q) \ {s}) /\ Cardinality(Members(q) \ {s}) = n - 1
  BY <1>2, <1>3, FS_RemoveElement
<1>5. EVENTENTRIES * (n - 1) = quota[q] - EVENTENTRIES
  BY <1>2, <1>3, QuotaShares
<1>6. quota[q] - EVENTENTRIES <= EVENTQUESIZE - EVENTENTRIES
  <2>1. EVENTENTRIES \in Nat
    OBVIOUS
  <2>. QED  BY <1>2, <2>1, SizePositive
<1>7. ASSUME NEW k \in Queues
      PROVE  /\ IsFiniteSet(Members(k)')
             /\ quota'[k] = EVENTENTRIES * Cardinality(Members(k)')
             /\ quota'[k] <= EVENTQUESIZE - EVENTENTRIES
  <2>1. CASE k = q
    <3>1. Members(k)' = Members(q) \ {s} /\ quota'[k] = quota[q] - EVENTENTRIES
      BY <1>1, <2>1
    <3>. QED  BY <1>4, <1>5, <1>6, <3>1
  <2>2. CASE k # q
    BY <1>1, <2>2 DEF QuotaOK
  <2>. QED  BY <2>1, <2>2
<1>. QED  BY <1>7 DEF QuotaOK

\* Only the subscription a thread works on alone can come or go by its step.
LEMMA MembersMove ==
  ASSUME TypeOK, NEW t \in Threads, NEW s \in Subs, arg[t] = s,
         \A u \in Threads \ {t} : arg[u] # s /\ arg'[u] = arg[u] /\ pc'[u] = pc[u],
         arg'[t] \in {s, EVENTQEMPTY},
         \A c \in Subs \ {s} : user_sub'[c] = user_sub[c] /\ ev_que'[c] = ev_que[c]
  PROVE  \A k \in Queues, c \in Subs : c \in Members(k)' <=>
           IF c # s THEN c \in Members(k)
           ELSE /\ ev_que'[s] = k
                /\ user_sub'[s] \/ (arg'[t] = s /\ pc'[t] \in {"wait", "recheck"})
<1>. SUFFICES ASSUME NEW k \in Queues, NEW c \in Subs
              PROVE  c \in Members(k)' <=>
                       IF c # s THEN c \in Members(k)
                       ELSE /\ ev_que'[s] = k
                            /\ user_sub'[s] \/
                                 (arg'[t] = s /\ pc'[t] \in {"wait", "recheck"})
  OBVIOUS
<1>1. c \in Members(k) <=>
        /\ ev_que[c] = k
        /\ user_sub[c] \/ \E u \in Threads : arg[u] = c /\ pc[u] \in {"wait", "recheck"}
  BY DEF Members, Assigned, Dying
<1>2. c \in Members(k)' <=>
        /\ ev_que'[c] = k
        /\ user_sub'[c] \/ \E u \in Threads : arg'[u] = c /\ pc'[u] \in {"wait", "recheck"}
  BY DEF Members, Assigned, Dying
<1>3. CASE c = s
  <2>1. \A u \in Threads : arg'[u] = c => u = t
    BY <1>3
  <2>. QED  BY <1>2, <1>3, <2>1
<1>4. CASE c # s
  <2>1. arg'[t] # c
    BY <1>4
  <2>2. \A u \in Threads : arg'[u] = c <=> arg[u] = c
    BY <1>4, <2>1
  <2>3. \A u \in Threads : arg[u] = c => pc'[u] = pc[u]
    BY <1>4
  <2>. QED  BY <1>1, <1>2, <1>4, <2>2, <2>3
<1>. QED  BY <1>3, <1>4

----------------------------------------------------------------------------
(* The steps *)

\* A thread that moves on, without touching a queue or a subscription's books.
LEMMA CountMove ==
  ASSUME TypeOK, PendOK, CountOK, QuotaOK, NewestOK, NEW t \in Threads,
         \A u \in Threads \ {t} : pc'[u] = pc[u] /\ arg'[u] = arg[u],
         \/ pc[t] \notin {"wait", "recheck"} /\ pc'[t] \notin {"walk", "wait", "recheck"}
         \/ /\ pc[t] \in {"wait", "recheck"} /\ pc'[t] \in {"wait", "recheck"}
            /\ arg'[t] = arg[t],
         UNCHANGED <<queVars, inuse, user_sub, npend, pLastLog, chan, ev_que, val, tpc,
                     tev, tlog, last, got>>
  PROVE  PendOK' /\ CountOK' /\ QuotaOK' /\ NewestOK'
<1>1. \A u \in Threads : pc'[u] = "walk" => pc[u] = "walk" /\ arg'[u] = arg[u]
  OBVIOUS
<1>2. \A u \in Threads :
        /\ pc'[u] \in {"wait", "recheck"} <=> pc[u] \in {"wait", "recheck"}
        /\ pc[u] \in {"wait", "recheck"} => arg'[u] = arg[u]
  OBVIOUS
<1>. QED  BY <1>1, <1>2, CountSame DEF queVars

\* The others stay where they are when one goes on, leaves or enters.
LEMMA OthersStay ==
  ASSUME TypeOK, NEW t \in Threads, NEW p,
         \/ Goto(t, p)
         \/ p = "idle" /\ Return(t)
         \/ \E o, c : Enter(t, o, c, p)
  PROVE  /\ \A u \in Threads \ {t} : pc'[u] = pc[u] /\ arg'[u] = arg[u]
         /\ pc'[t] = p
BY DEF Goto, Return, Enter, TypeOK, ThrTypeOK

\* A record that posts.
LEMMA CountPost ==
  ASSUME TypeOK, RingIntact, LifeInv, PendOK, CountOK, QuotaOK, NewestOK,
         NEW r \in Recs, PostBegin(r) \/ PostStep(r)
  PROVE  PendOK' /\ CountOK' /\ QuotaOK' /\ NewestOK'
<1>1. CASE PostBegin(r)
  <2>1. /\ val' = [val EXCEPT ![r] = @ + 1]
        /\ UNCHANGED <<queVars, subVars, thrVars, taskVars, logVars>>
    BY <1>1 DEF PostBegin
  <2>2. PendOK' /\ CountOK' /\ QuotaOK'
    BY <2>1, CountSame DEF queVars, subVars, thrVars
  <2>3. \A s \in Subs : user_sub[s] => last[s] <= val'[chan[s]]
    <3>. SUFFICES ASSUME NEW s \in Subs, user_sub[s] PROVE last[s] <= val'[chan[s]]
      OBVIOUS
    <3>1. last[s] <= val[chan[s]]
      BY DEF NewestOK
    <3>2. chan[s] \in Recs /\ val[chan[s]] \in Int /\ last[s] \in Int
      BY DEF TypeOK, SubTypeOK, RecTypeOK, LogTypeOK
    <3>3. val'[chan[s]] = val[chan[s]] \/ val'[chan[s]] = val[chan[s]] + 1
      BY <2>1, <3>2 DEF TypeOK, RecTypeOK
    <3>. QED  BY <3>1, <3>2, <3>3
  <2>4. NewestOK'
    BY <2>1, <2>3 DEF NewestOK, queVars, subVars, thrVars, taskVars, logVars
  <2>. QED  BY <2>2, <2>4
<1>2. CASE PostSignal(r)
  BY <1>2, CountSame DEF PostSignal, queVars, subVars, thrVars, taskVars, logVars
<1>3. CASE PostNext(r)
  <2>1. UNCHANGED <<val, thrVars, taskVars>>
    BY <1>3 DEF PostNext
  <2>2. PICK s \in todo[r] :
          \/ UNCHANGED <<queVars, subVars, logVars>>
          \/ ~SlotTaken(s) /\ QueueLog(s, val[r])
    BY <1>3 DEF PostNext
  <2>3. s \in Subs /\ user_sub[s] /\ chan[s] = r
    BY DEF TypeOK, RecTypeOK, LifeInv, ListsOK, CellsOK
  <2>4. CASE UNCHANGED <<queVars, subVars, logVars>>
    BY <2>1, <2>4, CountSame DEF queVars, subVars, thrVars, taskVars, logVars
  <2>5. CASE ~SlotTaken(s) /\ QueueLog(s, val[r])
    <3>1. PendOK' /\ CountOK' /\ NewestOK'
      BY <2>1, <2>3, <2>5, QueueLogCounts DEF thrVars, taskVars
    <3>2. QuotaOK'
      BY <2>1, <2>5, CountSame DEF QueueLog, thrVars
    <3>. QED  BY <3>1, <3>2
  <2>. QED  BY <2>2, <2>4, <2>5
<1>. QED  BY <1>1, <1>2, <1>3 DEF PostStep

\* db_post_single_event queues the value the record has.
LEMMA CountPostSingle ==
  ASSUME TypeOK, RingIntact, LifeInv, PendOK, CountOK, QuotaOK, NewestOK,
         NEW t \in Threads, PostSingle(t)
  PROVE  PendOK' /\ CountOK' /\ QuotaOK' /\ NewestOK'
<1>. DEFINE s == arg[t]
<1>1. s \in Subs /\ user_sub[s]
  BY DEF PostSingle, LifeInv, HeldOK, TypeOK, CtlTypeOK
<1>2. pc[t] = "post" /\ UNCHANGED <<recVars, taskVars>>
  BY DEF PostSingle
<1>3. PICK p \in {"suspended", "signal", "enable", "disable", "idle"} :
        Goto(t, p) \/ (p = "idle" /\ Return(t))
  BY DEF PostSingle, AfterPost
<1>4. /\ \A u \in Threads \ {t} : pc'[u] = pc[u] /\ arg'[u] = arg[u]
      /\ pc'[t] = p
  BY <1>3, OthersStay
<1>5. CASE UNCHANGED <<queVars, subVars, logVars>>
  BY <1>2, <1>4, <1>5, CountMove DEF queVars, subVars, recVars, taskVars, logVars
<1>6. CASE ~SlotTaken(s) /\ QueueLog(s, val[chan[s]])
  <2>1. \A u \in Threads : pc'[u] = "walk" => pc[u] = "walk" /\ arg'[u] = arg[u]
    BY <1>2, <1>4
  <2>2. \A u \in Threads :
          /\ pc'[u] \in {"wait", "recheck"} <=> pc[u] \in {"wait", "recheck"}
          /\ pc[u] \in {"wait", "recheck"} => arg'[u] = arg[u]
    BY <1>2, <1>4
  <2>. HIDE DEF s
  <2>3. PendOK' /\ CountOK' /\ NewestOK'
    BY <1>1, <1>2, <1>6, <2>1, QueueLogCounts DEF recVars, taskVars
  <2>4. QuotaOK'
    BY <1>6, <2>2, CountSame DEF QueueLog
  <2>. QED  BY <2>3, <2>4
<1>. QED  BY <1>5, <1>6 DEF PostSingle

\* The event task: a callback brings its subscription up to the value it takes.
LEMMA CountCallback ==
  ASSUME TypeOK, LifeInv, PendOK, CountOK, QuotaOK, NewestOK, TaskCallback
  PROVE  PendOK' /\ CountOK' /\ QuotaOK' /\ NewestOK'
<1>1. /\ tpc = "callback" /\ tpc' = "called"
      /\ UNCHANGED <<tev, tlog, last, queVars, subVars, recVars, thrVars>>
  BY DEF TaskCallback
<1>2. tev \in Subs /\ inuse[tev] /\ callBackInProgress[tev]
  BY <1>1 DEF LifeInv, CallbackOK
<1>3. PendOK' /\ CountOK' /\ QuotaOK'
  BY <1>1, CountSame DEF queVars, subVars, thrVars
<1>4. \A c \in Subs : got'[c] =
        IF c # tev THEN got[c]
        ELSE IF chan[c] \in RefRecs THEN val[chan[c]] ELSE tlog
  BY <1>2 DEF TaskCallback, TypeOK, LogTypeOK
<1>5. ASSUME NEW c \in Subs, user_sub[c], npend[c] = 0
      PROVE  IF chan[c] \in RefRecs THEN got'[c] >= last[c] ELSE got'[c] = last[c]
  <2>1. CASE c = tev
    <3>1. tlog = last[c] /\ last[c] <= val[chan[c]]
      BY <1>1, <1>5, <2>1 DEF NewestOK
    <3>2. val[chan[c]] \in Int /\ last[c] \in Int
      BY DEF TypeOK, SubTypeOK, RecTypeOK, LogTypeOK
    <3>. QED  BY <1>4, <2>1, <3>1, <3>2
  <2>2. CASE c # tev
    BY <1>4, <1>5, <2>2 DEF NewestOK
  <2>. QED  BY <2>1, <2>2
<1>6. \A c \in Subs : ~inuse[c] => got'[c] = NoLog
  BY <1>2, <1>4 DEF NewestOK
<1>7. \A t \in Threads : pc[t] = "walk" => got'[arg[t]] = NoLog
  <2>. SUFFICES ASSUME NEW t \in Threads, pc[t] = "walk" PROVE got'[arg[t]] = NoLog
    OBVIOUS
  <2>1. arg[t] \in Subs /\ arg[t] # tev
    BY <1>2 DEF LifeInv, HeldOK, TypeOK, CtlTypeOK
  <2>. QED  BY <1>4, <2>1 DEF NewestOK
<1>8. NewestOK'
  BY <1>1, <1>5, <1>6, <1>7 DEF NewestOK, queVars, subVars, recVars, thrVars
<1>. QED  BY <1>3, <1>8

\* The event task.
LEMMA CountTask ==
  ASSUME TypeOK, LifeInv, PendOK, CountOK, QuotaOK, NewestOK, TaskStep
  PROVE  PendOK' /\ CountOK' /\ QuotaOK' /\ NewestOK'
<1>1. CASE TaskSkip \/ TaskTake \/ TaskCallback
  BY <1>1, SkipCounts, TakeCounts, CountCallback
<1>2. CASE TaskWake \/ TaskStart \/ TaskLaborDone \/ TaskRead \/ TaskDrained \/ TaskReturn
             \/ TaskNext
  <2>1. /\ tpc # "callback" /\ tpc' # "callback"
        /\ UNCHANGED <<queVars, inuse, user_sub, npend, pLastLog, chan, ev_que, logVars,
                       recVars, thrVars>>
    BY <1>2 DEF TaskWake, TaskStart, TaskLaborDone, TaskRead, TaskDrained, TaskReturn,
                TaskNext, subVars
  <2>2. PendOK' /\ CountOK' /\ QuotaOK'
    BY <2>1, CountSame DEF queVars, thrVars
  <2>3. NewestOK'
    BY <2>1 DEF NewestOK, queVars, logVars, recVars, thrVars
  <2>. QED  BY <2>2, <2>3
<1>. QED  BY <1>1, <1>2 DEF TaskStep

\* A subscription that gets its queue has no entry, no value and no share yet.
LEMMA CountAddWalk ==
  ASSUME TypeOK, LifeInv, PendOK, CountOK, QuotaOK, NewestOK, NEW t \in Threads, AddWalk(t)
  PROVE  PendOK' /\ CountOK' /\ QuotaOK' /\ NewestOK'
<1>1. PICK s \in Subs : s = arg[t]
  BY DEF AddWalk, TypeOK, CtlTypeOK
<1>2. PICK q \in Queues : q = walk[t]
  BY DEF TypeOK, ThrTypeOK
<1>3. /\ pc[t] = "walk" /\ inuse[s] /\ ~user_sub[s] /\ ~callBackInProgress[s]
      /\ npend[s] = 0 /\ pLastLog[s] = NoSlot /\ last[s] = NoLog /\ got[s] = NoLog
  BY <1>1 DEF AddWalk, LifeInv, HeldOK, PendOK, NewestOK
<1>4. \A u \in Threads \ {t} : arg[u] # s
  BY <1>1, <1>3 DEF LifeInv, ExclusiveOK, Shares, TypeOK, CtlTypeOK
<1>5. UNCHANGED <<evque, valque, getix, nDuplicates, nCanceled, npend, pLastLog, chan,
                  recVars, taskVars, logVars>>
  BY DEF AddWalk
<1>6. CountOK'
  BY <1>5, CountSame
<1>7. CASE /\ HasQuota(q) /\ quota' = [quota EXCEPT ![q] = @ + EVENTENTRIES]
           /\ user_sub' = [user_sub EXCEPT ![s] = TRUE]
           /\ ev_que' = [ev_que EXCEPT ![s] = q]
           /\ Goto(t, "post") /\ UNCHANGED inuse
  <2>1. /\ \A u \in Threads \ {t} : pc'[u] = pc[u] /\ arg'[u] = arg[u]
        /\ pc'[t] = "post" /\ arg'[t] = s
    BY <1>1, <1>7, OthersStay DEF Goto
  <2>2. /\ user_sub'[s] /\ ev_que'[s] = q
        /\ \A c \in Subs \ {s} : user_sub'[c] = user_sub[c] /\ ev_que'[c] = ev_que[c]
    BY <1>7 DEF TypeOK, SubTypeOK
  <2>3. PendOK'
    <3>1. Entries(q, s)' = {}
      BY <1>3, <1>5 DEF Entries, LifeInv, SlotsOK
    <3>2. Cardinality(Entries(ev_que[s], s)') = 0
      BY <2>2, <3>1, FS_EmptySet
    <3>3. \A c \in Subs \ {s} : user_sub'[c] =>
            /\ npend'[c] = Cardinality(Entries(ev_que[c], c)')
            /\ npend'[c] = 0 => pLastLog'[c] = NoSlot
            /\ npend'[c] # 0 => Newest(ev_que[c], c, pLastLog[c])'
      BY <1>5, <2>2, PendKept
    <3>4. \A u \in Threads : pc'[u] = "walk" =>
            npend'[arg'[u]] = 0 /\ pLastLog'[arg'[u]] = NoSlot
      BY <1>5, <2>1 DEF PendOK
    <3>. QED  BY <1>3, <1>5, <3>2, <3>3, <3>4 DEF PendOK
  <2>4. QuotaOK'
    <3>1. \A k \in Queues, c \in Subs : c \in Members(k)' <=>
            IF c # s THEN c \in Members(k) ELSE k = q
      BY <1>1, <1>4, <2>1, <2>2, MembersMove
    <3>2. \A k \in Queues : s \notin Members(k)
      BY <1>1, <1>3, <1>4 DEF Members, Assigned, Dying
    <3>3. \A k \in Queues : Members(k) \in SUBSET Subs /\ Members(k)' \in SUBSET Subs
      BY DEF Members, Assigned, Dying
    <3>4. \A k \in Queues : Members(k)' = IF k = q THEN Members(q) \cup {s} ELSE Members(k)
      BY <3>1, <3>2, <3>3, ZenonT(60)
    <3>. QED  BY <1>7, <3>2, <3>4, QuotaJoin
  <2>5. NewestOK'
    <3>1. ~(tpc = "callback" /\ tev = s)
      BY <1>3 DEF LifeInv, CallbackOK
    <3>2. last[s] <= val[chan[s]] /\ got[s] >= last[s]
      <4>1. val[chan[s]] \in Nat
        BY DEF TypeOK, SubTypeOK, RecTypeOK
      <4>. QED  BY <1>3, <4>1
    <3>3. \A u \in Threads : pc'[u] = "walk" => pc[u] = "walk" /\ arg'[u] = arg[u]
      BY <2>1
    <3>4. \A c \in Subs : user_sub'[c] =>
            /\ last[c] <= val[chan[c]]
            /\ npend[c] # 0 => valque[ev_que'[c]][pLastLog[c]] = last[c]
            /\ npend[c] = 0 =>
                 IF tpc = "callback" /\ tev = c THEN tlog = last[c]
                 ELSE IF chan[c] \in RefRecs THEN got[c] >= last[c] ELSE got[c] = last[c]
      BY <1>3, <2>2, <3>1, <3>2 DEF NewestOK
    <3>. QED  BY <1>5, <1>7, <3>3, <3>4 DEF NewestOK, recVars, taskVars, logVars
  <2>. QED  BY <1>6, <2>3, <2>4, <2>5
<1>8. CASE UNCHANGED <<quota, inuse, user_sub, ev_que, pc, arg>>
  BY <1>5, <1>8, CountSame DEF recVars, taskVars, logVars
<1>9. CASE /\ inuse' = [inuse EXCEPT ![s] = FALSE]
           /\ Return(t)
           /\ UNCHANGED <<quota, user_sub, ev_que>>
  <2>1. /\ \A u \in Threads \ {t} : pc'[u] = pc[u] /\ arg'[u] = arg[u]
        /\ pc'[t] = "idle"
    BY <1>9, OthersStay
  <2>2. \A u \in Threads : pc'[u] = "walk" => pc[u] = "walk" /\ arg'[u] = arg[u]
    BY <2>1
  <2>3. \A u \in Threads :
          /\ pc'[u] \in {"wait", "recheck"} <=> pc[u] \in {"wait", "recheck"}
          /\ pc[u] \in {"wait", "recheck"} => arg'[u] = arg[u]
    BY <1>3, <2>1
  <2>4. PendOK' /\ QuotaOK'
    BY <1>5, <1>9, <2>2, <2>3, CountSame
  <2>5. \A c \in Subs : ~inuse'[c] => last[c] = NoLog /\ got[c] = NoLog
    BY <1>3, <1>9 DEF NewestOK, TypeOK, SubTypeOK
  <2>6. NewestOK'
    BY <1>5, <1>9, <2>2, <2>5 DEF NewestOK, recVars, taskVars, logVars
  <2>. QED  BY <1>6, <2>4, <2>6
<1>. QED  BY <1>1, <1>2, <1>7, <1>8, <1>9 DEF AddWalk

\* A cell that goes back gives up its share and forgets its values.
LEMMA CountRelease ==
  ASSUME TypeOK, LifeInv, QuotaOK, NewestOK, NEW t \in Threads, NEW s \in Subs, s = arg[t],
         pc[t] \in {"purge", "recheck"}, op[t] \in {"cancel", "close"},
         user_sub[s] \/ pc[t] = "recheck", Release(t, s), UNCHANGED ev_que,
         ~user_sub'[s], \A c \in Subs \ {s} : user_sub'[c] = user_sub[c]
  PROVE  /\ \A u \in Threads : pc'[u] = "walk" => pc[u] = "walk" /\ arg'[u] = arg[u]
         /\ \A c \in Subs \ {s} :
              inuse'[c] = inuse[c] /\ last'[c] = last[c] /\ got'[c] = got[c]
         /\ last'[s] = NoLog /\ got'[s] = NoLog
         /\ QuotaOK'
<1>1. \A u \in Threads \ {t} : arg[u] # s
  BY DEF LifeInv, ExclusiveOK, Shares, TypeOK, CtlTypeOK
<1>2. /\ arg' = [arg EXCEPT ![t] = EVENTQEMPTY]
      /\ \E p \in {"sweep", "idle"} : pc' = [pc EXCEPT ![t] = p]
      /\ inuse' = [inuse EXCEPT ![s] = FALSE]
      /\ last' = [last EXCEPT ![s] = NoLog] /\ got' = [got EXCEPT ![s] = NoLog]
      /\ quota' = [quota EXCEPT ![ev_que[s]] = @ - EVENTENTRIES]
  BY DEF Release, Return
<1>3. /\ \A u \in Threads \ {t} : pc'[u] = pc[u] /\ arg'[u] = arg[u]
      /\ arg'[t] = EVENTQEMPTY /\ pc'[t] \in {"sweep", "idle"}
  BY <1>2 DEF TypeOK, ThrTypeOK
<1>4. PICK q \in Queues : q = ev_que[s]
  BY DEF TypeOK, SubTypeOK
<1>5. s \in Members(q)
  BY <1>4 DEF Members, Assigned, Dying
<1>6. \A k \in Queues, c \in Subs : c \in Members(k)' <=> c # s /\ c \in Members(k)
  <2>1. \A c \in Subs \ {s} : user_sub'[c] = user_sub[c] /\ ev_que'[c] = ev_que[c]
    OBVIOUS
  <2>2. arg'[t] # s
    BY <1>3
  <2>. QED  BY <1>1, <1>3, <2>1, <2>2, MembersMove
<1>7. \A k \in Queues : k # q => s \notin Members(k)
  BY <1>4 DEF Members, Assigned, Dying
<1>8. \A k \in Queues : Members(k) \in SUBSET Subs /\ Members(k)' \in SUBSET Subs
  BY DEF Members, Assigned, Dying
<1>9. \A k \in Queues : Members(k)' = IF k = q THEN Members(q) \ {s} ELSE Members(k)
  <2>. SUFFICES ASSUME NEW k \in Queues
                PROVE  Members(k)' = IF k = q THEN Members(q) \ {s} ELSE Members(k)
    OBVIOUS
  <2>1. Members(k)' = Members(k) \ {s}
    BY <1>6, <1>8
  <2>. QED  BY <1>7, <2>1
<1>10. QuotaOK'
  BY <1>2, <1>4, <1>5, <1>9, QuotaLeave
<1>11. /\ \A c \in Subs \ {s} :
            inuse'[c] = inuse[c] /\ last'[c] = last[c] /\ got'[c] = got[c]
       /\ last'[s] = NoLog /\ got'[s] = NoLog
  BY <1>2 DEF TypeOK, SubTypeOK, LogTypeOK
<1>. QED  BY <1>3, <1>10, <1>11

\* A cancel that waits, and gives its cell back when the callback is over.
LEMMA CountRecheck ==
  ASSUME TypeOK, LifeInv, PendOK, CountOK, QuotaOK, NewestOK, NEW t \in Threads,
         CancelRecheck(t)
  PROVE  PendOK' /\ CountOK' /\ QuotaOK' /\ NewestOK'
<1>1. PICK s \in Subs : s = arg[t]
  BY DEF CancelRecheck, TypeOK, CtlTypeOK
<1>2. /\ pc[t] = "recheck" /\ op[t] \in {"cancel", "close"} /\ ~user_sub[s]
      /\ UNCHANGED <<evque, valque, getix, nDuplicates, nCanceled, user_sub, npend,
                     pLastLog, chan, ev_que, recVars, taskVars>>
  BY <1>1 DEF CancelRecheck, LifeInv, HeldOK, TypeOK, CtlTypeOK
<1>3. CASE Goto(t, "wait") /\ UNCHANGED <<quota, inuse, last, got>>
  <2>1. UNCHANGED <<nque, putix>> /\ arg' = arg
    BY <1>3 DEF CancelRecheck, Goto
  <2>. QED  BY <1>2, <1>3, <2>1, OthersStay, CountMove
            DEF queVars, recVars, taskVars
<1>4. CASE Release(t, s)
  <2>1. /\ \A u \in Threads : pc'[u] = "walk" => pc[u] = "walk" /\ arg'[u] = arg[u]
        /\ \A c \in Subs \ {s} :
              inuse'[c] = inuse[c] /\ last'[c] = last[c] /\ got'[c] = got[c]
        /\ last'[s] = NoLog /\ got'[s] = NoLog
        /\ QuotaOK'
    BY <1>1, <1>2, <1>4, CountRelease
  <2>2. PendOK' /\ CountOK'
    BY <1>2, <2>1, CountSame
  <2>3. ASSUME NEW c \in Subs, user_sub'[c]
        PROVE  /\ last'[c] <= val[chan[c]]
               /\ npend[c] # 0 => valque[ev_que[c]][pLastLog[c]] = last'[c]
               /\ npend[c] = 0 =>
                    IF tpc = "callback" /\ tev = c THEN tlog = last'[c]
                    ELSE IF chan[c] \in RefRecs THEN got'[c] >= last'[c]
                                               ELSE got'[c] = last'[c]
    BY <1>2, <2>1, <2>3 DEF NewestOK
  <2>4. \A c \in Subs : ~inuse'[c] => last'[c] = NoLog /\ got'[c] = NoLog
    BY <2>1 DEF NewestOK
  <2>5. \A u \in Threads : pc'[u] = "walk" => last'[arg'[u]] = NoLog /\ got'[arg'[u]] = NoLog
    <3>. SUFFICES ASSUME NEW u \in Threads, pc'[u] = "walk"
                  PROVE  last'[arg'[u]] = NoLog /\ got'[arg'[u]] = NoLog
      OBVIOUS
    <3>1. pc[u] = "walk" /\ arg'[u] = arg[u] /\ arg[u] \in Subs
      BY <2>1 DEF TypeOK, CtlTypeOK
    <3>. QED  BY <2>1, <3>1 DEF NewestOK
  <2>6. NewestOK'
    BY <1>2, <2>3, <2>4, <2>5 DEF NewestOK, recVars, taskVars
  <2>. QED  BY <2>1, <2>2, <2>6
<1>. QED  BY <1>1, <1>3, <1>4 DEF CancelRecheck

\* A cancel finds all the entries of its subscription, and no other.
LEMMA PurgeHits ==
  ASSUME TypeOK, RingIntact, LifeInv, NEW t \in Threads, CancelPurge(t),
         NEW s \in Subs, s = arg[t], NEW q \in Queues, q = ev_que[s]
  PROVE  /\ user_sub[s]
         /\ \A k \in Queues, i \in Slots :
              /\ evque[k][i] = s => k = q
              /\ evque'[k][i] = IF evque[k][i] = s THEN canceledEvent ELSE evque[k][i]
              /\ evque[k][i] # s => valque'[k][i] = valque[k][i]
         /\ LET n == Cardinality(Entries(q, s)) IN
            /\ nCanceled' = [nCanceled EXCEPT ![q] = @ + n]
            /\ nDuplicates' = [nDuplicates EXCEPT ![q] = @ - DuplicatesPurged(s, n)]
            /\ npend' = [npend EXCEPT ![s] = @ - n]
            /\ pLastLog' = [pLastLog EXCEPT ![s] =
                               IF n > 0 /\ n = npend[s] THEN NoSlot ELSE @]
<1>. DEFINE H == {i \in Visited(q) : evque[q][i] = s}
<1>1. user_sub[s]
  BY DEF CancelPurge, LifeInv, HeldOK
<1>2. Purge(s, H)
  BY DEF CancelPurge
<1>3. H = Entries(q, s)
  <2>1. \A i \in Slots : evque[q][i] = s => i \in Visited(q)
    BY VisitsAll
  <2>2. Visited(q) \in SUBSET Slots
    BY DEF Visited
  <2>. QED  BY <2>1, <2>2 DEF Entries
<1>4. \A k \in Queues, i \in Slots : evque[k][i] = s => k = q
  BY DEF LifeInv, SlotsOK
<1>. HIDE DEF H
<1>5. \A k \in Queues, i \in Slots :
        /\ evque'[k][i] = IF k = q /\ i \in H THEN canceledEvent ELSE evque[k][i]
        /\ valque'[k][i] = IF k = q /\ i \in H THEN NoLog ELSE valque[k][i]
  BY <1>2 DEF Purge, PurgedSlot, TypeOK, QueTypeOK
<1>6. \A k \in Queues, i \in Slots : (k = q /\ i \in H) <=> evque[k][i] = s
  BY <1>3, <1>4 DEF Entries
<1>7. \A k \in Queues, i \in Slots :
        /\ evque'[k][i] = IF evque[k][i] = s THEN canceledEvent ELSE evque[k][i]
        /\ evque[k][i] # s => valque'[k][i] = valque[k][i]
  BY <1>5, <1>6
<1>. QED  BY <1>1, <1>2, <1>3, <1>4, <1>7 DEF Purge

\* The placeholders are counted, and those entries that were not the newest are
\* no longer.
LEMMA PurgeCounts ==
  ASSUME TypeOK, RingIntact, LifeInv, PendOK, CountOK, NEW t \in Threads, CancelPurge(t)
  PROVE  CountOK'
<1>1. PICK s \in Subs : s = arg[t]
  BY DEF CancelPurge, TypeOK, CtlTypeOK
<1>2. PICK q \in Queues : q = ev_que[s]
  BY DEF TypeOK, SubTypeOK
<1>. DEFINE H == Entries(q, s)  C == Entries(q, canceledEvent)  X == Extra(q)
            m == pLastLog[s]
<1>3. /\ user_sub[s]
      /\ \A k \in Queues, i \in Slots :
           /\ evque[k][i] = s => k = q
           /\ evque'[k][i] = IF evque[k][i] = s THEN canceledEvent ELSE evque[k][i]
      /\ nCanceled' = [nCanceled EXCEPT ![q] = @ + Cardinality(H)]
      /\ nDuplicates' = [nDuplicates EXCEPT ![q] = @ - DuplicatesPurged(s, Cardinality(H))]
      /\ pLastLog' = [pLastLog EXCEPT ![s] =
             IF Cardinality(H) > 0 /\ Cardinality(H) = npend[s] THEN NoSlot ELSE @]
  BY <1>1, <1>2, PurgeHits
<1>4. PICK n \in Nat : n = npend[s] /\ n = Cardinality(H)
  BY <1>2, <1>3, PendFacts
<1>5. /\ H \in SUBSET Slots /\ C \in SUBSET Slots /\ X \in SUBSET Slots /\ H \cap C = {}
  BY DEF Entries, Extra
<1>6. /\ \A k \in Queues : nCanceled'[k] = IF k = q THEN nCanceled[q] + n ELSE nCanceled[k]
      /\ \A k \in Queues : nDuplicates'[k] =
           IF k = q THEN nDuplicates[q] - DuplicatesPurged(s, n) ELSE nDuplicates[k]
      /\ \A c \in Subs \ {s} : pLastLog'[c] = pLastLog[c]
  BY <1>3, <1>4 DEF TypeOK, QueTypeOK, SubTypeOK
<1>7. ASSUME NEW k \in Queues, k # q
      PROVE  Entries(k, canceledEvent)' = Entries(k, canceledEvent) /\ Extra(k)' = Extra(k)
  <2>1. \A i \in Slots : evque'[k][i] = evque[k][i] /\ evque[k][i] # s
    BY <1>3, <1>7
  <2>. QED  BY <1>6, <2>1 DEF Entries, Extra
<1>8. Entries(q, canceledEvent)' = C \cup H /\ Extra(q)' = X \ H
  BY <1>3, <1>6 DEF Entries, Extra
<1>9. Cardinality(C \cup H) = nCanceled[q] + n
  <2>1. IsFiniteSet(H) /\ IsFiniteSet(C) /\ Cardinality(C) = nCanceled[q]
    BY <1>5, SlotsFinite DEF CountOK
  <2>2. Cardinality(C) \in Nat
    BY <1>5, SlotsFinite
  <2>. HIDE DEF H, C
  <2>3. Cardinality(C \cup H) = Cardinality(C) + Cardinality(H) - Cardinality(C \cap H)
    BY <2>1, FS_Union
  <2>4. Cardinality(C \cap H) = 0
    BY <1>5, FS_EmptySet
  <2>. QED  BY <1>4, <2>1, <2>2, <2>3, <2>4
<1>10. /\ nDuplicates[q] = Cardinality(X) /\ nDuplicates[q] \in Nat
       /\ nDuplicates[q] <= EVENTQUESIZE - EVENTSPERQUE
  BY <1>5, SlotsFinite DEF CountOK
<1>11. /\ Cardinality(X \ H) = nDuplicates[q] - DuplicatesPurged(s, n)
       /\ DuplicatesPurged(s, n) \in Nat
  <2>1. CASE n = 0
    <3>1. H = {}
      BY <1>4, <1>5, <2>1, CardFew
    <3>. QED  BY <1>10, <2>1, <3>1 DEF DuplicatesPurged
  <2>2. CASE n # 0
    <3>1. DuplicatesPurged(s, n) = n - 1 /\ n - 1 \in Nat
      BY <1>4, <2>2 DEF DuplicatesPurged
    <3>2. m \in H
      BY <1>2, <1>3, <1>4, <2>2, PendFacts DEF Newest
    <3>3. X \cap H = H \ {m}
      BY <1>3 DEF Entries, Extra
    <3>4. Cardinality(X \cap H) = n - 1
      <4>. HIDE DEF H, m
      <4>1. Cardinality(H \ {m}) = Cardinality(H) - 1
        BY <1>5, <3>2, CardOne
      <4>. QED  BY <1>4, <3>3, <4>1
    <3>5. IsFiniteSet(X)
      BY <1>5, SlotsFinite
    <3>. HIDE DEF H, X
    <3>6. Cardinality(X \ H) = Cardinality(X) - Cardinality(X \cap H)
      BY <3>5, FS_Difference
    <3>. QED  BY <1>10, <3>1, <3>4, <3>6
  <2>. QED  BY <2>1, <2>2
<1>12. ASSUME NEW k \in Queues
       PROVE  /\ nCanceled'[k] = Cardinality(Entries(k, canceledEvent)')
              /\ nDuplicates'[k] = Cardinality(Extra(k)')
              /\ nDuplicates'[k] <= EVENTQUESIZE - EVENTSPERQUE
  <2>1. CASE k = q
    <3>1. nDuplicates'[q] = nDuplicates[q] - DuplicatesPurged(s, n)
      BY <1>6
    <3>2. nDuplicates'[q] <= EVENTQUESIZE - EVENTSPERQUE
      BY <1>10, <1>11, <3>1, SizePositive
    <3>. QED  BY <1>6, <1>8, <1>9, <1>11, <2>1, <3>1, <3>2
  <2>2. CASE k # q
    BY <1>6, <1>7, <2>2 DEF CountOK
  <2>. QED  BY <2>1, <2>2
<1>. QED  BY <1>12 DEF CountOK

\* db_cancel_event's locked section keeps the books of all.
LEMMA CountPurge ==
  ASSUME TypeOK, RingIntact, LifeInv, PendOK, CountOK, QuotaOK, NewestOK,
         NEW t \in Threads, CancelPurge(t)
  PROVE  PendOK' /\ CountOK' /\ QuotaOK' /\ NewestOK'
<1>1. PICK s \in Subs : s = arg[t]
  BY DEF CancelPurge, TypeOK, CtlTypeOK
<1>2. PICK q \in Queues : q = ev_que[s]
  BY DEF TypeOK, SubTypeOK
<1>3. /\ user_sub[s]
      /\ \A k \in Queues, i \in Slots :
           /\ evque'[k][i] = IF evque[k][i] = s THEN canceledEvent ELSE evque[k][i]
           /\ evque[k][i] # s => valque'[k][i] = valque[k][i]
      /\ \A c \in Subs \ {s} : npend'[c] = npend[c] /\ pLastLog'[c] = pLastLog[c]
  BY <1>1, <1>2, PurgeHits DEF TypeOK, SubTypeOK
<1>4. /\ pc[t] = "purge" /\ op[t] \in {"cancel", "close"}
      /\ ~user_sub'[s] /\ \A c \in Subs \ {s} : user_sub'[c] = user_sub[c]
      /\ UNCHANGED <<getix, chan, ev_que, recVars, taskVars>>
  BY <1>1 DEF CancelPurge, TypeOK, CtlTypeOK, SubTypeOK
<1>5. /\ \A u \in Threads : pc'[u] = "walk" => pc[u] = "walk" /\ arg'[u] = arg[u]
      /\ \A c \in Subs \ {s} :
           inuse'[c] = inuse[c] /\ last'[c] = last[c] /\ got'[c] = got[c]
      /\ inuse'[s] \/ (last'[s] = NoLog /\ got'[s] = NoLog)
      /\ QuotaOK'
  <2>1. CASE Release(t, s)
    BY <1>1, <1>3, <1>4, <2>1, CountRelease
  <2>2. CASE Goto(t, "wait") /\ UNCHANGED <<quota, inuse, last, got>>
    <3>1. /\ \A u \in Threads \ {t} : pc'[u] = pc[u] /\ arg'[u] = arg[u]
          /\ pc'[t] = "wait" /\ arg'[t] = s
      BY <1>1, <2>2, OthersStay DEF Goto
    <3>2. \A u \in Threads \ {t} : arg[u] # s
      BY <1>1, <1>4 DEF LifeInv, ExclusiveOK, Shares, TypeOK, CtlTypeOK
    <3>3. \A k \in Queues, c \in Subs : c \in Members(k)' <=>
            IF c # s THEN c \in Members(k) ELSE k = q
      BY <1>1, <1>2, <1>4, <3>1, <3>2, MembersMove
    <3>4. \A k \in Queues : s \in Members(k) <=> k = q
      BY <1>2, <1>3 DEF Members, Assigned, Dying
    <3>5. \A k \in Queues : Members(k) \in SUBSET Subs /\ Members(k)' \in SUBSET Subs
      BY DEF Members, Assigned, Dying
    <3>6. \A k \in Queues : Members(k)' = Members(k)
      BY <3>3, <3>4, <3>5
    <3>7. QuotaOK'
      BY <2>2, <3>6 DEF QuotaOK
    <3>8. inuse[s]
      BY <1>3 DEF LifeInv, CellsOK
    <3>. QED  BY <2>2, <3>1, <3>7, <3>8
  <2>. QED  BY <1>1, <2>1, <2>2 DEF CancelPurge
<1>6. \A u \in Threads : pc[u] = "walk" => arg[u] \in Subs \ {s}
  <2>. SUFFICES ASSUME NEW u \in Threads, pc[u] = "walk" PROVE arg[u] \in Subs \ {s}
    OBVIOUS
  <2>1. arg[u] \in Subs /\ ~user_sub[arg[u]]
    BY DEF LifeInv, HeldOK, TypeOK, CtlTypeOK
  <2>. QED  BY <1>3, <2>1
<1>7. PendOK'
  <2>1. \A c \in Subs : user_sub'[c] =>
          /\ npend'[c] = Cardinality(Entries(ev_que[c], c)')
          /\ npend'[c] = 0 => pLastLog'[c] = NoSlot
          /\ npend'[c] # 0 => Newest(ev_que[c], c, pLastLog[c])'
    BY <1>3, <1>4, PendKept
  <2>2. \A u \in Threads : pc'[u] = "walk" => npend'[arg'[u]] = 0 /\ pLastLog'[arg'[u]] = NoSlot
    BY <1>3, <1>5, <1>6 DEF PendOK
  <2>. QED  BY <2>1, <2>2 DEF PendOK
<1>8. CountOK'
  BY PurgeCounts
<1>9. NewestOK'
  <2>1. ASSUME NEW c \in Subs, user_sub'[c]
        PROVE  /\ last'[c] <= val[chan[c]]
               /\ npend'[c] # 0 => valque'[ev_que[c]][pLastLog'[c]] = last'[c]
               /\ npend'[c] = 0 =>
                    IF tpc = "callback" /\ tev = c THEN tlog = last'[c]
                    ELSE IF chan[c] \in RefRecs THEN got'[c] >= last'[c]
                                               ELSE got'[c] = last'[c]
    <3>1. c # s /\ user_sub[c]
      BY <1>4, <2>1
    <3>2. ev_que[c] \in Queues /\
            (npend[c] # 0 => pLastLog[c] \in Slots /\ evque[ev_que[c]][pLastLog[c]] = c)
      BY <3>1, PendFacts DEF TypeOK, SubTypeOK
    <3>. QED  BY <1>3, <1>5, <3>1, <3>2 DEF NewestOK
  <2>2. \A c \in Subs : ~inuse'[c] => last'[c] = NoLog /\ got'[c] = NoLog
    BY <1>5 DEF NewestOK
  <2>3. \A u \in Threads : pc'[u] = "walk" => last'[arg'[u]] = NoLog /\ got'[arg'[u]] = NoLog
    BY <1>5, <1>6 DEF NewestOK
  <2>. QED  BY <1>4, <2>1, <2>2, <2>3 DEF NewestOK, recVars, taskVars
<1>. QED  BY <1>5, <1>7, <1>8, <1>9

\* The places of a thread where it moves nothing but itself.
LEMMA CountThread ==
  ASSUME TypeOK, PendOK, CountOK, QuotaOK, NewestOK, NEW t \in Threads,
         Signal(t) \/ Enable(t) \/ Disable(t) \/ CancelWait(t) \/ CloseFlush(t)
           \/ CloseSweep(t) \/ CloseExit(t) \/ CloseJoin(t)
  PROVE  PendOK' /\ CountOK' /\ QuotaOK' /\ NewestOK'
<1>1. UNCHANGED <<queVars, inuse, user_sub, npend, pLastLog, chan, ev_que, val, tpc,
                  tev, tlog, last, got>>
  BY DEF Signal, Enable, Disable, CancelWait, CloseFlush, CloseSweep, CloseExit,
         CloseJoin, queVars, subVars, recVars, taskVars, logVars
<1>2. CASE Signal(t) \/ Enable(t) \/ Disable(t)
  <2>1. pc[t] \in {"signal", "enable", "disable"}
    BY <1>2 DEF Signal, Enable, Disable
  <2>2. PICK p \in {"enable", "disable", "purge", "post", "join", "idle"} :
          Goto(t, p) \/ (p = "idle" /\ Return(t))
    BY <1>2 DEF Signal, Enable, Disable, AfterPost
  <2>3. /\ \A u \in Threads \ {t} : pc'[u] = pc[u] /\ arg'[u] = arg[u]
        /\ pc'[t] = p
    BY <2>2, OthersStay
  <2>. QED  BY <1>1, <2>1, <2>3, CountMove
<1>3. CASE CancelWait(t)
  <2>1. Goto(t, "recheck") /\ pc[t] = "wait" /\ arg' = arg
    BY <1>3 DEF CancelWait, Goto
  <2>. QED  BY <1>1, <2>1, OthersStay, CountMove
<1>4. CASE CloseFlush(t) \/ CloseExit(t) \/ CloseJoin(t)
  <2>1. pc[t] \in {"flush", "sweep", "join"}
    BY <1>4 DEF CloseFlush, CloseExit, CloseJoin
  <2>2. PICK p \in {"sweep", "signal", "closed"} : Goto(t, p)
    BY <1>4 DEF CloseFlush, CloseExit, CloseJoin
  <2>3. /\ \A u \in Threads \ {t} : pc'[u] = pc[u] /\ arg'[u] = arg[u]
        /\ pc'[t] = p
    BY <2>2, OthersStay
  <2>. QED  BY <1>1, <2>1, <2>3, CountMove
<1>5. CASE CloseSweep(t)
  <2>1. /\ \A u \in Threads \ {t} : pc'[u] = pc[u] /\ arg'[u] = arg[u]
        /\ pc[t] = "sweep" /\ pc'[t] = "disable"
    BY <1>5 DEF CloseSweep, TypeOK, ThrTypeOK
  <2>. QED  BY <1>1, <2>1, CountMove
<1>. QED  BY <1>2, <1>3, <1>4, <1>5

\* A call that only enters its operation, and the cancel of a callback.
LEMMA CountCall ==
  ASSUME TypeOK, PendOK, CountOK, QuotaOK, NewestOK, NEW t \in Threads,
         Grant(t) \/ Revoke(t) \/ CancelBegin(t) \/ FlowCtrl(t) \/ PostLabor(t)
           \/ CloseBegin(t) \/ (t = Task /\ CallbackCancel)
  PROVE  PendOK' /\ CountOK' /\ QuotaOK' /\ NewestOK'
<1>1. UNCHANGED <<queVars, inuse, user_sub, npend, pLastLog, chan, ev_que, val, tpc,
                  tev, tlog, last, got>>
  BY DEF Grant, Revoke, ChangeRights, CancelBegin, FlowCtrl, PostLabor, CloseBegin,
         CallbackCancel, queVars, subVars, recVars, taskVars, logVars
<1>2. PICK p \in {"enable", "post", "disable", "signal", "flush"} :
        \E o, c : Enter(t, o, c, p)
  BY DEF Grant, Revoke, ChangeRights, CancelBegin, FlowCtrl, PostLabor, CloseBegin,
         CallbackCancel
<1>3. pc[t] = "idle"
  BY <1>2 DEF Enter
<1>4. /\ \A u \in Threads \ {t} : pc'[u] = pc[u] /\ arg'[u] = arg[u]
      /\ pc'[t] = p
  BY <1>2, OthersStay
<1>. QED  BY <1>1, <1>3, <1>4, CountMove

\* A cell that is taken has no books: no queue holds an entry of it.
LEMMA CountAdd ==
  ASSUME TypeOK, LifeInv, PendOK, CountOK, QuotaOK, NewestOK, NEW t \in Clients, AddBegin(t)
  PROVE  PendOK' /\ CountOK' /\ QuotaOK' /\ NewestOK'
<1>1. PICK s \in Subs, r \in Recs :
        /\ ~inuse[s] /\ Enter(t, "add", s, "walk")
        /\ inuse' = [inuse EXCEPT ![s] = TRUE]
        /\ chan' = [chan EXCEPT ![s] = r]
        /\ npend' = [npend EXCEPT ![s] = 0]
        /\ pLastLog' = [pLastLog EXCEPT ![s] = NoSlot]
        /\ UNCHANGED <<user_sub, ev_que>>
  BY DEF AddBegin
<1>2. UNCHANGED <<queVars, recVars, taskVars, logVars>>
  BY DEF AddBegin
<1>3. t \in Threads /\ pc[t] = "idle"
  BY <1>1 DEF Enter
<1>4. /\ \A u \in Threads \ {t} : pc'[u] = pc[u] /\ arg'[u] = arg[u]
      /\ pc'[t] = "walk" /\ arg'[t] = s
  BY <1>1, <1>3, EnterFacts
<1>5. ~user_sub[s] /\ \A u \in Threads : arg[u] # s
  BY <1>1, ArgInUse DEF LifeInv, CellsOK
<1>6. /\ \A c \in Subs \ {s} : /\ inuse'[c] = inuse[c] /\ chan'[c] = chan[c]
                               /\ npend'[c] = npend[c] /\ pLastLog'[c] = pLastLog[c]
      /\ inuse'[s] /\ npend'[s] = 0 /\ pLastLog'[s] = NoSlot
  BY <1>1 DEF TypeOK, SubTypeOK
<1>7. \A u \in Threads : pc[u] = "walk" => arg[u] \in Subs \ {s}
  BY <1>5 DEF TypeOK, CtlTypeOK
<1>8. PendOK'
  <2>1. \A c \in Subs : user_sub'[c] =>
          /\ npend'[c] = Cardinality(Entries(ev_que[c], c)')
          /\ npend'[c] = 0 => pLastLog'[c] = NoSlot
          /\ npend'[c] # 0 => Newest(ev_que[c], c, pLastLog[c])'
    BY <1>1, <1>2, <1>5, <1>6, PendKept DEF queVars
  <2>2. \A u \in Threads : pc'[u] = "walk" => npend'[arg'[u]] = 0 /\ pLastLog'[arg'[u]] = NoSlot
    BY <1>4, <1>6, <1>7 DEF PendOK
  <2>. QED  BY <2>1, <2>2 DEF PendOK
<1>9. CountOK'
  <2>1. \A q \in Queues, i \in Slots : evque[q][i] \in Subs => evque[q][i] \in Subs \ {s}
    BY <1>5 DEF LifeInv, SlotsOK
  <2>2. \A q \in Queues : Extra(q)' = Extra(q)
    BY <1>2, <1>6, <2>1 DEF Extra, queVars
  <2>. QED  BY <1>2, <2>2 DEF CountOK, Entries, queVars
<1>10. QuotaOK'
  <2>1. \A u \in Threads :
          /\ pc'[u] \in {"wait", "recheck"} <=> pc[u] \in {"wait", "recheck"}
          /\ pc[u] \in {"wait", "recheck"} => arg'[u] = arg[u]
    BY <1>3, <1>4
  <2>. QED  BY <1>1, <1>2, <2>1, CountSame DEF queVars
<1>11. NewestOK'
  <2>1. \A c \in Subs : user_sub[c] => c # s
    BY <1>5
  <2>2. last[s] = NoLog /\ got[s] = NoLog
    BY <1>1 DEF NewestOK
  <2>3. \A u \in Threads : pc'[u] = "walk" => last'[arg'[u]] = NoLog /\ got'[arg'[u]] = NoLog
    BY <1>2, <1>4, <2>2 DEF NewestOK, logVars
  <2>. QED
    BY <1>1, <1>2, <1>6, <2>1, <2>3 DEF NewestOK, queVars, recVars, taskVars, logVars
<1>. QED  BY <1>8, <1>9, <1>10, <1>11

\* The books: entries, placeholders and duplicates, quota, newest values.
CountInv == PendOK /\ CountOK /\ QuotaOK /\ NewestOK

\* Every step keeps the books.
LEMMA CountStep ==
  ASSUME TypeOK, RingIntact, LifeInv, CountInv, [Next]_vars
  PROVE  CountInv'
<1>0. PendOK /\ CountOK /\ QuotaOK /\ NewestOK
  BY DEF CountInv
<1>. SUFFICES PendOK' /\ CountOK' /\ QuotaOK' /\ NewestOK'
  BY DEF CountInv
<1>1. CASE UNCHANGED vars
  BY <1>0, <1>1, CountSame
     DEF vars, queVars, subVars, recVars, thrVars, taskVars, logVars
<1>2. ASSUME NEW t \in Threads, ThreadStep(t)
      PROVE  PendOK' /\ CountOK' /\ QuotaOK' /\ NewestOK'
  BY <1>0, <1>2, CountAddWalk, CountPostSingle, CountPurge, CountRecheck, CountThread
     DEF ThreadStep
<1>3. ASSUME NEW t \in Clients, Call(t)
      PROVE  PendOK' /\ CountOK' /\ QuotaOK' /\ NewestOK'
  BY <1>0, <1>3, CountAdd, CountCall DEF Call
<1>4. CASE CallbackCancel
  <2>1. Task \in Threads
    OBVIOUS
  <2>. QED  BY <1>0, <1>4, <2>1, CountCall
<1>. QED
  BY <1>0, <1>1, <1>2, <1>3, <1>4, CountPost, CountTask DEF Next
----------------------------------------------------------------------------
(* The theorems *)

\* ... and so they always agree, where a callback cancels no other subscription.
LEMMA CountHolds ==
  ASSUME CallbackCancels # "any"
  PROVE  Spec => []CountInv
<1>1. Init => CountInv
  <2>. SUFFICES ASSUME Init PROVE CountInv
    OBVIOUS
  <2>1. PendOK
    BY DEF Init, PendOK
  <2>2. CountOK
    <3>1. \A q \in Queues : Entries(q, canceledEvent) = {} /\ Extra(q) = {}
      BY DEF Init, Entries, Extra
    <3>2. \A q \in Queues : nCanceled[q] = 0 /\ nDuplicates[q] = 0
      BY DEF Init
    <3>3. EVENTQUESIZE - EVENTSPERQUE >= 0
      BY DEF EVENTQUESIZE
    <3>4. Cardinality({}) = 0
      BY FS_EmptySet
    <3>. QED  BY <3>1, <3>2, <3>3, <3>4 DEF CountOK
  <2>3. QuotaOK
    <3>1. \A q \in Queues : Members(q) = {}
      BY DEF Init, Members, Assigned, Dying
    <3>2. EVENTENTRIES * 0 = 0 /\ EVENTQUESIZE - EVENTENTRIES >= 0
      BY DEF EVENTQUESIZE
    <3>. QED  BY <3>1, <3>2, FS_EmptySet DEF QuotaOK, Init
  <2>4. NewestOK
    BY DEF Init, NewestOK
  <2>. QED  BY <2>1, <2>2, <2>3, <2>4 DEF CountInv
<1>2. TypeOK /\ RingIntact /\ LifeInv /\ CountInv /\ [Next]_vars => CountInv'
  BY CountStep
<1>. QED
  BY <1>1, <1>2, TypeCorrect, RingIntactHolds, LifeHolds, PTL DEF Spec

\* If a callback cancels no subscription but its own, the counters that four
\* functions of dbEvent.c keep by hand agree with what is in the slots: quota,
\* nCanceled, nDuplicates, npend and pLastLog.
THEOREM AccountingHolds ==
  ASSUME CallbackCancels # "any"
  PROVE  Spec => []Accounting
<1>1. CountInv => Accounting
  <2>. SUFFICES ASSUME CountInv, NEW q \in Queues
                PROVE  /\ quota[q] = EVENTENTRIES * Cardinality(Members(q))
                       /\ quota[q] <= EVENTQUESIZE - EVENTENTRIES
                       /\ nCanceled[q] = Cardinality(Entries(q, canceledEvent))
                       /\ nDuplicates[q] = Cardinality(Extra(q))
                       /\ \A s \in Assigned(q) :
                            /\ npend[s] = Cardinality(Entries(q, s))
                            /\ IF npend[s] = 0 THEN pLastLog[s] = NoSlot
                                               ELSE Newest(q, s, pLastLog[s])
    BY DEF Accounting, Members, Newest
  <2>. QED  BY DEF CountInv, PendOK, CountOK, QuotaOK, Assigned
<1>. QED  BY <1>1, CountHolds, PTL

\* Under the same condition the newest value queued is never lost: with nothing
\* left in the queue, the callback has had it.
THEOREM NewestDeliveredHolds ==
  ASSUME CallbackCancels # "any"
  PROVE  Spec => []NewestDelivered
<1>1. CountInv => NewestDelivered
  BY DEF CountInv, NewestOK, NewestDelivered
<1>. QED  BY <1>1, CountHolds, PTL

\* A ring without placeholders that has no free slot for a new entry holds the
\* newest entries of all, and so one of each subscription it can have.
LEMMA RoomLeft ==
  ASSUME TypeOK, RingIntact, LifeInv, CountInv, NEW q \in Queues, nCanceled[q] = 0,
         NEW s \in Assigned(q)
  PROVE  ~SlotTaken(s)
<1>. DEFINE X == Extra(q)
            Y == {i \in Slots : evque[q][i] \in Subs /\ i = pLastLog[evque[q][i]]}
            M == Members(q) \ {s}
<1>. SUFFICES ASSUME SlotTaken(s) PROVE FALSE
  OBVIOUS
<1>1. PendOK /\ CountOK /\ QuotaOK /\ SlotsOK
  BY DEF CountInv, LifeInv
<1>2. s \in Subs /\ user_sub[s] /\ ev_que[s] = q
  BY DEF Assigned
<1>3. PICK p \in Slots : p = putix[q]
  BY DEF TypeOK, QueTypeOK
<1>4. evque[q][p] # EVENTQEMPTY /\ ~Replaces(s)
  BY <1>2, <1>3 DEF SlotTaken
<1>5. ringSpace(q) = 0
  BY <1>3, <1>4 DEF ringSpace
<1>6. npend[s] = 0
  <2>1. npend[s] \in Nat
    BY <1>1, <1>2, PendFacts
  <2>2. EVENTSPERQUE \in Nat
    OBVIOUS
  <2>. QED  BY <1>2, <1>4, <1>5, <2>1, <2>2 DEF Replaces
<1>7. \A i \in Slots : evque[q][i] # EVENTQEMPTY
  <2>1. /\ getix[q] \in Slots /\ OneRun(evque[q], getix[q], p)
    BY <1>3 DEF TypeOK, QueTypeOK, RingIntact
  <2>. QED  BY <1>3, <1>4, <2>1, SizePositive DEF OneRun, OnTheWay, Slots
<1>8. \A i \in Slots : evque[q][i] # canceledEvent
  <2>1. Entries(q, canceledEvent) \in SUBSET Slots
    BY DEF Entries
  <2>2. Entries(q, canceledEvent) = {}
    BY <1>1, <2>1, CardFew DEF CountOK
  <2>. QED  BY <2>2 DEF Entries
<1>9. \A i \in Slots : evque[q][i] \in Subs
  BY <1>7, <1>8 DEF TypeOK, QueTypeOK, SlotValues
<1>10. Slots = X \cup Y /\ X \cap Y = {}
  BY <1>9 DEF Extra
<1>11. /\ IsFiniteSet(X) /\ Cardinality(X) \in Nat /\ IsFiniteSet(Y) /\ Cardinality(Y) \in Nat
       /\ Cardinality(X) <= EVENTQUESIZE - EVENTSPERQUE
  <2>1. X \in SUBSET Slots /\ Y \in SUBSET Slots
    BY DEF Extra
  <2>. QED  BY <1>1, <2>1, SlotsFinite DEF CountOK
<1>12. EVENTQUESIZE = Cardinality(X) + Cardinality(Y)
  <2>. HIDE DEF X, Y
  <2>1. Cardinality(X \cup Y) = Cardinality(X) + Cardinality(Y) - Cardinality(X \cap Y)
    BY <1>11, FS_Union
  <2>2. Cardinality(X \cap Y) = 0
    BY <1>10, FS_EmptySet
  <2>. QED  BY <1>10, <1>11, <2>1, <2>2, SlotsFinite
<1>13. Cardinality(Y) >= EVENTSPERQUE
  <2>1. EVENTSPERQUE \in Nat
    OBVIOUS
  <2>. QED  BY <1>11, <1>12, <2>1, SizePositive
<1>14. IsFiniteSet(M) /\ Cardinality(M) <= EVENTSPERQUE - 2
  <2>1. s \in Members(q) /\ IsFiniteSet(Members(q))
    BY <1>1 DEF Members, QuotaOK
  <2>2. PICK n \in Nat : n = Cardinality(Members(q))
    BY <2>1, FS_CardinalityType
  <2>3. EVENTENTRIES * n <= EVENTQUESIZE - EVENTENTRIES
    BY <1>1, <2>2 DEF QuotaOK
  <2>4. n + 1 <= EVENTSPERQUE
    BY <2>3, QuotaShares
  <2>5. IsFiniteSet(M) /\ Cardinality(M) = n - 1
    BY <2>1, <2>2, FS_RemoveElement
  <2>6. EVENTSPERQUE \in Nat
    OBVIOUS
  <2>. QED  BY <2>4, <2>5, <2>6
<1>15. Cardinality(Y) <= Cardinality(M)
  <2>. DEFINE f == [i \in Y |-> evque[q][i]]
  <2>1. \A i \in Slots : evque[q][i] \in M
    <3>. SUFFICES ASSUME NEW i \in Slots PROVE evque[q][i] \in M
      OBVIOUS
    <3>1. evque[q][i] \in Assigned(q)
      BY <1>1, <1>9 DEF SlotsOK, Assigned
    <3>2. Entries(q, s) = {}
      BY <1>1, <1>2, <1>6, PendFacts
    <3>. QED  BY <3>1, <3>2 DEF Entries, Members
  <2>2. f \in [Y -> M]
    BY <2>1
  <2>3. \A i, j \in Y : f[i] = f[j] => i = j
    OBVIOUS
  <2>4. f \in Injection(Y, M)
    BY <2>2, <2>3 DEF Injection, IsInjective
  <2>. HIDE DEF f, M, Y
  <2>. QED  BY <1>14, <2>4, FS_Injection
<1>16. Cardinality(M) \in Nat /\ EVENTSPERQUE \in Nat
  BY <1>14, FS_CardinalityType
<1>. QED  BY <1>11, <1>13, <1>14, <1>15, <1>16

\* Under the same condition and as long as a queue holds no canceled entry,
\* db_queue_event_log finds a free slot: its assertion does not fail.
THEOREM RoomForEachHolds ==
  ASSUME CallbackCancels # "any"
  PROVE  Spec => []RoomForEach
<1>1. TypeOK /\ RingIntact /\ LifeInv /\ CountInv => RoomForEach
  BY RoomLeft DEF RoomForEach
<1>. QED
  BY <1>1, TypeCorrect, RingIntactHolds, LifeHolds, CountHolds, PTL
----------------------------------------------------------------------------
(* Slots in order of age *)

\* What a slot may hold of a value.
LogValues == Logs \cup {NoLog}

\* No two of the slots S are equally old.
Distinct(S, a) == \A i, j \in S : a[i] = a[j] => i = j

\* Among the slots S, g is the oldest, or p the youngest.
Oldest(S, a, g) == \A i \in S : a[g] <= a[i]
Youngest(S, a, p) == \A i \in S : a[i] <= a[p]

\* Two ages order the slots S in one way; they hold the same values.
SameOrder(S, a, b) == \A i, j \in S : a[i] <= a[j] <=> b[i] <= b[j]
SameValues(S, v, w) == \A i \in S : w[i] = v[i]
IsTail(r, s) == r = Tail(s)

\* The places of slots of different ages are 1, 2, ... up to their number.
LEMMA PlaceFacts ==
  ASSUME NEW S \in SUBSET Slots, NEW a \in [Slots -> Nat], Distinct(S, a)
  PROVE  /\ \A i \in S : Place(S, a, i) \in 1 .. Cardinality(S) /\ Nth(S, a, Place(S, a, i)) = i
         /\ \A n \in 1 .. Cardinality(S) : Nth(S, a, n) \in S /\ Place(S, a, Nth(S, a, n)) = n
<1>. DEFINE B(i) == {j \in S : a[j] <= a[i]}  N == Cardinality(S)
<1>0. IsFiniteSet(S) /\ N \in Nat
  BY SlotsFinite
<1>1. \A i \in S : Place(S, a, i) \in 1 .. N
  <2>. SUFFICES ASSUME NEW i \in S PROVE Place(S, a, i) \in 1 .. N
    OBVIOUS
  <2>1. B(i) \in SUBSET S /\ IsFiniteSet(B(i)) /\ B(i) # {}
    BY <1>0, FS_Subset
  <2>2. Cardinality(B(i)) \in Nat /\ Cardinality(B(i)) <= N /\ Cardinality(B(i)) # 0
    BY <1>0, <2>1, FS_Subset, FS_CardinalityType, FS_EmptySet
  <2>. QED  BY <1>0, <2>2 DEF Place
<1>2. \A i, j \in S : a[i] < a[j] => Place(S, a, i) < Place(S, a, j)
  <2>. SUFFICES ASSUME NEW i \in S, NEW j \in S, a[i] < a[j]
                PROVE  Place(S, a, i) < Place(S, a, j)
    OBVIOUS
  <2>1. B(j) \in SUBSET S /\ IsFiniteSet(B(j))
    BY <1>0, FS_Subset
  <2>2. B(i) \in SUBSET B(j) /\ B(i) # B(j)
    <3>1. \A k \in S : a[k] \in Nat
      OBVIOUS
    <3>2. j \in B(j) /\ j \notin B(i)
      BY <3>1
    <3>3. B(i) \subseteq B(j)
      BY <3>1
    <3>. QED  BY <3>2, <3>3
  <2>. HIDE DEF B
  <2>3. /\ Cardinality(B(i)) <= Cardinality(B(j)) /\ Cardinality(B(i)) # Cardinality(B(j))
        /\ Cardinality(B(i)) \in Nat /\ Cardinality(B(j)) \in Nat
    BY <2>1, <2>2, FS_Subset, FS_CardinalityType
  <2>4. Cardinality(B(i)) < Cardinality(B(j))
    BY <2>3
  <2>. QED  BY <2>4 DEF Place, B
<1>3. \A i, j \in S : Place(S, a, i) = Place(S, a, j) => i = j
  <2>. SUFFICES ASSUME NEW i \in S, NEW j \in S, i # j
                PROVE  Place(S, a, i) # Place(S, a, j)
    OBVIOUS
  <2>1. a[i] < a[j] \/ a[j] < a[i]
    BY DEF Distinct
  <2>2. Place(S, a, i) \in Nat /\ Place(S, a, j) \in Nat
    BY <1>0, <1>1
  <2>. QED  BY <1>2, <2>1, <2>2
<1>4. \A n \in 1 .. N : \E i \in S : Place(S, a, i) = n
  <2>. DEFINE f == [i \in S |-> Place(S, a, i)]
  <2>1. f \in [S -> 1 .. N]
    BY <1>1
  <2>2. \A i, j \in S : f[i] = f[j] => i = j
    BY <1>3
  <2>. HIDE DEF f
  <2>3. f \in Injection(S, 1 .. N)
    BY <2>1, <2>2, Fun_IsInj
  <2>4. IsFiniteSet(1 .. N) /\ Cardinality(1 .. N) = N
    BY <1>0, FS_Interval
  <2>5. f \in Surjection(S, 1 .. N)
    BY <2>3, <2>4, FS_Injection
  <2>6. \A n \in 1 .. N : \E i \in S : f[i] = n
    BY <2>5, Fun_SurjectionProperties, ZenonT(60)
  <2>. QED  BY <2>6 DEF f
<1>5. \A i \in S : Nth(S, a, Place(S, a, i)) = i
  BY <1>3 DEF Nth
<1>6. \A n \in 1 .. N : Nth(S, a, n) \in S /\ Place(S, a, Nth(S, a, n)) = n
  BY <1>4 DEF Nth
<1>. QED  BY <1>1, <1>5, <1>6

\* The values in order of age are as many as the slots.
LEMMA ListedType ==
  ASSUME NEW S \in SUBSET Slots, NEW a \in [Slots -> Nat], Distinct(S, a),
         NEW v \in [Slots -> LogValues]
  PROVE  /\ Listed(S, a, v) \in Seq(LogValues) /\ Len(Listed(S, a, v)) = Cardinality(S)
         /\ Cardinality(S) \in Nat
         /\ S = {} => Listed(S, a, v) = <<>>
         /\ S # {} => Cardinality(S) > 0
<1>1. Cardinality(S) \in Nat /\ (Cardinality(S) = 0 <=> S = {})
  BY SlotsFinite, FS_EmptySet
<1>2. \A n \in 1 .. Cardinality(S) : Nth(S, a, n) \in Slots
  BY PlaceFacts
<1>3. \A n \in 1 .. Cardinality(S) : v[Nth(S, a, n)] \in LogValues
  BY <1>2
<1>4. Listed(S, a, v) \in [1 .. Cardinality(S) -> LogValues]
  BY <1>3 DEF Listed
<1>. QED  BY <1>1, <1>4

\* Only the order of the ages matters, and the values of the slots.
LEMMA ListedSame ==
  ASSUME NEW S \in SUBSET Slots, NEW a \in [Slots -> Nat], NEW b \in [Slots -> Nat],
         Distinct(S, a), SameOrder(S, a, b), NEW v, NEW w, SameValues(S, v, w)
  PROVE  Listed(S, b, w) = Listed(S, a, v)
<1>1. \A i \in S : Place(S, b, i) = Place(S, a, i)
  <2>. SUFFICES ASSUME NEW i \in S PROVE Place(S, b, i) = Place(S, a, i)
    OBVIOUS
  <2>1. {j \in S : b[j] <= b[i]} = {j \in S : a[j] <= a[i]}
    BY DEF SameOrder
  <2>. QED  BY <2>1 DEF Place
<1>2. \A n : Nth(S, b, n) = Nth(S, a, n)
  BY <1>1 DEF Nth
<1>3. \A n \in 1 .. Cardinality(S) : Nth(S, a, n) \in S
  BY PlaceFacts
<1>. QED  BY <1>2, <1>3 DEF Listed, SameValues

\* A slot that is younger than all others comes last.
LEMMA ListedAppend ==
  ASSUME NEW S \in SUBSET Slots, NEW a \in [Slots -> Nat], NEW p \in Slots \ S,
         Distinct(S \cup {p}, a), Youngest(S, a, p),
         NEW v \in [Slots -> LogValues], NEW w \in [Slots -> LogValues],
         SameValues(S, v, w)
  PROVE  Listed(S \cup {p}, a, w) = Append(Listed(S, a, v), w[p])
<1>. DEFINE T == S \cup {p}  N == Cardinality(S)
<1>0. /\ T \in SUBSET Slots /\ IsFiniteSet(S) /\ N \in Nat /\ Cardinality(T) = N + 1
      /\ Distinct(S, a)
  BY SlotsFinite, FS_AddElement DEF Distinct
<1>1. ASSUME NEW i \in S PROVE Place(T, a, i) = Place(S, a, i)
  <2>1. a[i] \in Nat /\ a[p] \in Nat /\ a[i] # a[p] /\ a[i] <= a[p]
    BY DEF Distinct, Youngest
  <2>2. {j \in T : a[j] <= a[i]} = {j \in S : a[j] <= a[i]}
    BY <2>1
  <2>. QED  BY <2>2 DEF Place
<1>2. Place(T, a, p) = N + 1
  <2>1. {j \in T : a[j] <= a[p]} = T
    BY DEF Youngest
  <2>. QED  BY <1>0, <2>1 DEF Place
<1>. HIDE DEF T
<1>3. ASSUME NEW n \in 1 .. N PROVE Nth(T, a, n) = Nth(S, a, n) /\ Nth(S, a, n) \in S
  <2>1. Nth(S, a, n) \in S /\ Place(S, a, Nth(S, a, n)) = n
    BY <1>0, PlaceFacts
  <2>2. Place(T, a, Nth(S, a, n)) = n
    BY <1>1, <2>1
  <2>3. Nth(S, a, n) \in T
    BY <2>1 DEF T
  <2>. QED  BY <1>0, <2>1, <2>2, <2>3, PlaceFacts DEF T
<1>4. Nth(T, a, N + 1) = p
  BY <1>0, <1>2, PlaceFacts DEF T
<1>5. Listed(S, a, v) \in Seq(LogValues) /\ Len(Listed(S, a, v)) = N
  BY <1>0, ListedType
<1>6. Append(Listed(S, a, v), w[p]) =
        [n \in 1 .. N + 1 |-> IF n = N + 1 THEN w[p] ELSE Listed(S, a, v)[n]]
  BY <1>0, <1>5
<1>7. \A n \in 1 .. N : Listed(S, a, v)[n] = w[Nth(T, a, n)]
  BY <1>3 DEF Listed, SameValues
<1>8. Listed(T, a, w) = [n \in 1 .. N + 1 |-> IF n = N + 1 THEN w[p] ELSE Listed(S, a, v)[n]]
  <2>1. \A n \in 1 .. N + 1 : w[Nth(T, a, n)] = IF n = N + 1 THEN w[p] ELSE Listed(S, a, v)[n]
    BY <1>0, <1>4, <1>7
  <2>. QED  BY <1>0, <2>1 DEF Listed
<1>. QED  BY <1>6, <1>8 DEF T

\* A new value for the youngest slot is the new last value.
LEMMA ListedLast ==
  ASSUME NEW S \in SUBSET Slots, NEW a \in [Slots -> Nat], Distinct(S, a),
         NEW p \in S, Youngest(S, a, p),
         NEW v, NEW w, NEW T, T = S \ {p}, SameValues(T, v, w)
  PROVE  Listed(S, a, w) = [Listed(S, a, v) EXCEPT ![Cardinality(S)] = w[p]]
<1>. DEFINE N == Cardinality(S)
<1>1. N \in Nat /\ N > 0
  BY SlotsFinite, FS_EmptySet
<1>2. Place(S, a, p) = N
  <2>1. {j \in S : a[j] <= a[p]} = S
    BY DEF Youngest
  <2>. QED  BY <2>1 DEF Place
<1>3. Nth(S, a, N) = p
  BY <1>2, PlaceFacts
<1>4. \A n \in 1 .. N : n # N => Nth(S, a, n) \in S \ {p}
  BY <1>1, <1>2, PlaceFacts
<1>. HIDE DEF N
<1>. QED  BY <1>1, <1>3, <1>4 DEF Listed, SameValues, N

\* The value of the oldest slot is the first.
LEMMA ListedHead ==
  ASSUME NEW S \in SUBSET Slots, NEW a \in [Slots -> Nat],
         Distinct(S, a), NEW g \in S, Oldest(S, a, g), NEW v \in [Slots -> LogValues]
  PROVE  /\ Listed(S, a, v) # <<>> /\ Head(Listed(S, a, v)) = v[g]
         /\ Place(S, a, g) = 1
<1>1. Place(S, a, g) = 1
  <2>1. \A i \in S : a[i] \in Nat
    OBVIOUS
  <2>2. {j \in S : a[j] <= a[g]} = {g}
    BY <2>1 DEF Distinct, Oldest
  <2>. QED  BY <2>2, FS_Singleton DEF Place
<1>2. Nth(S, a, 1) = g
  <2>1. Nth(S, a, Place(S, a, g)) = g
    BY PlaceFacts
  <2>. QED  BY <1>1, <2>1
<1>3. /\ Listed(S, a, v) \in Seq(LogValues) /\ Cardinality(S) > 0 /\ Cardinality(S) \in Nat
      /\ Len(Listed(S, a, v)) = Cardinality(S)
  BY ListedType
<1>4. Listed(S, a, v)[1] = v[g]
  BY <1>2, <1>3 DEF Listed
<1>. QED  BY <1>1, <1>3, <1>4

\* Without the oldest slot, the others are listed as they were behind it.
LEMMA ListedTail ==
  ASSUME NEW S \in SUBSET Slots, NEW a \in [Slots -> Nat], NEW b \in [Slots -> Nat],
         Distinct(S, a), NEW g \in S, Oldest(S, a, g),
         NEW v \in [Slots -> LogValues], NEW w \in [Slots -> LogValues],
         NEW T, T = S \ {g}, SameOrder(T, a, b), SameValues(T, v, w)
  PROVE  IsTail(Listed(T, b, w), Listed(S, a, v))
<1>. DEFINE N == Cardinality(S)
<1>0. /\ T \in SUBSET Slots /\ IsFiniteSet(S) /\ IsFiniteSet(T) /\ N \in Nat /\ N > 0
      /\ Cardinality(T) = N - 1
  BY SlotsFinite, FS_RemoveElement, FS_EmptySet
<1>1. Distinct(T, b) /\ Distinct(T, a)
  <2>1. \A i \in S : a[i] \in Nat /\ b[i] \in Nat
    OBVIOUS
  <2>. QED  BY <2>1 DEF Distinct, SameOrder
<1>2. Place(S, a, g) = 1
  BY ListedHead
<1>3. ASSUME NEW i \in T PROVE Place(S, a, i) = Place(T, b, i) + 1
  <2>1. {j \in S : a[j] <= a[i]} = {j \in T : b[j] <= b[i]} \cup {g}
    BY DEF Oldest, SameOrder
  <2>2. IsFiniteSet({j \in T : b[j] <= b[i]})
    BY <1>0, FS_Subset
  <2>3. g \notin {j \in T : b[j] <= b[i]}
    OBVIOUS
  <2>. QED  BY <2>1, <2>2, <2>3, FS_AddElement DEF Place
<1>4. ASSUME NEW n \in 1 .. N - 1 PROVE Nth(S, a, n + 1) = Nth(T, b, n) /\ Nth(T, b, n) \in T
  <2>1. Nth(T, b, n) \in T /\ Place(T, b, Nth(T, b, n)) = n
    BY <1>0, <1>1, PlaceFacts
  <2>2. Place(S, a, Nth(T, b, n)) = n + 1
    BY <1>3, <2>1
  <2>3. Nth(T, b, n) \in S
    BY <2>1
  <2>. QED  BY <2>1, <2>2, <2>3, PlaceFacts
<1>5. Listed(S, a, v) \in Seq(LogValues) /\ Len(Listed(S, a, v)) = N
  BY ListedType
<1>6. Listed(T, b, w) \in Seq(LogValues) /\ Len(Listed(T, b, w)) = N - 1
  BY <1>0, <1>1, ListedType
<1>7. \A n \in 1 .. N - 1 : Listed(T, b, w)[n] = Listed(S, a, v)[n + 1]
  <2>. SUFFICES ASSUME NEW n \in 1 .. N - 1
                PROVE  Listed(T, b, w)[n] = Listed(S, a, v)[n + 1]
    OBVIOUS
  <2>1. n \in 1 .. Cardinality(T) /\ n + 1 \in 1 .. Cardinality(S)
    BY <1>0
  <2>2. Listed(T, b, w)[n] = w[Nth(T, b, n)] /\ Listed(S, a, v)[n + 1] = v[Nth(S, a, n + 1)]
    BY <2>1 DEF Listed
  <2>. QED  BY <1>4, <2>2 DEF SameValues
<1>8. Listed(S, a, v) # <<>>
  BY <1>0, <1>5
<1>9. /\ Tail(Listed(S, a, v)) \in Seq(LogValues) /\ Len(Tail(Listed(S, a, v))) = N - 1
       /\ \A n \in 1 .. N - 1 : Tail(Listed(S, a, v))[n] = Listed(S, a, v)[n + 1]
  BY <1>0, <1>5, <1>8, HeadTailProperties
<1>. QED  BY <1>6, <1>7, <1>9, SeqEqual DEF IsTail
----------------------------------------------------------------------------
(* What Monitor sees *)

Seen(s) == <<Status(s), Waiting(s), got[s]>>

\* What a subscription does in a step, in the words of Monitor.
Promised(s) ==
    \/ Seen(s)' = Seen(s)
    \/ Status(s) = "free" /\ Seen(s)' = <<"open", Waiting(s), got[s]>>
    \/ \E v \in Logs :
         /\ Status(s) = "open"
         /\ \/ Seen(s)' = <<"open", Append(Waiting(s), v), got[s]>>
            \/ /\ Waiting(s) # <<>>
               /\ Seen(s)' = <<"open", [Waiting(s) EXCEPT ![Len(Waiting(s))] = v], got[s]>>
    \/ /\ Waiting(s) # <<>>
       /\ Seen(s)' = <<Status(s), Tail(Waiting(s)), Head(Waiting(s))>>
    \/ /\ Status(s) = "open"
       /\ \E k \in {0, 1} : /\ k <= Len(Waiting(s))
                            /\ Seen(s)' = <<"closing", SubSeq(Waiting(s), 1, k), got[s]>>
    \/ /\ Status(s) = "open" \/ (Status(s) = "closing" /\ Waiting(s) = <<>>)
       /\ Seen(s)' = <<"free", <<>>, NoLog>>

\* A step in which one subscription does what is promised, and the others
\* nothing, is a step of Monitor.
LEMMA MonitorStep ==
  ASSUME TypeOK, TypeOK', NEW s \in Subs, \A c \in Subs \ {s} : Seen(c)' = Seen(c),
         Promised(s)
  PROVE  [Monitor!Next]_(Monitor!mvars)
<1>. DEFINE st == [c \in Subs |-> Status(c)]  wt == [c \in Subs |-> Waiting(c)]
<1>1. /\ got \in [Subs -> LogValues] /\ got' \in [Subs -> LogValues]
  BY DEF TypeOK, LogTypeOK, LogValues
<1>2. ASSUME NEW x, NEW y, NEW z, Seen(s)' = <<x, y, z>>
      PROVE  /\ st' = [st EXCEPT ![s] = x] /\ wt' = [wt EXCEPT ![s] = y]
             /\ got' = [got EXCEPT ![s] = z]
  <2>1. /\ \A c \in Subs : Status(c)' = IF c = s THEN x ELSE Status(c)
        /\ \A c \in Subs : Waiting(c)' = IF c = s THEN y ELSE Waiting(c)
        /\ \A c \in Subs : got'[c] = IF c = s THEN z ELSE got[c]
    BY <1>2 DEF Seen
  <2>. QED  BY <1>1, <2>1
<1>3. st[s] = Status(s) /\ wt[s] = Waiting(s)
  OBVIOUS
<1>4. \A x : [st EXCEPT ![s] = Status(s)] = st /\ [wt EXCEPT ![s] = Waiting(s)] = wt
             /\ [got EXCEPT ![s] = got[s]] = got
  BY <1>1
<1>. HIDE DEF st, wt
<1>5. CASE Seen(s)' = Seen(s)
  <2>1. st' = st /\ wt' = wt /\ got' = got
    BY <1>2, <1>4, <1>5 DEF Seen
  <2>. QED  BY <2>1 DEF Monitor!mvars, st, wt
<1>6. CASE Status(s) = "free" /\ Seen(s)' = <<"open", Waiting(s), got[s]>>
  <2>1. /\ st[s] = "free" /\ st' = [st EXCEPT ![s] = "open"] /\ wt' = wt /\ got' = got
    BY <1>2, <1>3, <1>4, <1>6
  <2>2. Monitor!Open(s)
    BY <2>1 DEF Monitor!Open, st, wt
  <2>. QED  BY <2>2 DEF Monitor!Next
<1>7. ASSUME NEW v \in Logs, Status(s) = "open",
             \/ Seen(s)' = <<"open", Append(Waiting(s), v), got[s]>>
             \/ /\ Waiting(s) # <<>>
                /\ Seen(s)' = <<"open", [Waiting(s) EXCEPT ![Len(Waiting(s))] = v], got[s]>>
      PROVE  Monitor!Next
  <2>1. /\ st[s] = "open" /\ st' = st /\ got' = got
        /\ \/ wt' = [wt EXCEPT ![s] = Append(wt[s], v)]
           \/ wt[s] # <<>> /\ wt' = [wt EXCEPT ![s] = [wt[s] EXCEPT ![Len(wt[s])] = v]]
    BY <1>2, <1>3, <1>4, <1>7
  <2>2. Monitor!Post(s, v)
    BY <2>1 DEF Monitor!Post, st, wt
  <2>. QED  BY <2>2 DEF Monitor!Next
<1>8. CASE Waiting(s) # <<>> /\ Seen(s)' = <<Status(s), Tail(Waiting(s)), Head(Waiting(s))>>
  <2>1. /\ st' = st /\ wt[s] # <<>> /\ wt' = [wt EXCEPT ![s] = Tail(wt[s])]
        /\ got' = [got EXCEPT ![s] = Head(wt[s])]
    BY <1>2, <1>3, <1>4, <1>8
  <2>2. Monitor!Deliver(s)
    BY <2>1 DEF Monitor!Deliver, st, wt
  <2>. QED  BY <2>2 DEF Monitor!Next
<1>9. ASSUME Status(s) = "open", NEW k \in {0, 1}, k <= Len(Waiting(s)),
             Seen(s)' = <<"closing", SubSeq(Waiting(s), 1, k), got[s]>>
      PROVE  Monitor!Next
  <2>1. PICK y : y = SubSeq(Waiting(s), 1, k)
    OBVIOUS
  <2>2. /\ st' = [st EXCEPT ![s] = "closing"] /\ wt' = [wt EXCEPT ![s] = y]
        /\ got' = [got EXCEPT ![s] = got[s]]
    BY <1>2, <1>9, <2>1
  <2>3. /\ st[s] = "open" /\ got' = got /\ k <= Len(wt[s]) /\ y = SubSeq(wt[s], 1, k)
    BY <1>3, <1>4, <1>9, <2>1, <2>2
  <2>4. Monitor!Cancel(s)
    BY <2>2, <2>3 DEF Monitor!Cancel, st, wt
  <2>. QED  BY <2>4 DEF Monitor!Next
<1>10. CASE /\ Status(s) = "open" \/ (Status(s) = "closing" /\ Waiting(s) = <<>>)
            /\ Seen(s)' = <<"free", <<>>, NoLog>>
  <2>1. /\ (st[s] = "closing" /\ wt[s] = <<>>) \/ st[s] = "open"
        /\ st' = [st EXCEPT ![s] = "free"] /\ wt' = [wt EXCEPT ![s] = <<>>]
        /\ got' = [got EXCEPT ![s] = NoLog]
    BY <1>2, <1>3, <1>4, <1>10
  <2>2. Monitor!Free(s)
    BY <2>1 DEF Monitor!Free, st, wt
  <2>. QED  BY <2>2 DEF Monitor!Next
<1>. QED  BY <1>5, <1>6, <1>7, <1>8, <1>9, <1>10 DEF Promised

\* A step in which no subscription does anything Monitor sees is a stutter.
LEMMA MonitorStutter ==
  ASSUME TypeOK, TypeOK', \A c \in Subs : Seen(c)' = Seen(c)
  PROVE  UNCHANGED Monitor!mvars
<1>1. /\ \A c \in Subs : Status(c)' = Status(c) /\ Waiting(c)' = Waiting(c)
      /\ \A c \in Subs : got'[c] = got[c]
  BY DEF Seen
<1>2. got' = got
  BY <1>1 DEF TypeOK, LogTypeOK
<1>. QED  BY <1>1, <1>2 DEF Monitor!mvars
----------------------------------------------------------------------------
(* The ring of a subscription *)

\* The ages of the slots when slot g is the next to be read.
AgesFrom(g) == [i \in Slots |-> IF i >= g THEN i - g ELSE i + EVENTQUESIZE - g]

\* They are all different, the slot to be read comes first, and when it has been
\* read the others keep their order.
LEMMA AgesFacts ==
  ASSUME NEW g \in Slots
  PROVE  /\ AgesFrom(g) \in [Slots -> Nat]
         /\ \A S \in SUBSET Slots : Distinct(S, AgesFrom(g))
         /\ \A S \in SUBSET Slots : Oldest(S, AgesFrom(g), g)
         /\ SameOrder(Slots \ {g}, AgesFrom(g), AgesFrom(RNGINC(g)))
<1>1. AgesFrom(g) \in [Slots -> Nat]
  BY SizePositive DEF AgesFrom, Slots
<1>2. \A S \in SUBSET Slots : Distinct(S, AgesFrom(g))
  BY SizePositive DEF AgesFrom, Slots, Distinct
<1>3. \A S \in SUBSET Slots : Oldest(S, AgesFrom(g), g)
  BY SizePositive DEF AgesFrom, Slots, Oldest
<1>4. \A i \in Slots \ {g} : AgesFrom(RNGINC(g))[i] = AgesFrom(g)[i] - 1
  BY SizePositive DEF AgesFrom, Slots, RNGINC
<1>5. SameOrder(Slots \ {g}, AgesFrom(g), AgesFrom(RNGINC(g)))
  <2>1. \A m, n \in Nat : m <= n <=> m - 1 <= n - 1
    OBVIOUS
  <2>. QED  BY <1>1, <1>4, <2>1 DEF SameOrder
<1>. QED  BY <1>1, <1>2, <1>3, <1>5

\* The values that wait in the ring are those of the entries in order of age.
LEMMA RingFacts ==
  ASSUME TypeOK, NEW c \in Subs, NEW q \in Queues, q = ev_que[c],
         NEW g \in Slots, g = getix[q]
  PROVE  /\ Entries(q, c) \in SUBSET Slots /\ Ages(q) = AgesFrom(g)
         /\ valque[q] \in [Slots -> LogValues]
         /\ InRing(c) = Listed(Entries(q, c), AgesFrom(g), valque[q])
         /\ InRing(c) \in Seq(LogValues)
         /\ Len(InRing(c)) = Cardinality(Entries(q, c))
<1>1. Entries(q, c) \in SUBSET Slots /\ Ages(q) = AgesFrom(g)
  BY DEF Entries, Ages, AgesFrom, Age
<1>2. valque[q] \in [Slots -> LogValues]
  BY DEF TypeOK, QueTypeOK, LogValues
<1>3. InRing(c) = Listed(Entries(q, c), AgesFrom(g), valque[q])
  BY <1>1 DEF InRing
<1>4. AgesFrom(g) \in [Slots -> Nat] /\ Distinct(Entries(q, c), AgesFrom(g))
  BY <1>1, AgesFacts
<1>5. PICK a \in [Slots -> Nat] : a = AgesFrom(g)
  BY <1>4
<1>6. PICK v \in [Slots -> LogValues] : v = valque[q]
  BY <1>2
<1>7. PICK E \in SUBSET Slots : E = Entries(q, c)
  BY <1>1
<1>8. Listed(E, a, v) \in Seq(LogValues) /\ Len(Listed(E, a, v)) = Cardinality(E)
  BY <1>4, <1>5, <1>7, ListedType
<1>. QED  BY <1>1, <1>2, <1>3, <1>5, <1>6, <1>7, <1>8

\* A subscription keeps the values that wait when its entries stay, and what
\* goes before them is not its own.
LEMMA InRingKept ==
  ASSUME TypeOK, NEW c \in Subs, NEW q \in Queues, q = ev_que[c],
         ev_que'[c] = q, \A i \in Slots : evque'[q][i] = c <=> evque[q][i] = c,
         \A i \in Slots : evque[q][i] = c => valque'[q][i] = valque[q][i],
         \/ getix'[q] = getix[q]
         \/ getix'[q] = RNGINC(getix[q]) /\ evque[q][getix[q]] # c
  PROVE  InRing(c)' = InRing(c)
<1>1. PICK g \in Slots : g = getix[q]
  BY DEF TypeOK, QueTypeOK
<1>2. PICK h \in Slots : h = getix'[q] /\ (h = g \/ (h = RNGINC(g) /\ evque[q][g] # c))
  BY <1>1, RngIncSlot
<1>. DEFINE E == Entries(q, c)
<1>3. Entries(q, c)' = E /\ Ages(q)' = AgesFrom(h)
  BY <1>2 DEF Entries, Ages, AgesFrom, Age
<1>4. InRing(c)' = Listed(E, AgesFrom(h), valque'[q])
  BY <1>3 DEF InRing
<1>5. E \in SUBSET Slots /\ InRing(c) = Listed(E, AgesFrom(g), valque[q])
  BY <1>1, RingFacts
<1>6. SameOrder(E, AgesFrom(g), AgesFrom(h))
  <2>1. CASE h = g
    BY <2>1 DEF SameOrder
  <2>2. CASE h = RNGINC(g) /\ evque[q][g] # c
    <3>1. \A i \in E : i \in Slots \ {g}
      BY <2>2 DEF Entries
    <3>. QED  BY <2>2, <3>1, AgesFacts DEF SameOrder
  <2>. QED  BY <1>2, <2>1, <2>2
<1>7. /\ AgesFrom(g) \in [Slots -> Nat] /\ AgesFrom(h) \in [Slots -> Nat]
      /\ Distinct(E, AgesFrom(g))
  BY <1>5, AgesFacts
<1>8. SameValues(E, valque[q], valque'[q])
  BY DEF Entries, SameValues
<1>. HIDE DEF E
<1>. QED  BY <1>4, <1>5, <1>6, <1>7, <1>8, ListedSame

\* db_queue_event_log puts the value behind those that wait, or in place of the
\* newest of them.
LEMMA InRingQueue ==
  ASSUME TypeOK, RingIntact, LifeInv, PendOK, NEW s \in Subs, NEW v \in Logs, user_sub[s],
         ~SlotTaken(s), QueueLog(s, v)
  PROVE  /\ \A c \in Subs \ {s} : InRing(c)' = InRing(c)
         /\ \/ InRing(s)' = Append(InRing(s), v)
            \/ /\ InRing(s) # <<>>
               /\ InRing(s)' = [InRing(s) EXCEPT ![Len(InRing(s))] = v]
<1>1. PICK q \in Queues : q = ev_que[s]
  BY DEF TypeOK, SubTypeOK
<1>2. PICK g \in Slots : g = getix[q]
  BY DEF TypeOK, QueTypeOK
<1>3. PICK E \in SUBSET Slots : E = Entries(q, s)
  BY DEF Entries
<1>4. PICK w \in [Slots -> LogValues] : w = valque[q]
  BY DEF TypeOK, QueTypeOK, LogValues
<1>5. /\ InRing(s) = Listed(E, AgesFrom(g), w) /\ InRing(s) \in Seq(LogValues)
      /\ Len(InRing(s)) = Cardinality(E) /\ Ages(q) = AgesFrom(g)
  BY <1>1, <1>2, <1>3, <1>4, RingFacts
<1>6. /\ AgesFrom(g) \in [Slots -> Nat]
      /\ \A S \in SUBSET Slots : Distinct(S, AgesFrom(g))
  BY AgesFacts
<1>7. \A i \in Slots : AgesFrom(g)[i] = Age(q, i)
  BY <1>2 DEF AgesFrom, Age
<1>8. UNCHANGED <<getix, ev_que>>
  BY DEF QueueLog
<1>9. Ages(q)' = AgesFrom(g)
  BY <1>2, <1>8 DEF Ages, AgesFrom, Age
<1>10. CASE Replaces(s)
  <2>1. UNCHANGED evque /\ valque' = [valque EXCEPT ![q][pLastLog[s]] = v]
    BY <1>1, <1>10 DEF QueueLog, ReplaceLast
  <2>2. npend[s] # 0
    BY <1>10 DEF Replaces
  <2>3. PICK p \in Slots : p = pLastLog[s] /\ evque[q][p] = s /\ Newest(q, s, p)
    BY <1>1, <2>2, PendFacts
  <2>4. \A k \in Queues, i \in Slots :
          valque'[k][i] = IF k = q /\ i = p THEN v ELSE valque[k][i]
    BY <2>1, <2>3 DEF TypeOK, QueTypeOK
  <2>5. \A c \in Subs \ {s} : InRing(c)' = InRing(c)
    <3>. SUFFICES ASSUME NEW c \in Subs \ {s} PROVE InRing(c)' = InRing(c)
      OBVIOUS
    <3>1. PICK k \in Queues : k = ev_que[c]
      BY DEF TypeOK, SubTypeOK
    <3>2. ev_que'[c] = k /\ getix'[k] = getix[k]
      BY <1>8, <3>1
    <3>3. \A i \in Slots : evque[k][i] = c => valque'[k][i] = valque[k][i]
      BY <2>3, <2>4
    <3>. QED  BY <2>1, <3>1, <3>2, <3>3, InRingKept
  <2>6. PICK x : x = valque'[q]
    OBVIOUS
  <2>7. InRing(s)' = Listed(E, AgesFrom(g), x)
    BY <1>1, <1>3, <1>8, <1>9, <2>1, <2>6 DEF InRing, Entries
  <2>8. x[p] = v /\ SameValues(E \ {p}, w, x)
    BY <1>3, <1>4, <2>3, <2>4, <2>6 DEF SameValues
  <2>9. p \in E /\ Youngest(E, AgesFrom(g), p)
    BY <1>3, <1>7, <2>3 DEF Newest, Youngest
  <2>10. Listed(E, AgesFrom(g), x) = [Listed(E, AgesFrom(g), w) EXCEPT ![Cardinality(E)] = x[p]]
    <3>1. PICK a \in [Slots -> Nat] : a = AgesFrom(g)
      BY <1>6
    <3>2. Distinct(E, a) /\ Youngest(E, a, p)
      BY <1>3, <1>6, <2>9, <3>1
    <3>3. PICK F : F = E \ {p}
      OBVIOUS
    <3>4. /\ E \in SUBSET Slots /\ p \in E /\ a \in [Slots -> Nat]
          /\ F = E \ {p} /\ SameValues(F, w, x)
      BY <1>3, <2>8, <2>9, <3>1, <3>3
    <3>5. Listed(E, a, x) = [Listed(E, a, w) EXCEPT ![Cardinality(E)] = x[p]]
      BY ONLY <3>2, <3>4, ListedLast
    <3>. QED  BY <3>1, <3>5
  <2>11. Cardinality(E) # 0
    BY <2>9, SlotsFinite, FS_EmptySet
  <2>12. InRing(s) # <<>>
    BY <1>5, <2>11
  <2>. QED  BY <1>5, <2>5, <2>7, <2>8, <2>10, <2>12
<1>11. CASE ~Replaces(s)
  <2>1. PICK p \in Slots : p = putix[q]
    BY DEF TypeOK, QueTypeOK
  <2>2. /\ evque[q][p] = EVENTQEMPTY
        /\ \A k \in Queues, i \in Slots :
             /\ evque'[k][i] = IF k = q /\ i = p THEN s ELSE evque[k][i]
             /\ valque'[k][i] = IF k = q /\ i = p THEN v ELSE valque[k][i]
    BY <1>1, <1>11, <2>1, AppendFacts
  <2>3. \A c \in Subs \ {s} : InRing(c)' = InRing(c)
    <3>. SUFFICES ASSUME NEW c \in Subs \ {s} PROVE InRing(c)' = InRing(c)
      OBVIOUS
    <3>1. PICK k \in Queues : k = ev_que[c]
      BY DEF TypeOK, SubTypeOK
    <3>2. ev_que'[c] = k /\ getix'[k] = getix[k]
      BY <1>8, <3>1
    <3>3. \A i \in Slots : /\ evque'[k][i] = c <=> evque[k][i] = c
                           /\ evque[k][i] = c => valque'[k][i] = valque[k][i]
      BY <2>2
    <3>. QED  BY <3>1, <3>2, <3>3, InRingKept
  <2>4. PICK x \in [Slots -> LogValues] : x = valque'[q]
    <3>1. AppendEntry(s, v)
      BY <1>11 DEF QueueLog
    <3>2. valque' = [valque EXCEPT ![q][p] = v]
      BY <1>1, <2>1, <3>1 DEF AppendEntry
    <3>. QED  BY <3>2 DEF TypeOK, QueTypeOK, LogValues
  <2>5. Entries(q, s)' = E \cup {p} /\ p \in Slots \ E
    BY <1>3, <2>2 DEF Entries
  <2>6. InRing(s)' = Listed(E \cup {p}, AgesFrom(g), x)
    BY <1>1, <1>8, <1>9, <2>4, <2>5 DEF InRing
  <2>7. x[p] = v /\ SameValues(E, w, x)
    BY <1>3, <1>4, <2>2, <2>4, <2>5 DEF SameValues
  <2>8. Youngest(E, AgesFrom(g), p)
    <3>. SUFFICES ASSUME NEW i \in E PROVE AgesFrom(g)[i] <= AgesFrom(g)[p]
      BY DEF Youngest
    <3>1. i \in Slots /\ evque[q][i] # EVENTQEMPTY
      BY <1>3 DEF Entries
    <3>2. Age(q, i) <= Age(q, p)
      BY <2>1, <2>2, <3>1, AgeAppend
    <3>. QED  BY <1>7, <3>1, <3>2
  <2>9. Listed(E \cup {p}, AgesFrom(g), x) = Append(Listed(E, AgesFrom(g), w), x[p])
    <3>1. PICK a \in [Slots -> Nat] : a = AgesFrom(g)
      BY <1>6
    <3>2. Distinct(E \cup {p}, a) /\ Youngest(E, a, p)
      BY <1>3, <1>6, <2>5, <2>8, <3>1
    <3>3. /\ E \in SUBSET Slots /\ p \in Slots \ E /\ a \in [Slots -> Nat]
          /\ w \in [Slots -> LogValues] /\ x \in [Slots -> LogValues]
          /\ SameValues(E, w, x)
      BY <1>3, <1>4, <2>4, <2>5, <2>7, <3>1
    <3>4. Listed(E \cup {p}, a, x) = Append(Listed(E, a, w), x[p])
      BY ONLY <3>2, <3>3, ListedAppend, ZenonT(60)
    <3>. QED  BY <3>1, <3>4
  <2>. QED  BY <1>5, <2>3, <2>6, <2>7, <2>9
<1>. QED  BY <1>10, <1>11

\* event_read takes the oldest of the values that wait.
LEMMA InRingTake ==
  ASSUME TypeOK, LifeInv, TaskTake, NEW s \in Subs, s = HeadEntry
  PROVE  /\ \A c \in Subs \ {s} : InRing(c)' = InRing(c)
         /\ user_sub[s] /\ InRing(s) # <<>> /\ InRing(s) \in Seq(LogValues)
         /\ tpc = "loop" /\ tpc' = "callback" /\ tev' = s /\ tlog' = Head(InRing(s))
         /\ InRing(s)' = Tail(InRing(s))
<1>1. PICK q \in Queues : q = tq
  BY DEF TypeOK, TaskTypeOK
<1>2. PICK g \in Slots : g = getix[q]
  BY DEF TypeOK, QueTypeOK
<1>3. s = evque[q][g] /\ user_sub[s] /\ ev_que[s] = q
  BY <1>1, <1>2 DEF HeadEntry, LifeInv, SlotsOK
<1>4. /\ evque'  = [evque EXCEPT ![q][g] = EVENTQEMPTY]
      /\ valque' = [valque EXCEPT ![q][g] = NoLog]
      /\ getix' = [getix EXCEPT ![q] = RNGINC(@)]
      /\ tpc = "loop" /\ tpc' = "callback" /\ tev' = s /\ tlog' = valque[q][g]
      /\ UNCHANGED ev_que
  BY <1>1, <1>2, <1>3 DEF TaskTake, HeadEntry
<1>5. \A k \in Queues, i \in Slots :
        /\ evque'[k][i] = IF k = q /\ i = g THEN EVENTQEMPTY ELSE evque[k][i]
        /\ valque'[k][i] = IF k = q /\ i = g THEN NoLog ELSE valque[k][i]
  BY <1>4 DEF TypeOK, QueTypeOK
<1>6. \A k \in Queues : getix'[k] = IF k = q THEN RNGINC(g) ELSE getix[k]
  BY <1>2, <1>4 DEF TypeOK, QueTypeOK
<1>7. \A c \in Subs \ {s} : InRing(c)' = InRing(c)
  <2>. SUFFICES ASSUME NEW c \in Subs \ {s} PROVE InRing(c)' = InRing(c)
    OBVIOUS
  <2>1. PICK k \in Queues : k = ev_que[c] /\ k = ev_que'[c]
    BY <1>4 DEF TypeOK, SubTypeOK
  <2>2. \A i \in Slots : /\ evque'[k][i] = c <=> evque[k][i] = c
                         /\ evque[k][i] = c => valque'[k][i] = valque[k][i]
    BY <1>3, <1>5
  <2>3. getix'[k] = getix[k] \/ (getix'[k] = RNGINC(getix[k]) /\ evque[k][getix[k]] # c)
    BY <1>2, <1>3, <1>6
  <2>. QED  BY <2>1, <2>2, <2>3, InRingKept
<1>8. PICK E \in SUBSET Slots : E = Entries(q, s)
  BY DEF Entries
<1>9. PICK w \in [Slots -> LogValues] : w = valque[q]
  BY DEF TypeOK, QueTypeOK, LogValues
<1>10. PICK x \in [Slots -> LogValues] : x = valque'[q]
  BY <1>4 DEF TypeOK, QueTypeOK, LogValues
<1>11. InRing(s) = Listed(E, AgesFrom(g), w) /\ InRing(s) \in Seq(LogValues)
  BY <1>2, <1>3, <1>8, <1>9, RingFacts
<1>12. PICK h \in Slots : h = RNGINC(g)
  BY RngIncSlot
<1>13. Entries(q, s)' = E \ {g} /\ g \in E
  BY <1>3, <1>5, <1>8 DEF Entries
<1>14. Ages(q)' = AgesFrom(h)
  BY <1>6, <1>12 DEF Ages, AgesFrom, Age
<1>15. InRing(s)' = Listed(E \ {g}, AgesFrom(h), x)
  BY <1>3, <1>4, <1>10, <1>13, <1>14 DEF InRing
<1>16. /\ AgesFrom(g) \in [Slots -> Nat] /\ AgesFrom(h) \in [Slots -> Nat]
       /\ Distinct(E, AgesFrom(g)) /\ Oldest(E, AgesFrom(g), g)
       /\ SameOrder(E \ {g}, AgesFrom(g), AgesFrom(h))
  BY <1>8, <1>12, AgesFacts DEF SameOrder
<1>17. SameValues(E \ {g}, w, x)
  BY <1>5, <1>8, <1>9, <1>10 DEF SameValues
<1>18. /\ Listed(E, AgesFrom(g), w) # <<>> /\ Head(Listed(E, AgesFrom(g), w)) = w[g]
       /\ Listed(E \ {g}, AgesFrom(h), x) = Tail(Listed(E, AgesFrom(g), w))
  <2>1. PICK a \in [Slots -> Nat] : a = AgesFrom(g)
    BY <1>16
  <2>2. PICK b \in [Slots -> Nat] : b = AgesFrom(h)
    BY <1>16
  <2>0. PICK F : F = E \ {g}
    OBVIOUS
  <2>3. Distinct(E, a) /\ Oldest(E, a, g) /\ SameOrder(F, a, b)
    BY <1>16, <2>0, <2>1, <2>2
  <2>4. /\ E \in SUBSET Slots /\ g \in E /\ a \in [Slots -> Nat] /\ b \in [Slots -> Nat]
        /\ w \in [Slots -> LogValues] /\ x \in [Slots -> LogValues]
        /\ F = E \ {g} /\ SameValues(F, w, x)
    BY <1>8, <1>9, <1>10, <1>13, <1>17, <2>0, <2>1, <2>2
  <2>5. Listed(E, a, w) # <<>> /\ Head(Listed(E, a, w)) = w[g]
    BY ONLY <2>3, <2>4, ListedHead
  <2>6. IsTail(Listed(F, b, x), Listed(E, a, w))
    BY ONLY <2>3, <2>4, ListedTail
  <2>. QED  BY <2>0, <2>1, <2>2, <2>5, <2>6 DEF IsTail
<1>. QED  BY <1>3, <1>4, <1>7, <1>9, <1>11, <1>15, <1>18
----------------------------------------------------------------------------
(* The steps *)

\* A sequence with one before it: what is appended or replaced at its end.
LEMMA ConcatLast ==
  ASSUME NEW p \in Seq(LogValues), NEW r \in Seq(LogValues), NEW v \in LogValues
  PROVE  /\ p \o Append(r, v) = Append(p \o r, v)
         /\ r # <<>> => /\ p \o r # <<>>
                        /\ p \o [r EXCEPT ![Len(r)] = v] = [p \o r EXCEPT ![Len(p \o r)] = v]
<1>1. p \o Append(r, v) = Append(p \o r, v)
  OBVIOUS
<1>2. ASSUME r # <<>>
      PROVE  /\ p \o r # <<>>
             /\ p \o [r EXCEPT ![Len(r)] = v] = [p \o r EXCEPT ![Len(p \o r)] = v]
  <2>1. PICK z \in Seq(LogValues) : z = p \o r
    <3>1. p \o r \in Seq(LogValues)
      OBVIOUS
    <3>. QED  BY <3>1
  <2>2. /\ Len(z) = Len(p) + Len(r) /\ \A i \in 1 .. Len(p) : z[i] = p[i]
        /\ \A i \in 1 .. Len(r) : z[Len(p) + i] = r[i]
    BY <2>1, ConcatProperties
  <2>3. /\ Len(r) \in Nat /\ Len(p) \in Nat /\ Len(r) > 0
        /\ Len(r) \in 1 .. Len(r) /\ Len(z) \in 1 .. Len(z)
    BY <1>2, <2>2
  <2>a. PICK x \in Seq(LogValues) : x = [r EXCEPT ![Len(r)] = v]
    <3>1. [r EXCEPT ![Len(r)] = v] \in Seq(LogValues)
      BY <2>3, ExceptSeq
    <3>. QED  BY <3>1
  <2>4. /\ Len(x) = Len(r)
        /\ \A j \in 1 .. Len(r) : x[j] = IF j = Len(r) THEN v ELSE r[j]
    BY <2>3, <2>a, ExceptSeq
  <2>b. PICK y \in Seq(LogValues) : y = [z EXCEPT ![Len(z)] = v]
    <3>1. [z EXCEPT ![Len(z)] = v] \in Seq(LogValues)
      BY <2>1, <2>3, ExceptSeq
    <3>. QED  BY <3>1
  <2>5. /\ Len(y) = Len(z)
        /\ \A j \in 1 .. Len(z) : y[j] = IF j = Len(z) THEN v ELSE z[j]
    <3>1. z \in Seq(LogValues)
      BY <2>1
    <3>. QED  BY ONLY <2>3, <2>b, <3>1, v \in LogValues, ExceptSeq
  <2>c. PICK w \in Seq(LogValues) : w = p \o x
    <3>1. p \o x \in Seq(LogValues)
      BY <2>a
    <3>. QED  BY <3>1
  <2>6. /\ Len(w) = Len(p) + Len(x)
        /\ \A i \in 1 .. Len(p) : w[i] = p[i]
        /\ \A i \in 1 .. Len(x) : w[Len(p) + i] = x[i]
    BY <2>a, <2>c, ConcatProperties
  <2>7. \A i \in 1 .. Len(z) : w[i] = y[i]
    <3>. SUFFICES ASSUME NEW i \in 1 .. Len(z) PROVE w[i] = y[i]
      OBVIOUS
    <3>1. CASE i <= Len(p)
      <4>1. i \in 1 .. Len(p) /\ i # Len(z)
        BY <2>2, <2>3, <3>1
      <4>. QED  BY <2>2, <2>5, <2>6, <4>1
    <3>2. CASE ~(i <= Len(p))
      <4>1. PICK j \in 1 .. Len(r) : i = Len(p) + j
        <5>1. i - Len(p) \in 1 .. Len(r) /\ i = Len(p) + (i - Len(p))
          BY <2>2, <2>3, <3>2
        <5>. QED  BY <5>1
      <4>2. w[i] = x[j] /\ z[i] = r[j]
        BY <2>2, <2>4, <2>6, <4>1
      <4>3. i = Len(z) <=> j = Len(r)
        <5>1. Len(z) = Len(p) + Len(r) /\ Len(p) \in Nat /\ Len(r) \in Nat /\ j \in Nat
          BY <2>2, <2>3
        <5>. QED  BY ONLY <4>1, <5>1
      <4>. QED  BY <2>4, <2>5, <4>1, <4>2, <4>3
    <3>. QED  BY <3>1, <3>2
  <2>8. Len(w) = Len(y) /\ Len(w) = Len(z)
    BY <2>2, <2>4, <2>5, <2>6
  <2>9. w = y
    BY <2>b, <2>c, <2>7, <2>8, SeqEqual
  <2>10. z # <<>>
    BY <2>2, <2>3
  <2>. QED  BY <2>1, <2>a, <2>b, <2>c, <2>9, <2>10
<1>. QED  BY <1>1, <1>2

\* The value a callback was entered with and has not read, and those in the ring.
OnTheWayTo(c) == IF tpc = "callback" /\ tev = c THEN <<tlog>> ELSE <<>>

LEMMA WaitingFacts ==
  ASSUME TypeOK, NEW c \in Subs
  PROVE  /\ OnTheWayTo(c) \in Seq(LogValues) /\ InRing(c) \in Seq(LogValues)
         /\ user_sub[c] => Waiting(c) = OnTheWayTo(c) \o InRing(c)
         /\ ~user_sub[c] => Waiting(c) = OnTheWayTo(c)
         /\ Waiting(c) \in Seq(LogValues)
<1>1. PICK q \in Queues : q = ev_que[c]
  BY DEF TypeOK, SubTypeOK
<1>2. PICK g \in Slots : g = getix[q]
  BY DEF TypeOK, QueTypeOK
<1>3. InRing(c) \in Seq(LogValues)
  BY <1>1, <1>2, RingFacts
<1>4. tlog \in LogValues
  BY DEF TypeOK, TaskTypeOK, LogValues
<1>5. OnTheWayTo(c) \in Seq(LogValues)
  BY <1>4 DEF OnTheWayTo
<1>6. user_sub[c] => Waiting(c) = OnTheWayTo(c) \o InRing(c)
  BY DEF Waiting, OnTheWayTo
<1>7. ~user_sub[c] => Waiting(c) = OnTheWayTo(c)
  <2>1. PICK z \in Seq(LogValues) : z = OnTheWayTo(c)
    BY <1>5
  <2>2. z \o <<>> = z
    BY ConcatEmptySeq
  <2>. QED  BY <2>1, <2>2 DEF Waiting, OnTheWayTo
<1>8. Waiting(c) \in Seq(LogValues)
  <2>1. \A x, y \in Seq(LogValues) : x \o y \in Seq(LogValues)
    OBVIOUS
  <2>. QED  BY <1>3, <1>5, <1>6, <1>7, <2>1
<1>. QED  BY <1>3, <1>5, <1>6, <1>7, <1>8

\* The places of db_cancel_event where a subscription is closing.
Waits(u) == pc[u] \in {"wait", "recheck"}
WaitsFor(u, c) == arg[u] = c /\ Waits(u)

\* A subscription none of whose parts a step changes.
LEMMA SeenSame ==
  ASSUME NEW c \in Subs, user_sub'[c] = user_sub[c], got'[c] = got[c],
         user_sub[c] => InRing(c)' = InRing(c), OnTheWayTo(c)' = OnTheWayTo(c),
         \A u \in Threads : WaitsFor(u, c)' <=> WaitsFor(u, c)
  PROVE  Seen(c)' = Seen(c)
<1>1. Status(c)' = Status(c)
  BY DEF Status, WaitsFor, Waits
<1>2. Waiting(c)' = Waiting(c)
  BY DEF Waiting, OnTheWayTo
<1>. QED  BY <1>1, <1>2 DEF Seen

\* A step that touches no slot, no callback and no cancel.
LEMMA MonitorQuiet ==
  ASSUME TypeOK, TypeOK', UNCHANGED <<evque, valque, getix, ev_que, user_sub, got>>,
         \A c \in Subs : OnTheWayTo(c)' = OnTheWayTo(c),
         \A u \in Threads : (Waits(u)' <=> Waits(u)) /\ (Waits(u) => arg'[u] = arg[u])
  PROVE  UNCHANGED Monitor!mvars
<1>. SUFFICES ASSUME NEW c \in Subs PROVE Seen(c)' = Seen(c)
  BY MonitorStutter
<1>1. InRing(c)' = InRing(c)
  BY DEF InRing, Entries, Ages, Age
<1>2. \A u \in Threads : WaitsFor(u, c)' <=> WaitsFor(u, c)
  BY DEF WaitsFor
<1>. QED  BY <1>1, <1>2, SeenSame

\* Posting a value to an open subscription.
LEMMA MonitorQueue ==
  ASSUME TypeOK, TypeOK', RingIntact, LifeInv, PendOK, NEW s \in Subs, NEW v \in Logs,
         user_sub[s], ~SlotTaken(s), QueueLog(s, v), UNCHANGED <<tpc, tev, tlog>>,
         \A u \in Threads : (Waits(u)' <=> Waits(u)) /\ (Waits(u) => arg'[u] = arg[u])
  PROVE  [Monitor!Next]_(Monitor!mvars)
<1>1. /\ \A c \in Subs \ {s} : InRing(c)' = InRing(c)
      /\ \/ InRing(s)' = Append(InRing(s), v)
         \/ /\ InRing(s) # <<>>
            /\ InRing(s)' = [InRing(s) EXCEPT ![Len(InRing(s))] = v]
  BY InRingQueue
<1>2. UNCHANGED <<user_sub, got>>
  BY DEF QueueLog
<1>3. \A c \in Subs : OnTheWayTo(c)' = OnTheWayTo(c)
  BY DEF OnTheWayTo
<1>4. \A c \in Subs, u \in Threads : WaitsFor(u, c)' <=> WaitsFor(u, c)
  BY DEF WaitsFor
<1>5. \A c \in Subs \ {s} : Seen(c)' = Seen(c)
  BY <1>1, <1>2, <1>3, <1>4, SeenSame
<1>6. Status(s) = "open" /\ Status(s)' = "open" /\ got'[s] = got[s]
  BY <1>2 DEF Status
<1>7. v \in LogValues
  BY DEF LogValues
<1>8. PICK p \in Seq(LogValues) : p = OnTheWayTo(s)
  BY WaitingFacts
<1>9. PICK r \in Seq(LogValues) : r = InRing(s)
  BY WaitingFacts
<1>10. Waiting(s) = p \o r
  BY <1>8, <1>9, WaitingFacts
<1>11. Waiting(s)' = p \o InRing(s)'
  BY <1>2, <1>3, <1>8 DEF Waiting, OnTheWayTo
<1>12. /\ p \o Append(r, v) = Append(p \o r, v)
       /\ r # <<>> => /\ p \o r # <<>>
                      /\ p \o [r EXCEPT ![Len(r)] = v] = [p \o r EXCEPT ![Len(p \o r)] = v]
  BY <1>7, ConcatLast
<1>13. \/ Waiting(s)' = Append(Waiting(s), v)
       \/ /\ Waiting(s) # <<>>
          /\ Waiting(s)' = [Waiting(s) EXCEPT ![Len(Waiting(s))] = v]
  <2>1. CASE InRing(s)' = Append(InRing(s), v)
    BY <1>9, <1>10, <1>11, <1>12, <2>1
  <2>2. CASE InRing(s) # <<>> /\ InRing(s)' = [InRing(s) EXCEPT ![Len(InRing(s))] = v]
    BY <1>9, <1>10, <1>11, <1>12, <2>2
  <2>. QED  BY <1>1, <2>1, <2>2
<1>14. Promised(s)
  BY <1>6, <1>13 DEF Promised, Seen
<1>. QED  BY <1>5, <1>14, MonitorStep

\* event_read passes a placeholder.
LEMMA MonitorSkip ==
  ASSUME TypeOK, TypeOK', TaskSkip
  PROVE  UNCHANGED Monitor!mvars
<1>. SUFFICES ASSUME NEW c \in Subs PROVE Seen(c)' = Seen(c)
  BY MonitorStutter
<1>1. PICK q \in Queues : q = tq
  BY DEF TypeOK, TaskTypeOK
<1>2. PICK g \in Slots : g = getix[q]
  BY DEF TypeOK, QueTypeOK
<1>3. /\ evque[q][g] = canceledEvent
      /\ evque' = [evque EXCEPT ![q][g] = EVENTQEMPTY]
      /\ valque' = [valque EXCEPT ![q][g] = NoLog]
      /\ getix' = [getix EXCEPT ![q] = RNGINC(@)]
      /\ UNCHANGED <<tpc, tev, tlog, user_sub, ev_que, got, pc, arg>>
  BY <1>1, <1>2 DEF TaskSkip, HeadEntry, taskVars, subVars, logVars, thrVars
<1>4. \A k \in Queues, i \in Slots :
        /\ evque'[k][i] = IF k = q /\ i = g THEN EVENTQEMPTY ELSE evque[k][i]
        /\ valque'[k][i] = IF k = q /\ i = g THEN NoLog ELSE valque[k][i]
  <2>1. QueTypeOK
    BY DEF TypeOK
  <2>. QED  BY <1>3, <2>1 DEF QueTypeOK
<1>5. \A k \in Queues : getix'[k] = IF k = q THEN RNGINC(getix[k]) ELSE getix[k]
  BY <1>3 DEF TypeOK, QueTypeOK
<1>6. PICK k \in Queues : k = ev_que[c] /\ k = ev_que'[c]
  BY <1>3 DEF TypeOK, SubTypeOK
<1>7. \A i \in Slots : /\ evque'[k][i] = c <=> evque[k][i] = c
                       /\ evque[k][i] = c => valque'[k][i] = valque[k][i]
  BY <1>3, <1>4
<1>8. getix'[k] = getix[k] \/ (getix'[k] = RNGINC(getix[k]) /\ evque[k][getix[k]] # c)
  BY <1>2, <1>3, <1>5
<1>9. InRing(c)' = InRing(c)
  BY <1>6, <1>7, <1>8, InRingKept
<1>10. OnTheWayTo(c)' = OnTheWayTo(c) /\ \A u \in Threads : WaitsFor(u, c)' <=> WaitsFor(u, c)
  BY <1>3 DEF OnTheWayTo, WaitsFor, Waits
<1>. QED  BY <1>3, <1>9, <1>10, SeenSame

\* A value that event_read takes out of the ring still waits, for its callback.
LEMMA MonitorTake ==
  ASSUME TypeOK, TypeOK', LifeInv, TaskTake
  PROVE  UNCHANGED Monitor!mvars
<1>1. PICK s \in Subs : s = HeadEntry
  BY DEF TaskTake
<1>2. /\ \A c \in Subs \ {s} : InRing(c)' = InRing(c)
      /\ user_sub[s] /\ InRing(s) # <<>> /\ InRing(s) \in Seq(LogValues)
      /\ tpc = "loop" /\ tpc' = "callback" /\ tev' = s /\ tlog' = Head(InRing(s))
      /\ InRing(s)' = Tail(InRing(s))
  BY <1>1, InRingTake
<1>3. UNCHANGED <<user_sub, got, pc, arg>>
  BY DEF TaskTake, logVars, thrVars
<1>4. \A c \in Subs, u \in Threads : WaitsFor(u, c)' <=> WaitsFor(u, c)
  BY <1>3 DEF WaitsFor, Waits
<1>5. \A c \in Subs \ {s} : Seen(c)' = Seen(c)
  BY <1>2, <1>3, <1>4, SeenSame DEF OnTheWayTo
<1>6. Seen(s)' = Seen(s)
  <2>1. PICK r \in Seq(LogValues) : r = InRing(s)
    BY <1>2
  <2>2. r = <<Head(r)>> \o Tail(r) /\ r = <<>> \o r
    BY <1>2, <2>1
  <2>3. Waiting(s) = <<>> \o r /\ Waiting(s)' = <<Head(r)>> \o Tail(r)
    BY <1>2, <1>3, <2>1 DEF Waiting
  <2>4. Status(s)' = Status(s)
    BY <1>3 DEF Status
  <2>. QED  BY <1>3, <2>2, <2>3, <2>4 DEF Seen
<1>. QED  BY <1>5, <1>6, MonitorStutter

\* The callback gives the first value that waits to the subscriber.
LEMMA MonitorCallback ==
  ASSUME TypeOK, TypeOK', LifeInv, RefRecs = {}, TaskCallback
  PROVE  [Monitor!Next]_(Monitor!mvars)
<1>1. PICK s \in Subs : s = tev
  BY DEF TaskCallback, LifeInv, CallbackOK
<1>2. /\ tpc = "callback" /\ tpc' = "called" /\ got' = [got EXCEPT ![s] = tlog]
      /\ UNCHANGED <<tev, tlog, evque, valque, getix, user_sub, ev_que, pc, arg>>
  BY <1>1 DEF TaskCallback, queVars, subVars, thrVars
<1>3. \A c \in Subs : got'[c] = IF c = s THEN tlog ELSE got[c]
  BY <1>2 DEF TypeOK, LogTypeOK
<1>4. \A c \in Subs : InRing(c)' = InRing(c)
  BY <1>2 DEF InRing, Entries, Ages, Age
<1>5. \A c \in Subs : Status(c)' = Status(c)
  BY <1>2 DEF Status
<1>6. \A c \in Subs, u \in Threads : WaitsFor(u, c)' <=> WaitsFor(u, c)
  BY <1>2 DEF WaitsFor, Waits
<1>7. \A c \in Subs \ {s} : Seen(c)' = Seen(c)
  BY <1>1, <1>2, <1>3, <1>4, <1>6, SeenSame DEF OnTheWayTo
<1>8. PICK r \in Seq(LogValues) : r = IF user_sub[s] THEN InRing(s) ELSE <<>>
  <2>1. InRing(s) \in Seq(LogValues) /\ <<>> \in Seq(LogValues)
    BY WaitingFacts
  <2>. QED  BY <2>1
<1>9. PICK x \in LogValues : x = tlog
  BY DEF TypeOK, TaskTypeOK, LogValues
<1>10. Waiting(s) = <<x>> \o r /\ Waiting(s)' = <<>> \o r
  BY <1>1, <1>2, <1>4, <1>8, <1>9 DEF Waiting
<1>11. <<x>> \o r # <<>> /\ Head(<<x>> \o r) = x /\ Tail(<<x>> \o r) = r /\ <<>> \o r = r
  BY <1>8, <1>9
<1>12. Promised(s)
  BY <1>3, <1>5, <1>9, <1>10, <1>11 DEF Promised, Seen
<1>. QED  BY <1>7, <1>12, MonitorStep

\* db_add_event finds a queue: the subscription is open, and nothing waits for it.
LEMMA MonitorAddWalk ==
  ASSUME TypeOK, TypeOK', LifeInv, NEW t \in Threads, AddWalk(t)
  PROVE  [Monitor!Next]_(Monitor!mvars)
<1>1. PICK s \in Subs : s = arg[t]
  BY DEF AddWalk, TypeOK, CtlTypeOK
<1>2. /\ pc[t] = "walk" /\ UNCHANGED <<evque, valque, getix, got, tpc, tev, tlog>>
      /\ ~user_sub[s] /\ ~callBackInProgress[s]
  BY <1>1 DEF AddWalk, LifeInv, HeldOK, taskVars, logVars
<1>3. \A c \in Subs : OnTheWayTo(c)' = OnTheWayTo(c)
  BY <1>2 DEF OnTheWayTo
<1>4. CASE UNCHANGED <<user_sub, ev_que>> /\ (UNCHANGED <<pc, arg>> \/ Return(t))
  <2>1. \A u \in Threads : (Waits(u)' <=> Waits(u)) /\ (Waits(u) => arg'[u] = arg[u])
    BY <1>2, <1>4, OthersStay DEF Waits
  <2>. QED  BY <1>2, <1>3, <1>4, <2>1, MonitorQuiet
<1>5. CASE \E q \in Queues : /\ user_sub' = [user_sub EXCEPT ![s] = TRUE]
                             /\ ev_que' = [ev_que EXCEPT ![s] = q] /\ Goto(t, "post")
  <2>1. PICK q \in Queues : /\ user_sub' = [user_sub EXCEPT ![s] = TRUE]
                            /\ ev_que' = [ev_que EXCEPT ![s] = q] /\ Goto(t, "post")
    BY <1>5
  <2>2. /\ user_sub'[s] /\ ev_que'[s] = q
        /\ \A c \in Subs \ {s} : user_sub'[c] = user_sub[c] /\ ev_que'[c] = ev_que[c]
    BY <2>1 DEF TypeOK, SubTypeOK
  <2>3. /\ \A u \in Threads \ {t} : pc'[u] = pc[u] /\ arg'[u] = arg[u]
        /\ arg' = arg /\ pc'[t] = "post"
    BY <2>1, OthersStay DEF Goto
  <2>4. \A c \in Subs, u \in Threads : WaitsFor(u, c)' <=> WaitsFor(u, c)
    BY <1>2, <2>3 DEF WaitsFor, Waits
  <2>5. \A c \in Subs \ {s} : InRing(c)' = InRing(c)
    BY <1>2, <2>2 DEF InRing, Entries, Ages, Age
  <2>6. \A c \in Subs \ {s} : Seen(c)' = Seen(c)
    BY <1>2, <1>3, <2>2, <2>4, <2>5, SeenSame
  <2>7. Status(s) = "free" /\ Status(s)' = "open"
    <3>1. \A u \in Threads : ~WaitsFor(u, s)
      BY <1>1, <1>2 DEF WaitsFor, Waits, LifeInv, ExclusiveOK, Shares, TypeOK, CtlTypeOK
    <3>. QED  BY <1>2, <2>2, <3>1 DEF Status, WaitsFor, Waits
  <2>8. InRing(s)' = <<>>
    <3>1. Entries(q, s)' = {}
      BY <1>2 DEF Entries, LifeInv, SlotsOK
    <3>2. InRing(s)' = Listed({}, Ages(q)', valque'[q])
      BY <2>2, <3>1 DEF InRing
    <3>3. Cardinality({}) = 0
      BY FS_EmptySet
    <3>. QED  BY <3>2, <3>3 DEF Listed
  <2>9. Waiting(s)' = Waiting(s)
    BY <1>2, <1>3, <2>2, <2>8 DEF Waiting, OnTheWayTo
  <2>10. Promised(s)
    BY <1>2, <2>7, <2>9 DEF Promised, Seen
  <2>. QED  BY <2>6, <2>10, MonitorStep
<1>6. walk[t] \in Queues
  BY DEF TypeOK, ThrTypeOK
<1>. QED  BY <1>1, <1>4, <1>5, <1>6 DEF AddWalk

\* db_cancel_event: what waits in the ring is dropped; only the value of a
\* callback that another thread has entered is still on its way.
LEMMA MonitorPurge ==
  ASSUME TypeOK, TypeOK', RingIntact, LifeInv, NEW t \in Threads, CancelPurge(t)
  PROVE  [Monitor!Next]_(Monitor!mvars)
<1>1. PICK s \in Subs : s = arg[t]
  BY DEF CancelPurge, TypeOK, CtlTypeOK
<1>2. PICK q \in Queues : q = ev_que[s]
  BY DEF TypeOK, SubTypeOK
<1>3. /\ user_sub[s]
      /\ \A k \in Queues, i \in Slots :
           /\ evque'[k][i] = IF evque[k][i] = s THEN canceledEvent ELSE evque[k][i]
           /\ evque[k][i] # s => valque'[k][i] = valque[k][i]
  BY <1>1, <1>2, PurgeHits
<1>4. /\ pc[t] = "purge" /\ user_sub' = [user_sub EXCEPT ![s] = FALSE]
      /\ UNCHANGED <<getix, ev_que, tpc, tev, tlog>>
  BY <1>1 DEF CancelPurge, taskVars
<1>5. ~user_sub'[s] /\ \A c \in Subs \ {s} : user_sub'[c] = user_sub[c]
  BY <1>4 DEF TypeOK, SubTypeOK
<1>6. \A c \in Subs \ {s} : InRing(c)' = InRing(c)
  <2>. SUFFICES ASSUME NEW c \in Subs \ {s} PROVE InRing(c)' = InRing(c)
    OBVIOUS
  <2>1. PICK k \in Queues : k = ev_que[c] /\ k = ev_que'[c] /\ getix'[k] = getix[k]
    BY <1>4 DEF TypeOK, SubTypeOK
  <2>2. \A i \in Slots : /\ evque'[k][i] = c <=> evque[k][i] = c
                         /\ evque[k][i] = c => valque'[k][i] = valque[k][i]
    BY <1>3
  <2>. QED  BY <2>1, <2>2, InRingKept
<1>7. \A u \in Threads \ {t} : arg[u] # s
  BY <1>1, <1>4 DEF LifeInv, ExclusiveOK, Shares, TypeOK, CtlTypeOK
<1>8. /\ \A u \in Threads \ {t} : pc'[u] = pc[u] /\ arg'[u] = arg[u]
      /\ pc'[t] \in {"wait", "idle", "sweep"}
  <2>1. CASE Goto(t, "wait")
    BY <2>1, OthersStay
  <2>2. CASE Release(t, s)
    BY <2>2 DEF Release, Return, TypeOK, ThrTypeOK
  <2>. QED  BY <1>1, <2>1, <2>2 DEF CancelPurge
<1>9. \A c \in Subs \ {s} : \A u \in Threads : WaitsFor(u, c)' <=> WaitsFor(u, c)
  <2>1. arg'[t] \in {s, EVENTQEMPTY}
    BY <1>1 DEF CancelPurge, Goto, Release, Return, TypeOK, ThrTypeOK
  <2>. QED  BY <1>1, <1>8, <2>1 DEF WaitsFor, Waits
<1>10. \A c \in Subs : OnTheWayTo(c)' = OnTheWayTo(c)
  BY <1>4 DEF OnTheWayTo
<1>11. Status(s) = "open"
  BY <1>3 DEF Status
<1>12. CASE Release(t, s) /\ ~(tpc = "callback" /\ tev = s)
  <2>1. /\ \A c \in Subs : got'[c] = IF c = s THEN NoLog ELSE got[c]
        /\ arg'[t] = EVENTQEMPTY
    BY <1>12 DEF Release, Return, TypeOK, LogTypeOK, ThrTypeOK
  <2>2. \A c \in Subs \ {s} : Seen(c)' = Seen(c)
    BY <1>5, <1>6, <1>9, <1>10, <2>1, SeenSame
  <2>3. Status(s)' = "free"
    BY <1>5, <1>7, <1>8, <2>1 DEF Status
  <2>4. Waiting(s)' = <<>>
    BY <1>4, <1>5, <1>12, WaitingFacts DEF Waiting
  <2>5. Promised(s)
    BY <1>11, <2>1, <2>3, <2>4 DEF Promised, Seen
  <2>. QED  BY <2>2, <2>5, MonitorStep
<1>13. CASE Goto(t, "wait") /\ UNCHANGED got
  <2>1. arg'[t] = s /\ pc'[t] = "wait"
    BY <1>1, <1>13, OthersStay DEF Goto
  <2>2. \A c \in Subs \ {s} : Seen(c)' = Seen(c)
    BY <1>5, <1>6, <1>9, <1>10, <1>13, SeenSame
  <2>3. Status(s)' = "closing"
    BY <1>5, <2>1 DEF Status
  <2>4. PICK p \in Seq(LogValues) : p = OnTheWayTo(s)
    BY WaitingFacts
  <2>5. PICK r \in Seq(LogValues) : r = InRing(s)
    BY WaitingFacts
  <2>6. Waiting(s) = p \o r
    BY <1>3, <2>4, <2>5, WaitingFacts
  <2>7. Waiting(s)' = p
    <3>1. Waiting(s)' = p \o <<>>
      BY <1>5, <1>10, <2>4 DEF Waiting, OnTheWayTo
    <3>. QED  BY <2>4, <3>1, ConcatEmptySeq
  <2>8. Len(p) \in {0, 1}
    BY <2>4 DEF OnTheWayTo
  <2>9. p = SubSeq(p \o r, 1, Len(p)) /\ Len(p) <= Len(p \o r)
    <3>1. PICK z \in Seq(LogValues) : z = p \o r
      <4>1. p \o r \in Seq(LogValues)
        BY <2>4, <2>5
      <4>. QED  BY <4>1
    <3>2. Len(z) = Len(p) + Len(r) /\ \A i \in 1 .. Len(p) : z[i] = p[i]
      BY <2>4, <2>5, <3>1, ConcatProperties
    <3>3. Len(p) <= Len(z) /\ Len(p) \in Nat
      BY <2>4, <2>5, <3>2
    <3>4. /\ SubSeq(z, 1, Len(p)) \in Seq(LogValues) /\ Len(SubSeq(z, 1, Len(p))) = Len(p)
          /\ \A i \in 1 .. Len(p) : SubSeq(z, 1, Len(p))[i] = z[i]
      BY <2>4, <3>1, <3>3
    <3>5. p = SubSeq(z, 1, Len(p))
      BY <2>4, <3>2, <3>4, SeqEqual
    <3>. QED  BY <3>1, <3>3, <3>5
  <2>10. Promised(s)
    <3>1. PICK k \in {0, 1} : k = Len(p)
      BY <2>8
    <3>. QED  BY <1>11, <1>13, <2>3, <2>6, <2>7, <2>9, <3>1 DEF Promised, Seen
  <2>. QED  BY <2>2, <2>10, MonitorStep
<1>14. Release(t, s) => ~(tpc = "callback" /\ tev = s)
  BY <1>1, <1>4 DEF CancelPurge, LifeInv, CallbackOK, Goto, Release, Return, TypeOK, CtlTypeOK,
                    ThrTypeOK
<1>. QED  BY <1>1, <1>12, <1>13, <1>14 DEF CancelPurge

\* A cancel that waited for the callback gives back the cell: nothing waits any more.
LEMMA MonitorRecheck ==
  ASSUME TypeOK, TypeOK', LifeInv, NEW t \in Threads, CancelRecheck(t)
  PROVE  [Monitor!Next]_(Monitor!mvars)
<1>1. PICK s \in Subs : s = arg[t]
  BY DEF CancelRecheck, TypeOK, CtlTypeOK
<1>2. /\ pc[t] = "recheck" /\ ~user_sub[s]
      /\ UNCHANGED <<evque, valque, getix, user_sub, ev_que, tpc, tev, tlog>>
  BY <1>1 DEF CancelRecheck, LifeInv, HeldOK, taskVars
<1>3. \A c \in Subs : OnTheWayTo(c)' = OnTheWayTo(c) /\ InRing(c)' = InRing(c)
  BY <1>2 DEF OnTheWayTo, InRing, Entries, Ages, Age
<1>4. CASE Goto(t, "wait") /\ UNCHANGED got
  <2>1. \A u \in Threads : (Waits(u)' <=> Waits(u)) /\ (Waits(u) => arg'[u] = arg[u])
    BY <1>2, <1>4, OthersStay DEF Waits, Goto
  <2>. QED  BY <1>2, <1>3, <1>4, <2>1, MonitorQuiet
<1>5. CASE Release(t, s) /\ ~callBackInProgress[s]
  <2>1. /\ \A c \in Subs : got'[c] = IF c = s THEN NoLog ELSE got[c]
        /\ arg'[t] = EVENTQEMPTY
        /\ \A u \in Threads \ {t} : pc'[u] = pc[u] /\ arg'[u] = arg[u]
    BY <1>5 DEF Release, Return, TypeOK, LogTypeOK, ThrTypeOK
  <2>2. \A u \in Threads \ {t} : arg[u] # s
    BY <1>1, <1>2 DEF LifeInv, ExclusiveOK, Shares, TypeOK, CtlTypeOK
  <2>3. \A c \in Subs \ {s} : \A u \in Threads : WaitsFor(u, c)' <=> WaitsFor(u, c)
    BY <1>1, <2>1 DEF WaitsFor, Waits
  <2>4. \A c \in Subs \ {s} : Seen(c)' = Seen(c)
    BY <1>2, <1>3, <2>1, <2>3, SeenSame
  <2>5. Status(s) = "closing" /\ Status(s)' = "free"
    BY <1>1, <1>2, <2>1, <2>2 DEF Status
  <2>6. Waiting(s) = <<>> /\ Waiting(s)' = <<>>
    <3>1. ~(tpc = "callback" /\ tev = s)
      BY <1>5 DEF LifeInv, CallbackOK
    <3>. QED  BY <1>2, <3>1 DEF Waiting
  <2>7. Promised(s)
    BY <2>1, <2>5, <2>6 DEF Promised, Seen
  <2>. QED  BY <2>4, <2>7, MonitorStep
<1>. QED  BY <1>1, <1>4, <1>5 DEF CancelRecheck

\* A record that posts.
LEMMA MonitorPost ==
  ASSUME TypeOK, TypeOK', RingIntact, LifeInv, PendOK, NEW r \in Recs,
         PostBegin(r) \/ PostStep(r)
  PROVE  [Monitor!Next]_(Monitor!mvars)
<1>1. UNCHANGED <<pc, arg, tpc, tev, tlog>>
  BY DEF PostBegin, PostStep, PostNext, PostSignal, thrVars, taskVars
<1>2. \A u \in Threads : (Waits(u)' <=> Waits(u)) /\ (Waits(u) => arg'[u] = arg[u])
  BY <1>1 DEF Waits
<1>3. CASE UNCHANGED <<evque, valque, getix, ev_que, user_sub, got>>
  BY <1>1, <1>2, <1>3, MonitorQuiet DEF OnTheWayTo
<1>4. CASE \E s \in todo[r] : ~SlotTaken(s) /\ QueueLog(s, val[r])
  <2>1. PICK s \in todo[r] : ~SlotTaken(s) /\ QueueLog(s, val[r])
    BY <1>4
  <2>2. s \in Subs /\ val[r] \in Logs
    BY DEF TypeOK, RecTypeOK
  <2>3. user_sub[s]
    BY <2>2 DEF LifeInv, ListsOK, CellsOK
  <2>. QED  BY <1>1, <1>2, <2>1, <2>2, <2>3, MonitorQueue
<1>. QED  BY <1>3, <1>4 DEF PostBegin, PostStep, PostNext, PostSignal, queVars, subVars, logVars

\* A thread that posts for a subscription (db_post_single_event).
LEMMA MonitorPostSingle ==
  ASSUME TypeOK, TypeOK', RingIntact, LifeInv, PendOK, NEW t \in Threads, PostSingle(t)
  PROVE  [Monitor!Next]_(Monitor!mvars)
<1>1. PICK s \in Subs : s = arg[t]
  BY DEF PostSingle, TypeOK, CtlTypeOK
<1>2. pc[t] = "post" /\ user_sub[s] /\ UNCHANGED <<tpc, tev, tlog>>
  BY <1>1 DEF PostSingle, LifeInv, HeldOK, taskVars, TypeOK, CtlTypeOK
<1>3. /\ \A u \in Threads \ {t} : pc'[u] = pc[u] /\ arg'[u] = arg[u]
      /\ pc'[t] \in {"suspended", "signal", "enable", "disable", "idle"}
  <2>1. \E p \in {"suspended", "signal", "enable", "disable"} : Goto(t, p) \/ Return(t)
    BY DEF PostSingle, AfterPost
  <2>. QED  BY <2>1, OthersStay
<1>4. \A u \in Threads : (Waits(u)' <=> Waits(u)) /\ (Waits(u) => arg'[u] = arg[u])
  BY <1>2, <1>3 DEF Waits
<1>5. CASE UNCHANGED <<queVars, subVars, logVars>>
  BY <1>2, <1>4, <1>5, MonitorQuiet DEF OnTheWayTo, queVars, subVars, logVars
<1>6. CASE ~SlotTaken(s) /\ QueueLog(s, val[chan[s]])
  <2>1. val[chan[s]] \in Logs
    BY DEF TypeOK, RecTypeOK, SubTypeOK
  <2>. QED  BY <1>2, <1>4, <1>6, <2>1, MonitorQueue
<1>. QED  BY <1>1, <1>5, <1>6 DEF PostSingle

\* The steps of a thread in which no subscription does anything.
LEMMA MonitorThread ==
  ASSUME TypeOK, TypeOK', NEW t \in Threads,
         Signal(t) \/ Enable(t) \/ Disable(t) \/ CancelWait(t) \/ CloseFlush(t)
           \/ CloseSweep(t) \/ CloseExit(t) \/ CloseJoin(t)
  PROVE  UNCHANGED Monitor!mvars
<1>1. UNCHANGED <<evque, valque, getix, ev_que, user_sub, got, tpc, tev, tlog>>
  BY DEF Signal, Enable, Disable, CancelWait, CloseFlush, CloseSweep, CloseExit, CloseJoin,
         queVars, subVars, taskVars, logVars
<1>2. \A c \in Subs : OnTheWayTo(c)' = OnTheWayTo(c)
  BY <1>1 DEF OnTheWayTo
<1>3. CASE CancelWait(t)
  <2>1. pc[t] = "wait" /\ pc'[t] = "recheck" /\ UNCHANGED arg
    BY <1>3, OthersStay DEF CancelWait, Goto
  <2>2. \A u \in Threads \ {t} : pc'[u] = pc[u]
    BY <1>3, OthersStay DEF CancelWait
  <2>3. \A u \in Threads : (Waits(u)' <=> Waits(u)) /\ (Waits(u) => arg'[u] = arg[u])
    BY <2>1, <2>2 DEF Waits
  <2>. QED  BY <1>1, <1>2, <2>3, MonitorQuiet
<1>4. CASE CloseSweep(t)
  <2>1. /\ pc[t] = "sweep" /\ pc'[t] = "disable"
        /\ \A u \in Threads \ {t} : pc'[u] = pc[u] /\ arg'[u] = arg[u]
    BY <1>4 DEF CloseSweep, TypeOK, ThrTypeOK
  <2>2. \A u \in Threads : (Waits(u)' <=> Waits(u)) /\ (Waits(u) => arg'[u] = arg[u])
    BY <2>1 DEF Waits
  <2>. QED  BY <1>1, <1>2, <2>2, MonitorQuiet
<1>5. CASE Signal(t) \/ Enable(t) \/ Disable(t) \/ CloseFlush(t) \/ CloseExit(t) \/ CloseJoin(t)
  <2>1. /\ pc[t] \in {"signal", "enable", "disable", "flush", "sweep", "join"}
        /\ \E p \in {"enable", "disable", "join", "post", "purge", "sweep", "signal", "closed"} :
             Goto(t, p) \/ Return(t)
    BY <1>5 DEF Signal, AfterPost, Enable, Disable, CloseFlush, CloseExit, CloseJoin
  <2>2. /\ \A u \in Threads \ {t} : pc'[u] = pc[u] /\ arg'[u] = arg[u]
        /\ pc'[t] \in {"enable", "disable", "join", "post", "purge", "sweep", "signal",
                       "closed", "idle"}
    BY <2>1, OthersStay
  <2>3. \A u \in Threads : (Waits(u)' <=> Waits(u)) /\ (Waits(u) => arg'[u] = arg[u])
    BY <2>1, <2>2 DEF Waits
  <2>. QED  BY <1>1, <1>2, <2>3, MonitorQuiet
<1>. QED  BY <1>3, <1>4, <1>5

\* A call of an operation.
LEMMA MonitorCall ==
  ASSUME TypeOK, TypeOK', NEW t \in Threads, Call(t) \/ (t = Task /\ CallbackCancel)
  PROVE  UNCHANGED Monitor!mvars
<1>1. UNCHANGED <<evque, valque, getix, ev_que, user_sub, got, tpc, tev, tlog>>
  BY DEF Call, AddBegin, Grant, Revoke, ChangeRights, CancelBegin, FlowCtrl, PostLabor,
         CloseBegin, CallbackCancel, queVars, subVars, taskVars, logVars
<1>2. \A c \in Subs : OnTheWayTo(c)' = OnTheWayTo(c)
  BY <1>1 DEF OnTheWayTo
<1>3. \E o, c : \E p \in {"walk", "enable", "post", "disable", "signal", "flush"} :
        Enter(t, o, c, p)
  BY DEF Call, AddBegin, Grant, Revoke, ChangeRights, CancelBegin, FlowCtrl, PostLabor,
         CloseBegin, CallbackCancel
<1>4. /\ pc[t] = "idle" /\ pc'[t] \in {"walk", "enable", "post", "disable", "signal", "flush"}
      /\ \A u \in Threads \ {t} : pc'[u] = pc[u] /\ arg'[u] = arg[u]
  <2>1. PICK p \in {"walk", "enable", "post", "disable", "signal", "flush"} :
          \E o, c : Enter(t, o, c, p)
    BY <1>3
  <2>2. pc[t] = "idle"
    BY <2>1 DEF Enter
  <2>. QED  BY <2>1, <2>2, OthersStay
<1>5. \A u \in Threads : (Waits(u)' <=> Waits(u)) /\ (Waits(u) => arg'[u] = arg[u])
  BY <1>4 DEF Waits
<1>. QED  BY <1>1, <1>2, <1>5, MonitorQuiet

\* The event task.
LEMMA MonitorTask ==
  ASSUME TypeOK, TypeOK', LifeInv, RefRecs = {}, TaskStep
  PROVE  [Monitor!Next]_(Monitor!mvars)
<1>1. CASE \/ TaskWake \/ TaskStart \/ TaskLaborDone \/ TaskRead \/ TaskDrained \/ TaskReturn
           \/ TaskNext
  <2>1. /\ UNCHANGED <<evque, valque, getix, ev_que, user_sub, got, pc, arg>>
        /\ tpc # "callback" /\ tpc' # "callback"
    BY <1>1 DEF TaskWake, TaskStart, TaskLaborDone, TaskRead, TaskDrained, TaskReturn, TaskNext,
                queVars, subVars, thrVars, logVars
  <2>2. \A c \in Subs : OnTheWayTo(c)' = OnTheWayTo(c)
    BY <2>1 DEF OnTheWayTo
  <2>3. \A u \in Threads : (Waits(u)' <=> Waits(u)) /\ (Waits(u) => arg'[u] = arg[u])
    BY <2>1 DEF Waits
  <2>. QED  BY <2>1, <2>2, <2>3, MonitorQuiet
<1>. QED  BY <1>1, MonitorSkip, MonitorTake, MonitorCallback DEF TaskStep

\* Every step is one of Monitor, or a stutter.
LEMMA MonitorNext ==
  ASSUME TypeOK, TypeOK', RingIntact, LifeInv, PendOK, RefRecs = {}, [Next]_vars
  PROVE  [Monitor!Next]_(Monitor!mvars)
<1>1. CASE UNCHANGED vars
  <2>1. /\ UNCHANGED <<evque, valque, getix, ev_que, user_sub, got, pc, arg, tpc, tev, tlog>>
    BY <1>1 DEF vars, queVars, subVars, thrVars, taskVars, logVars
  <2>2. \A u \in Threads : (Waits(u)' <=> Waits(u)) /\ (Waits(u) => arg'[u] = arg[u])
    BY <2>1 DEF Waits
  <2>. QED  BY <2>1, <2>2, MonitorQuiet DEF OnTheWayTo
<1>2. ASSUME NEW t \in Threads, ThreadStep(t) PROVE [Monitor!Next]_(Monitor!mvars)
  BY <1>2, MonitorAddWalk, MonitorPostSingle, MonitorPurge, MonitorRecheck, MonitorThread
     DEF ThreadStep
<1>3. CASE (\E t \in Clients : Call(t)) \/ CallbackCancel
  BY <1>3, MonitorCall
<1>. QED  BY <1>1, <1>2, <1>3, MonitorPost, MonitorTask DEF Next

\* For channels whose value is copied when it is posted, and callbacks that
\* cancel no subscription but their own, the event facility keeps the promise of
\* a subscription whatever the number of queues, threads and values.
THEOREM ImplementsMonitorHolds ==
  ASSUME CallbackCancels # "any", RefRecs = {}
  PROVE  Spec => ImplementsMonitor
<1>1. ASSUME Init PROVE Monitor!Init
  <2>1. \A c \in Subs : ~user_sub[c] /\ got[c] = NoLog
    BY <1>1 DEF Init
  <2>2. \A t \in Threads : pc[t] = "idle"
    BY <1>1 DEF Init
  <2>3. \A c \in Subs : Status(c) = "free"
    BY <2>1, <2>2 DEF Status
  <2>4. \A c \in Subs : Waiting(c) = <<>>
    BY <1>1, <2>1 DEF Init, Waiting
  <2>. QED  BY <1>1, <2>3, <2>4 DEF Init, Monitor!Init
<1>2. /\ TypeOK /\ TypeOK' /\ RingIntact /\ LifeInv /\ CountInv /\ [Next]_vars
      => [Monitor!Next]_(Monitor!mvars)
  BY MonitorNext DEF CountInv
<1>3. Spec => []TypeOK
  BY TypeCorrect
<1>4. Spec => []RingIntact
  BY RingIntactHolds
<1>5. Spec => []LifeInv
  BY LifeHolds
<1>6. Spec => []CountInv
  BY CountHolds
<1>. QED  BY <1>1, <1>2, <1>3, <1>4, <1>5, <1>6, PTL
          DEF Spec, ImplementsMonitor, Monitor!Spec
============================================================================
