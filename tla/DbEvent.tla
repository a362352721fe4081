------------------------------ MODULE DbEvent ------------------------------
(***************************************************************************)
(* The database event facility (modules/database/src/ioc/db/dbEvent.c) for *)
(* one event user: the per-client ring buffers, the subscriptions          *)
(* (evSubscrip) that share them, the records that post into them, the      *)
(* event task that drains them, and the threads that add, enable, disable  *)
(* and cancel subscriptions, switch flow control, post extra labor and     *)
(* close the event user.                                                   *)
(*                                                                         *)
(* A step is a section of code run under one lock (record lock, writelock  *)
(* or the evUser lock); semaphore operations are steps of their own when   *)
(* the code makes them outside that section.                               *)
(***************************************************************************)
EXTENDS Integers, FiniteSets

CONSTANTS
    Subs,             \* evSubscrip cells of the free list; a cell is reused
    Recs,             \* record fields that are monitored
    RefRecs,          \* those posted by reference (useValque = FALSE)
    Clients,          \* threads that call the API
    Task,             \* the event task, when a callback calls the API
    EVENTQEMPTY,      \* empty slot, and the null evSubscrip pointer
    canceledEvent,    \* placeholder of a canceled entry
    EVENTSPERQUE, EVENTENTRIES,
    NQ,               \* bound: event queues that can be allocated
    MaxVal,           \* bound: times a record's value changes
    Calls,            \* the operations each client calls
    MaxCalls,         \* bound: calls each client makes
    CallbackCancels   \* "own": a callback may cancel its own subscription,
                      \* "any": any subscription, "none": it never cancels

ASSUME SizeAssumption ==
    /\ EVENTSPERQUE \in Nat \ {0} /\ EVENTENTRIES \in Nat \ {0}
    /\ NQ \in Nat \ {0} /\ MaxVal \in Nat
    /\ MaxCalls \in Nat
ASSUME NameAssumption ==
    /\ Recs # {} /\ EVENTQEMPTY \notin Subs /\ canceledEvent \notin Subs
    /\ EVENTQEMPTY # canceledEvent
    /\ Task \notin Clients /\ RefRecs \subseteq Recs
    /\ CallbackCancels \in {"none", "own", "any"}
    /\ Calls \in [Clients -> SUBSET {"add", "grant", "revoke", "cancel", "flow",
                                     "labor", "close"}]

EVENTQUESIZE == EVENTENTRIES * EVENTSPERQUE
Slots   == 0 .. (EVENTQUESIZE - 1)
Queues  == 1 .. NQ
Threads == Clients \cup {Task}
NoLog   == -1                       \* the null db_field_log pointer
NoSlot  == -1                       \* the null pLastLog pointer
Logs    == 0 .. MaxVal              \* a field log is the value it copied
RNGINC(i) == IF i >= EVENTQUESIZE - 1 THEN 0 ELSE i + 1

VARIABLES
    \* struct event_que, by queue
    nque, evque, valque, putix, getix, quota, nDuplicates, nCanceled,
    \* struct evSubscrip, by cell
    inuse, enabled, user_sub, npend, pLastLog, callBackInProgress, chan, ev_que,
    \* struct event_user
    ppendsem, pflush_sem, flowCtrlMode, pSuicideEvent,
    extra_labor, extralabor_sub, extraLaborBusy, pendexit,
    \* the records: value, db_post_events in progress, subscriptions left
    val, ppc, todo,
    \* the API threads: place, operation, its subscription, the queue tried,
    \* calls made (for the bound)
    pc, op, arg, walk, ncalls,
    \* the event task: place, queue, subscription and field log in hand
    tpc, tq, tev, tlog,
    \* observers: the value last queued for a subscription, and last given to it
    last, got

queVars  == <<nque, evque, valque, putix, getix, quota, nDuplicates, nCanceled>>
subVars  == <<inuse, enabled, user_sub, npend, pLastLog, callBackInProgress,
              chan, ev_que>>
semVars  == <<ppendsem, pflush_sem>>
userVars == <<flowCtrlMode, pSuicideEvent, extra_labor, extralabor_sub,
              extraLaborBusy, pendexit>>
recVars  == <<val, ppc, todo>>
thrVars  == <<pc, op, arg, walk, ncalls>>
taskVars == <<tpc, tq, tev, tlog>>
logVars  == <<last, got>>
vars == <<queVars, subVars, semVars, userVars, recVars, thrVars, taskVars, logVars>>

Init ==
    /\ nque = 1
    /\ evque  = [q \in Queues |-> [i \in Slots |-> EVENTQEMPTY]]
    /\ valque = [q \in Queues |-> [i \in Slots |-> NoLog]]
    /\ putix = [q \in Queues |-> 0] /\ getix = [q \in Queues |-> 0]
    /\ quota = [q \in Queues |-> 0]
    /\ nDuplicates = [q \in Queues |-> 0] /\ nCanceled = [q \in Queues |-> 0]
    /\ inuse = [s \in Subs |-> FALSE] /\ enabled = [s \in Subs |-> FALSE]
    /\ user_sub = [s \in Subs |-> FALSE] /\ npend = [s \in Subs |-> 0]
    /\ pLastLog = [s \in Subs |-> NoSlot]
    /\ callBackInProgress = [s \in Subs |-> FALSE]
    /\ chan = [s \in Subs |-> CHOOSE r \in Recs : TRUE]
    /\ ev_que = [s \in Subs |-> 1]
    /\ ppendsem = FALSE /\ pflush_sem = FALSE
    /\ flowCtrlMode = FALSE /\ pSuicideEvent = EVENTQEMPTY
    /\ extra_labor = FALSE /\ extralabor_sub = TRUE /\ extraLaborBusy = FALSE
    /\ pendexit = FALSE
    /\ val = [r \in Recs |-> 0] /\ ppc = [r \in Recs |-> "idle"]
    /\ todo = [r \in Recs |-> {}]
    /\ pc = [t \in Threads |-> "idle"] /\ op = [t \in Threads |-> "none"]
    /\ arg = [t \in Threads |-> EVENTQEMPTY] /\ walk = [t \in Threads |-> 1]
    /\ ncalls = [t \in Clients |-> 0]
    /\ tpc = "pend" /\ tq = 1 /\ tev = EVENTQEMPTY /\ tlog = NoLog
    /\ last = [s \in Subs |-> NoLog] /\ got = [s \in Subs |-> NoLog]
----------------------------------------------------------------------------
(* Locks.  A lock is held across steps only in these places.               *)

\* evUser->lock: db_add_event holds it while it walks the queues
EvUserLocked == \E t \in Threads : pc[t] = "walk"

\* a failed assertion suspends the thread with the locks it holds
SuspendedOn(s) == \/ \E r \in Recs : ppc[r] = "suspended" /\ s \in todo[r]
                  \/ \E t \in Threads : pc[t] = "suspended" /\ arg[t] = s

\* writelock of queue q: event_read holds it from one callback to the next
QueLocked(q) == \/ tpc = "loop" /\ tq = q
                \/ \E s \in Subs : SuspendedOn(s) /\ ev_que[s] = q

\* (mutant: the monitor list is changed without its lock)
RecLocked_Never(r) == FALSE
\* mlok of record r: db_post_events holds it while it walks the monitor list
RecLocked(r) == ppc[r] # "idle"

\* the scan lock: held by the poster and by db_post_single_event
ScanLocked(r) == \/ ppc[r] # "idle"
                 \/ \E t \in Clients :
                        /\ pc[t] \in {"signal", "suspended"}
                        /\ op[t] \in {"add", "grant", "revoke"}
                        /\ chan[arg[t]] = r
----------------------------------------------------------------------------
(* db_queue_event_log                                                      *)

ringSpace(q) ==
    IF evque[q][putix[q]] = EVENTQEMPTY
    THEN IF getix[q] > putix[q] THEN getix[q] - putix[q]
                                ELSE EVENTQUESIZE + getix[q] - putix[q]
    ELSE 0

\* (mutant: replacing only under flow control)
Replaces_FlowOnly(s) == npend[s] > 0 /\ flowCtrlMode
\* the newest entry of s is overwritten instead of a new one queued
Replaces(s) == npend[s] > 0 /\ (flowCtrlMode \/ ringSpace(ev_que[s]) <= EVENTSPERQUE)

\* assert ( ev_que->evque[ev_que->putix] == EVENTQEMPTY )
SlotTaken(s) == ~Replaces(s) /\ evque[ev_que[s]][putix[ev_que[s]]] # EVENTQEMPTY

\* (mutant: the space is looked at after the entry is in)
FirstEvent_Late(s) == ~Replaces(s) /\ ringSpace(ev_que[s]) = EVENTQUESIZE - 1
\* firstEventFlag: the ring was empty, the event task must be notified
FirstEvent(s) == ~Replaces(s) /\ ringSpace(ev_que[s]) = EVENTQUESIZE

\* (mutants: the new value is dropped; the oldest entry is overwritten)
ReplaceLast_Drop(s, v) ==
    last' = [last EXCEPT ![s] = v]
    /\ UNCHANGED <<valque, evque, putix, nDuplicates, npend, pLastLog>>
ReplaceLast_Oldest(s, v) ==
    /\ \E q \in {ev_que[s]} : valque' = [valque EXCEPT ![q][getix[q]] = v]
    /\ last' = [last EXCEPT ![s] = v]
    /\ UNCHANGED <<evque, putix, nDuplicates, npend, pLastLog>>

ReplaceLast(s, v) ==
    /\ valque' = [valque EXCEPT ![ev_que[s]][pLastLog[s]] = v]
    /\ last' = [last EXCEPT ![s] = v]
    /\ UNCHANGED <<evque, putix, nDuplicates, npend, pLastLog>>

AppendEntry(s, v) ==
    LET q == ev_que[s] IN
    /\ evque'  = [evque EXCEPT ![q][putix[q]] = s]
    /\ valque' = [valque EXCEPT ![q][putix[q]] = v]
    /\ pLastLog' = [pLastLog EXCEPT ![s] = putix[q]]
    /\ nDuplicates' = IF npend[s] > 0 THEN [nDuplicates EXCEPT ![q] = @ + 1]
                                      ELSE nDuplicates
    /\ npend' = [npend EXCEPT ![s] = @ + 1]
    /\ putix' = [putix EXCEPT ![q] = RNGINC(@)]
    /\ last' = [last EXCEPT ![s] = v]

QueueLog(s, v) ==
    /\ IF Replaces(s) THEN ReplaceLast(s, v) ELSE AppendEntry(s, v)
    /\ UNCHANGED <<nque, getix, quota, nCanceled, inuse, enabled, user_sub,
                   callBackInProgress, chan, ev_que, got>>
----------------------------------------------------------------------------
(* A record posts (db_post_events), with its scan lock held.  Which        *)
(* subscriptions ask for the changed field and the event class, pass the   *)
(* filters in front of the queue and get a field log allocated is any      *)
(* subset of the monitor list.                                             *)

mlis(r) == {s \in Subs : enabled[s] /\ chan[s] = r}

PostBegin(r) ==
    /\ ~ScanLocked(r) /\ val[r] < MaxVal
    /\ val' = [val EXCEPT ![r] = @ + 1]
    /\ \E hit \in SUBSET mlis(r) :
        /\ todo' = [todo EXCEPT ![r] = hit]
        /\ ppc' = [ppc EXCEPT ![r] = IF hit = {} THEN "idle" ELSE "loop"]
    /\ UNCHANGED <<queVars, subVars, semVars, userVars, thrVars, taskVars, logVars>>

\* one turn of the loop over the monitor list
PostNext(r) ==
    /\ ppc[r] = "loop"
    /\ \E s \in todo[r] :
        LET rest == todo[r] \ {s}
            then == IF rest = {} THEN "idle" ELSE "loop" IN
        /\ ~QueLocked(ev_que[s])
        /\ \/ /\ SlotTaken(s)
              /\ todo' = [todo EXCEPT ![r] = {s}]
              /\ ppc' = [ppc EXCEPT ![r] = "suspended"]
              /\ UNCHANGED <<queVars, subVars, logVars>>
           \/ /\ ~SlotTaken(s)
              /\ QueueLog(s, val[r])
              /\ todo' = [todo EXCEPT ![r] = rest]
              /\ ppc' = [ppc EXCEPT ![r] = IF FirstEvent(s) THEN "signal" ELSE then]
    /\ UNCHANGED <<val, semVars, userVars, thrVars, taskVars>>

PostSignal(r) ==
    /\ ppc[r] = "signal"
    /\ ppendsem' = TRUE
    /\ ppc' = [ppc EXCEPT ![r] = IF todo[r] = {} THEN "idle" ELSE "loop"]
    /\ UNCHANGED <<val, todo, pflush_sem, queVars, subVars, userVars, thrVars,
                   taskVars, logVars>>
----------------------------------------------------------------------------
(* The API threads.  An operation is a sequence of places:                 *)
(*   add     walk, post, [signal,] enable     (rsrv event_add_action)      *)
(*   grant   enable, post, [signal]           (access rights regained)     *)
(*   revoke  post, [signal,] disable          (access rights lost)         *)
(*   cancel  disable, purge, (wait, recheck)* (db_cancel_event)            *)
(*   flow, labor  signal                                                   *)
(*   close   flush, every subscription canceled, signal, join              *)

Closing == \E t \in Clients : op[t] = "close"

Goto(t, p) == pc' = [pc EXCEPT ![t] = p] /\ UNCHANGED <<op, arg, walk, ncalls>>

Return(t) == /\ pc' = [pc EXCEPT ![t] = "idle"]
             /\ op' = [op EXCEPT ![t] = "none"]
             /\ arg' = [arg EXCEPT ![t] = EVENTQEMPTY]
             /\ walk' = [walk EXCEPT ![t] = 1]
             /\ UNCHANGED ncalls

Enter(t, o, s, p) == /\ pc[t] = "idle"
                     /\ t \in Clients => o \in Calls[t] /\ ncalls[t] < MaxCalls
                     /\ ncalls' = IF t \in Clients THEN [ncalls EXCEPT ![t] = @ + 1]
                                                   ELSE ncalls
                     /\ pc' = [pc EXCEPT ![t] = p]
                     /\ op' = [op EXCEPT ![t] = o]
                     /\ arg' = [arg EXCEPT ![t] = s]
                     /\ walk' = [walk EXCEPT ![t] = 1]

Busy(s) == \E t \in Threads : arg[t] = s

\* db_add_event: take a cell, zeroed, and the evUser lock
AddBegin(t) ==
    /\ ~EvUserLocked /\ ~Closing
    /\ \E s \in Subs, r \in Recs :
        /\ ~inuse[s]
        /\ Enter(t, "add", s, "walk")
        /\ inuse' = [inuse EXCEPT ![s] = TRUE]
        /\ chan' = [chan EXCEPT ![s] = r]
        /\ npend' = [npend EXCEPT ![s] = 0]
        /\ pLastLog' = [pLastLog EXCEPT ![s] = NoSlot]
        /\ callBackInProgress' = [callBackInProgress EXCEPT ![s] = FALSE]
        /\ UNCHANGED <<enabled, user_sub, ev_que>>
    /\ UNCHANGED <<queVars, semVars, userVars, recVars, taskVars, logVars>>

\* the quota test of one queue
HasQuota(q) == quota[q] + nCanceled[q] < EVENTQUESIZE - EVENTENTRIES

\* one turn of the search for a queue with enough quota
AddWalk(t) ==
    LET q == walk[t]  s == arg[t] IN
    /\ pc[t] = "walk" /\ ~QueLocked(q)
    /\ \/ /\ HasQuota(q)
          /\ quota' = [quota EXCEPT ![q] = @ + EVENTENTRIES]
          /\ user_sub' = [user_sub EXCEPT ![s] = TRUE]
          /\ ev_que' = [ev_que EXCEPT ![s] = q]
          /\ Goto(t, "post")
          /\ UNCHANGED <<nque, inuse>>
       \/ /\ ~HasQuota(q) /\ (q < nque \/ (q = nque /\ nque < NQ))
          /\ nque' = IF q < nque THEN nque ELSE nque + 1
          /\ walk' = [walk EXCEPT ![t] = q + 1]
          /\ UNCHANGED <<quota, inuse, user_sub, ev_que, pc, op, arg, ncalls>>
       \/ /\ ~HasQuota(q) /\ q = nque /\ nque = NQ
          /\ inuse' = [inuse EXCEPT ![s] = FALSE]
          /\ Return(t)
          /\ UNCHANGED <<nque, quota, user_sub, ev_que>>
    /\ UNCHANGED <<evque, valque, putix, getix, nDuplicates, nCanceled, enabled,
                   npend, pLastLog, callBackInProgress, chan, semVars, userVars,
                   recVars, taskVars, logVars>>

\* what follows db_post_single_event in each operation
AfterPost(t) == CASE op[t] = "add"    -> Goto(t, "enable")
                  [] op[t] = "revoke" -> Goto(t, "disable")
                  [] OTHER            -> Return(t)

\* db_post_single_event
PostSingle(t) ==
    LET s == arg[t] IN
    /\ pc[t] = "post" /\ ~ScanLocked(chan[s]) /\ ~QueLocked(ev_que[s])
    /\ \/ /\ SlotTaken(s)
          /\ Goto(t, "suspended") /\ UNCHANGED <<queVars, subVars, logVars>>
       \/ /\ ~SlotTaken(s)
          /\ QueueLog(s, val[chan[s]])
          /\ IF FirstEvent(s) THEN Goto(t, "signal") ELSE AfterPost(t)
    /\ UNCHANGED <<semVars, userVars, recVars, taskVars>>

\* epicsEventSignal(evUser->ppendsem), made with no lock of the queue held
Signal(t) ==
    /\ pc[t] = "signal"
    /\ ppendsem' = TRUE
    /\ CASE op[t] \in {"add", "revoke"} -> AfterPost(t)
         [] op[t] = "close"             -> Goto(t, "join")
         [] OTHER                       -> Return(t)
    /\ UNCHANGED <<pflush_sem, queVars, subVars, userVars, recVars, taskVars, logVars>>

\* db_event_enable; event_add_action skips it without read access
Enable(t) ==
    LET s == arg[t] IN
    /\ pc[t] = "enable"
    /\ \/ ~RecLocked(chan[s]) /\ enabled' = [enabled EXCEPT ![s] = TRUE]
       \/ op[t] = "add" /\ UNCHANGED enabled
    /\ IF op[t] = "add" THEN Return(t) ELSE Goto(t, "post")
    /\ UNCHANGED <<inuse, user_sub, npend, pLastLog, callBackInProgress, chan,
                   ev_que, queVars, semVars, userVars, recVars, taskVars, logVars>>

\* db_event_disable
Disable(t) ==
    LET s == arg[t] IN
    /\ pc[t] = "disable" /\ ~RecLocked(chan[s])
    /\ enabled' = [enabled EXCEPT ![s] = FALSE]
    /\ IF op[t] = "revoke" THEN Return(t) ELSE Goto(t, "purge")
    /\ UNCHANGED <<inuse, user_sub, npend, pLastLog, callBackInProgress, chan,
                   ev_que, queVars, semVars, userVars, recVars, taskVars, logVars>>

\* The access security thread enables or disables a subscription its client
\* knows of; cancel takes the subscription off that list first.
ChangeRights(t, s, o) ==
    /\ user_sub[s]
    /\ \A u \in Threads : arg[u] = s => op[u] = "add"
    /\ Enter(t, o, s, IF o = "grant" THEN "enable" ELSE "post")
    /\ UNCHANGED <<queVars, subVars, semVars, userVars, recVars, taskVars, logVars>>

Grant(t)  == \E s \in Subs : ChangeRights(t, s, "grant")
Revoke(t) == \E s \in Subs : ChangeRights(t, s, "revoke")

\* db_cancel_event, called by a client
CancelBegin(t) ==
    /\ ~Closing
    /\ \E s \in Subs : user_sub[s] /\ ~Busy(s) /\ Enter(t, "cancel", s, "disable")
    /\ UNCHANGED <<queVars, subVars, semVars, userVars, recVars, taskVars, logVars>>

\* ... and by a user callback that the event task runs
CallbackCancel ==
    /\ tpc = "called"
    /\ \E s \in Subs :
        /\ user_sub[s] /\ ~Busy(s)
        /\ CallbackCancels = "any" \/ (CallbackCancels = "own" /\ s = tev)
        /\ Enter(Task, "cancel", s, "disable")
    /\ UNCHANGED <<queVars, subVars, semVars, userVars, recVars, taskVars, logVars>>

\* the slots the purge loop visits: from getix to the first empty one
Visited(q) == {i \in Slots : \A j \in Slots :
                  (IF i >= getix[q] THEN getix[q] <= j /\ j <= i
                                    ELSE getix[q] <= j \/ j <= i)
                    => evque[q][j] # EVENTQEMPTY}

\* (mutant: the slot is emptied)
PurgedSlot_Empty == EVENTQEMPTY
\* what is left in a slot whose entry is canceled
PurgedSlot == canceledEvent

\* (mutant: the last entry is taken for a duplicate too)
DuplicatesPurged_All(s, n) == n
\* of n entries of s removed, those that were not its only one
DuplicatesPurged(s, n) == IF n > 0 /\ n = npend[s] THEN n - 1 ELSE n

\* the event_remove calls of that loop, all at once
Purge(s, hits) ==
    LET q == ev_que[s]  n == Cardinality(hits) IN
    /\ evque'  = [evque EXCEPT ![q] =
                    [i \in Slots |-> IF i \in hits THEN PurgedSlot ELSE @[i]]]
    /\ valque' = [valque EXCEPT ![q] =
                    [i \in Slots |-> IF i \in hits THEN NoLog ELSE @[i]]]
    /\ nCanceled' = [nCanceled EXCEPT ![q] = @ + n]
    /\ nDuplicates' = [nDuplicates EXCEPT ![q] = @ - DuplicatesPurged(s, n)]
    /\ npend' = [npend EXCEPT ![s] = @ - n]
    /\ pLastLog' = [pLastLog EXCEPT ![s] =
                       IF n > 0 /\ n = npend[s] THEN NoSlot ELSE @]

\* the cell goes back to the free list
Release(t, s) ==
    /\ quota' = [quota EXCEPT ![ev_que[s]] = @ - EVENTENTRIES]
    /\ inuse' = [inuse EXCEPT ![s] = FALSE]
    /\ last' = [last EXCEPT ![s] = NoLog] /\ got' = [got EXCEPT ![s] = NoLog]
    /\ IF op[t] = "close"
       THEN /\ pc' = [pc EXCEPT ![t] = "sweep"]
            /\ arg' = [arg EXCEPT ![t] = EVENTQEMPTY]
            /\ UNCHANGED <<op, walk, ncalls>>
       ELSE Return(t)

CancelPurge(t) ==
    LET s == arg[t]  q == ev_que[s]  hits == {i \in Visited(q) : evque[q][i] = s} IN
    /\ pc[t] = "purge" /\ ~QueLocked(q)
    /\ user_sub' = [user_sub EXCEPT ![s] = FALSE]
    /\ Purge(s, hits)
    /\ \/ /\ t = Task
          /\ pSuicideEvent' = s
          /\ Release(t, s)
       \/ /\ t # Task /\ callBackInProgress[s]
          /\ Goto(t, "wait") /\ UNCHANGED <<quota, inuse, pSuicideEvent, last, got>>
       \/ /\ t # Task /\ ~callBackInProgress[s]
          /\ Release(t, s) /\ UNCHANGED pSuicideEvent
    /\ UNCHANGED <<nque, putix, getix, enabled, callBackInProgress, chan, ev_que,
                   semVars, flowCtrlMode, extra_labor, extralabor_sub,
                   extraLaborBusy, pendexit, recVars, taskVars>>

\* epicsEventMustWait(pflush_sem), with the queue unlocked
CancelWait(t) ==
    /\ pc[t] = "wait" /\ pflush_sem
    /\ pflush_sem' = FALSE
    /\ Goto(t, "recheck")
    /\ UNCHANGED <<ppendsem, queVars, subVars, userVars, recVars, taskVars, logVars>>

CancelRecheck(t) ==
    LET s == arg[t] IN
    /\ pc[t] = "recheck" /\ ~QueLocked(ev_que[s])
    /\ IF callBackInProgress[s]
       THEN Goto(t, "wait") /\ UNCHANGED <<quota, inuse, last, got>>
       ELSE Release(t, s)
    /\ UNCHANGED <<nque, evque, valque, putix, getix, nDuplicates, nCanceled,
                   enabled, user_sub, npend, pLastLog, callBackInProgress, chan,
                   ev_que, semVars, userVars, recVars, taskVars>>

\* db_event_flow_ctrl_mode_on and _off
FlowCtrl(t) ==
    /\ ~EvUserLocked /\ ~Closing
    /\ flowCtrlMode' \in BOOLEAN
    /\ Enter(t, "flow", EVENTQEMPTY, "signal")
    /\ UNCHANGED <<pSuicideEvent, extra_labor, extralabor_sub, extraLaborBusy,
                   pendexit, queVars, subVars, semVars, recVars, taskVars, logVars>>

\* db_post_extra_labor, also while the client is closed; nothing is done when labor has
\* been posted before.  evUser is freed after "closed" (what comes later is WriteNotify's
\* ClientInUse)
PostLabor(t) ==
    /\ ~EvUserLocked /\ ~extra_labor /\ \A u \in Threads : pc[u] # "closed"
    /\ extra_labor' = TRUE
    /\ Enter(t, "labor", EVENTQEMPTY, "signal")
    /\ UNCHANGED <<flowCtrlMode, pSuicideEvent, extralabor_sub, extraLaborBusy,
                   pendexit, queVars, subVars, semVars, recVars, taskVars, logVars>>

\* rsrv destroy_tcp_client: db_add_extra_labor_event(NULL)
CloseBegin(t) ==
    /\ ~EvUserLocked /\ ~Closing
    /\ \A u \in Threads : op[u] \in {"none", "grant", "revoke", "labor"}
    /\ extralabor_sub' = FALSE
    /\ Enter(t, "close", EVENTQEMPTY, "flush")
    /\ UNCHANGED <<flowCtrlMode, pSuicideEvent, extra_labor, extraLaborBusy,
                   pendexit, queVars, subVars, semVars, recVars, taskVars, logVars>>

\* (mutant: the labor in progress is not waited for)
CloseFlush_NoWait(t) ==
    /\ pc[t] = "flush" /\ Goto(t, "sweep")
    /\ UNCHANGED <<queVars, subVars, semVars, userVars, recVars, taskVars, logVars>>

\* db_flush_extra_labor_event
CloseFlush(t) ==
    /\ pc[t] = "flush" /\ ~EvUserLocked /\ ~extraLaborBusy
    /\ Goto(t, "sweep")
    /\ UNCHANGED <<queVars, subVars, semVars, userVars, recVars, taskVars, logVars>>

\* destroyAllChannels cancels the subscriptions that are left
CloseSweep(t) ==
    /\ pc[t] = "sweep"
    /\ \E s \in Subs :
        /\ user_sub[s] /\ \A u \in Threads \ {t} : arg[u] # s
        /\ arg' = [arg EXCEPT ![t] = s]
        /\ pc' = [pc EXCEPT ![t] = "disable"]
    /\ UNCHANGED <<op, walk, ncalls, queVars, subVars, semVars, userVars, recVars,
                   taskVars, logVars>>

\* db_close_events, when destroyAllChannels has canceled every subscription; a thread that
\* posts extra labor may still be under way
CloseExit(t) ==
    /\ pc[t] = "sweep" /\ ~EvUserLocked
    /\ \A s \in Subs : ~inuse[s]
    /\ pendexit' = TRUE
    /\ Goto(t, "signal")
    /\ UNCHANGED <<flowCtrlMode, pSuicideEvent, extra_labor, extralabor_sub,
                   extraLaborBusy, queVars, subVars, semVars, recVars, taskVars, logVars>>

CloseJoin(t) ==
    /\ pc[t] = "join" /\ tpc = "done"
    /\ Goto(t, "closed")
    /\ UNCHANGED <<queVars, subVars, semVars, userVars, recVars, taskVars, logVars>>
----------------------------------------------------------------------------
(* The event task                                                          *)

TaskWake ==
    /\ tpc = "pend" /\ ppendsem
    /\ ppendsem' = FALSE /\ tpc' = "start"
    /\ UNCHANGED <<tq, tev, tlog, pflush_sem, queVars, subVars, userVars, recVars,
                   thrVars, logVars>>

LaborReady == extra_labor /\ extralabor_sub

TaskStart ==
    /\ tpc = "start" /\ ~EvUserLocked
    /\ IF LaborReady
       THEN extra_labor' = FALSE /\ extraLaborBusy' = TRUE /\ tpc' = "laboring"
       ELSE tpc' = "read" /\ UNCHANGED <<extra_labor, extraLaborBusy>>
    /\ UNCHANGED <<tq, tev, tlog, flowCtrlMode, pSuicideEvent, extralabor_sub, pendexit,
                   queVars, subVars, semVars, recVars, thrVars, logVars>>

\* the extra labor routine returns
TaskLaborDone ==
    /\ tpc = "laboring" /\ ~EvUserLocked
    /\ extraLaborBusy' = FALSE /\ tpc' = "read"
    /\ UNCHANGED <<tq, tev, tlog, flowCtrlMode, pSuicideEvent, extra_labor,
                   extralabor_sub, pendexit, queVars, subVars, semVars, recVars,
                   thrVars, logVars>>

\* event_read: lock the queue; flow control leaves a queue without duplicates
TaskRead ==
    /\ tpc = "read" /\ ~QueLocked(tq)
    /\ tpc' = IF flowCtrlMode /\ nDuplicates[tq] = 0 THEN "next" ELSE "loop"
    /\ UNCHANGED <<tq, tev, tlog, queVars, subVars, semVars, userVars, recVars,
                   thrVars, logVars>>

HeadEntry == evque[tq][getix[tq]]

\* the queue is empty: unlock it
TaskDrained ==
    /\ tpc = "loop" /\ HeadEntry = EVENTQEMPTY
    /\ tpc' = "next"
    /\ UNCHANGED <<tq, tev, tlog, queVars, subVars, semVars, userVars, recVars,
                   thrVars, logVars>>

\* a canceled entry is skipped
TaskSkip ==
    /\ tpc = "loop" /\ HeadEntry = canceledEvent
    /\ evque'  = [evque EXCEPT ![tq][getix[tq]] = EVENTQEMPTY]
    /\ valque' = [valque EXCEPT ![tq][getix[tq]] = NoLog]
    /\ getix' = [getix EXCEPT ![tq] = RNGINC(@)]
    /\ nCanceled' = [nCanceled EXCEPT ![tq] = @ - 1]
    /\ UNCHANGED <<nque, putix, quota, nDuplicates, logVars, taskVars, subVars,
                   semVars, userVars, recVars, thrVars>>

\* an entry is removed, and its callback entered with the queue unlocked
TaskTake ==
    /\ tpc = "loop" /\ HeadEntry \in Subs
    /\ LET s == HeadEntry IN
        /\ evque'  = [evque EXCEPT ![tq][getix[tq]] = EVENTQEMPTY]
        /\ valque' = [valque EXCEPT ![tq][getix[tq]] = NoLog]
        /\ getix' = [getix EXCEPT ![tq] = RNGINC(@)]
        /\ npend' = [npend EXCEPT ![s] = @ - 1]
        /\ pLastLog' = IF npend[s] = 1 THEN [pLastLog EXCEPT ![s] = NoSlot]
                                       ELSE pLastLog
        /\ nDuplicates' = IF npend[s] = 1 THEN nDuplicates
                          ELSE [nDuplicates EXCEPT ![tq] = @ - 1]
        /\ IF user_sub[s]
           THEN /\ callBackInProgress' = [callBackInProgress EXCEPT ![s] = TRUE]
                /\ tpc' = "callback" /\ tev' = s /\ tlog' = valque[tq][getix[tq]]
           ELSE UNCHANGED <<callBackInProgress, tpc, tev, tlog>>
    /\ UNCHANGED <<nque, putix, quota, nCanceled, inuse, enabled, user_sub, chan,
                   ev_que, tq, logVars, semVars, userVars, recVars, thrVars>>

\* the user callback gets the copied value, or reads the record's own one
TaskCallback ==
    /\ tpc = "callback"
    /\ LET r == chan[tev] IN
        IF r \in RefRecs THEN ~ScanLocked(r) /\ got' = [got EXCEPT ![tev] = val[r]]
                         ELSE got' = [got EXCEPT ![tev] = tlog]
    /\ tpc' = "called"
    /\ UNCHANGED <<tq, tev, tlog, last, queVars, subVars, semVars, userVars,
                   recVars, thrVars>>

\* (mutant: the waiting cancel is told when the subscription is still open)
FlushDone_Open(s) == user_sub[s] /\ npend[s] = 0
\* the subscription has been canceled during its callback
FlushDone(s) == ~user_sub[s] /\ npend[s] = 0

\* the callback has returned: lock the queue, tell a waiting cancel
TaskReturn ==
    /\ tpc = "called" /\ pc[Task] = "idle"
    /\ ~ \E s \in Subs : SuspendedOn(s) /\ ev_que[s] = tq
    /\ IF pSuicideEvent = tev
       THEN /\ pSuicideEvent' = EVENTQEMPTY
            /\ UNCHANGED <<callBackInProgress, pflush_sem>>
       ELSE /\ callBackInProgress' = [callBackInProgress EXCEPT ![tev] = FALSE]
            /\ pflush_sem' = IF FlushDone(tev) THEN TRUE ELSE pflush_sem
            /\ UNCHANGED pSuicideEvent
    /\ tpc' = "loop" /\ tev' = EVENTQEMPTY /\ tlog' = NoLog
    /\ UNCHANGED <<tq, logVars, queVars, inuse, enabled, user_sub, npend, pLastLog,
                   chan, ev_que, ppendsem, flowCtrlMode, extra_labor, extralabor_sub,
                   extraLaborBusy, pendexit, recVars, thrVars>>

\* the next queue; after the last one the exit flag is looked at
TaskNext ==
    /\ tpc = "next" /\ ~EvUserLocked
    /\ IF tq < nque THEN tq' = tq + 1 /\ tpc' = "read"
                    ELSE tq' = 1 /\ tpc' = IF pendexit THEN "done" ELSE "pend"
    /\ UNCHANGED <<tev, tlog, queVars, subVars, semVars, userVars, recVars, thrVars,
                   logVars>>
----------------------------------------------------------------------------
PostStep(r) == PostNext(r) \/ PostSignal(r)

\* a thread goes on with the operation it is in
ThreadStep(t) ==
    \/ AddWalk(t) \/ PostSingle(t) \/ Signal(t) \/ Enable(t) \/ Disable(t)
    \/ CancelPurge(t) \/ CancelWait(t) \/ CancelRecheck(t)
    \/ CloseFlush(t) \/ CloseSweep(t) \/ CloseExit(t) \/ CloseJoin(t)

\* a client calls an operation
Call(t) == \/ AddBegin(t) \/ Grant(t) \/ Revoke(t) \/ CancelBegin(t)
           \/ FlowCtrl(t) \/ PostLabor(t) \/ CloseBegin(t)

TaskStep == \/ TaskWake \/ TaskStart \/ TaskLaborDone \/ TaskRead \/ TaskDrained
            \/ TaskSkip \/ TaskTake \/ TaskCallback \/ TaskReturn \/ TaskNext

Next == \/ \E r \in Recs : PostBegin(r) \/ PostStep(r)
        \/ \E t \in Threads : ThreadStep(t)
        \/ \E t \in Clients : Call(t)
        \/ CallbackCancel
        \/ TaskStep

Spec == Init /\ [][Next]_vars

\* A callback, and a record that posts, always go on; a thread that keeps
\* finding a mutex free in the end gets it.  No operation has to be called.
Fairness == /\ WF_vars(TaskStep)
            /\ \A r \in Recs : WF_vars(PostStep(r))
            /\ \A t \in Threads : SF_vars(ThreadStep(t))
FairSpec == Spec /\ Fairness
----------------------------------------------------------------------------
(* Invariants *)

Places == {"idle", "walk", "post", "signal", "enable", "disable", "purge", "wait",
           "recheck", "suspended", "flush", "sweep", "join", "closed"}
Operations == {"none", "add", "grant", "revoke", "cancel", "flow", "labor", "close"}
SlotValues == Subs \cup {EVENTQEMPTY, canceledEvent}

QueTypeOK ==
    /\ nque \in Queues
    /\ evque \in [Queues -> [Slots -> SlotValues]]
    /\ valque \in [Queues -> [Slots -> Logs \cup {NoLog}]]
    /\ putix \in [Queues -> Slots] /\ getix \in [Queues -> Slots]
    /\ quota \in [Queues -> Int]
    /\ nDuplicates \in [Queues -> Int] /\ nCanceled \in [Queues -> Int]
SubTypeOK ==
    /\ inuse \in [Subs -> BOOLEAN] /\ enabled \in [Subs -> BOOLEAN]
    /\ user_sub \in [Subs -> BOOLEAN] /\ npend \in [Subs -> Int]
    /\ pLastLog \in [Subs -> Slots \cup {NoSlot}]
    /\ callBackInProgress \in [Subs -> BOOLEAN]
    /\ chan \in [Subs -> Recs] /\ ev_que \in [Subs -> Queues]
UserTypeOK ==
    /\ ppendsem \in BOOLEAN /\ pflush_sem \in BOOLEAN
    /\ flowCtrlMode \in BOOLEAN /\ pSuicideEvent \in Subs \cup {EVENTQEMPTY}
    /\ extra_labor \in BOOLEAN /\ extralabor_sub \in BOOLEAN
    /\ extraLaborBusy \in BOOLEAN /\ pendexit \in BOOLEAN
RecTypeOK ==
    /\ val \in [Recs -> Logs] /\ todo \in [Recs -> SUBSET Subs]
    /\ ppc \in [Recs -> {"idle", "loop", "signal", "suspended"}]
ThrTypeOK ==
    /\ pc \in [Threads -> Places] /\ op \in [Threads -> Operations]
    /\ arg \in [Threads -> Subs \cup {EVENTQEMPTY}] /\ walk \in [Threads -> Queues]
    /\ ncalls \in [Clients -> 0 .. MaxCalls]
\* the places of each operation, and those where it has a subscription
CtlTypeOK == \A t \in Threads :
    /\ pc[t] = "idle" <=> op[t] = "none"
    /\ pc[t] = "walk" => op[t] = "add"
    /\ pc[t] \in {"post", "suspended"} => op[t] \in {"add", "grant", "revoke"}
    /\ pc[t] = "enable" => op[t] \in {"add", "grant"}
    /\ pc[t] = "disable" => op[t] \in {"revoke", "cancel", "close"}
    /\ pc[t] \in {"purge", "wait", "recheck"} => op[t] \in {"cancel", "close"}
    /\ pc[t] = "signal" => op[t] # "cancel"
    /\ pc[t] \in {"flush", "sweep", "join", "closed"} => op[t] = "close"
    /\ arg[t] \in Subs <=>
         \/ op[t] \in {"add", "grant", "revoke", "cancel"}
         \/ op[t] = "close" /\ pc[t] \in {"disable", "purge", "wait", "recheck"}
TaskTypeOK ==
    /\ tpc \in {"pend", "start", "laboring", "read", "loop", "callback", "called",
                "next", "done"}
    /\ tq \in Queues /\ tev \in Subs \cup {EVENTQEMPTY}
    /\ tlog \in Logs \cup {NoLog}
LogTypeOK ==
    /\ last \in [Subs -> Logs \cup {NoLog}] /\ got \in [Subs -> Logs \cup {NoLog}]

\* The variables keep their types.
TypeOK == /\ QueTypeOK /\ SubTypeOK /\ UserTypeOK /\ RecTypeOK /\ ThrTypeOK
          /\ CtlTypeOK /\ TaskTypeOK /\ LogTypeOK

\* slot i lies on the way from g, where the ring is read, to p, where it is
\* written
OnTheWay(g, p, i) == IF g < p THEN g <= i /\ i < p ELSE g <= i \/ i < p

\* the entries of ring f are one run of slots from g to p
OneRun(f, g, p) ==
    \/ g = p /\ \A i \in Slots : f[i] = EVENTQEMPTY
    \/ \A i \in Slots : (f[i] # EVENTQEMPTY) <=> OnTheWay(g, p, i)

\* The entries of a queue are one run of slots from getix to putix: the empty
\* slot at which the purge loop of db_cancel_event and the read loop stop is
\* the end of the entries, never a hole among them.
RingIntact == \A q \in Queues : OneRun(evque[q], getix[q], putix[q])

Entries(q, s) == {i \in Slots : evque[q][i] = s}
\* the entries that are not the newest of their subscription
Extra(q) == {i \in Slots : evque[q][i] \in Subs /\ i # pLastLog[evque[q][i]]}
Assigned(q) == {s \in Subs : user_sub[s] /\ ev_que[s] = q}
Dying(q) == {s \in Subs : ev_que[s] = q /\ ~user_sub[s] /\
                \E t \in Threads : arg[t] = s /\ pc[t] \in {"wait", "recheck"}}
Age(q, i) == IF i >= getix[q] THEN i - getix[q] ELSE i + EVENTQUESIZE - getix[q]

\* The counters that db_add_event, db_queue_event_log, event_remove and
\* event_read keep by hand agree with the slots: the quota is that of the
\* subscriptions assigned to the queue, nCanceled counts placeholders, npend
\* the entries of a subscription and nDuplicates those beyond its newest, and
\* pLastLog is the newest entry, the one a replacement overwrites.
Accounting == \A q \in Queues :
    /\ quota[q] = EVENTENTRIES * Cardinality(Assigned(q) \cup Dying(q))
    /\ quota[q] <= EVENTQUESIZE - EVENTENTRIES
    /\ nCanceled[q] = Cardinality(Entries(q, canceledEvent))
    /\ nDuplicates[q] = Cardinality(Extra(q))
    /\ \A s \in Assigned(q) :
        /\ npend[s] = Cardinality(Entries(q, s))
        /\ IF npend[s] = 0 THEN pLastLog[s] = NoSlot
           ELSE /\ pLastLog[s] \in Entries(q, s)
                /\ \A i \in Entries(q, s) : Age(q, i) <= Age(q, pLastLog[s])

\* A freed evSubscrip is no longer reachable: not from a slot of a queue, not
\* from the monitor list a record walks, not from the callback in progress
\* unless that callback freed it.
NoUseAfterFree ==
    /\ \A q \in Queues, i \in Slots : evque[q][i] \in Subs =>
           user_sub[evque[q][i]] /\ inuse[evque[q][i]] /\ ev_que[evque[q][i]] = q
    /\ \A s \in Subs : enabled[s] => inuse[s] /\ user_sub[s]
    /\ \A r \in Recs : \A s \in todo[r] : enabled[s] /\ chan[s] = r
    /\ tpc = "callback" => inuse[tev]
    /\ tpc = "called" => inuse[tev] \/ pSuicideEvent = tev

\* the event task has yet to come to queue q
WillVisit(q) ==
    \/ ppendsem \/ tpc \in {"start", "laboring", "done"}
    \/ tpc \in {"read", "loop", "callback", "called"} /\ tq <= q
    \/ tpc = "next" /\ tq < q
    \/ \E r \in Recs : ppc[r] = "signal"
    \/ \E t \in Threads : pc[t] = "signal"

\* Only the first entry of an empty queue signals the event task, and flow
\* control makes it leave entries behind; still, no queue is ever left with
\* something to deliver while the task sleeps and nobody is about to wake it.
NoLostWakeup == \A q \in Queues :
    evque[q][getix[q]] # EVENTQEMPTY /\ (flowCtrlMode => nDuplicates[q] > 0)
        => WillVisit(q)

\* As long as a queue holds no canceled entry, the quota and the rule that
\* replaces entries when space is short leave a slot for each subscription:
\* db_queue_event_log's "the current entry must be available" is true.
RoomForEach == \A q \in Queues : nCanceled[q] = 0 =>
    \A s \in Assigned(q) : ~SlotTaken(s)

\* The newest value queued for a subscription is never lost: with nothing
\* left in the queue its callback has had it, however many older values were
\* replaced, canceled around it or held back by flow control.
NewestDelivered == \A s \in Subs :
    user_sub[s] /\ npend[s] = 0 /\ ~(tpc = "callback" /\ tev = s)
        => IF chan[s] \in RefRecs THEN got[s] >= last[s] ELSE got[s] = last[s]

\* After db_flush_extra_labor_event the destroyed client's extra labor does
\* not run any more, and once the event task is told to exit no callback is
\* entered any more; one that canceled its own subscription may still return.
CloseIsQuiet ==
    /\ \A t \in Threads : op[t] = "close" /\ pc[t] # "flush" => tpc # "laboring"
    /\ pendexit => tpc # "callback" /\ (tpc = "called" => pSuicideEvent = tev)

----------------------------------------------------------------------------
(* Liveness properties *)

\* Unless flow control holds it back, what is queued gets delivered.
QueuedIsDelivered == \A s \in Subs : []<>(npend[s] = 0 \/ flowCtrlMode)

\* db_cancel_event returns, and so does the close of the client.
CancelReturns == \A t \in Threads :
    /\ []<>(op[t] = "cancel" => pc[t] = "idle")
    /\ []<>(op[t] = "close" => pc[t] = "closed")

\* What is queued for a client, and what it waits for, comes.
EventsServed == QueuedIsDelivered /\ CancelReturns
============================================================================
