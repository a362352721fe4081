------------------------------ MODULE DbNotify ------------------------------
(***************************************************************************)
(* Process notify (modules/database/src/ioc/db/dbNotify.c): requests to    *)
(* process a record and to be told when it, and the records it processes   *)
(* through its forward links, have completed.  The records are a chain; a  *)
(* link of it may be removed, which splits its lock set.                   *)
(*                                                                         *)
(* A step is a section under pnotifyGlobal->lock, or one between two of    *)
(* them while a thread processes a record, which keeps the lock set.       *)
(***************************************************************************)
EXTENDS Integers, Sequences, FiniteSets

CONSTANTS
    Notifies,     \* processNotify structures, and the client thread of each
    Workers,      \* callback threads, scan threads and those of devices
    Records,      \* 1 .. length of the chain
    Instances     \* what is checked, and the bounds:
                  \*   chan     the record of each request
                  \*   kind     the request: "process", "put" or "processGet"
                  \*   async    records that complete later
                  \*   passive  records that are processed only through links
                  \*   disabled records that may be found disabled
                  \*   cuts     links that may be removed
                  \*   requests bound: requests of each client
                  \*   scans    bound: scans and puts from elsewhere
                  \*   refused  bound: callback requests a full queue refuses

ASSUME NotifyAssumption ==
    /\ Notifies \cap Workers = {} /\ "none" \notin Notifies
    /\ IsFiniteSet(Notifies) /\ IsFiniteSet(Workers)
    /\ \E k \in Records : Records = 1 .. k
    /\ \A i \in Instances :
          /\ i.chan \in [Notifies -> Records]
          /\ i.kind \in [Notifies -> {"process", "put", "processGet"}]
          /\ i.async \subseteq Records /\ i.passive \subseteq Records
          /\ i.disabled \subseteq Records /\ i.cuts \subseteq Records
          /\ i.requests \in Nat /\ i.scans \in Nat /\ i.refused \in Nat

None == "none"
Threads == Notifies \cup Workers
Pvts == 1 .. Cardinality(Notifies)
InProgress == {"notifyRestartInProgress", "notifyProcessInProgress"}
Requested == {"notifyRestartCallbackRequested", "notifyUserCallbackRequested"}

VARIABLES
    inst,         \* the instance: never changes
    cut,          \* links removed: r stands for the link from r to r + 1
    pact, putf, rpro, ppn, restartList,         \* of each record
    pvt, state, waitList, cancelWait, userCallbackWait,   \* of each request
    freeList, cancelEvent, userCallbackEvent,   \* of each notifyPvt
    callbacks,    \* callback requests of low priority
    onceQ,        \* scanOnce requests
    pending,      \* records whose device will complete
    th,           \* what each thread does
    requests, scans, refused,   \* counts for the bounds; requests refused
    \* history
    served,       \* doneCallback has been called for the last request
    cause,        \* the request a busy record was processed for, if any
    owed          \* records to be processed for a put that found them busy

recVars  == <<pact, putf, rpro, pending>>
pvtVars  == <<pvt, cancelWait, userCallbackWait, freeList, cancelEvent, userCallbackEvent>>
listVars == <<ppn, restartList, waitList, state>>
cbVars   == <<callbacks, refused>>
workVars == <<onceQ, scans>>
history  == <<served, cause, owed>>
vars == <<inst, cut, recVars, pvtVars, listVars, cbVars, workVars, th, requests, history>>

Chan(n) == inst.chan[n]
Idle == [pc |-> "idle", n |-> None, from |-> 1, at |-> 1, ppn |-> None, cause |-> None]

Init ==
    /\ inst \in Instances /\ cut = {}
    /\ pact = [r \in Records |-> FALSE] /\ putf = pact /\ rpro = pact
    /\ ppn = [r \in Records |-> None] /\ restartList = [r \in Records |-> <<>>]
    /\ pvt = [n \in Notifies |-> 0] /\ state = [n \in Notifies |-> "notifyNotActive"]
    /\ waitList = [n \in Notifies |-> <<>>]
    /\ cancelWait = [n \in Notifies |-> FALSE] /\ userCallbackWait = cancelWait
    /\ freeList = <<>> /\ callbacks = <<>> /\ refused = {}
    /\ cancelEvent = [p \in Pvts |-> FALSE] /\ userCallbackEvent = cancelEvent
    /\ onceQ = <<>> /\ pending = {} /\ scans = 0
    /\ th = [t \in Threads |-> Idle]
    /\ requests = [n \in Notifies |-> 0] /\ served = [n \in Notifies |-> TRUE]
    /\ cause = [r \in Records |-> None] /\ owed = {}

\* records are locked together unless a link between them has been removed
SameSet(r, s) == \A c \in cut : (c < r) = (c < s)
Processing == {"process", "fwd", "add", "test", "notify", "disabled", "end"}
Locked(r) == \E t \in Threads : th[t].pc \in Processing /\ SameSet(th[t].from, r)
Goes(t, pc) == th' = [th EXCEPT ![t].pc = pc]
Rests(t) == th' = [th EXCEPT ![t] = Idle]
IsIn(q, x) == \E i \in DOMAIN q : q[i] = x
Times(q, x) == Cardinality({i \in DOMAIN q : q[i] = x})
\* the elements of q that are in S, in their order: SelectSeq, without recursion
Those(q, S) ==
    LET P == {i \in DOMAIN q : q[i] \in S}
        Nth(k) == CHOOSE i \in P : Cardinality({j \in P : j <= i}) = k
    IN  [k \in 1 .. Cardinality(P) |-> q[Nth(k)]]
-----------------------------------------------------------------------------
(* The lists of requests that wait for a record.                           *)

\* callbackRequest of each, and its result is not looked at
CallbackRequest(ns) ==
    \E no \in SUBSET {ns[i] : i \in DOMAIN ns} :
        /\ Cardinality(refused \cup no) <= inst.refused
        /\ refused' = refused \cup no
        /\ callbacks' = callbacks \o Those(ns, Notifies \ no)

\* (mutant: the record is taken to be free)
Heirs_None(rs) == <<>>
\* who is the first to wait for each of the records
Heirs(rs) ==
    LET waited == Those(rs, {r \in Records : restartList[r] # <<>>})
    IN  [i \in DOMAIN waited |-> Head(restartList[waited[i]])]
Owner(r) == IF restartList[r] = <<>> THEN None ELSE Head(restartList[r])

\* restartCheck of each record of rs, then callbackRequest of more; s are the
\* states the caller has set
restartCheck(rs, s, more) ==
    LET heirs == Heirs(rs) IN
    /\ ppn' = [r \in Records |-> IF IsIn(rs, r) THEN Owner(r) ELSE ppn[r]]
    /\ restartList' = [r \in Records |-> IF IsIn(rs, r) /\ restartList[r] # <<>>
                                         THEN Tail(restartList[r]) ELSE restartList[r]]
    /\ state' = [n \in Notifies |->
                    IF IsIn(heirs, n) THEN "notifyRestartCallbackRequested" ELSE s[n]]
    /\ CallbackRequest(heirs \o more)

-----------------------------------------------------------------------------
(* A request.                                                              *)

\* whether the request processes its record: a put may fail, be disabled, or be to
\* a field that does not process
Processes(n) == CASE inst.kind[n] = "put"        -> BOOLEAN
                  [] inst.kind[n] = "processGet" -> {Chan(n) \in inst.passive}
                  [] inst.kind[n] = "process"    -> {FALSE}

\* processNotifyCommon, in thread t with the record and the global lock
processNotifyCommon(n, t, first) ==
    LET r == Chan(n)
        Enter(s) == state' = [state EXCEPT ![n] = s]
        Waits == waitList' = [waitList EXCEPT ![n] = Append(@, r)]
    IN
    \/ /\ first /\ ppn[r] # None
       /\ Enter("notifyWaitForRestart")
       /\ restartList' = [restartList EXCEPT ![r] = Append(@, n)]
       /\ Rests(t)
       /\ UNCHANGED <<ppn, waitList, putf, cbVars>>
    \/ /\ first => ppn[r] = None
       /\ pact[r]
       /\ Enter("notifyRestartInProgress")
       /\ ppn' = [ppn EXCEPT ![r] = n] /\ Waits
       /\ Rests(t)
       /\ UNCHANGED <<restartList, putf, cbVars>>
    \/ /\ first => ppn[r] = None
       /\ ~pact[r] /\ TRUE \in Processes(n)
       /\ Enter("notifyProcessInProgress")
       /\ putf' = [putf EXCEPT ![r] = @ \/ first]
       /\ ppn' = [ppn EXCEPT ![r] = n] /\ Waits
       /\ th' = [th EXCEPT ![t] = [Idle EXCEPT !.pc = "process", !.from = r, !.at = r,
                                               !.cause = n]]
       /\ UNCHANGED <<restartList, cbVars>>
    \/ /\ first => ppn[r] = None
       /\ ~pact[r] /\ FALSE \in Processes(n)
       /\ restartCheck(IF first THEN <<>> ELSE <<r>>,
                       [state EXCEPT ![n] = "notifyUserCallbackActive"], <<>>)
       /\ th' = [th EXCEPT ![t] = [Idle EXCEPT !.pc = "calling", !.n = n]]
       /\ UNCHANGED <<waitList, putf>>

\* the first notifyPvt of the free list, or another one
Allocated(n, free) ==
    IF free # <<>> THEN Head(free)
    ELSE Cardinality({pvt[m] : m \in Notifies \ {n}} \ {0}) + 1

\* notifyInit with the free list as the caller leaves it, then processNotifyCommon
Begin(n, free) ==
    /\ pvt' = [pvt EXCEPT ![n] = Allocated(n, free)]
    /\ freeList' = IF free = <<>> THEN <<>> ELSE Tail(free)
    /\ cancelWait' = [cancelWait EXCEPT ![n] = FALSE]
    /\ userCallbackWait' = [userCallbackWait EXCEPT ![n] = FALSE]
    /\ served' = [served EXCEPT ![n] = FALSE]
    /\ processNotifyCommon(n, n, TRUE)

\* a client makes a request when doneCallback has been called for the last one, which
\* may still be running
dbProcessNotify(n) ==
    /\ th[n].pc = "idle" /\ served[n] /\ requests[n] < inst.requests /\ ~Locked(Chan(n))
    /\ requests' = [requests EXCEPT ![n] = @ + 1]
    /\ \/ pvt[n] = 0 /\ Begin(n, freeList) /\ UNCHANGED <<cancelEvent, userCallbackEvent>>
       \/ /\ pvt[n] # 0
          /\ userCallbackWait' = [userCallbackWait EXCEPT ![n] = TRUE] /\ Goes(n, "waitUser")
          /\ UNCHANGED <<pvt, cancelWait, freeList, cancelEvent, userCallbackEvent,
                         listVars, cbVars, putf, served>>
    /\ UNCHANGED <<inst, cut, pact, rpro, pending, workVars, cause, owed>>

UserCallbackOver(n) ==
    /\ th[n].pc = "waitUser" /\ userCallbackEvent[pvt[n]] /\ ~Locked(Chan(n))
    /\ userCallbackEvent' = [userCallbackEvent EXCEPT ![pvt[n]] = FALSE]
    /\ Begin(n, Append(freeList, pvt[n]))
    /\ UNCHANGED <<inst, cut, pact, rpro, pending, cancelEvent, workVars, requests, cause, owed>>

\* notifyCleanup
Cleanup(n) ==
    /\ freeList' = Append(freeList, pvt[n])
    /\ pvt' = [pvt EXCEPT ![n] = 0]

CancelWaitsIn == Requested \cup {"notifyUserCallbackActive"}

\* what dbNotifyCancel takes back: the request is in restartList, or owns records
TakenBack(n) ==
    LET r == Chan(n)
        own == IF ppn[r] = n /\ ~IsIn(waitList[n], r) THEN <<r>> ELSE <<>>
        none == [state EXCEPT ![n] = "notifyNotActive"]
    IN
    \/ /\ state[n] = "notifyWaitForRestart"
       /\ restartList' = [restartList EXCEPT ![r] = Those(@, Notifies \ {n})]
       /\ state' = none
       /\ UNCHANGED <<ppn, waitList, cbVars>>
    \/ /\ state[n] \in InProgress
       /\ waitList' = [waitList EXCEPT ![n] = <<>>]
       /\ restartCheck(waitList[n] \o own, none, <<>>)

\* (mutant: a callback that is active is not waited for)
dbNotifyCancel_Active(n) ==
    /\ th[n].pc = "idle" /\ pvt[n] # 0 /\ ~Locked(Chan(n))
    /\ state[n] = "notifyUserCallbackActive"
    /\ Cleanup(n) /\ state' = [state EXCEPT ![n] = "notifyNotActive"]
    /\ served' = [served EXCEPT ![n] = TRUE]
    /\ UNCHANGED <<inst, cut, recVars, cancelWait, userCallbackWait, cancelEvent,
                   userCallbackEvent, ppn, restartList, waitList, cbVars, workVars, th,
                   requests, cause, owed>>
dbNotifyCancel(n) ==
    /\ th[n].pc = "idle" /\ pvt[n] # 0 /\ ~Locked(Chan(n))
    /\ \/ /\ state[n] \in CancelWaitsIn
          /\ cancelWait' = [cancelWait EXCEPT ![n] = TRUE] /\ Goes(n, "waitCancel")
          /\ UNCHANGED <<pvt, freeList, listVars, cbVars, served, cause>>
       \/ /\ state[n] \notin CancelWaitsIn
          /\ TakenBack(n) /\ Cleanup(n)
          /\ served' = [served EXCEPT ![n] = TRUE]
          /\ cause' = [r \in Records |-> IF cause[r] = n THEN None ELSE cause[r]]
          /\ UNCHANGED <<cancelWait, th>>
    /\ UNCHANGED <<inst, cut, recVars, userCallbackWait, cancelEvent, userCallbackEvent,
                   workVars, requests, owed>>

CancelReturns(n) ==
    /\ th[n].pc = "waitCancel" /\ cancelEvent[pvt[n]]
    /\ cancelEvent' = [cancelEvent EXCEPT ![pvt[n]] = FALSE]
    /\ Cleanup(n) /\ state' = [state EXCEPT ![n] = "notifyNotActive"]
    /\ served' = [served EXCEPT ![n] = TRUE]
    /\ Rests(n)
    /\ UNCHANGED <<inst, cut, recVars, cancelWait, userCallbackWait, userCallbackEvent, ppn,
                   restartList, waitList, cbVars, workVars, requests, cause, owed>>

-----------------------------------------------------------------------------
(* The callback, and callDone.                                             *)

TakeCallback(w) ==
    /\ th[w].pc = "idle" /\ callbacks # <<>>
    /\ th' = [th EXCEPT ![w] = [Idle EXCEPT !.pc = "callback", !.n = Head(callbacks)]]
    /\ callbacks' = Tail(callbacks)
    /\ UNCHANGED <<inst, cut, recVars, pvtVars, listVars, refused, workVars, requests, history>>

\* (mutant: those that wait for the record are forgotten)
Releases_Nothing(n) == <<>>
\* what a canceled request releases in its callback
Releases(n) == IF state[n] = "notifyRestartCallbackRequested" THEN <<Chan(n)>> ELSE <<>>

notifyCallback(w) ==
    LET n == th[w].n
        r == Chan(n)
    IN
    /\ th[w].pc = "callback" /\ ~Locked(r)
    /\ \/ /\ cancelWait[n]
          /\ restartCheck(Releases(n), state, <<>>)
          /\ cancelEvent' = [cancelEvent EXCEPT ![pvt[n]] = TRUE]
          /\ Rests(w)
          /\ UNCHANGED <<waitList, putf>>
       \/ /\ ~cancelWait[n] /\ state[n] = "notifyRestartCallbackRequested"
          /\ processNotifyCommon(n, w, FALSE)
          /\ UNCHANGED cancelEvent
       \/ /\ ~cancelWait[n] /\ state[n] # "notifyRestartCallbackRequested"
          /\ state' = [state EXCEPT ![n] = "notifyUserCallbackActive"]
          /\ Goes(w, "calling")
          /\ UNCHANGED <<ppn, restartList, waitList, putf, cbVars, cancelEvent>>
    /\ UNCHANGED <<inst, cut, pact, rpro, pending, pvt, cancelWait, userCallbackWait, freeList,
                   userCallbackEvent, workVars, requests, history>>

\* callDone has released the locks: doneCallback is called
doneCallback(t) ==
    /\ th[t].pc = "calling"
    /\ served' = [served EXCEPT ![th[t].n] = TRUE]
    /\ Goes(t, "returning")
    /\ UNCHANGED <<inst, cut, recVars, pvtVars, listVars, cbVars, workVars, requests, cause, owed>>

SignalCancel(n) == /\ cancelEvent' = [cancelEvent EXCEPT ![pvt[n]] = TRUE]
                   /\ UNCHANGED <<pvt, freeList, userCallbackEvent>>
SignalUser(n) == /\ userCallbackEvent' = [userCallbackEvent EXCEPT ![pvt[n]] = TRUE]
                 /\ UNCHANGED <<pvt, freeList, cancelEvent>>

\* the rest of callDone: a cancel or a dbProcessNotify that waits cleans up itself
callDone(t) ==
    LET n == th[t].n IN
    /\ th[t].pc = "returning"
    /\ Rests(t)
    /\ cancelWait' = [cancelWait EXCEPT ![n] = FALSE]
    /\ userCallbackWait' = [userCallbackWait EXCEPT ![n] = FALSE]
    /\ \/ /\ ~cancelWait[n] /\ ~userCallbackWait[n]
          /\ Cleanup(n) /\ state' = [state EXCEPT ![n] = "notifyNotActive"]
          /\ UNCHANGED <<cancelEvent, userCallbackEvent>>
       \/ cancelWait[n] /\ ~userCallbackWait[n] /\ SignalCancel(n) /\ UNCHANGED state
       \/ ~cancelWait[n] /\ userCallbackWait[n] /\ SignalUser(n) /\ UNCHANGED state
    /\ UNCHANGED <<inst, cut, recVars, ppn, restartList, waitList, cbVars, workVars, requests,
                   history>>

-----------------------------------------------------------------------------
(* Record processing: dbProcess, processTarget and recGblFwdLink, by a     *)
(* thread that works its way from record th.from to th.at and back.        *)

\* dbProcess returns: to recGblFwdLink of the record before, or to the caller
Back(t) == IF th[t].at = th[t].from THEN Idle
           ELSE [th[t] EXCEPT !.at = @ - 1, !.pc = "test"]

dbProcess(t) ==
    LET r == th[t].at IN
    /\ th[t].pc = "process"
    /\ \/ /\ pact[r]
          /\ th' = [th EXCEPT ![t] = Back(t)]
          /\ UNCHANGED <<recVars, cause, owed>>
       \/ /\ ~pact[r] /\ r \in inst.disabled
          /\ putf' = [putf EXCEPT ![r] = FALSE] /\ rpro' = [rpro EXCEPT ![r] = FALSE]
          /\ owed' = owed \ {r}
          /\ th' = [th EXCEPT ![t] = IF ppn[r] = None THEN Back(t)
                                     ELSE [@ EXCEPT !.pc = "disabled", !.ppn = ppn[r]]]
          /\ UNCHANGED <<pact, pending, cause>>
       \/ /\ ~pact[r] /\ r \in inst.async
          /\ pact' = [pact EXCEPT ![r] = TRUE] /\ pending' = pending \cup {r}
          /\ cause' = [cause EXCEPT ![r] = IF ppn[r] \in {None, th[t].cause}
                                           THEN th[t].cause ELSE None]
          /\ owed' = owed \ {r}
          /\ th' = [th EXCEPT ![t] = Back(t)]
          /\ UNCHANGED <<putf, rpro>>
       \/ /\ ~pact[r] /\ r \notin inst.async
          /\ pact' = [pact EXCEPT ![r] = TRUE]
          /\ owed' = owed \ {r}
          /\ Goes(t, "fwd")
          /\ UNCHANGED <<putf, rpro, pending, cause>>
    /\ UNCHANGED <<inst, cut, pvtVars, listVars, cbVars, workVars, requests, served>>

\* processTarget after dbNotifyAdd: the put is passed on
PassOn(t, r, s) ==
    /\ putf' = [putf EXCEPT ![s] = IF ~pact[s] THEN putf[r] ELSE @ /\ ~putf[r]]
    /\ rpro' = [rpro EXCEPT ![s] = @ \/ (pact[s] /\ putf[r])]
    /\ owed' = IF pact[s] /\ putf[r] THEN owed \cup {s} ELSE owed
    /\ th' = [th EXCEPT ![t].pc = "process", ![t].at = s]

recGblFwdLink(t) ==
    LET r == th[t].at
        linked == r + 1 \in inst.passive /\ r \notin cut
    IN
    /\ th[t].pc = "fwd"
    /\ \/ ~linked /\ Goes(t, "test") /\ UNCHANGED <<putf, rpro, owed>>
       \/ linked /\ ppn[r] = None /\ PassOn(t, r, r + 1)
       \/ /\ linked /\ ppn[r] # None
          /\ th' = [th EXCEPT ![t].pc = "add", ![t].ppn = ppn[r]]
          /\ UNCHANGED <<putf, rpro, owed>>
    /\ UNCHANGED <<inst, cut, pact, pending, pvtVars, listVars, cbVars, workVars, requests,
                   served, cause>>

\* (mutant: it never joins)
Joins_Never(n, s) == FALSE
Joins(n, s) == /\ ~pact[s] /\ ppn[s] = None
               /\ state[n] = "notifyProcessInProgress" /\ s # Chan(n)

dbNotifyAdd(t) ==
    LET r == th[t].at
        s == r + 1
        n == th[t].ppn
    IN
    /\ th[t].pc = "add"
    /\ IF Joins(n, s)
       THEN /\ ppn' = [ppn EXCEPT ![s] = n]
            /\ waitList' = [waitList EXCEPT ![n] = Append(@, s)]
       ELSE UNCHANGED <<ppn, waitList>>
    /\ PassOn(t, r, s)
    /\ UNCHANGED <<inst, cut, pact, pending, pvtVars, restartList, state, cbVars, workVars,
                   requests, served, cause>>

\* "if(pdbc->ppn)"
TestNotify(t) ==
    LET r == th[t].at IN
    /\ th[t].pc = "test"
    /\ th' = [th EXCEPT ![t].pc = IF ppn[r] = None THEN "end" ELSE "notify", ![t].ppn = ppn[r]]
    /\ UNCHANGED <<inst, cut, recVars, pvtVars, listVars, cbVars, workVars, requests, history>>

\* r is the last record the request waits for
LastOf(n, r) == waitList[n] = <<r>>

dbNotifyCompletion(t) ==
    LET r == th[t].at
        n == th[t].ppn
    IN
    /\ th[t].pc \in {"notify", "disabled"}
    /\ th' = [th EXCEPT ![t] = IF @.pc = "disabled" THEN Back(t) ELSE [@ EXCEPT !.pc = "end"]]
    /\ \/ state[n] \notin InProgress /\ UNCHANGED <<listVars, cbVars>>
       \/ /\ state[n] \in InProgress
          /\ waitList' = [waitList EXCEPT ![n] = Those(@, Records \ {r})]
          /\ \/ ~LastOf(n, r) /\ restartCheck(<<r>>, state, <<>>)
             \/ /\ LastOf(n, r) /\ state[n] = "notifyProcessInProgress"
                /\ restartCheck(<<r>>, [state EXCEPT ![n] = "notifyUserCallbackRequested"], <<n>>)
             \/ /\ LastOf(n, r) /\ state[n] = "notifyRestartInProgress"
                /\ restartCheck(<<>>, [state EXCEPT ![n] = "notifyRestartCallbackRequested"], <<n>>)
    /\ UNCHANGED <<inst, cut, recVars, pvtVars, workVars, requests, history>>

\* (mutant: reprocessing is not asked for)
Again_Never(r) == onceQ' = onceQ
\* "If anyone requested reprocessing do it"
Again(r) == onceQ' = IF rpro[r] THEN Append(onceQ, r) ELSE onceQ

PutIsOver(r) == putf' = [putf EXCEPT ![r] = FALSE]
\* the end of recGblFwdLink and of the record's process routine
EndProcess(t) ==
    LET r == th[t].at IN
    /\ th[t].pc = "end"
    /\ Again(r)
    /\ rpro' = [rpro EXCEPT ![r] = FALSE] /\ PutIsOver(r)
    /\ pact' = [pact EXCEPT ![r] = FALSE] /\ cause' = [cause EXCEPT ![r] = None]
    /\ th' = [th EXCEPT ![t] = Back(t)]
    /\ UNCHANGED <<inst, cut, pending, pvtVars, listVars, cbVars, scans, requests, served, owed>>

-----------------------------------------------------------------------------
(* What else processes records.                                            *)

Starts(w, r, pc, n) ==
    /\ th[w].pc = "idle" /\ ~Locked(r)
    /\ th' = [th EXCEPT ![w] = [Idle EXCEPT !.pc = pc, !.from = r, !.at = r, !.cause = n]]

\* a device completes: the record's process routine goes on
Complete(w, r) ==
    /\ r \in pending /\ Starts(w, r, "fwd", cause[r])
    /\ pending' = pending \ {r}
    /\ UNCHANGED <<inst, cut, pact, putf, rpro, pvtVars, listVars, cbVars, workVars, requests,
                   history>>

ScanOnce(w) ==
    /\ onceQ # <<>> /\ Starts(w, Head(onceQ), "process", None)
    /\ onceQ' = Tail(onceQ)
    /\ UNCHANGED <<inst, cut, recVars, pvtVars, listVars, cbVars, scans, requests, history>>

\* a scan thread
Scan(w, r) ==
    /\ scans < inst.scans /\ r \notin inst.passive /\ Starts(w, r, "process", None)
    /\ scans' = scans + 1
    /\ UNCHANGED <<inst, cut, recVars, pvtVars, listVars, cbVars, onceQ, requests, history>>

\* dbPutField of a client without notify, to a field that processes
dbPutField(w, r) ==
    /\ scans < inst.scans /\ r \in inst.passive
    /\ scans' = scans + 1
    /\ \/ /\ pact[r] /\ ~Locked(r) /\ th[w].pc = "idle"
          /\ rpro' = [rpro EXCEPT ![r] = TRUE] /\ owed' = owed \cup {r}
          /\ UNCHANGED <<putf, th>>
       \/ /\ ~pact[r] /\ Starts(w, r, "process", None)
          /\ putf' = [putf EXCEPT ![r] = TRUE]
          /\ UNCHANGED <<rpro, owed>>
    /\ UNCHANGED <<inst, cut, pact, pending, pvtVars, listVars, cbVars, onceQ, requests, served,
                   cause>>

\* a put to the link field, with both lock sets
RemoveLink(r) ==
    /\ r \in inst.cuts \ cut /\ ~Locked(r) /\ ~Locked(r + 1)
    /\ cut' = cut \cup {r}
    /\ UNCHANGED <<inst, recVars, pvtVars, listVars, cbVars, workVars, th, requests, history>>

-----------------------------------------------------------------------------
\* a notifyPvt is there where the code dereferences it, and its assert()s hold
Asserts ==
    /\ \A t \in Threads :
          LET r == th[t].at
              n == th[t].ppn
          IN  /\ th[t].pc \in {"notify", "disabled", "add"} => pvt[n] # 0
              /\ th[t].pc \in {"notify", "disabled"} /\ state[n] \in InProgress
                    => IsIn(waitList[n], r)
    /\ \A t \in Threads : th[t].pc = "callback" =>
          LET n == th[t].n IN
          pvt[n] # 0 /\ state[n] \in Requested /\ waitList[n] = <<>>
    /\ \A n \in Notifies :
          /\ th[n].pc = "idle" /\ served[n] /\ pvt[n] # 0 => state[n] = "notifyUserCallbackActive"
          /\ state[n] = "notifyUserCallbackActive" => ppn[Chan(n)] # n

Client(n) == dbProcessNotify(n) \/ UserCallbackOver(n) \/ dbNotifyCancel(n) \/ CancelReturns(n)
Serve(t) == \/ doneCallback(t) \/ callDone(t)
            \/ dbProcess(t) \/ recGblFwdLink(t) \/ dbNotifyAdd(t) \/ TestNotify(t)
            \/ dbNotifyCompletion(t) \/ EndProcess(t)
Work(w) == \/ TakeCallback(w) \/ notifyCallback(w) \/ ScanOnce(w)
           \/ \E r \in Records : Complete(w, r)
Elsewhere(w) == \E r \in Records : Scan(w, r) \/ dbPutField(w, r)

\* a thread whose assert() fails is suspended with its locks
Next == /\ Asserts
        /\ \/ \E n \in Notifies : Client(n)
           \/ \E t \in Threads : Serve(t)
           \/ \E w \in Workers : Work(w) \/ Elsewhere(w)
           \/ \E r \in Records : RemoveLink(r)
Spec == Init /\ [][Next]_vars
-----------------------------------------------------------------------------
States == {"notifyNotActive", "notifyWaitForRestart", "notifyUserCallbackActive"}
             \cup InProgress \cup Requested
\* The type of every variable.
TypeOK ==
    /\ inst \in Instances /\ cut \subseteq inst.cuts
    /\ pact \in [Records -> BOOLEAN] /\ putf \in [Records -> BOOLEAN]
    /\ rpro \in [Records -> BOOLEAN] /\ ppn \in [Records -> Notifies \cup {None}]
    /\ restartList \in [Records -> Seq(Notifies)]
    /\ pvt \in [Notifies -> {0} \cup Pvts] /\ state \in [Notifies -> States]
    /\ waitList \in [Notifies -> Seq(Records)]
    /\ cancelWait \in [Notifies -> BOOLEAN] /\ userCallbackWait \in [Notifies -> BOOLEAN]
    /\ freeList \in Seq(Pvts) /\ callbacks \in Seq(Notifies) /\ refused \subseteq Notifies
    /\ cancelEvent \in [Pvts -> BOOLEAN] /\ userCallbackEvent \in [Pvts -> BOOLEAN]
    /\ onceQ \in Seq(Records) /\ pending \subseteq inst.async /\ scans \in 0 .. inst.scans
    /\ th \in [Threads -> [pc : Processing \cup {"idle", "calling", "returning", "callback",
                                                 "waitUser", "waitCancel"},
                           n : Notifies \cup {None}, from : Records, at : Records,
                           ppn : Notifies \cup {None}, cause : Notifies \cup {None}]]
    /\ requests \in [Notifies -> 0 .. inst.requests] /\ served \in [Notifies -> BOOLEAN]
    /\ cause \in [Records -> Notifies \cup {None}] /\ owed \subseteq Records

\* The assert()s of dbNotify.c hold, and no request is used after notifyCleanup, as long
\* as no link between records of one request is removed.
AssertsHold == cut = {} => Asserts
\* (they do not hold across lock sets)
NoAssertFails == Asserts

\* its callback has seen that it is canceled
Canceled(n) == pvt[n] # 0 /\ cancelEvent[pvt[n]]
\* The three places that say who has a record agree, across restart, completion and
\* cancel: a record has an owner if and only if it is on that request's waitList or the
\* request is to be restarted with it; those that wait for a record wait in its list,
\* once, and only while it has another owner.
OwnersAgree ==
    /\ \A r \in Records, n \in Notifies :
          /\ IsIn(waitList[n], r) => ppn[r] = n
          /\ ppn[r] = n => IF state[n] \in InProgress THEN IsIn(waitList[n], r)
                           ELSE state[n] = "notifyRestartCallbackRequested" /\ r = Chan(n)
          /\ IsIn(restartList[r], n) = (state[n] = "notifyWaitForRestart" /\ r = Chan(n))
    /\ \A r \in Records :
          /\ restartList[r] # <<>> => ppn[r] # None /\ ~IsIn(restartList[r], ppn[r])
          /\ \A i, j \in DOMAIN restartList[r] : restartList[r][i] = restartList[r][j] => i = j
    /\ \A n \in Notifies :
          /\ state[n] = "notifyRestartCallbackRequested" /\ ~Canceled(n) => ppn[Chan(n)] = n
          /\ (waitList[n] # <<>>) = (state[n] \in InProgress)

Called(n) == Times(callbacks, n)
                + Cardinality({w \in Workers : th[w].pc = "callback" /\ th[w].n = n})
\* A request that waits for its callback has exactly one under way, and no other request
\* has one: none is left for a notifyPvt that has been freed and given to another request.
OneCallback == \A n \in Notifies :
    Called(n) = IF state[n] \in Requested /\ n \notin refused /\ ~Canceled(n) THEN 1 ELSE 0

\* When doneCallback is called or about to be, no record is busy that was processed for
\* the request, be it at the end of a chain of asynchronous records, unless another
\* request owned that record or it was busy already.
DoneMeansDone == cut = {} => \A t \in Threads : th[t].pc \in {"calling", "returning"} =>
    \A r \in Records : cause[r] # th[t].n

Held(p) == Cardinality({n \in Notifies : pvt[n] = p})
             + Times(freeList, p)
\* notifyCleanup is done once for each request, by whichever of callDone, dbNotifyCancel
\* and dbProcessNotify comes last; a notifyPvt that is free has no signal left for its
\* next user.
PvtsReturned == \A p \in Pvts :
    /\ Held(p) <= 1
    /\ Held(p) = 0 => \A q \in Pvts : q > p => Held(q) = 0
    /\ cancelEvent[p] \/ userCallbackEvent[p] =>
          \E n \in Notifies : pvt[n] = p /\ th[n].pc \in {"waitCancel", "waitUser"}

\* "If PUTF is TRUE before a call to dbProcess, then after it returns either PACT is TRUE,
\* or PUTF will be FALSE"; and RPRO is set only of a busy record.
PutfEnds == \A r \in Records : ~Locked(r) /\ (putf[r] \/ rpro[r]) => pact[r]

\* What records, requests and notifyPvts say of each other agrees, and the assert()s of
\* the code hold.
Consistent == TypeOK /\ AssertsHold /\ OwnersAgree /\ OneCallback /\ PvtsReturned /\ PutfEnds

\* The requests of a client, as dbNotify.h promises them.
Calling(n) == \E t \in Threads : th[t].pc = "returning" /\ th[t].n = n
Promise == INSTANCE Notify WITH
    phase <- [n \in Notifies |-> IF Calling(n) THEN "calling"
                                 ELSE IF pvt[n] # 0 /\ ~served[n] THEN "asked" ELSE "idle"],
    canceling <- [n \in Notifies |-> th[n].pc = "waitCancel"]
\* A request is answered once or canceled, and a cancel waits for a callback under way.
ImplementsNotify == Promise!Spec

\* Threads that are at work go on, devices complete, and a client takes its signal.
Fairness == /\ \A t \in Threads : WF_vars(Serve(t))
            /\ \A w \in Workers : WF_vars(Work(w))
            /\ \A n \in Notifies : WF_vars(UserCallbackOver(n)) /\ WF_vars(CancelReturns(n))
FairSpec == Spec /\ Fairness

\* Every request comes to its callback in the end, through all its restarts, and
\* dbNotifyCancel and a dbProcessNotify that waits for the last callback return, unless a
\* full queue refused a callback or a link was removed under way.
CallsEnd == \A n \in Notifies :
    LET waits == th[n].pc \in {"waitCancel", "waitUser"} IN
    /\ []<>(served[n] \/ refused # {} \/ cut # {})
    /\ []<>(~waits \/ refused # {} \/ cut # {})
\* A record that was busy when a put came to it is processed after it.
PutReaches == \A r \in Records : []<>(r \notin owed \/ cut # {})

\* What a client asks for happens: its callback comes, its calls return, its put is processed.
RequestsEnd == CallsEnd /\ PutReaches
=============================================================================
