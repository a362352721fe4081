-------------------------------- MODULE DbCa --------------------------------
(***************************************************************************)
(* Channel Access links (modules/database/src/ioc/db/dbCa.c) for one link  *)
(* of one record: the caLink structures it gets one after the other as the *)
(* link is set and removed, the work list that dbCaTask serves, the        *)
(* callbacks of the CA client library, and the scanOnce requests by which  *)
(* a CP link processes its record.                                         *)
(*                                                                         *)
(* A step is a section of code run under caLink.lock (addAction's section  *)
(* under workListLock inside it), or what dbCaTask does between two of     *)
(* them without a lock.  The library runs one callback at a time, and      *)
(* ca_clear_channel waits for it.  A failed assert() ends the behaviour.   *)
(***************************************************************************)
EXTENDS Integers, Sequences, FiniteSets

CONSTANTS
    Shapes,       \* native types and element counts a channel connects with
    EnumShapes,   \* those of type DBR_ENUM
    Instances,    \* the links that are checked, and their bounds:
                  \*   use    "in", "cp" (an input that scans its record), "out" or
                  \*          "async" (device support waits for the put's callback),
                  \*          or "mixed" (both kinds of put)
                  \*   want   how the record reads or writes it: "string" or "native"
                  \*   calls  what its owner does besides processing the record
                  \*   links  bound: caLink structures allocated
                  \*   shapes, rights   what the server gives
                  \*   lost   bound: times a channel loses its connection
                  \*   refused   bound: times the scanOnce queue is full
    maxScans,     \* limit of scanningOnce, 5 in scanLinkOnce
    removesOutstandingWarning

ASSUME CaAssumption ==
    /\ EnumShapes \subseteq Shapes /\ "none" \notin Shapes /\ IsFiniteSet(Shapes)
    /\ maxScans \in Nat \ {0, 1} /\ removesOutstandingWarning \in Nat \ {0, 1}
    /\ \A i \in Instances :
          /\ i.use \in {"in", "cp", "out", "async", "mixed"}
          /\ i.want \in {"string", "native"}
          /\ i.calls \subseteq {"remove", "pause", "sync", "shutdown"}
          /\ i.links \in Nat /\ i.lost \in Nat /\ i.refused \in Nat
          /\ i.shapes \subseteq Shapes /\ i.rights \subseteq SUBSET {"read", "write"}

Inputs == {"in", "cp"}
Kinds == {"native", "string"}
NoLink == 0                 \* the null pointer
TempLink == 0               \* on the work list: the templink of dbCaSync
\* the bits of link_action
Monitor == [native |-> "CA_MONITOR_NATIVE", string |-> "CA_MONITOR_STRING"]
Write   == [native |-> "CA_WRITE_NATIVE",   string |-> "CA_WRITE_STRING"]

VARIABLES
    inst,         \* the instance: never changes
    link,         \* plink->value.pv_link: pvt and pvlMask
    last,         \* caLink structures allocated so far
    ca,           \* struct caLink, by structure
    freed,        \* structures freed
    chan,         \* the library's channel of each structure
    workList, workListEvent, dbCaCtl, removesOutstanding,
    task,         \* dbCaTask
    cb,           \* the library's callback thread
    onceQ, scan,  \* scanOnce requests of the link, and the thread that serves them
    user,         \* the thread that sets, removes and processes the record
    pact,         \* the record waits for a put to complete
    asserted,     \* assert()s that failed
    \* history
    lost, refused,   \* connections lost; links whose scan request was refused
    unsubscribed, \* links whose subscription the library refused
    paused,       \* links whose removal waited in addAction
    stale         \* a CP link got news the record has not been processed for

listVars == <<workList, workListEvent, dbCaCtl, removesOutstanding>>
scanVars == <<onceQ, scan, refused>>
recVars  == <<inst, link, pact, stale, unsubscribed, paused>>
vars == <<inst, link, last, ca, freed, chan, workList, workListEvent, dbCaCtl, paused,
          removesOutstanding, task, cb, onceQ, scan, user, pact, asserted, lost,
          refused, unsubscribed, stale>>

\* dbCalloc, then dbCaAddLinkCallback's assignments
NewLink ==
    [refcount |-> 1, plink |-> TRUE, link_action |-> {}, isConnected |-> FALSE,
     access |-> {}, gotFirstConnection |-> FALSE, shape |-> "none", pget |-> {},
     gotIn |-> {}, evid |-> [k \in Kinds |-> 0], pput |-> {}, putType |-> "none",
     putCallback |-> FALSE, scanningOnce |-> 0, gotAttributes |-> FALSE]
NoChannel == [state |-> "none", shape |-> "none", access |-> {}, subs |-> {},
              puts |-> 0, gets |-> 0]
Idle == [pc |-> "idle", p |-> NoLink]
UserIdle == [pc |-> "idle", p |-> NoLink, callAdd |-> FALSE]

Init ==
    /\ inst \in Instances
    /\ link = [pvt |-> NoLink, pvlMask |-> {}] /\ last = 0
    /\ ca = [p \in 1 .. inst.links |-> NewLink] /\ freed = {}
    /\ chan = [p \in 1 .. inst.links |-> NoChannel]
    /\ workList = <<>> /\ workListEvent = FALSE /\ dbCaCtl = "ctlPause"
    /\ removesOutstanding = 0
    /\ task = [pc |-> "wait", p |-> NoLink, todo |-> {}]
    /\ cb = Idle /\ onceQ = <<>> /\ scan = Idle /\ user = UserIdle
    /\ pact = FALSE /\ asserted = {} /\ lost = 0 /\ refused = {} /\ stale = FALSE
    /\ unsubscribed = {} /\ paused = {}

Links == 1 .. inst.links

-----------------------------------------------------------------------------
\* (mutant: the bits replace those that are set)
WithAction_Replaces(c, acts) == [c EXCEPT !.link_action = acts]
\* addAction: the caLink with the bits set, and whether it goes on the list
WithAction(c, acts) ==
    IF "CA_CLEAR_CHANNEL" \in c.link_action THEN c
    ELSE [c EXCEPT !.link_action = @ \cup acts]

\* (mutant: the structure goes on the list whether it is there or not)
addAction_Unconditional(p, c, acts) ==
    /\ ca' = [ca EXCEPT ![p] = WithAction(c, acts)]
    /\ workList' = Append(workList, p) /\ workListEvent' = TRUE
    /\ UNCHANGED <<dbCaCtl, removesOutstanding>>
\* addAction(p, acts), with c the structure as its caller leaves it
addAction(p, c, acts) ==
    /\ ca' = [ca EXCEPT ![p] = WithAction(c, acts)]
    /\ IF c.link_action = {}
       THEN workList' = Append(workList, p) /\ workListEvent' = TRUE
       ELSE UNCHANGED <<workList, workListEvent>>
    /\ UNCHANGED <<dbCaCtl, removesOutstanding>>

\* "if (link_action) addAction(pca, link_action)"
Update(p, c, acts) ==
    IF acts = {} THEN ca' = [ca EXCEPT ![p] = c] /\ UNCHANGED listVars
    ELSE addAction(p, c, acts)

\* how a link to an enumeration is read or written as a string
Kind(c) == IF c.shape \in EnumShapes /\ inst.want = "string" THEN "string" ELSE "native"

\* scanOnceCallback: a full queue refuses
Requested(p, ok) ==
    /\ onceQ' = IF ok THEN Append(onceQ, p) ELSE onceQ
    /\ refused' = IF ok THEN refused ELSE refused \cup {p}
    /\ ok \/ Cardinality(refused) < inst.refused
CaLinkInc(c, ok) == IF ok THEN [c EXCEPT !.refcount = @ + 1] ELSE c
ScanCounted(c) ==
    [c EXCEPT !.scanningOnce = IF @ < maxScans THEN @ + 1 ELSE @]

\* the last line of the callbacks: scanLinkOnce, when scans holds
scanLinkOnce(p, c, scans) ==
    \/ /\ scans /\ c.scanningOnce = 0
       /\ \E ok \in BOOLEAN :
             /\ Requested(p, ok)
             /\ ca' = [ca EXCEPT ![p] = ScanCounted(CaLinkInc(c, ok))]
    \/ /\ scans /\ c.scanningOnce > 0
       /\ ca' = [ca EXCEPT ![p] = ScanCounted(c)]
       /\ UNCHANGED <<onceQ, refused>>
    \/ ~scans /\ ca' = [ca EXCEPT ![p] = c] /\ UNCHANGED <<onceQ, refused>>

RecordFree == user.pc \in {"idle", "syncing", "joining"}   \* dbScanLock is free
-----------------------------------------------------------------------------
(* What the record's owner does, dbScanLock held.                          *)

dbCaAddLink ==
    LET p == last + 1 IN
    /\ user.pc = "idle" /\ link.pvt = NoLink /\ last < inst.links /\ dbCaCtl # "ctlExit"
    /\ last' = p
    /\ link' = [pvt |-> p, pvlMask |-> IF inst.use \in Inputs THEN {"native"} ELSE {}]
    /\ addAction(p, NewLink, {"CA_CONNECT"})
    /\ UNCHANGED <<inst, unsubscribed, paused, freed, chan, task, cb, scanVars, user, pact, asserted,
                   lost, stale>>

\* pca->plink = 0, under caLink.lock; addAction follows
dbCaRemoveLink ==
    /\ "remove" \in inst.calls /\ user.pc = "idle" /\ link.pvt # NoLink
    /\ ca' = [ca EXCEPT ![link.pvt].plink = FALSE]
    /\ link' = [pvt |-> NoLink, pvlMask |-> {}]
    /\ user' = [pc |-> "removing", p |-> link.pvt, callAdd |-> FALSE]
    /\ stale' = FALSE
    /\ UNCHANGED <<inst, unsubscribed, paused, last, freed, chan, listVars, task, cb, scanVars, pact,
                   asserted, lost>>

\* addAction(pca, CA_CLEAR_CHANNEL): too many of them wait for dbCaTask
RemovePause ==
    /\ user.pc = "removing" /\ removesOutstanding + 1 >= removesOutstandingWarning
    /\ removesOutstanding' = removesOutstanding + 1
    /\ user' = [user EXCEPT !.pc = "pausing", !.callAdd = ca[user.p].link_action = {}]
    /\ paused' = paused \cup {user.p}
    /\ UNCHANGED <<inst, unsubscribed, link, last, ca, freed, chan, workList, workListEvent,
                   dbCaCtl, task, cb, scanVars, pact, asserted, lost, stale>>

\* callAdd was read before the pause
RemoveAction ==
    LET p == user.p
        callAdd == IF user.pc = "pausing" THEN user.callAdd ELSE ca[p].link_action = {}
    IN
    /\ \/ user.pc = "removing" /\ removesOutstanding + 1 < removesOutstandingWarning
          /\ removesOutstanding' = removesOutstanding + 1
       \/ user.pc = "pausing" /\ removesOutstanding < removesOutstandingWarning
          /\ UNCHANGED removesOutstanding
    /\ ca' = [ca EXCEPT ![p] = WithAction(@, {"CA_CLEAR_CHANNEL"})]
    /\ IF callAdd
       THEN workList' = Append(workList, p) /\ workListEvent' = TRUE
       ELSE UNCHANGED <<workList, workListEvent>>
    /\ user' = UserIdle
    /\ UNCHANGED <<inst, unsubscribed, paused, link, last, freed, chan, dbCaCtl, task, cb,
                   scanVars, pact, asserted, lost, stale>>

dbCaGetLink ==
    LET p == link.pvt
        c == ca[p]
        k == Kind(c)
        asks == c.isConnected /\ "read" \in c.access /\ k \notin c.pget
    IN
    /\ p # NoLink /\ inst.use \in Inputs
    /\ Update(p, c, IF asks THEN {Monitor[k]} ELSE {})
    /\ link' = IF asks THEN [link EXCEPT !.pvlMask = @ \cup {k}] ELSE link
    /\ stale' = FALSE /\ UNCHANGED pact

\* async: device support waits for the callback with PACT set (devXxxSoftCallback.c)
dbCaPutLinkCallback(async) ==
    LET p == link.pvt
        c == ca[p]
        k == Kind(c)
    IN
    /\ p # NoLink /\ inst.use \notin Inputs /\ ~pact
    /\ async => inst.use # "out"
    /\ ~async => inst.use # "async"
    /\ IF c.isConnected /\ "write" \in c.access
       THEN /\ addAction(p, [c EXCEPT !.pput = @ \cup {k},
                                      !.putType = IF async THEN "CA_PUT_CALLBACK" ELSE "CA_PUT",
                                      !.putCallback = async],
                         {Write[k]})
            /\ pact' = async
       ELSE UNCHANGED <<ca, listVars, pact>>
    /\ UNCHANGED <<link, stale>>

\* dbProcess
Process ==
    \/ dbCaGetLink
    \/ \E async \in BOOLEAN : dbCaPutLinkCallback(async)
    \/ (pact \/ link.pvt = NoLink) /\ UNCHANGED <<ca, listVars, link, pact, stale>>

UserProcess ==
    /\ user.pc = "idle" /\ Process
    /\ UNCHANGED <<inst, unsubscribed, paused, last, freed, chan, task, cb, scanVars, user, asserted, lost>>

\* dbCaSync: the templink goes on the list, the caller waits for it
dbCaSync ==
    /\ "sync" \in inst.calls /\ user.pc = "idle" /\ dbCaCtl # "ctlExit"
    /\ user' = [user EXCEPT !.pc = "syncing"]
    /\ workList' = Append(workList, TempLink) /\ workListEvent' = TRUE
    /\ UNCHANGED <<recVars, last, ca, freed, chan, dbCaCtl, removesOutstanding, task, cb,
                   scanVars, asserted, lost>>

\* iocRun, iocPause: the shell's thread
SetCtl(from, to) ==
    /\ dbCaCtl \in from
    /\ dbCaCtl' = to /\ workListEvent' = TRUE
    /\ UNCHANGED <<recVars, last, ca, freed, chan, workList, removesOutstanding, task, cb,
                   scanVars, asserted, lost>>

dbCaRun   == SetCtl({"ctlPause"}, "ctlRun") /\ UNCHANGED user
dbCaPause == "pause" \in inst.calls /\ SetCtl({"ctlRun"}, "ctlPause") /\ UNCHANGED user
\* iocShutdown closes the links first, then waits for dbCaTask to end
dbCaShutdown ==
    /\ "shutdown" \in inst.calls /\ user.pc = "idle" /\ link.pvt = NoLink
    /\ SetCtl({"ctlRun", "ctlPause"}, "ctlExit")
    /\ user' = [user EXCEPT !.pc = "joining"]

-----------------------------------------------------------------------------
(* The library: a channel connects and is lost, then it calls back.        *)

Connect(p, s, r) ==
    /\ cb.pc = "idle" /\ chan[p].state \in {"created", "disc"}
    /\ chan' = [chan EXCEPT ![p].state = "conn", ![p].shape = s, ![p].access = r]
    /\ cb' = [pc |-> "notify", p |-> p]
    /\ UNCHANGED <<recVars, last, ca, freed, listVars, task, scanVars, user, asserted, lost>>

Disconnect(p) ==
    /\ cb.pc = "idle" /\ chan[p].state = "conn" /\ lost < inst.lost
    /\ chan' = [chan EXCEPT ![p].state = "disc", ![p].gets = 0]
    /\ cb' = [pc |-> "notify", p |-> p] /\ lost' = lost + 1
    /\ UNCHANGED <<recVars, last, ca, freed, listVars, task, scanVars, user, asserted>>

\* connectionCallback of a channel that was lost; outstanding puts fail before
ConnectionLost ==
    LET p == cb.p
        c == ca[p]
    IN
    /\ cb.pc = "notify" /\ chan[p].state = "disc" /\ chan[p].puts = 0
    /\ IF c.plink
       THEN /\ scanLinkOnce(p, [c EXCEPT !.isConnected = FALSE], inst.use = "cp")
            /\ stale' = (stale \/ inst.use = "cp")
       ELSE UNCHANGED <<ca, onceQ, refused, stale>>
    /\ cb' = Idle
    /\ UNCHANGED <<inst, unsubscribed, paused, link, last, freed, chan, listVars, task, scan, user, pact,
                   asserted, lost>>

\* "Size or type changed, clear everything"
Cleared(c) ==
    [c EXCEPT !.evid = [k \in Kinds |-> 0], !.gotIn = {}, !.pget = {}, !.pput = {}]

\* connectionCallback of a channel that connected
Connected ==
    LET p == cb.p
        c == ca[p]
        retyped == c.gotFirstConnection /\ c.shape # chan[p].shape
        d == IF retyped THEN Cleared(c) ELSE c
        mask == IF retyped THEN {} ELSE link.pvlMask
    IN
    /\ cb.pc = "notify" /\ chan[p].state = "conn"
    /\ IF c.plink
       THEN /\ Update(p, [d EXCEPT !.isConnected = TRUE, !.access = chan[p].access,
                                   !.gotFirstConnection = TRUE, !.shape = chan[p].shape,
                                   !.gotAttributes = FALSE],
                      {Monitor[k] : k \in mask \ d.pget} \cup {"CA_GET_ATTRIBUTES"})
            /\ chan' = IF retyped
                       THEN [chan EXCEPT ![p].subs = {s \in @ : c.evid[s.kind] # s.id}]
                       ELSE chan
            /\ link' = [link EXCEPT !.pvlMask = mask]
       ELSE UNCHANGED <<ca, listVars, chan, link>>
    /\ cb' = Idle
    /\ UNCHANGED <<inst, unsubscribed, paused, last, freed, task, scanVars, user, pact, asserted, lost, stale>>

\* an update of subscription s; string updates of an enumeration have a buffer of their own
eventCallback(p, s) ==
    LET c == ca[p]
        k == IF s.kind = "string" /\ chan[p].shape \in EnumShapes THEN "string" ELSE "native"
        enum == s.kind = "native" /\ s.shape \in EnumShapes
        doScan == ~(enum /\ "string" \in link.pvlMask)
    IN
    /\ cb.pc = "idle" /\ chan[p].state = "conn" /\ s \in chan[p].subs
    /\ "read" \in chan[p].access /\ c.plink
    /\ IF k \in c.pget
       THEN /\ scanLinkOnce(p, [c EXCEPT !.gotIn = @ \cup {k}], doScan /\ inst.use = "cp")
            /\ stale' = (stale \/ (doScan /\ inst.use = "cp"))
            /\ UNCHANGED asserted
       ELSE asserted' = asserted \cup {"eventCallback"} /\ UNCHANGED <<ca, onceQ, refused, stale>>
    /\ UNCHANGED <<inst, unsubscribed, paused, link, last, freed, chan, listVars, task, cb, scan, user, pact, lost>>

\* (mutant: the callback is called and kept)
putComplete_Keeps(p) ==
    LET c == ca[p]
        calls == c.plink /\ c.putCallback
        losing == cb.pc = "notify" /\ cb.p = p /\ chan[p].state = "disc"
    IN
    /\ cb.pc = "idle" \/ losing
    /\ chan[p].puts > 0 /\ chan' = [chan EXCEPT ![p].puts = @ - 1]
    /\ ca' = IF c.plink THEN [ca EXCEPT ![p].putType = "none"] ELSE ca
    /\ cb' = IF calls THEN [pc |-> IF losing THEN "callThenNotify" ELSE "call", p |-> p] ELSE cb
    /\ UNCHANGED <<recVars, last, freed, listVars, task, scanVars, user, asserted, lost>>
\* the answer to a put, or its failure as the channel is lost
putComplete(p) ==
    LET c == ca[p]
        calls == c.plink /\ c.putCallback
        losing == cb.pc = "notify" /\ cb.p = p /\ chan[p].state = "disc"
    IN
    /\ cb.pc = "idle" \/ losing
    /\ chan[p].puts > 0 /\ chan' = [chan EXCEPT ![p].puts = @ - 1]
    /\ ca' = IF c.plink THEN [ca EXCEPT ![p].putCallback = FALSE, ![p].putType = "none"] ELSE ca
    /\ cb' = IF calls THEN [pc |-> IF losing THEN "callThenNotify" ELSE "call", p |-> p] ELSE cb
    /\ UNCHANGED <<recVars, last, freed, listVars, task, scanVars, user, asserted, lost>>

\* dbCaCallbackProcess: the record completes, with its lock
CallbackCalls ==
    /\ cb.pc \in {"call", "callThenNotify"} /\ RecordFree
    /\ cb' = IF cb.pc = "call" THEN Idle ELSE [cb EXCEPT !.pc = "notify"]
    /\ pact' = FALSE
    /\ UNCHANGED <<inst, unsubscribed, paused, link, stale, last, ca, freed, chan, listVars, task, scanVars,
                   user, asserted, lost>>

accessRightsCallback(p, r) ==
    LET c == ca[p]
        scans == inst.use = "cp" /\ r # {"read", "write"}
    IN
    /\ cb.pc = "idle" /\ chan[p].state = "conn" /\ r # chan[p].access
    /\ chan' = [chan EXCEPT ![p].access = r]
    /\ IF c.plink
       THEN scanLinkOnce(p, [c EXCEPT !.access = r], scans) /\ stale' = (stale \/ scans)
       ELSE UNCHANGED <<ca, onceQ, refused, stale>>
    /\ UNCHANGED <<inst, unsubscribed, paused, link, last, freed, listVars, task, cb, scan, user, pact,
                   asserted, lost>>

getAttribEventCallback(p) ==
    /\ cb.pc = "idle" /\ chan[p].state = "conn" /\ chan[p].gets > 0
    /\ chan' = [chan EXCEPT ![p].gets = @ - 1]
    /\ ca' = IF ca[p].plink THEN [ca EXCEPT ![p].gotAttributes = TRUE] ELSE ca
    /\ UNCHANGED <<recVars, last, freed, listVars, task, cb, scanVars, user, asserted, lost>>
-----------------------------------------------------------------------------
(* dbCaTask.                                                               *)

TaskWake ==
    /\ task.pc = "wait" /\ workListEvent
    /\ workListEvent' = FALSE
    /\ task' = [task EXCEPT !.pc = IF dbCaCtl = "ctlPause" THEN "wait" ELSE "work"]
    /\ UNCHANGED <<recVars, last, ca, freed, chan, workList, dbCaCtl, removesOutstanding, cb,
                   scanVars, user, asserted, lost>>

\* the list is found empty under workListLock; dbCaCtl is read after it is given back
TaskListEmpty ==
    /\ task.pc = "work" /\ workList = <<>>
    /\ task' = [task EXCEPT !.pc = "ctl"]
    /\ UNCHANGED <<recVars, last, ca, freed, chan, listVars, cb, scanVars, user, asserted, lost>>

TaskCtl ==
    /\ task.pc = "ctl"
    /\ task' = [task EXCEPT !.pc = IF dbCaCtl = "ctlExit" THEN "shutdown" ELSE "wait"]
    /\ UNCHANGED <<recVars, last, ca, freed, chan, listVars, cb, scanVars, user, asserted, lost>>

\* the head of the list and its actions, under workListLock
TaskTake ==
    LET p == Head(workList)
        acts == ca[p].link_action
        clears == "CA_CLEAR_CHANNEL" \in acts
    IN
    /\ task.pc = "work" /\ workList # <<>> /\ p # TempLink
    /\ workList' = Tail(workList)
    /\ ca' = [ca EXCEPT ![p].link_action = {}]
    /\ removesOutstanding' = IF clears THEN removesOutstanding - 1 ELSE removesOutstanding
    /\ task' = [pc |-> IF clears THEN "dec" ELSE "act", p |-> p, todo |-> acts]
    /\ UNCHANGED <<recVars, last, freed, chan, workListEvent, dbCaCtl, cb, scanVars, user,
                   asserted, lost>>

\* CA_SYNC: wakes the caller of dbCaSync
TaskSync ==
    /\ task.pc = "work" /\ workList # <<>> /\ Head(workList) = TempLink
    /\ workList' = Tail(workList)
    /\ user' = [user EXCEPT !.pc = "idle"]
    /\ UNCHANGED <<recVars, last, ca, freed, chan, workListEvent, dbCaCtl, removesOutstanding,
                   task, cb, scanVars, asserted, lost>>

NextWork == [pc |-> "work", p |-> NoLink, todo |-> {}]

TaskConnect ==
    /\ task.pc = "act" /\ "CA_CONNECT" \in task.todo
    /\ chan' = [chan EXCEPT ![task.p].state = "created"]
    /\ task' = NextWork
    /\ UNCHANGED <<recVars, last, ca, freed, listVars, cb, scanVars, user, asserted, lost>>

\* ca_state(pca->chid) != cs_conn: nothing is done
TaskState ==
    /\ task.pc = "act" /\ "CA_CONNECT" \notin task.todo
    /\ task' = IF chan[task.p].state = "conn" THEN [task EXCEPT !.pc = "do"] ELSE NextWork
    /\ UNCHANGED <<recVars, last, ca, freed, chan, listVars, cb, scanVars, user, asserted, lost>>

Rank == [CA_WRITE_NATIVE |-> 1, CA_WRITE_STRING |-> 2, CA_GET_ATTRIBUTES |-> 3,
         CA_MONITOR_NATIVE |-> 4, CA_MONITOR_STRING |-> 5]
\* a is what dbCaTask does next, and what is left after it
Doing(a) == task.pc = "do" /\ a \in task.todo /\ \A b \in task.todo : Rank[a] <= Rank[b]
Done(a)  == task' = IF task.todo = {a} THEN NextWork
                    ELSE [task EXCEPT !.pc = "do", !.todo = @ \ {a}]

\* pputNative and putType are read without the lock; the library refuses the put
\* of a channel that is not connected or may not be written
TaskWrite(k) ==
    LET c == ca[task.p]
        sent == chan[task.p].state = "conn" /\ "write" \in chan[task.p].access
    IN
    /\ Doing(Write[k]) /\ Done(Write[k])
    /\ asserted' = IF k \in c.pput THEN asserted ELSE asserted \cup {"pputNative"}
    /\ chan' = IF sent /\ c.putType = "CA_PUT_CALLBACK" /\ k \in c.pput
               THEN [chan EXCEPT ![task.p].puts = @ + 1] ELSE chan
    /\ UNCHANGED <<recVars, last, ca, freed, listVars, cb, scanVars, user, lost>>

TaskGetAttributes ==
    LET sent == chan[task.p].state = "conn" /\ "read" \in chan[task.p].access IN
    /\ Doing("CA_GET_ATTRIBUTES") /\ Done("CA_GET_ATTRIBUTES")
    /\ chan' = IF sent THEN [chan EXCEPT ![task.p].gets = @ + 1] ELSE chan
    /\ UNCHANGED <<recVars, last, ca, freed, listVars, cb, scanVars, user, asserted, lost>>

\* the buffer, under caLink.lock
TaskAllocate(k) ==
    /\ Doing(Monitor[k])
    /\ ca' = [ca EXCEPT ![task.p].pget = @ \cup {k}]
    /\ task' = [task EXCEPT !.pc = Monitor[k]]
    /\ UNCHANGED <<recVars, last, freed, chan, listVars, cb, scanVars, user, asserted, lost>>

\* ca_add_array_event.  It takes a channel that is not connected, but the native type
\* of such a channel is TYPENOTCONN, which it refuses
TaskSubscribe(k) ==
    LET p == task.p
        id == Cardinality(chan[p].subs) + 1
        takes == chan[p].state = "conn" \/ k = "string"
    IN
    /\ task.pc = Monitor[k] /\ Done(Monitor[k])
    /\ IF takes
       THEN /\ chan' = [chan EXCEPT ![p].subs =
                           @ \cup {[kind |-> k, id |-> id, shape |-> chan[p].shape]}]
            /\ ca' = [ca EXCEPT ![p].evid[k] = id]
            /\ UNCHANGED unsubscribed
       ELSE unsubscribed' = unsubscribed \cup {p} /\ UNCHANGED <<ca, chan>>
    /\ UNCHANGED <<inst, paused, link, pact, stale, last, freed, listVars, cb, scanVars, user, asserted,
                   lost>>

-----------------------------------------------------------------------------
(* caLinkDec, by dbCaTask and by the thread that served a scan request:    *)
(* t is the state of that thread, left the one it goes on in.              *)

Dec(t) ==
    /\ t.pc = "dec"
    /\ ca' = [ca EXCEPT ![t.p].refcount = @ - 1]
    /\ UNCHANGED <<recVars, last, freed, chan, listVars, cb, onceQ, refused, user, asserted, lost>>

\* (mutant: the last but one reference frees)
DecTo_Early(t, left) == IF ca[t.p].refcount <= 2 THEN [t EXCEPT !.pc = "free"] ELSE left
DecTo(t, left) == IF ca[t.p].refcount = 1 THEN [t EXCEPT !.pc = "free"] ELSE left

\* ca_clear_channel waits for a callback that runs; then the structure is freed
Free(t) ==
    /\ t.pc = "free" /\ (chan[t.p].state # "none" => cb.pc = "idle")
    /\ chan' = [chan EXCEPT ![t.p] = [NoChannel EXCEPT !.state = "cleared"]]
    /\ freed' = freed \cup {t.p}
    /\ ca' = [ca EXCEPT ![t.p] = [NewLink EXCEPT !.refcount = 0, !.plink = FALSE]]
    /\ UNCHANGED <<recVars, last, listVars, cb, onceQ, refused, user, asserted, lost>>
FreeTo(t, left) == IF ca[t.p].putCallback THEN [t EXCEPT !.pc = "call"] ELSE left

\* "if (callback) callback(userPvt)"
Call(t) ==
    /\ t.pc = "call" /\ RecordFree
    /\ pact' = FALSE
    /\ UNCHANGED <<inst, unsubscribed, paused, link, stale, last, ca, freed, chan, listVars, cb, onceQ, refused,
                   user, asserted, lost>>

TaskDec  == Dec(task) /\ task' = DecTo(task, NextWork) /\ UNCHANGED scan
TaskFree == Free(task) /\ task' = FreeTo(task, NextWork) /\ UNCHANGED scan
TaskCall == Call(task) /\ task' = NextWork /\ UNCHANGED scan

-----------------------------------------------------------------------------
(* The thread that serves scanOnce requests.                               *)

ScanTake ==
    /\ scan.pc = "idle" /\ onceQ # <<>>
    /\ scan' = [pc |-> "process", p |-> Head(onceQ)] /\ onceQ' = Tail(onceQ)
    /\ UNCHANGED <<recVars, last, ca, freed, chan, listVars, task, cb, refused, user, asserted,
                   lost>>

ScanProcess ==
    /\ scan.pc = "process" /\ RecordFree /\ Process
    /\ scan' = [scan EXCEPT !.pc = "complete"]
    /\ UNCHANGED <<inst, unsubscribed, paused, last, freed, chan, task, cb, onceQ, refused, user, asserted, lost>>

\* (mutant: what was counted while the record was processed is taken as done)
scanComplete_AllDone ==
    LET p == scan.p IN
    /\ scan.pc = "complete"
    /\ ca' = IF ca[p].plink THEN [ca EXCEPT ![p].scanningOnce = 0] ELSE ca
    /\ UNCHANGED <<onceQ, refused>>
    /\ scan' = [scan EXCEPT !.pc = "dec"]
    /\ UNCHANGED <<recVars, last, freed, chan, listVars, task, cb, user, asserted, lost>>
\* (mutant: it returns at once when the link has been removed)
scanComplete_Returns ==
    LET p == scan.p
        c == [ca[p] EXCEPT !.scanningOnce = @ - 1]
    IN
    /\ scan.pc = "complete"
    /\ \/ /\ ca[p].plink /\ ca[p].scanningOnce > 1
          /\ \E ok \in BOOLEAN : Requested(p, ok) /\ ca' = [ca EXCEPT ![p] = CaLinkInc(c, ok)]
       \/ /\ ca[p].plink /\ ca[p].scanningOnce = 1
          /\ ca' = [ca EXCEPT ![p] = c] /\ UNCHANGED <<onceQ, refused>>
       \/ /\ ~ca[p].plink \/ ca[p].scanningOnce = 0
          /\ UNCHANGED <<ca, onceQ, refused>>
    /\ scan' = IF ca[p].plink THEN [scan EXCEPT !.pc = "dec"] ELSE Idle
    /\ UNCHANGED <<recVars, last, freed, chan, listVars, task, cb, user, asserted, lost>>
\* another scan was asked for meanwhile: the request is put again
scanComplete ==
    LET p == scan.p
        c == [ca[p] EXCEPT !.scanningOnce = @ - 1]
    IN
    /\ scan.pc = "complete"
    /\ \/ /\ ca[p].plink /\ ca[p].scanningOnce > 1
          /\ \E ok \in BOOLEAN : Requested(p, ok) /\ ca' = [ca EXCEPT ![p] = CaLinkInc(c, ok)]
       \/ /\ ca[p].plink /\ ca[p].scanningOnce = 1
          /\ ca' = [ca EXCEPT ![p] = c] /\ UNCHANGED <<onceQ, refused>>
       \/ /\ ~ca[p].plink \/ ca[p].scanningOnce = 0
          /\ UNCHANGED <<ca, onceQ, refused>>
    /\ scan' = [scan EXCEPT !.pc = "dec"]
    /\ UNCHANGED <<recVars, last, freed, chan, listVars, task, cb, user, asserted, lost>>

ScanDec  == Dec(scan) /\ scan' = DecTo(scan, Idle) /\ UNCHANGED task
ScanFree == Free(scan) /\ scan' = FreeTo(scan, Idle) /\ UNCHANGED task
ScanCall == Call(scan) /\ scan' = Idle /\ UNCHANGED task

-----------------------------------------------------------------------------
User == \/ dbCaAddLink \/ dbCaRemoveLink \/ RemovePause \/ RemoveAction \/ UserProcess
        \/ dbCaSync \/ dbCaRun \/ dbCaPause \/ dbCaShutdown
Library == \E p \in Links :
              \/ \E s \in inst.shapes, r \in inst.rights : Connect(p, s, r)
              \/ Disconnect(p) \/ putComplete(p) \/ getAttribEventCallback(p)
              \/ \E s \in chan[p].subs : eventCallback(p, s)
              \/ \E r \in inst.rights : accessRightsCallback(p, r)
Callbacks == ConnectionLost \/ Connected \/ CallbackCalls
Task == \/ TaskWake \/ TaskListEmpty \/ TaskCtl \/ TaskTake \/ TaskSync
        \/ TaskConnect \/ TaskState
        \/ \E k \in Kinds : TaskWrite(k) \/ TaskAllocate(k) \/ TaskSubscribe(k)
        \/ TaskGetAttributes \/ TaskDec \/ TaskFree \/ TaskCall
Scan == ScanTake \/ ScanProcess \/ scanComplete \/ ScanDec \/ ScanFree \/ ScanCall

\* a failed assert() suspends its thread, with the locks it holds
Next == asserted = {} /\ (User \/ Library \/ Callbacks \/ Task \/ Scan)
Spec == Init /\ [][Next]_vars
-----------------------------------------------------------------------------
LinkBits == {"CA_CLEAR_CHANNEL", "CA_CONNECT", "CA_GET_ATTRIBUTES"}
               \cup {Monitor[k] : k \in Kinds} \cup {Write[k] : k \in Kinds}
CaLinks == [refcount : Nat, plink : BOOLEAN, link_action : SUBSET LinkBits,
            isConnected : BOOLEAN, access : SUBSET {"read", "write"},
            gotFirstConnection : BOOLEAN, shape : Shapes \cup {"none"}, pget : SUBSET Kinds,
            gotIn : SUBSET Kinds, evid : [Kinds -> Nat], pput : SUBSET Kinds,
            putType : {"none", "CA_PUT", "CA_PUT_CALLBACK"}, putCallback : BOOLEAN,
            scanningOnce : 0 .. maxScans, gotAttributes : BOOLEAN]
\* The type of every variable.
TypeOK ==
    /\ inst \in Instances /\ last \in 0 .. inst.links
    /\ link.pvt \in 0 .. last /\ link.pvlMask \subseteq Kinds
    /\ DOMAIN ca = Links /\ \A p \in Links : ca[p] \in CaLinks
    /\ freed \subseteq 1 .. last /\ DOMAIN chan = Links
    /\ \A p \in Links : /\ DOMAIN chan[p] = DOMAIN NoChannel
                        /\ chan[p].puts \in Nat /\ chan[p].gets \in Nat
    /\ workList \in Seq(0 .. last) /\ workListEvent \in BOOLEAN
    /\ dbCaCtl \in {"ctlRun", "ctlPause", "ctlExit"} /\ removesOutstanding \in Nat
    /\ task.pc \in {"wait", "work", "ctl", "act", "do", "dec", "free", "call", "shutdown"}
                     \cup {Monitor[k] : k \in Kinds}
    /\ task.p \in 0 .. last /\ task.todo \subseteq LinkBits
    /\ cb.pc \in {"idle", "notify", "call", "callThenNotify"} /\ cb.p \in 0 .. last
    /\ onceQ \in Seq(1 .. last) /\ scan.p \in 0 .. last
    /\ scan.pc \in {"idle", "process", "complete", "dec", "free", "call"}
    /\ user.pc \in {"idle", "removing", "pausing", "syncing", "joining"} /\ user.p \in 0 .. last
    /\ user.callAdd \in BOOLEAN /\ paused \subseteq 1 .. last
    /\ pact \in BOOLEAN /\ stale \in BOOLEAN /\ lost \in 0 .. inst.lost
    /\ refused \subseteq 1 .. last /\ unsubscribed \subseteq 1 .. last

Occurrences(q, p) == Cardinality({i \in DOMAIN q : q[i] = p})
\* scan requests of p that hold a reference
Holding(p) == Occurrences(onceQ, p)
                + IF scan.p = p /\ scan.pc \in {"process", "complete", "dec"} THEN 1 ELSE 0
\* dbCaTask's own reference: until it has served CA_CLEAR_CHANNEL
TaskHolds(p) == \/ ca[p].plink \/ "CA_CLEAR_CHANNEL" \in ca[p].link_action
                \/ user.p = p
                \/ task.p = p /\ task.pc = "dec"

\* The reference count of a structure is what the comment on caLink locking says:
\* dbCaTask's reference and one for each scan request queued or in progress.
RefsCounted == \A p \in (1 .. last) \ freed :
    ca[p].refcount = Holding(p) + IF TaskHolds(p) THEN 1 ELSE 0

\* A structure that caLinkDec has freed is reached by nothing any more: not by the
\* link, the work list, a scan request, a callback, dbCaTask or the thread that
\* removes it.
NoUseAfterFree == \A p \in freed :
    /\ link.pvt # p /\ user.p # p /\ cb.p # p
    /\ Occurrences(workList, p) = 0 /\ Holding(p) = 0
    /\ task.p = p => task.pc = "call"

\* A structure is on the work list exactly when it has an action to be done, and
\* once (ellAdd of a node that is on the list breaks the list), though addAction and
\* dbCaTask decide it by link_action alone.  The exception is a removal that paused:
\* addAction has read link_action before it.
OnListOnce == \A p \in (1 .. last) \ paused :
    Occurrences(workList, p) = IF ca[p].link_action = {} THEN 0 ELSE 1

\* dbCaTask does not sleep, or go to sleep, on work: what is queued while it is paused or
\* after it has found the list empty, and the wish to pause, run or end, reach it through
\* one event.
NoLostWakeup ==
    /\ task.pc \in {"wait", "ctl"} /\ dbCaCtl # "ctlPause" /\ workList # <<>> => workListEvent
    /\ task.pc = "wait" /\ dbCaCtl = "ctlExit" => workListEvent

\* the callbacks that are kept, and those taken to be called
Kept  == {p \in Links : ca[p].putCallback}
Calling == {t \in {"cb", "task", "scan"} :
               \/ t = "cb" /\ cb.pc \in {"call", "callThenNotify"}
               \/ t = "task" /\ task.pc = "call"
               \/ t = "scan" /\ scan.pc = "call"}
\* the put of p is to be sent, is sent, or its link is being removed
PutGoing(p) == \/ \E k \in Kinds : Write[k] \in ca[p].link_action
               \/ task.p = p /\ \E k \in Kinds : Write[k] \in task.todo
               \/ chan[p].puts > 0
               \/ ~ca[p].plink
\* A callback is kept only while something is on its way that calls it, as long as the
\* connection is not lost and write access stays.
PutKept == lost = 0 /\ inst.rights = {{"read", "write"}} =>
              \A p \in Links : ca[p].putCallback => PutGoing(p)
\* A record that waits for its put has exactly one callback outstanding, and a record
\* that does not wait has none, whichever of putComplete, dbCaTask and the scan thread
\* gets to call it when the link is removed meanwhile.
\* And the one that is kept will be called, as PutKept says.
OneCallback == /\ Cardinality(Kept) + Cardinality(Calling) = IF pact THEN 1 ELSE 0
               /\ PutKept

\* a request of p is queued, or its record is being processed
Requests(p) == Occurrences(onceQ, p)
                 + IF scan.p = p /\ scan.pc \in {"process", "complete"} THEN 1 ELSE 0
\* A link has at most one scan request at a time, and one exactly when it counts scans,
\* unless the queue once refused it.
OneScan == \A p \in (1 .. last) \ freed :
    /\ Requests(p) <= 1
    /\ ca[p].plink /\ p \notin refused => (ca[p].scanningOnce > 0) = (Requests(p) = 1)

\* the record will be processed after now
ScanWaits(p) == \/ Occurrences(onceQ, p) > 0
                \/ scan.p = p /\ scan.pc = "process"
                \/ scan.p = p /\ scan.pc = "complete" /\ ca[p].scanningOnce > 1
\* An update, a lost connection or a change of access of a CP link is followed by a scan
\* of its record, also when it comes while the record is processed for an earlier one,
\* unless the queue once refused the link.
NoLostScan == stale /\ link.pvt \notin refused => ScanWaits(link.pvt)

Settled(p) == chan[p].state = "conn" /\ cb.p # p
Monitoring(p, k) == \/ Monitor[k] \in ca[p].link_action
                    \/ task.p = p /\ Monitor[k] \in task.todo
\* An input that is connected has the subscriptions its flags ask for, or dbCaTask is
\* to make them: whatever the order of losing the connection, connecting again with
\* another type, reading the link and serving its actions.  The exception is a
\* subscription tried while the channel was lost.
InputMonitored ==
    LET p == link.pvt IN
    p # NoLink /\ p \notin unsubscribed /\ Settled(p) => \A k \in link.pvlMask :
        \/ Monitoring(p, k)
        \/ k \in ca[p].pget /\ \E s \in chan[p].subs : s.kind = k

\* dbCaGetLink finds a buffer behind what it believes received (its assert()s).
InputBuffered == \A p \in Links : ca[p].gotIn \subseteq ca[p].pget

\* The assert()s of dbCaTask and eventCallback on the buffers hold as long as a channel
\* comes back as it was.
AssertsHold == Cardinality(inst.shapes) = 1 => asserted = {}
\* (they do not when it comes back with another type or size)
NoAssertFails == asserted = {}

\* What DbCa keeps in several places agrees: the references of a structure, the work
\* list and link_action, the event of dbCaTask, scans counted and queued, the buffers and
\* what was received into them; and nothing that has been freed is used.
Consistent == /\ TypeOK /\ RefsCounted /\ OnListOnce /\ NoLostWakeup /\ OneScan
              /\ InputBuffered /\ AssertsHold /\ NoUseAfterFree
\* The values of links: news of a CP link are followed by a scan of its record, and an input
\* is subscribed to what it reads.
LinkValues == NoLostScan /\ InputMonitored

\* "the user's callback will get called exactly once", said of any put
PutAnswered == \A p \in Links : ca[p].putCallback => PutGoing(p)

\* dbCaTask, the thread that serves scan requests and the library's thread keep running;
\* the IOC is started; a thread that removes a link goes on.
Fairness == /\ WF_vars(Task) /\ WF_vars(Scan) /\ WF_vars(Callbacks)
            /\ WF_vars(RemovePause \/ RemoveAction) /\ WF_vars(dbCaRun)
            /\ \A p \in 1 .. 2 : WF_vars(p \in Links /\ chan[p].state = "disc" /\ putComplete(p))
FairSpec == Spec /\ Fairness

\* dbCaTask has ended with the removal of p on its list
LeftBehind(p) == task.pc = "shutdown" /\ "CA_CLEAR_CHANNEL" \in ca[p].link_action
\* A structure whose link is removed without a pause is freed in the end, though a scan
\* request may hold it and dbCaTask may be inside a callback of the library; but not when
\* its removal and dbCaShutdown both come after dbCaTask has found its list empty and
\* before it reads dbCaCtl.
LinkFreed == \A p \in 1 .. 2 :
    []<>(p <= last /\ ~ca[p].plink /\ "pause" \notin inst.calls
           => p \in freed \cup paused \/ LeftBehind(p))
\* "dbCaTask will call the user's callback AFTER it has called ca_clear_channel.  Thus the
\* user's callback will get called exactly once": dbCaTask does not end while it keeps one
\* of a removed link (putComplete will not call it).
CallbackCalled == \A p \in Links :
    task.pc = "shutdown" /\ ~ca[p].plink => ~ca[p].putCallback
\* (with a pause, the removal may be forgotten)
NoneForgotten == \A p \in 1 .. last :
    "CA_CLEAR_CHANNEL" \in ca[p].link_action => Occurrences(workList, p) = 1
\* A thread that waits in addAction for dbCaTask to clear channels comes back.
RemoveReturns == user.pc = "pausing" ~> user.pc = "idle"
=============================================================================
