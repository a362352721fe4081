----------------------------- MODULE PvaMonitor -----------------------------
(***************************************************************************)
(* A subscription of pvAccess from end to end: the queue of a provider     *)
(* (client/monitor.cpp), the requester of the server that empties it into  *)
(* a TCP connection (server/responseHandlers.cpp), the queue of the client *)
(* (remoteClient/clientContextImpl.cpp) and the user who polls it          *)
(* (client/clientMonitor.cpp).  Values are numbered in the order they are  *)
(* posted and have one field; a step is a section under a mutex, a call to *)
(* the other side of a queue, or a message.                                *)
(***************************************************************************)
EXTENDS Integers, Sequences, FiniteSetsExt, SequencesExt

CONSTANT Instances    \* what is checked, and bounds:
                      \*   actualCount   size of the server's queue
                      \*   queueSize     size of the client's, and of the window
                      \*   pipeline, ackAny   flow control, releases for an acknowledgement
                      \*   source   the provider has a Source and uses tryPost: "none", "heed"
                      \*            (it waits for freeHighMark) or "force"
                      \*   calls    of "finish", "stop", "lose" and "retype": what else happens
                      \*   posts    bound: values posted
                      \* (also: one connection is lost, and a user stops when few requests wait)

PvaMonitorAssumption ==
    \A i \in Instances :
        /\ i.actualCount \in Nat \ {0} /\ i.queueSize \in Nat \ {0, 1} /\ i.ackAny \in Nat \ {0}
        /\ i.pipeline \in BOOLEAN /\ i.source \in {"none", "heed", "force"} /\ i.posts \in Nat
        /\ i.calls \subseteq {"finish", "stop", "lose", "retype"}

VARIABLES
    inst,              \* the instance: never changes
    posted, blocked,   \* the provider: values posted, whether its Source waits for freeHighMark
    structure,         \* the type of the PV
    poster,            \* place of the thread that posts
    fifo,              \* MonitorFIFO: its lists (inuse with its values), flags and counters
    sends,             \* entries of the requester in the transport's queue (fair_queue, Qcnt)
    requester,         \* ServerMonitorRequesterImpl: window_open, window_closed, unlisten
    sender, server,    \* threads of the server's transport: place, what they hold
    toClient, toServer,    \* the connection
    strategy,          \* MonitorStrategyQueue of the client
    chan,              \* ChannelMonitorImpl: pendingRequest, started, initialized, subscribed
    receiver,          \* place of the client's receive thread
    user,              \* pvac::Monitor and the thread that polls it
    seen, dropped, epoch   \* history: value polled last, newest one dropped by a restart,
                           \* restarts that dropped values and lost connections

serverVars == <<fifo, sends, requester, sender, server>>
clientVars == <<strategy, chan, receiver, user>>
history == <<seen, dropped, epoch>>
vars == <<inst, posted, blocked, structure, poster, serverVars, toClient, toServer, clientVars,
          history>>

Count(b) == IF b THEN 1 ELSE 0
HasSource == inst.source # "none"
Elem(n, over, type) == [n |-> n, over |-> over, type |-> type]
None == Elem(0, FALSE, 0)

\* open() by the provider, with its initial update, when a client has made the subscription; in
\* a pipeline its window is acknowledged with it (handleResponse)
NewFifo(n, type) ==
    [empty |-> inst.actualCount + 1 - Count(n > 0), returned |-> 0, running |-> FALSE,
     inuse |-> IF n > 0 THEN <<Elem(n, FALSE, type)>> ELSE <<>>,
     flowCount |-> IF inst.pipeline THEN inst.queueSize - Count(n > 0) ELSE 0,
     finished |-> FALSE, needEvent |-> FALSE, needUnlisten |-> FALSE]
NewRequester == [window_open |-> IF inst.pipeline THEN inst.queueSize ELSE 0,
                 window_closed |-> 0, unlisten |-> FALSE]
NewSender == [pc |-> "idle", elem |-> None]
NewServer == [pc |-> "idle", n |-> 0, acking |-> 0]

Init ==
    /\ inst \in Instances
    /\ posted = Count(~HasSource) /\ blocked = FALSE /\ structure = 1 /\ poster = "idle"
    /\ fifo = NewFifo(posted, structure) /\ sends = 0 /\ requester = NewRequester
    /\ sender = NewSender /\ server = NewServer /\ toClient = <<>> /\ toServer = <<>>
    /\ strategy = [freeQueue |-> <<>>, monitorQueue |-> <<>>, overrun |-> None, unlisten |-> FALSE,
                   releasedCount |-> 0, reporting |-> FALSE, up2date |-> 0, lastStructure |-> 0]
    /\ chan = [pending |-> "none", started |-> FALSE, initialized |-> FALSE, subscribed |-> FALSE]
    /\ receiver = "idle"
    /\ user = [pc |-> "idle", last |-> None, told |-> FALSE, done |-> FALSE, seenEmpty |-> FALSE,
               started |-> FALSE]
    /\ seen = None /\ dropped = 0 /\ epoch = 0
-----------------------------------------------------------------------------
(* MonitorFIFO                                                             *)

freeCount(f) == IF inst.pipeline THEN Max({0, Min({f.flowCount, f.empty})})
                ELSE Max({0, f.empty - 1})
\* an element, from the empty list or allocated, gets the next value
Filled(f, taken) ==
    [f EXCEPT !.empty = @ - taken, !.inuse = Append(@, Elem(posted + 1, FALSE, structure)),
              !.needEvent = @ \/ (f.inuse = <<>> /\ f.running),
              !.flowCount = IF inst.pipeline THEN @ - 1 ELSE @]
\* post(): the newest element takes the value of the next
Squashed(f) == [f EXCEPT !.inuse[Len(f.inuse)] = Elem(posted + 1, TRUE, structure)]
\* release(): surplus elements are forgotten
Released(f, k) ==
    LET kept == Max({0, Min({k, inst.actualCount + 1 - f.empty - f.returned})})
    IN  IF inst.pipeline THEN [f EXCEPT !.returned = @ + kept] ELSE [f EXCEPT !.empty = @ + kept]
\* reportRemoteQueueStatus()
Reported(f, n) ==
    LET nack == Min({n, f.returned})
    IN  [f EXCEPT !.flowCount = @ + n, !.returned = @ - nack, !.empty = @ + nack]
\* the queue has room again, and the Source is told; then notify()
Rises(f, g) == /\ HasSource /\ freeCount(f) = 0 /\ freeCount(g) > 0
               /\ inst.pipeline => g.empty > 1

\* SharedPV::post
Post ==
    /\ poster = "idle" /\ ~HasSource /\ posted < inst.posts /\ ~fifo.finished
    /\ fifo' = IF fifo.empty > 0 THEN Filled(fifo, 1) ELSE Squashed(fifo)
    /\ posted' = posted + 1 /\ poster' = "notify"
    /\ UNCHANGED <<inst, blocked, structure, sends, requester, sender, server, toClient, toServer,
                   clientVars, history>>

\* A provider that streams: it stops when tryPost says that the queue is full; one that has
\* taken the value from elsewhere may force it.
TryPost ==
    LET room == freeCount(fifo) > 0 IN
    /\ poster = "idle" /\ HasSource /\ posted < inst.posts /\ ~fifo.finished
    /\ ~blocked \/ inst.source = "force"
    /\ fifo' = IF room THEN Filled(fifo, 1)
               ELSE IF inst.source = "force" THEN Filled(fifo, 0) ELSE fifo
    /\ posted' = IF room \/ inst.source = "force" THEN posted + 1 ELSE posted
    /\ blocked' = (freeCount(fifo') = 0) /\ poster' = "notify"
    /\ UNCHANGED <<inst, structure, sends, requester, sender, server, toClient, toServer,
                   clientVars, history>>

finish ==
    /\ poster = "idle" /\ "finish" \in inst.calls /\ ~fifo.finished
    /\ fifo' = [fifo EXCEPT !.finished = TRUE, !.needUnlisten = @ \/ (fifo.inuse = <<>> /\ fifo.running)]
    /\ poster' = "notify"
    /\ UNCHANGED <<inst, posted, blocked, structure, sends, requester, sender, server, toClient,
                   toServer, clientVars, history>>

\* monitorEvent() and unlisten() of the requester
Notified == /\ fifo' = [fifo EXCEPT !.needEvent = FALSE, !.needUnlisten = FALSE]
            /\ sends' = sends + Count(fifo.needEvent) + Count(fifo.needUnlisten)
            /\ requester' = [requester EXCEPT !.unlisten = @ \/ fifo.needUnlisten]
notify ==
    /\ \/ poster = "notify" /\ poster' = "idle" /\ UNCHANGED <<sender, server>>
       \/ sender.pc = "notify" /\ sender' = [sender EXCEPT !.pc = "idle"] /\ UNCHANGED <<poster, server>>
       \/ server.pc = "notify" /\ server' = [server EXCEPT !.pc = "idle"] /\ UNCHANGED <<poster, sender>>
    /\ Notified
    /\ UNCHANGED <<inst, posted, blocked, structure, toClient, toServer, clientVars, history>>
-----------------------------------------------------------------------------
(* ServerMonitorRequesterImpl: the transport's send thread, its receive    *)
(* thread                                                                  *)

\* send(): the window, and poll(), which keeps the last element
Busy == inst.pipeline /\ requester.window_open = 0
\* (mutant: poll() gives away the element that post() may need)
Polls_All == ~Busy /\ fifo.inuse # <<>>
Polls == ~Busy /\ fifo.inuse # <<>> /\ Len(fifo.inuse) + fifo.empty > 1
SendPoll ==
    LET last == Polls /\ Len(fifo.inuse) = 1 /\ fifo.finished IN
    /\ sender.pc = "idle" /\ sends > 0
    /\ sends' = sends - 1 + Count(last)
    /\ requester' = [requester EXCEPT !.unlisten = @ \/ last]
    /\ IF Polls
       THEN /\ fifo' = [fifo EXCEPT !.inuse = Tail(@)]
            /\ sender' = [pc |-> "element", elem |-> Head(fifo.inuse)]
       ELSE sender' = [pc |-> "none", elem |-> None] /\ UNCHANGED fifo
    /\ UNCHANGED <<inst, posted, blocked, structure, poster, server, toClient, toServer,
                   clientVars, history>>

\* the element goes out; in a pipeline it is kept until it is acknowledged
SendElement ==
    LET rises == ~inst.pipeline /\ Rises(fifo, Released(fifo, 1)) IN
    /\ sender.pc = "element"
    /\ toClient' = Append(toClient, sender.elem)
    /\ IF inst.pipeline
       THEN /\ requester' = [requester EXCEPT !.window_open = @ - 1, !.window_closed = @ + 1]
            /\ UNCHANGED fifo
       ELSE fifo' = Released(fifo, 1) /\ UNCHANGED requester
    /\ blocked' = (blocked /\ ~rises)
    /\ sender' = [pc |-> IF rises THEN "notify" ELSE "idle", elem |-> None]
    /\ sends' = sends + 1
    /\ UNCHANGED <<inst, posted, structure, poster, server, toServer, clientVars, history>>

SendNone ==
    /\ sender.pc = "none" /\ sender' = [sender EXCEPT !.pc = "idle"]
    /\ IF requester.unlisten
       THEN /\ requester' = [window_open |-> 0, window_closed |-> 0, unlisten |-> FALSE]
            /\ fifo' = Released(fifo, requester.window_closed)
            /\ toClient' = Append(toClient, None)
       ELSE UNCHANGED <<requester, fifo, toClient>>
    /\ UNCHANGED <<inst, posted, blocked, structure, poster, sends, server, toServer, clientVars,
                   history>>
Send == SendPoll \/ SendElement \/ SendNone

Receives(kind) == server.pc = "idle" /\ toServer # <<>> /\ Head(toServer).kind = kind
                  /\ toServer' = Tail(toServer)
\* (mutant: start() tells nobody)
StartEvents_None == 0
\* start() of MonitorFIFO, for values that were posted before
StartEvents == Count(~fifo.running /\ fifo.inuse # <<>>)
ServerStart ==
    /\ Receives("start")
    /\ fifo' = [fifo EXCEPT !.running = TRUE]
    /\ sends' = sends + StartEvents
    /\ UNCHANGED <<inst, posted, blocked, structure, poster, requester, sender, server, toClient,
                   clientVars, history>>
ServerStop ==
    /\ Receives("stop")
    /\ fifo' = [fifo EXCEPT !.running = FALSE]
    /\ UNCHANGED <<inst, posted, blocked, structure, poster, sends, requester, sender, server,
                   toClient, clientVars, history>>
ack ==
    LET cnt == Head(toServer).n
        nack == Min({cnt, requester.window_closed})
    IN
    /\ Receives("ack")
    /\ requester' = [requester EXCEPT !.window_open = @ + cnt, !.window_closed = @ - nack]
    /\ server' = [pc |-> "report", n |-> cnt, acking |-> nack]
    /\ UNCHANGED <<inst, posted, blocked, structure, poster, fifo, sends, sender, toClient,
                   clientVars, history>>
AckReport ==
    LET f == Released(fifo, server.acking)
        rises == Rises(f, Reported(f, server.n))
    IN
    /\ server.pc = "report"
    /\ fifo' = Reported(f, server.n)
    /\ blocked' = (blocked /\ ~rises)
    /\ server' = [pc |-> IF rises THEN "notify" ELSE "idle", n |-> 0, acking |-> 0]
    /\ UNCHANGED <<inst, posted, structure, poster, sends, requester, sender, toClient, toServer,
                   clientVars, history>>
HandleResponse == ServerStart \/ ServerStop \/ ack \/ AckReport
-----------------------------------------------------------------------------
(* MonitorStrategyQueue and ChannelMonitorImpl                             *)

Types(elems) == [k \in 1 .. Len(elems) |-> elems[k].type]
Overruns(q) == IF q.overrun = None THEN <<>> ELSE <<q.overrun>>
\* init()
Initialized(q) ==
    [q EXCEPT !.freeQueue = [k \in 1 .. inst.queueSize |-> structure], !.monitorQueue = <<>>,
              !.releasedCount = 0, !.reporting = FALSE, !.up2date = 0, !.lastStructure = structure]
\* start()
Restarted(q) ==
    [q EXCEPT !.freeQueue = @ \o Types(q.monitorQueue) \o Types(Overruns(q)),
              !.monitorQueue = <<>>, !.overrun = None]

\* release() of an element: the one with the overrun follows the others
Acks(q) == inst.pipeline /\ ~q.reporting /\ q.releasedCount + 1 >= inst.ackAny
Accepted(q, e) ==
    IF e = None \/ e.type # q.lastStructure THEN q
    ELSE [q EXCEPT !.freeQueue = Append(@, e.type),
                   !.monitorQueue = @ \o Overruns(q), !.overrun = None,
                   !.releasedCount = IF inst.pipeline THEN @ + 1 ELSE @,
                   !.reporting = @ \/ Acks(q)]

\* initResponse(): monitorConnect() of a user who is not done starts the subscription and
\* releases what was polled from the connection before; it is started again, too, when it was
InitResponse ==
    LET starts == ~user.done \/ chan.started
        q == IF starts THEN Restarted(Initialized(strategy)) ELSE Initialized(strategy)
    IN
    /\ ~chan.subscribed /\ receiver = "idle" /\ user.pc # "poll"
    /\ strategy' = IF user.done THEN q ELSE Accepted(q, user.last)
    /\ chan' = [pending |-> IF starts THEN "start" ELSE "none", started |-> starts,
                initialized |-> TRUE, subscribed |-> TRUE]
    /\ user' = IF user.done THEN user ELSE [user EXCEPT !.started = TRUE, !.last = None]
    /\ UNCHANGED <<inst, posted, blocked, structure, poster, serverVars, toClient, toServer,
                   receiver, history>>

\* (mutant: the mark is that of the first value)
Merged_Quiet(overrun, e) == Elem(e.n, overrun.over, overrun.type)
\* response(): the last free element gets the values of all that come until one is released
Merged(overrun, e) == Elem(e.n, TRUE, overrun.type)
Response ==
    LET e == Head(toClient)
        type == Last(strategy.freeQueue)
        left == Front(strategy.freeQueue)
    IN
    /\ receiver = "idle" /\ chan.subscribed /\ toClient # <<>> /\ e # None
    /\ toClient' = Tail(toClient)
    /\ receiver' = IF strategy.overrun # None THEN "idle" ELSE "event"
    /\ strategy' =
          IF strategy.overrun # None
          THEN [strategy EXCEPT !.overrun = Merged(@, e)]
          ELSE [strategy EXCEPT
                   !.freeQueue = left, !.up2date = type,
                   !.overrun = IF left = <<>> THEN Elem(e.n, e.over, type) ELSE None,
                   !.monitorQueue = IF left = <<>> THEN @ ELSE Append(@, Elem(e.n, e.over, type))]
    /\ UNCHANGED <<inst, posted, blocked, structure, poster, serverVars, toServer, chan, user,
                   history>>
\* overrunInProgress is read again, without the mutex
ResponseEvent ==
    /\ receiver = "event" /\ receiver' = "idle" /\ user.pc # "poll"
    /\ user' = [user EXCEPT !.told = @ \/ (strategy.overrun = None /\ ~user.done)]
    /\ UNCHANGED <<inst, posted, blocked, structure, poster, serverVars, toClient, toServer,
                   strategy, chan, history>>
\* unlisten() of the strategy: the user is told now, or by poll() when the queue is empty
Deferred == strategy.monitorQueue # <<>>
Unlisten ==
    /\ receiver = "idle" /\ chan.subscribed /\ toClient # <<>> /\ Head(toClient) = None
    /\ toClient' = Tail(toClient)
    /\ chan' = [chan EXCEPT !.initialized = FALSE]
    /\ strategy' = [strategy EXCEPT !.unlisten = Deferred]
    /\ receiver' = IF Deferred THEN "idle" ELSE "unlisten"
    /\ UNCHANGED <<inst, posted, blocked, structure, poster, serverVars, toServer, user, history>>
\* unlisten() of the user
Done(u) == [u EXCEPT !.done = TRUE, !.told = @ \/ (~u.done /\ u.seenEmpty)]
ResponseUnlisten ==
    /\ receiver = "unlisten" /\ receiver' = "idle" /\ user.pc # "poll"
    /\ user' = Done(user)
    /\ UNCHANGED <<inst, posted, blocked, structure, poster, serverVars, toClient, toServer,
                   strategy, chan, history>>
Receive == InitResponse \/ Response \/ ResponseEvent \/ Unlisten \/ ResponseUnlisten

\* send() of the channel's requests, and of acknowledgements
SendRequest ==
    /\ chan.pending # "none" /\ chan' = [chan EXCEPT !.pending = "none"]
    /\ toServer' = Append(toServer, [kind |-> chan.pending, n |-> 0])
    /\ UNCHANGED <<inst, posted, blocked, structure, poster, serverVars, toClient, strategy,
                   receiver, user, history>>
SendAck ==
    /\ strategy.reporting /\ chan.subscribed
    /\ toServer' = Append(toServer, [kind |-> "ack", n |-> strategy.releasedCount])
    /\ strategy' = [strategy EXCEPT !.releasedCount = 0, !.reporting = FALSE]
    /\ UNCHANGED <<inst, posted, blocked, structure, poster, serverVars, toClient, chan,
                   receiver, user, history>>

stop ==
    /\ "stop" \in inst.calls /\ user.pc = "idle" /\ Len(toServer) < 2 /\ sends < 3
    /\ chan.subscribed /\ chan.initialized /\ chan.started /\ chan.pending = "none"
    /\ chan' = [chan EXCEPT !.pending = "stop", !.started = FALSE]
    /\ UNCHANGED <<inst, posted, blocked, structure, poster, serverVars, toClient, toServer,
                   strategy, receiver, user, history>>
\* start() after stop(): the client's queue is emptied in any case
start ==
    LET lost == strategy.monitorQueue \o Overruns(strategy) IN
    /\ user.pc = "idle" /\ chan.subscribed /\ chan.initialized /\ ~chan.started
    /\ strategy' = Restarted(strategy)
    /\ chan' = IF chan.pending = "none" THEN [chan EXCEPT !.pending = "start", !.started = TRUE]
               ELSE chan
    /\ dropped' = IF lost = <<>> THEN dropped ELSE Last(lost).n
    /\ epoch' = epoch + Count(lost # <<>>)
    /\ UNCHANGED <<inst, posted, blocked, structure, poster, serverVars, toClient, toServer,
                   receiver, user, seen>>
-----------------------------------------------------------------------------
(* The user: pvac::Monitor::poll() until it is false, after each event     *)

PollBegins ==
    /\ user.pc = "idle" /\ user.told
    /\ user' = [user EXCEPT !.pc = "next", !.told = FALSE]
    /\ UNCHANGED <<inst, posted, blocked, structure, poster, serverVars, toClient, toServer,
                   strategy, chan, receiver, history>>
PollFails ==
    /\ user.pc = "next" /\ (user.done \/ ~user.started)
    /\ user' = [user EXCEPT !.pc = "idle", !.seenEmpty = TRUE]
    /\ UNCHANGED <<inst, posted, blocked, structure, poster, serverVars, toClient, toServer,
                   strategy, chan, receiver, history>>
\* next() of the element polled before
release ==
    /\ user.pc = "next" /\ ~user.done /\ user.started
    /\ user' = [user EXCEPT !.pc = "poll", !.last = None]
    /\ strategy' = Accepted(strategy, user.last)
    /\ UNCHANGED <<inst, posted, blocked, structure, poster, serverVars, toClient, toServer,
                   chan, receiver, history>>
poll ==
    /\ user.pc = "poll"
    /\ IF strategy.monitorQueue # <<>>
       THEN LET e == Head(strategy.monitorQueue) IN
            /\ strategy' = [strategy EXCEPT !.monitorQueue = Tail(@)]
            /\ user' = [user EXCEPT !.pc = "next", !.last = e, !.seenEmpty = FALSE]
            /\ seen' = e
       ELSE /\ strategy' = [strategy EXCEPT !.unlisten = FALSE]
            /\ user' = [(IF strategy.unlisten THEN Done(user) ELSE user)
                           EXCEPT !.pc = "idle", !.seenEmpty = TRUE]
            /\ UNCHANGED seen
    /\ UNCHANGED <<inst, posted, blocked, structure, poster, serverVars, toClient, toServer,
                   chan, receiver, dropped, epoch>>
Poll == PollBegins \/ PollFails \/ release \/ poll

\* The connection is lost.  The channel connects again, by itself, to what the PV is then;
\* acknowledgements that were to be sent are forgotten, but not that they were.
Lose ==
    /\ "lose" \in inst.calls /\ epoch = 0 /\ chan.subscribed
    /\ receiver = "idle" /\ user.pc # "poll"
    /\ structure' \in IF "retype" \in inst.calls THEN {structure, structure + 1} ELSE {structure}
    /\ fifo' = NewFifo(posted, structure') /\ sends' = 0 /\ requester' = NewRequester
    /\ sender' = NewSender /\ server' = NewServer /\ toClient' = <<>> /\ toServer' = <<>>
    /\ poster' = "idle" /\ blocked' = FALSE
    /\ chan' = [chan EXCEPT !.pending = "none", !.subscribed = FALSE]
    /\ user' = [user EXCEPT !.started = @ /\ user.done]
    /\ epoch' = epoch + 1
    /\ UNCHANGED <<inst, posted, strategy, receiver, seen, dropped>>
-----------------------------------------------------------------------------
Provider == Post \/ TryPost \/ finish
Next == \/ Provider \/ notify \/ Send \/ HandleResponse
        \/ Receive \/ SendRequest \/ SendAck \/ stop \/ start \/ Poll \/ Lose

Spec == Init /\ [][Next]_vars

\* every thread keeps running, and connections are made; a user who was told polls
Fairness ==
    /\ WF_vars(Provider) /\ WF_vars(notify) /\ WF_vars(Send) /\ WF_vars(HandleResponse)
    /\ WF_vars(Receive) /\ WF_vars(SendRequest) /\ WF_vars(SendAck) /\ WF_vars(Poll)
FairSpec == Spec /\ Fairness
-----------------------------------------------------------------------------
Elems(n) == [n : 0 .. n, over : BOOLEAN, type : 0 .. 2]
TypeOK ==
    /\ posted \in 0 .. inst.posts /\ blocked \in BOOLEAN /\ structure \in 1 .. 2
    /\ poster \in {"idle", "notify"} /\ fifo.empty \in Nat /\ fifo.returned \in Nat
    /\ fifo.inuse \in Seq(Elems(inst.posts)) /\ fifo.flowCount \in Int /\ sends \in Nat
    /\ requester.window_open \in Nat /\ requester.window_closed \in Nat
    /\ sender.pc \in {"idle", "element", "none", "notify"}
    /\ server.pc \in {"idle", "report", "notify"}
    /\ receiver \in {"idle", "event", "unlisten"} /\ user.pc \in {"idle", "next", "poll"}
    /\ toClient \in Seq(Elems(inst.posts)) /\ seen \in Elems(inst.posts)
    /\ strategy.monitorQueue \in Seq(Elems(inst.posts)) /\ strategy.overrun \in Elems(inst.posts)

\* The assert()s of MonitorFIFO: an element waits or is empty, so post() has a place for a value
\* whatever the connection holds.  None is lost, and surplus ones are forgotten.
ElementsKept ==
    LET all == fifo.empty + Len(fifo.inuse) + fifo.returned + requester.window_closed
                 + server.acking + Count(sender.pc = "element")
    IN  /\ fifo.inuse # <<>> \/ fifo.empty > 0
        /\ all >= inst.actualCount + 1
        /\ inst.source # "force" => all = inst.actualCount + 1

Data == SelectSeq(toClient, LAMBDA e : e # None)
\* acknowledgements on their way
Acknowledged == FoldSeq(LAMBDA m, k : m.n + k, 0, toServer)
Ended == fifo.finished /\ fifo.inuse = <<>>
\* The window: a value the server may send, has sent or is told of is a free element of the
\* client's queue, so that a client who keeps its subscription never merges values; flowCount is
\* what the window has left.
WindowKept ==
    inst.pipeline /\ ~Ended =>
        /\ fifo.flowCount = requester.window_open - Len(fifo.inuse)
                               - Count(sender.pc = "element") - server.n
        /\ chan.subscribed =>
              LET given == requester.window_open + Len(Data) + strategy.releasedCount + Acknowledged
              IN  /\ given <= Len(strategy.freeQueue)
                  /\ epoch = 0 => given = Len(strategy.freeQueue)

\* The client's elements: the last free one collects values until another is released.
QueueKept ==
    chan.subscribed =>
        /\ (strategy.overrun # None) = (strategy.freeQueue = <<>>)
        /\ Len(strategy.freeQueue) + Len(strategy.monitorQueue) + Len(Overruns(strategy))
              + Count(user.last # None) - inst.queueSize
              \in 0 .. (IF "lose" \in inst.calls THEN 2 * epoch ELSE 0)

\* A value that waits in the server's queue is on its way, unless a window holds it back.
ServerWoken ==
    fifo.running /\ fifo.inuse # <<>> /\ ~inst.pipeline =>
        fifo.needEvent \/ sends > 0 \/ sender.pc = "element"

\* A value that waits in the client's queue is polled: the user polls, is told or is being told.
\* The overrun waits for the release of an element that the user has or will find.
UserTold ==
    user.started /\ ~user.done =>
        /\ strategy.monitorQueue # <<>> => user.told \/ user.pc # "idle" \/ receiver = "event"
        /\ strategy.overrun # None => user.last # None \/ strategy.monitorQueue # <<>>
                                         \/ user.pc = "poll"
\* Users learn of the end after the last value was sent.
EndIsLast ==
    /\ None \in ToSet(toClient) \/ requester.unlisten => fifo.finished /\ fifo.inuse = <<>>
    /\ None \in ToSet(toClient) => Last(toClient) = None /\ sender.pc # "element"

Consistent == /\ TypeOK /\ ElementsKept /\ WindowKept /\ QueueKept /\ ServerWoken /\ UserTold
              /\ EndIsLast

Waiting == (IF chan.subscribed THEN strategy.monitorQueue \o Overruns(strategy) ELSE <<>>) \o Data
             \o (IF sender.pc = "element" THEN <<sender.elem>> ELSE <<>>) \o fifo.inuse
Plain(e) == [n |-> e.n, over |-> e.over]
Stream == INSTANCE Stream WITH
    waiting <- [k \in 1 .. Len(Waiting) |-> Plain(Waiting[k])], seen <- Plain(seen)
\* Through both queues, the window and the threads between them values keep their order, a value
\* that took the place of others says so, and only a restart or a lost connection drops one.
ImplementsStream == Stream!Spec

\* The window never holds a value back that was posted: values are posted as it opens.
Flows == ~inst.pipeline \/ (inst.source = "heed" /\ inst.queueSize <= inst.actualCount)
\* The newest value is seen, if the user does not stop for good, unless a restart dropped it.
NewestSeen == []<>(chan.started /\ Flows /\ "finish" \notin inst.calls
                      => seen.n = posted \/ dropped >= posted)
\* The user learns of the end of a subscription that had a value.  (finish() of a queue that is
\* empty and has not been started tells nobody.)
EndSeen == []<>(fifo.finished /\ posted > 0 /\ Flows => user.done \/ ~chan.started)
\* What a user waits for comes: the newest value, and the end of the subscription.
MonitorServed == NewestSeen /\ EndSeen

\* (not with post() in a pipeline: the acknowledgement that opens the window wakes nobody when
\* there is no Source)
PipelineServed == []<>(inst.pipeline => seen.n = posted)
\* (not so: the end passes by the overrun, complete() is "true if all events received")
AllReceived == user.done /\ user.seenEmpty => seen.n = posted
\* (not so after a reconnect: start() puts the element of the overrun, which init() has left, on the
\* new free queue; it is of the old type)
StructuresMatch == strategy.up2date # 0 /\ strategy.freeQueue # <<>> =>
                       Last(strategy.freeQueue) = strategy.up2date
=============================================================================
