----------------------------- MODULE WriteNotify -----------------------------
(***************************************************************************)
(* Puts with a reply in the Channel Access server (modules/database/src/   *)
(* ioc/rsrv/camessage.c, caservertask.c): one client with several          *)
(* channels.  The TCP thread of the client puts through dbProcessNotify,   *)
(* which is taken as Notify promises it; a callback thread queues what is  *)
(* done, and the event task of the client sends the replies.  A put waits  *)
(* for the one before it on its channel, for a minute at most.             *)
(***************************************************************************)
EXTENDS Integers, SequencesExt

CONSTANTS
    Channels,
    MaxPuts,      \* bound: puts of the client
    Instances     \* what is checked, and bounds:
                  \*   links    channels to link fields: a put is over when it returns
                  \*   hangs    channels whose records may never complete
                  \*   puts     bound: puts of each channel

None == "none"
ASSUME WriteNotifyAssumption ==
    /\ None \notin Channels /\ MaxPuts \in Nat
    /\ \A i \in Instances : /\ i.links \subseteq Channels /\ i.hangs \subseteq Channels
                            /\ i.puts \in [Channels -> Nat]

VARIABLES
    inst,                \* the instance: never changes
    phase, canceling,    \* the promise of dbNotify.h to each dbPutNotify
    status,              \* of each dbPutNotify: "notifyOK" is for what the put gives
    chanList,            \* the channels of the client
    pPutNotify,          \* those that have a struct rsrv_put_notify
    busy, onExtraLaborQueue, asWritePvt, msg,    \* its fields
    putNotifyQue, blockSem,
    extra_labor, extralabor_sub,                 \* of the event task
    tcp,                 \* the TCP thread: place, channel, what follows a cancel
    event,               \* the event task: place, and the reply in its hands
    done,                \* of each channel, the place in its doneCallback
    log                  \* history: each put with its channel, what has become of it, and
                         \* whether asTrapWrite waits for its end

notifyVars == <<phase, canceling>>
putVars == <<busy, onExtraLaborQueue, asWritePvt>>
laborVars == <<extra_labor, extralabor_sub>>
chanVars == <<chanList, pPutNotify>>
vars == <<inst, notifyVars, status, chanVars, putVars, msg, putNotifyQue, blockSem, laborVars, tcp,
          event, done, log>>

Promise == INSTANCE Notify WITH Notifies <- Channels

Rest == [pc |-> "idle", put |-> 0, status |-> "notifyOK", asWritePvt |-> 0]

\* the TCP thread with no channel in hand
Home(pc) == [pc |-> pc, c |-> None, then |-> "idle"]
Init ==
    /\ inst \in Instances /\ Promise!Init
    /\ status = [c \in Channels |-> "notifyOK"]
    /\ chanList = Channels /\ pPutNotify = {}
    /\ busy = [c \in Channels |-> FALSE] /\ onExtraLaborQueue = busy
    /\ asWritePvt = [c \in Channels |-> 0] /\ msg = asWritePvt
    /\ putNotifyQue = <<>> /\ blockSem = FALSE
    /\ extra_labor = FALSE /\ extralabor_sub = TRUE
    /\ tcp = Home("idle")
    /\ event = Rest /\ done = [c \in Channels |-> "none"] /\ log = <<>>

At(pc) == tcp.pc = pc
Goes(pc) == tcp' = IF pc \in {"idle", "hangup", "destroy", "closed"} THEN Home(pc)
                  ELSE [tcp EXCEPT !.pc = pc]
\* ellDelete, if it is marked so
Dequeue(c) == putNotifyQue' = IF onExtraLaborQueue[c] THEN RemoveFirst(putNotifyQue, c)
                              ELSE putNotifyQue
Completes(c) == log' = [log EXCEPT ![msg[c]].is = "completed"]
\* asTrapWriteAfter and the reply to put k
Reply(k) == log' = [log EXCEPT ![k].is = "answered", ![k].trapped = FALSE]
-----------------------------------------------------------------------------
(* write_notify_action, in the TCP thread.                                 *)

Puts(c) == Len(SelectSeq(log, LAMBDA e : e.c = c))
\* rsrvAllocPutNotify for the first put of a channel
PutCall(c) ==
    /\ At("idle") /\ c \in chanList /\ Puts(c) < inst.puts[c] /\ Len(log) < MaxPuts
    /\ tcp' = [tcp EXCEPT !.pc = IF c \in pPutNotify THEN "test" ELSE "start", !.c = c]
    /\ pPutNotify' = pPutNotify \cup {c}
    /\ UNCHANGED <<inst, notifyVars, status, chanList, putVars, msg, putNotifyQue, blockSem,
                   laborVars, event, done, log>>

\* "serialize concurrent put notifies"
PutTest ==
    /\ At("test") /\ Goes(IF busy[tcp.c] THEN "wait" ELSE "start")
    /\ UNCHANGED <<inst, notifyVars, status, chanVars, putVars, msg, putNotifyQue, blockSem,
                   laborVars, event, done, log>>

PutWake ==
    /\ At("wait") /\ blockSem
    /\ blockSem' = FALSE /\ Goes("test")
    /\ UNCHANGED <<inst, notifyVars, status, chanVars, putVars, msg, putNotifyQue, laborVars, event,
                   done, log>>

\* a minute has passed
PutTimeout ==
    /\ At("wait")
    /\ tcp' = [tcp EXCEPT !.pc = IF busy[tcp.c] THEN "cancel" ELSE "recheck",
                          !.then = "recheck"]
    /\ UNCHANGED <<inst, notifyVars, status, chanVars, putVars, msg, putNotifyQue, blockSem,
                   laborVars, event, done, log>>

\* (mutant: what was read before the cancel is believed)
StillBusy_Believed(c) == TRUE
StillBusy(c) == busy[c]
\* the put that was canceled is answered with ECA_PUTCBINPROG, unless that has been done meanwhile
PutRecheck ==
    LET c == tcp.c IN
    /\ At("recheck") /\ Goes("test")
    /\ IF StillBusy(c)
       THEN /\ Dequeue(c)
            /\ busy' = [busy EXCEPT ![c] = FALSE]
            /\ asWritePvt' = [asWritePvt EXCEPT ![c] = 0]
            /\ Reply(msg[c])
       ELSE UNCHANGED <<putNotifyQue, busy, asWritePvt, log>>
    /\ UNCHANGED <<inst, notifyVars, status, chanVars, onExtraLaborQueue, msg, blockSem, laborVars,
                   event, done>>

Put(is, traced) == [c |-> tcp.c, is |-> is, trapped |-> traced]

\* the value may be of a type that caNetConvert refuses, which ends the connection
PutStart ==
    LET c == tcp.c
        k == Len(log) + 1
    IN
    /\ At("start")
    /\ busy' = [busy EXCEPT ![c] = TRUE]
    /\ onExtraLaborQueue' = [onExtraLaborQueue EXCEPT ![c] = FALSE]
    /\ msg' = [msg EXCEPT ![c] = k]
    /\ \/ /\ log' = Append(log, Put("answered", FALSE)) /\ Goes("hangup")
          /\ UNCHANGED asWritePvt
       \/ /\ log' = Append(log, Put("asked", TRUE)) /\ Goes("ask")
          /\ asWritePvt' = [asWritePvt EXCEPT ![c] = k]
    /\ UNCHANGED <<inst, notifyVars, status, chanVars, putNotifyQue, blockSem, laborVars, event, done>>

\* dbProcessNotify, which waits for a callback of the last put that is not over yet
PutAsk ==
    LET c == tcp.c IN
    /\ At("ask")
    /\ status' = [status EXCEPT ![c] = "notifyOK"]
    /\ \/ /\ c \notin inst.links /\ Promise!Ask(c) /\ Goes("idle") /\ UNCHANGED <<done, log>>
       \/ /\ c \in inst.links /\ Goes("asked") /\ UNCHANGED notifyVars
          /\ done' = [done EXCEPT ![c] = "entered"]
          /\ Completes(c)
    /\ UNCHANGED <<inst, chanVars, putVars, msg, putNotifyQue, blockSem, laborVars, event>>

PutReturn ==
    /\ At("asked") /\ done[tcp.c] = "return"
    /\ done' = [done EXCEPT ![tcp.c] = "none"] /\ Goes("idle")
    /\ UNCHANGED <<inst, notifyVars, status, chanVars, putVars, msg, putNotifyQue, blockSem,
                   laborVars, event, log>>
-----------------------------------------------------------------------------
(* dbNotifyCancel of the TCP thread.                                       *)

\* whatever has become of the request, it is marked
Cancel ==
    LET c == tcp.c IN
    /\ At("cancel")
    /\ status' = [status EXCEPT ![c] = "notifyCanceled"]
    /\ \/ phase[c] = "idle" /\ Goes(tcp.then) /\ UNCHANGED notifyVars
       \/ Promise!CancelAtOnce(c) /\ Goes(tcp.then)
       \/ phase[c] # "idle" /\ Promise!CancelWaits(c) /\ Goes("canceling")
    /\ UNCHANGED <<inst, chanVars, putVars, msg, putNotifyQue, blockSem, laborVars, event, done, log>>

CancelEnd ==
    /\ At("canceling") /\ Promise!CancelReturns(tcp.c) /\ Goes(tcp.then)
    /\ UNCHANGED <<inst, status, chanVars, putVars, msg, putNotifyQue, blockSem, laborVars, event,
                   done, log>>
-----------------------------------------------------------------------------
(* clear_channel_reply and destroy_tcp_client, in the TCP thread.          *)

\* rsrvFreePutNotify up to its dbNotifyCancel, if any
FreeBegins(c) == IF c \notin pPutNotify THEN "freed" ELSE IF busy[c] THEN "cancel" ELSE "free"

ReleaseChannel(c) ==
    /\ c \in chanList /\ chanList' = chanList \ {c}
    /\ tcp' = [pc |-> FreeBegins(c), c |-> c, then |-> "free"]
    /\ UNCHANGED <<inst, notifyVars, status, pPutNotify, putVars, msg, putNotifyQue, blockSem,
                   laborVars, event, done, log>>
ClearChannel(c) == At("idle") /\ ReleaseChannel(c)
DestroyChannel(c) == At("destroy") /\ ReleaseChannel(c)

\* the rest of rsrvFreePutNotify
Free ==
    LET c == tcp.c IN
    /\ At("free") /\ Goes("freed")
    /\ Dequeue(c)
    /\ asWritePvt' = [asWritePvt EXCEPT ![c] = 0]
    /\ log' = IF busy[c] THEN [log EXCEPT ![msg[c]].trapped = FALSE] ELSE log
    /\ pPutNotify' = pPutNotify \ {c}
    /\ busy' = [busy EXCEPT ![c] = FALSE]
    /\ onExtraLaborQueue' = [onExtraLaborQueue EXCEPT ![c] = FALSE]
    /\ msg' = [msg EXCEPT ![c] = 0] /\ status' = [status EXCEPT ![c] = "notifyOK"]
    /\ UNCHANGED <<inst, notifyVars, chanList, blockSem, laborVars, event, done>>

Freed ==
    /\ At("freed") /\ Goes(IF extralabor_sub THEN "flush" ELSE "destroy")
    /\ UNCHANGED <<inst, notifyVars, status, chanVars, putVars, msg, putNotifyQue, blockSem,
                   laborVars, event, done, log>>

\* the connection is lost, or camessage has found an error
Disconnect ==
    /\ At("idle") \/ At("hangup")
    /\ extralabor_sub' = FALSE /\ Goes("flush")
    /\ UNCHANGED <<inst, notifyVars, status, chanVars, putVars, msg, putNotifyQue, blockSem,
                   extra_labor, event, done, log>>

LaborFlushed == event.pc = "idle"
\* db_flush_extra_labor_event; a channel is cleared when it is over
Flush ==
    /\ At("flush") /\ LaborFlushed
    /\ Goes(IF extralabor_sub THEN "idle" ELSE "destroy")
    /\ UNCHANGED <<inst, notifyVars, status, chanVars, putVars, msg, putNotifyQue, blockSem,
                   laborVars, event, done, log>>

\* db_close_events and destroy_client
Close ==
    /\ At("destroy") /\ chanList = {} /\ Goes("closed")
    /\ UNCHANGED <<inst, notifyVars, status, chanVars, putVars, msg, putNotifyQue, blockSem,
                   laborVars, event, done, log>>
-----------------------------------------------------------------------------
(* write_notify_done_callback, in a callback thread (of a put to a link    *)
(* field, in the TCP thread).                                              *)

Complete(c) ==
    /\ Promise!Done(c)
    /\ done' = [done EXCEPT ![c] = "entered"]
    /\ Completes(c)
    /\ UNCHANGED <<inst, status, chanVars, putVars, msg, putNotifyQue, blockSem, laborVars, tcp, event>>

\* "Double DB put notify call back!!" otherwise
Expected(c) == busy[c] /\ ~onExtraLaborQueue[c]
DoneQueue(c) ==
    /\ done[c] = "entered"
    /\ IF Expected(c)
       THEN /\ putNotifyQue' = Append(putNotifyQue, c)
            /\ onExtraLaborQueue' = [onExtraLaborQueue EXCEPT ![c] = TRUE]
            /\ done' = [done EXCEPT ![c] = "post"]
       ELSE done' = [done EXCEPT ![c] = "return"] /\ UNCHANGED <<putNotifyQue, onExtraLaborQueue>>
    /\ UNCHANGED <<inst, notifyVars, status, chanVars, busy, asWritePvt, msg, blockSem, laborVars, tcp,
                   event, log>>

\* db_post_extra_labor
DonePost(c) ==
    /\ done[c] = "post"
    /\ extra_labor' = TRUE
    /\ done' = [done EXCEPT ![c] = "return"]
    /\ UNCHANGED <<inst, notifyVars, status, chanVars, putVars, msg, putNotifyQue, blockSem,
                   extralabor_sub, tcp, event, log>>

DoneReturn(c) ==
    /\ done[c] = "return" /\ Promise!DoneReturns(c)
    /\ done' = [done EXCEPT ![c] = "none"]
    /\ UNCHANGED <<inst, status, chanVars, putVars, msg, putNotifyQue, blockSem, laborVars, tcp, event,
                   log>>
-----------------------------------------------------------------------------
(* write_notify_reply, in the event task.                                  *)

Labor ==
    /\ event.pc = "idle" /\ extra_labor /\ extralabor_sub
    /\ extra_labor' = FALSE /\ event' = [event EXCEPT !.pc = "take"]
    /\ UNCHANGED <<inst, notifyVars, status, chanVars, putVars, msg, putNotifyQue, blockSem,
                   extralabor_sub, tcp, done, log>>

ReplyTake ==
    LET c == Head(putNotifyQue) IN
    /\ event.pc = "take" /\ putNotifyQue # <<>>
    /\ putNotifyQue' = Tail(putNotifyQue)
    /\ event' = [pc |-> "send", put |-> msg[c], status |-> status[c],
                 asWritePvt |-> asWritePvt[c]]
    /\ asWritePvt' = [asWritePvt EXCEPT ![c] = 0]
    /\ onExtraLaborQueue' = [onExtraLaborQueue EXCEPT ![c] = FALSE]
    /\ busy' = [busy EXCEPT ![c] = FALSE]
    /\ UNCHANGED <<inst, notifyVars, status, chanVars, msg, blockSem, laborVars, tcp, done, log>>

ReplySend ==
    /\ event.pc = "send"
    /\ Reply(event.put)
    /\ event' = [Rest EXCEPT !.pc = "take"]
    /\ UNCHANGED <<inst, notifyVars, status, chanVars, putVars, msg, putNotifyQue, blockSem, laborVars,
                   tcp, done>>

ReplyEnd ==
    /\ event.pc = "take" /\ putNotifyQue = <<>>
    /\ event' = [event EXCEPT !.pc = "signal"]
    /\ UNCHANGED <<inst, notifyVars, status, chanVars, putVars, msg, putNotifyQue, blockSem, laborVars,
                   tcp, done, log>>

\* (mutant: the request for labor is withdrawn when labor is over)
Signal_Withdraws ==
    /\ event.pc = "signal"
    /\ blockSem' = TRUE /\ event' = Rest /\ extra_labor' = FALSE
    /\ UNCHANGED <<inst, notifyVars, status, chanVars, putVars, msg, putNotifyQue,
                   extralabor_sub, tcp, done, log>>
\* "wakeup the TCP thread if it is waiting for a cb to complete"
Signal ==
    /\ event.pc = "signal"
    /\ blockSem' = TRUE /\ event' = Rest
    /\ UNCHANGED <<inst, notifyVars, status, chanVars, putVars, msg, putNotifyQue, laborVars, tcp, done,
                   log>>
-----------------------------------------------------------------------------
Request == \E c \in Channels : PutCall(c) \/ ClearChannel(c)
TcpStep == \/ PutTest \/ PutWake \/ PutTimeout \/ PutRecheck \/ PutStart \/ PutAsk \/ PutReturn
           \/ Cancel \/ CancelEnd \/ Free \/ Freed \/ Flush \/ Close
           \/ \E c \in Channels : DestroyChannel(c)
DoneStep(c) == DoneQueue(c) \/ DonePost(c) \/ DoneReturn(c)
EventStep == Labor \/ ReplyTake \/ ReplySend \/ ReplyEnd \/ Signal

Next == \/ Request \/ TcpStep \/ Disconnect \/ EventStep
        \/ \E c \in Channels : Complete(c) \/ DoneStep(c)
Spec == Init /\ [][Next]_vars

\* Threads at work go on, and a minute passes.  Records complete, but for those that hang.
Fairness == /\ WF_vars(TcpStep) /\ WF_vars(At("hangup") /\ Disconnect) /\ WF_vars(EventStep)
            /\ \A c \in Channels : WF_vars(DoneStep(c))
            /\ \A c \in Channels : WF_vars(c \notin inst.hangs /\ Complete(c))
FairSpec == Spec /\ Fairness
-----------------------------------------------------------------------------
Statuses == {"notifyOK", "notifyCanceled"}
\* The type of every variable.
TypeOK ==
    /\ inst \in Instances
    /\ phase \in [Channels -> {"idle", "asked", "calling"}]
    /\ canceling \in [Channels -> BOOLEAN] /\ status \in [Channels -> Statuses]
    /\ chanList \subseteq Channels /\ pPutNotify \subseteq Channels
    /\ busy \in [Channels -> BOOLEAN] /\ onExtraLaborQueue \in [Channels -> BOOLEAN]
    /\ asWritePvt \in [Channels -> 0 .. Len(log)] /\ msg \in [Channels -> 0 .. Len(log)]
    /\ putNotifyQue \in Seq(Channels) /\ blockSem \in BOOLEAN
    /\ extra_labor \in BOOLEAN /\ extralabor_sub \in BOOLEAN
    /\ tcp.c \in Channels \cup {None} /\ tcp.then \in {"idle", "recheck", "free"}
    /\ event.put \in 0 .. Len(log) /\ event.status \in Statuses
    /\ done \in [Channels -> {"none", "entered", "post", "return"}]
    /\ log \in Seq([c : Channels, is : {"asked", "completed", "answered"}, trapped : BOOLEAN])

Open == tcp.pc # "hangup" /\ extralabor_sub
Mine(k) == Open /\ log[k].c \in pPutNotify /\ busy[log[k].c] /\ msg[log[k].c] = k
\* A put on an open channel that has no reply is the one its channel is busy with or the
\* reply is in the hands of the event task, and no other put is: none is answered twice,
\* by the event task and by the time out, and none is forgotten.
EachAnsweredOnce == \A k \in DOMAIN log :
    LET waits == Mine(k)
        inHand == event.put = k
    IN  /\ ~(waits /\ inHand)
        /\ waits \/ inHand => log[k].is # "answered"
        /\ log[k].is # "answered" /\ log[k].c \in chanList /\ Open => waits \/ inHand

\* The queue holds the puts that are marked so, once each, and somebody is about to come
\* for them.
QueueServed ==
    /\ \A c \in pPutNotify : c \in Range(putNotifyQue) <=> busy[c] /\ onExtraLaborQueue[c]
    /\ IsInjective(putNotifyQue) /\ Range(putNotifyQue) \subseteq pPutNotify
    /\ putNotifyQue # <<>> /\ extralabor_sub =>
          \/ extra_labor \/ event.pc \in {"take", "send"}
          \/ \E c \in Channels : done[c] = "post"

\* doneCallback finds its put waiting for it: "Double DB put notify call back!!" is never said.
NoneDouble == \A c \in Channels : done[c] = "entered" => Expected(c)

\* asTrapWriteAfter is called once for each put that asTrapWriteWithData was called for.
TrapsPaired == \A k \in DOMAIN log : log[k].trapped =
    (event.asWritePvt = k \/ \E c \in pPutNotify : asWritePvt[c] = k)

\* A put is answered with success only when its own record has completed, not the one of an
\* earlier put of the channel.
AnswersTrue == event.put # 0 /\ event.status = "notifyOK" => log[event.put].is = "completed"
\* (and with failure only when it has not: does not hold)
FailureTrue == event.put # 0 /\ event.status = "notifyCanceled" => log[event.put].is = "asked"

\* No request that is under way, and no doneCallback before it has queued its put, is of a
\* structure that has been freed.
NoUseAfterFree == \A c \in Channels :
    phase[c] = "asked" \/ done[c] = "entered" => c \in pPutNotify
\* (nor after that: does not hold)
NoneFreedInUse == \A c \in Channels : phase[c] # "idle" => c \in pPutNotify
ClientInUse == At("closed") => \A c \in Channels : done[c] \notin {"entered", "post"}

\* When the client has been told that a channel is cleared, and when its connection is
\* taken down, no reply to a put of that channel is under way.
QuietAfterClear == event.put # 0 /\ log[event.put].c \notin chanList =>
    tcp.pc \notin {"idle", "destroy", "closed"}

\* What the TCP thread, the callbacks and the event task know of puts agrees.
PutsConsistent == /\ TypeOK /\ EachAnsweredOnce /\ QueueServed /\ TrapsPaired /\ AnswersTrue
                  /\ NoneDouble /\ NoUseAfterFree /\ QuietAfterClear

Waits(k) == k \in DOMAIN log /\ log[k].is # "answered" /\ log[k].c \in chanList
\* The TCP thread comes back to its socket, though records hang; and a put whose record
\* completes is answered, unless its channel goes, without a time out of later puts.
PutsEnd ==
    /\ []<>(tcp.pc \in {"idle", "closed"})
    /\ \A k \in 1 .. MaxPuts : []<>(Waits(k) => log[k].c \in inst.hangs)
=============================================================================
