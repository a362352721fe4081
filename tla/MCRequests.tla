----------------------------- MODULE MCRequests -----------------------------
(* What clients ask for, for TLC: each behaviour is one of DbNotify, of    *)
(* requests to process records or to put with a callback, or one of        *)
(* PvaMonitor, of a subscription of pvAccess.                              *)
EXTENDS DbNotify, TLC

\* Requests: the record and the kind of each, records that complete later, are passive, may be
\* disabled, links that may be cut, requests, scans and refusals
Case(c1, c2, k1, k2, async, passive, disabled, cuts, number, others, refusals) ==
    [chan |-> ("n1" :> c1 @@ "n2" :> c2), kind |-> ("n1" :> k1 @@ "n2" :> k2),
     async |-> async, passive |-> passive, disabled |-> disabled, cuts |-> cuts,
     requests |-> number, scans |-> others, refused |-> refusals]
Split == Case(1, 1, "put", "put", {1, 2}, {1, 2, 3}, {}, {1}, 1, 0, 0)
Cases == {
    Case(1, 1, "put", "put", {1}, {1, 2}, {}, {}, 2, 0, 0),
    Case(1, 1, "put", "put", {1}, {2}, {}, {}, 1, 1, 1),
    Case(1, 2, "put", "put", {1, 2}, {1, 2}, {}, {}, 1, 1, 0),
    Case(1, 2, "process", "processGet", {2}, {1, 2}, {2}, {}, 1, 1, 0),
    Case(1, 3, "put", "processGet", {2, 3}, {1, 2, 3}, {}, {}, 1, 0, 0),
    Split}
Splits == {Split}

\* Subscriptions: sizes of the server's queue and of the client's, pipeline, ackAny, what the
\* provider does when there is no room, other calls, values posted
Of(count, size, pipeline, ackAny, source, also, posts) ==
    [actualCount |-> count, queueSize |-> size, pipeline |-> pipeline, ackAny |-> ackAny,
     source |-> source, calls |-> also, posts |-> posts]
\* (for the properties that do not hold)
Windowed == Of(2, 2, TRUE, 1, "none", {}, 4)
Finished == Of(1, 2, FALSE, 1, "none", {"finish"}, 4)
Retyped  == Of(1, 2, FALSE, 1, "none", {"lose", "retype"}, 4)
Subscriptions == {
    Of(1, 2, FALSE, 1, "none", {}, 4),
    Of(1, 2, FALSE, 1, "none", {"stop"}, 2),
    Of(1, 2, FALSE, 1, "none", {"lose"}, 3),
    Of(1, 2, FALSE, 1, "heed", {"finish"}, 2),
    Of(2, 2, TRUE, 1, "heed", {"finish"}, 2),
    Of(2, 2, TRUE, 1, "none", {"lose"}, 2),
    Of(1, 2, TRUE, 1, "none", {"stop"}, 2),
    Of(3, 3, TRUE, 2, "heed", {}, 4),
    Of(1, 2, FALSE, 1, "force", {}, 3)}

VARIABLES use,    \* which of them: never changes
          subscription, posted, blocked, structure, poster, fifo, sends, requester, sender,
          server, toClient, toServer, strategy, chan, receiver, user, seen, dropped, epoch

monitorVars == <<subscription, posted, blocked, structure, poster, fifo, sends, requester,
                 sender, server, toClient, toServer, strategy, chan, receiver, user, seen,
                 dropped, epoch>>

OfMonitor == INSTANCE PvaMonitor WITH Instances <- Subscriptions, inst <- subscription

ASSUME OfMonitor!PvaMonitorAssumption

\* One that is not checked stays where it is.
RequestsInit ==
    /\ use \in {"notify", "monitor"} /\ Init /\ OfMonitor!Init
    /\ use # "notify" => inst = CHOOSE i \in Cases : TRUE
    /\ use # "monitor" => subscription = CHOOSE i \in Subscriptions : TRUE
RequestsNext ==
    \/ use = "notify" /\ Next /\ UNCHANGED <<use, monitorVars>>
    \/ use = "monitor" /\ OfMonitor!Next /\ UNCHANGED <<use, vars>>

\* the fairness of PvaMonitor, where it is what is checked
MonitorFairness ==
    /\ WF_monitorVars(use = "monitor" /\ OfMonitor!Provider)
    /\ WF_monitorVars(use = "monitor" /\ OfMonitor!notify)
    /\ WF_monitorVars(use = "monitor" /\ OfMonitor!Send)
    /\ WF_monitorVars(use = "monitor" /\ OfMonitor!HandleResponse)
    /\ WF_monitorVars(use = "monitor" /\ OfMonitor!Receive)
    /\ WF_monitorVars(use = "monitor" /\ OfMonitor!SendRequest)
    /\ WF_monitorVars(use = "monitor" /\ OfMonitor!SendAck)
    /\ WF_monitorVars(use = "monitor" /\ OfMonitor!Poll)
RequestsSpec == /\ RequestsInit /\ [][RequestsNext]_<<use, vars, monitorVars>>
                /\ Fairness /\ MonitorFairness

\* The invariant Consistent of PvaMonitor: queues, window, threads and messages agree, and what
\* waits is on its way.
MonitorConsistent == use = "monitor" => OfMonitor!Consistent
\* The property of the same name of PvaMonitor: to a user it is a Stream.
ImplementsStream == OfMonitor!ImplementsStream
\* The property of the same name of PvaMonitor: the newest value is seen, and the end.
MonitorServed == OfMonitor!MonitorServed
=============================================================================
