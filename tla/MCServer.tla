------------------------------ MODULE MCServer ------------------------------
(* One client of the Channel Access server for TLC: each behaviour is one  *)
(* of WriteNotify, for its puts with a reply, or one of DbEvent, for its   *)
(* subscriptions.                                                          *)
EXTENDS WriteNotify, TLC

\* Puts: channels to link fields, channels whose records may hang, puts to each channel
PutsTo(links, hangs, n1, n2) ==
    [links |-> links, hangs |-> hangs, puts |-> ("c1" :> n1 @@ "c2" :> n2)]
PutCases == {PutsTo({}, {"c1"}, 2, 1), PutsTo({"c2"}, {}, 1, 2), PutsTo({}, {}, 3, 0)}

\* Subscriptions: one thread with flow control until the end, and one that offloads labor
LiveCalls == ("c1" :> {"add", "flow", "cancel", "close"}) @@ ("c2" :> {"labor"})

CONSTANTS Subs, EVENTSPERQUE, EVENTENTRIES, MaxCalls

VARIABLES use,    \* which of them: never changes
          nque, evque, valque, putix, getix, quota, nDuplicates, nCanceled,
          inuse, enabled, user_sub, npend, pLastLog, callBackInProgress, channel, ev_que,
          ppendsem, pflush_sem, flowCtrlMode, pSuicideEvent, labor, labor_sub, extraLaborBusy,
          pendexit, val, ppc, todo, pc, op, arg, walk, ncalls, tpc, tq, tev, tlog, last, got

eventVars == <<nque, evque, valque, putix, getix, quota, nDuplicates, nCanceled, inuse, enabled,
               user_sub, npend, pLastLog, callBackInProgress, channel, ev_que, ppendsem,
               pflush_sem, flowCtrlMode, pSuicideEvent, labor, labor_sub, extraLaborBusy,
               pendexit, val, ppc, todo, pc, op, arg, walk, ncalls, tpc, tq, tev, tlog, last, got>>

OfEvents == INSTANCE DbEvent WITH
    Recs <- {"r1"}, RefRecs <- {}, Clients <- {"c1", "c2"}, Task <- "task",
    EVENTQEMPTY <- "empty", canceledEvent <- "canceled", NQ <- 1, MaxVal <- 1,
    Calls <- LiveCalls, CallbackCancels <- "own",
    chan <- channel, extra_labor <- labor, extralabor_sub <- labor_sub

\* One that is not checked stays where nothing it does is fair.
ServerInit ==
    /\ use \in {"subscriptions", "puts"} /\ Init /\ OfEvents!Init
    /\ use = "subscriptions" => inst = CHOOSE i \in PutCases : TRUE
ServerNext ==
    \/ use = "puts" /\ Next /\ UNCHANGED <<use, eventVars>>
    \/ use = "subscriptions" /\ OfEvents!Next /\ UNCHANGED <<use, vars>>
ServerSpec == /\ ServerInit /\ [][ServerNext]_<<use, vars, eventVars>>
              /\ Fairness /\ OfEvents!Fairness

\* The property of the same name of DbEvent: what is queued and what clients wait for comes.
EventsServed == OfEvents!EventsServed
=============================================================================
