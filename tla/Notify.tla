------------------------------- MODULE Notify -------------------------------
(***************************************************************************)
(* What dbNotify.h promises the clients of process notify: a request is    *)
(* answered by one call of its doneCallback or by none when it is          *)
(* canceled, and dbNotifyCancel does not return while the callback runs or *)
(* may still be made.                                                      *)
(***************************************************************************)
CONSTANT Notifies     \* processNotify structures
VARIABLES
    phase,            \* "idle", "asked", or "calling" while doneCallback runs
    canceling         \* dbNotifyCancel waits
vars == <<phase, canceling>>

Init == phase = [n \in Notifies |-> "idle"] /\ canceling = [n \in Notifies |-> FALSE]

\* dbProcessNotify, by the client that made no request or had its answer
Ask(n) ==
    /\ phase[n] = "idle" /\ ~canceling[n]
    /\ phase' = [phase EXCEPT ![n] = "asked"] /\ UNCHANGED canceling

Done(n) ==
    /\ phase[n] = "asked"
    /\ phase' = [phase EXCEPT ![n] = "calling"] /\ UNCHANGED canceling

DoneReturns(n) ==
    /\ phase[n] = "calling"
    /\ phase' = [phase EXCEPT ![n] = "idle"] /\ UNCHANGED canceling

\* a request that has not come to its callback is taken back at once
CancelAtOnce(n) ==
    /\ phase[n] = "asked" /\ ~canceling[n]
    /\ phase' = [phase EXCEPT ![n] = "idle"] /\ UNCHANGED canceling

CancelWaits(n) ==
    /\ ~canceling[n]
    /\ canceling' = [canceling EXCEPT ![n] = TRUE] /\ UNCHANGED phase

CancelReturns(n) ==
    /\ canceling[n] /\ phase[n] # "calling"
    /\ canceling' = [canceling EXCEPT ![n] = FALSE]
    /\ phase' = [phase EXCEPT ![n] = "idle"]

Next == \E n \in Notifies :
    \/ Ask(n) \/ Done(n) \/ DoneReturns(n)
    \/ CancelAtOnce(n) \/ CancelWaits(n) \/ CancelReturns(n)
Spec == Init /\ [][Next]_vars
=============================================================================
