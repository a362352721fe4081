-------------------------- MODULE DbEventMonitor ---------------------------
(***************************************************************************)
(* DbEvent implements Monitor: the values that wait for a subscription are *)
(* the one its callback was entered with and has not read yet, and its     *)
(* entries in the ring from getix on.  For channels that queue a copy of   *)
(* the value (RefRecs = {}).                                               *)
(***************************************************************************)
EXTENDS MCDbEvent, Sequences

\* the slots of S in order of age, and their values
Place(S, age, i) == Cardinality({j \in S : age[j] <= age[i]})
Nth(S, age, n) == CHOOSE i \in S : Place(S, age, i) = n
Listed(S, age, values) == [n \in 1 .. Cardinality(S) |-> values[Nth(S, age, n)]]

Ages(q) == [i \in Slots |-> Age(q, i)]
InRing(s) == LET q == ev_que[s] IN Listed(Entries(q, s), Ages(q), valque[q])

Waiting(s) ==
    (IF tpc = "callback" /\ tev = s THEN <<tlog>> ELSE <<>>)
    \o (IF user_sub[s] THEN InRing(s) ELSE <<>>)

Status(s) == IF user_sub[s] THEN "open"
             ELSE IF \E t \in Threads : arg[t] = s /\ pc[t] \in {"wait", "recheck"}
                  THEN "closing" ELSE "free"

Monitor == INSTANCE Monitor WITH
    Values <- Logs, None <- NoLog,
    status <- [s \in Subs |-> Status(s)],
    waiting <- [s \in Subs |-> Waiting(s)],
    seen <- got

\* The ring, its replacement rule, the purge of a cancel and the handshake
\* with a callback in progress keep the promise of a subscription.
ImplementsMonitor == Monitor!Spec
============================================================================
