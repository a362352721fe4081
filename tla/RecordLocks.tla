----------------------------- MODULE RecordLocks -----------------------------
(***************************************************************************)
(* What dbScanLock, dbScanLockMany and dbPutFieldLink promise the threads  *)
(* that process records: a thread has the records it asked for and all     *)
(* that links connect with them, no two threads have the same record, and  *)
(* a link changes only in the hands of a thread that has both ends.        *)
(***************************************************************************)
CONSTANTS
    Threads,
    Records,
    Fields,       \* link fields: <<record, number>>
    None          \* a field without a database link
VARIABLES
    link,         \* the record each field is linked to
    asked,        \* the records each thread has locked
    held          \* ... and those it has with them
vars == <<link, asked, held>>

\* what follows links from S, or is followed by them into S, stays in S
Closed(S) == \A f \in Fields : link[f] # None => (f[1] \in S <=> link[f] \in S)

Init == link \in [Fields -> Records \cup {None}] /\ held = [t \in Threads |-> {}]
        /\ asked = [t \in Threads |-> {}]

Lock(t) == \E S \in SUBSET Records : \E A \in SUBSET S :
    /\ held[t] = {} /\ Closed(S)
    /\ \A u \in Threads \ {t} : held[u] \cap S = {}
    /\ asked' = [asked EXCEPT ![t] = A] /\ held' = [held EXCEPT ![t] = S]
    /\ UNCHANGED link

Unlock(t) == /\ asked' = [asked EXCEPT ![t] = {}] /\ held' = [held EXCEPT ![t] = {}]
             /\ UNCHANGED link

ChangeLink(t) == \E f \in Fields :
    /\ f[1] \in held[t]
    /\ \E r \in held[t] \cup {None} : link' = [link EXCEPT ![f] = r]
    /\ UNCHANGED <<asked, held>>

Next == \E t \in Threads : Lock(t) \/ Unlock(t) \/ ChangeLink(t)
Spec == Init /\ [][Next]_vars
-----------------------------------------------------------------------------
\* No two threads have one record.
Apart == \A t, u \in Threads : t # u => held[t] \cap held[u] = {}
\* A thread has what it locked, and neither end of a link without the other: what
\* processing reaches through links from a record it has, it has.
Whole == \A t \in Threads : asked[t] \subseteq held[t] /\ Closed(held[t])
=============================================================================
