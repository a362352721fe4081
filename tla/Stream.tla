------------------------------- MODULE Stream -------------------------------
(***************************************************************************)
(* What a pvAccess subscription promises its user, whatever queues,        *)
(* windows and threads lie between: values arrive in the order they were   *)
(* posted; where there is no room for a value it takes the place of the    *)
(* one before it, and says so; values are lost without a mark only when    *)
(* the user starts the subscription again, which drops the oldest of them, *)
(* or the connection is lost, which leaves the current value.              *)
(***************************************************************************)
EXTENDS Naturals, Sequences

VARIABLES posted,   \* number of the last value that was posted
          waiting,  \* values on their way, oldest first: number, whether others were skipped
          seen,     \* the value the user had last
          epoch     \* restarts and lost connections

svars == <<posted, waiting, seen, epoch>>

Value(n, over) == [n |-> n, over |-> over]

\* a subscription starts with the value there is
Current == IF posted = 0 THEN <<>> ELSE <<Value(posted, FALSE)>>

Init == posted \in {0, 1} /\ waiting = Current /\ seen = Value(0, FALSE) /\ epoch = 0

\* a value waits behind the others, or in the place of the newest of them
Post ==
    /\ posted' = posted + 1
    /\ \/ waiting' = Append(waiting, Value(posted', FALSE))
       \/ /\ waiting # <<>>
          /\ waiting' = [waiting EXCEPT ![Len(waiting)] = Value(posted', TRUE)]
    /\ UNCHANGED <<seen, epoch>>

\* a value is overwritten by the next
Merge ==
    /\ \E i \in 1 .. Len(waiting) - 1 :
          waiting' = [k \in 1 .. Len(waiting) - 1 |->
                         IF k < i THEN waiting[k]
                         ELSE IF k = i THEN Value(waiting[i + 1].n, TRUE) ELSE waiting[k + 1]]
    /\ UNCHANGED <<posted, seen, epoch>>

Deliver ==
    /\ waiting # <<>>
    /\ seen' = Head(waiting) /\ waiting' = Tail(waiting)
    /\ UNCHANGED <<posted, epoch>>

Restart ==
    /\ \E k \in 1 .. Len(waiting) : waiting' = SubSeq(waiting, k + 1, Len(waiting))
    /\ epoch' = epoch + 1
    /\ UNCHANGED <<posted, seen>>

Renew ==
    /\ waiting' = Current
    /\ epoch' = epoch + 1
    /\ UNCHANGED <<posted, seen>>

Next == Post \/ Merge \/ Deliver \/ Restart \/ Renew

Spec == Init /\ [][Next]_svars
=============================================================================
