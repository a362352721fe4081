------------------------------ MODULE Monitor ------------------------------
(***************************************************************************)
(* What a subscription promises, whatever rings, counters and threads it   *)
(* is made of: a subscriber sees values in the order they were posted;     *)
(* when it is slow, only the newest value that still waits may be          *)
(* overwritten, and only by a newer one, so the last value posted is seen; *)
(* after a cancel has begun at most the callback already under way is      *)
(* completed, and after it has returned there is none.                     *)
(***************************************************************************)
EXTENDS Naturals, Sequences

CONSTANTS Subs, Values, None

VARIABLES status,   \* of a subscription: "free", "open" or "closing"
          waiting,  \* values posted and not yet seen, oldest first
          seen      \* the value its callback had last

mvars == <<status, waiting, seen>>

Init == /\ status = [s \in Subs |-> "free"]
        /\ waiting = [s \in Subs |-> <<>>]
        /\ seen = [s \in Subs |-> None]

Open(s) == /\ status[s] = "free"
           /\ status' = [status EXCEPT ![s] = "open"]
           /\ UNCHANGED <<waiting, seen>>

\* a value posted waits behind the others, or replaces the newest of them
Post(s, v) ==
    /\ status[s] = "open"
    /\ \/ waiting' = [waiting EXCEPT ![s] = Append(@, v)]
       \/ waiting[s] # <<>> /\ waiting' = [waiting EXCEPT ![s][Len(waiting[s])] = v]
    /\ UNCHANGED <<status, seen>>

Deliver(s) ==
    /\ waiting[s] # <<>>
    /\ seen' = [seen EXCEPT ![s] = Head(waiting[s])]
    /\ waiting' = [waiting EXCEPT ![s] = Tail(@)]
    /\ UNCHANGED status

\* the values that wait are dropped; the oldest may be on its way already
Cancel(s) ==
    /\ status[s] = "open"
    /\ status' = [status EXCEPT ![s] = "closing"]
    /\ \E k \in {0, 1} : /\ k <= Len(waiting[s])
                         /\ waiting' = [waiting EXCEPT ![s] = SubSeq(@, 1, k)]
    /\ UNCHANGED seen

Free(s) ==
    /\ \/ status[s] = "closing" /\ waiting[s] = <<>>
       \/ status[s] = "open"
    /\ status' = [status EXCEPT ![s] = "free"]
    /\ waiting' = [waiting EXCEPT ![s] = <<>>]
    /\ seen' = [seen EXCEPT ![s] = None]

Next == \E s \in Subs : \/ Open(s) \/ Deliver(s) \/ Cancel(s) \/ Free(s)
                        \/ \E v \in Values : Post(s, v)

Spec == Init /\ [][Next]_mvars
============================================================================
