-------------------------------- MODULE Fifo --------------------------------
(***************************************************************************)
(* What a ring of libCom promises to the threads that share it: elements   *)
(* come out in the order they went in, each once; a put stores all of its  *)
(* elements at once or, only if there is no room for them, none; a get     *)
(* returns at least one element unless the ring is empty.  Each call takes *)
(* effect at one moment between its call and its return.                   *)
(***************************************************************************)
EXTENDS Naturals, Sequences

CONSTANTS Capacity,
          Puts,     \* the sequences of elements, none empty, a put may store
          Amounts,  \* the numbers of elements, from 1, a get may ask for
          Putters, Getters

VARIABLES fifo,     \* the elements stored, oldest first
          putting,  \* by thread: what its put still has to store
          stored,   \* ... whether its last put stored it
          getting,  \* ... how many elements its get still asks for
          got       \* ... what its last get returned
fvars == <<fifo, putting, stored, getting, got>>
putVars == <<putting, stored>>
getVars == <<getting, got>>

Init == /\ fifo = <<>>
        /\ putting = [t \in Putters |-> <<>>] /\ stored = [t \in Putters |-> FALSE]
        /\ getting = [t \in Getters |-> 0] /\ got = [t \in Getters |-> <<>>]

CallPut(t, d) == /\ putting[t] = <<>>
                 /\ putting' = [putting EXCEPT ![t] = d]
                 /\ UNCHANGED <<fifo, stored, getVars>>

Return(t, ok) == /\ putting[t] # <<>>
                 /\ putting' = [putting EXCEPT ![t] = <<>>]
                 /\ stored' = [stored EXCEPT ![t] = ok]
                 /\ UNCHANGED getVars

Put(t) == /\ Len(fifo) + Len(putting[t]) <= Capacity
          /\ fifo' = fifo \o putting[t]
          /\ Return(t, TRUE)

Refuse(t) == /\ Len(fifo) + Len(putting[t]) > Capacity
             /\ Return(t, FALSE) /\ UNCHANGED fifo

CallGet(t, n) == /\ getting[t] = 0
                 /\ getting' = [getting EXCEPT ![t] = n]
                 /\ UNCHANGED <<fifo, putVars, got>>

Get(t, n) == /\ n <= getting[t]
             /\ got' = [got EXCEPT ![t] = SubSeq(fifo, 1, n)]
             /\ fifo' = SubSeq(fifo, n + 1, Len(fifo))
             /\ getting' = [getting EXCEPT ![t] = 0]
             /\ UNCHANGED putVars

Empty(t) == /\ getting[t] > 0 /\ fifo = <<>>
            /\ getting' = [getting EXCEPT ![t] = 0]
            /\ got' = [got EXCEPT ![t] = <<>>]
            /\ UNCHANGED <<fifo, putVars>>

Flush == fifo' = <<>> /\ UNCHANGED <<putVars, getVars>>

Next == \/ \E t \in Putters : \/ \E d \in Puts : CallPut(t, d)
                              \/ Put(t) \/ Refuse(t)
        \/ \E t \in Getters : \/ \E n \in Amounts : CallGet(t, n)
                              \/ \E n \in 1 .. Len(fifo) : Get(t, n)
                              \/ Empty(t)
        \/ Flush

Spec == Init /\ [][Next]_fvars
=============================================================================
