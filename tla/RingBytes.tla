----------------------------- MODULE RingBytes ------------------------------
(***************************************************************************)
(* epicsRingBytes (modules/libcom/src/ring/epicsRingBytes.c): a circular   *)
(* buffer of bytes, put and fetched in blocks.  As in RingPointer, a spin  *)
(* lock admits any number of threads; without it one thread puts while one *)
(* gets, and a block is copied byte by byte beside the other side.         *)
(***************************************************************************)
EXTENDS Integers, Sequences

CONSTANTS Size, SLOP,       \* bytes the ring can store, and those never used
          locked,
          Puts, Amounts,    \* the blocks put, the numbers of bytes asked for
          Putters, Getters
Nobody == "nobody"
Threads == Putters \cup Getters
Bytes == UNION {{d[i] : i \in DOMAIN d} : d \in Puts}
Unused == <<>>

RingAssumption ==
    /\ Size \in Nat /\ SLOP \in Nat \ {0} /\ locked \in BOOLEAN
    /\ \A d \in Puts : d \in Seq(Bytes) /\ d # <<>>
    /\ Amounts \subseteq Nat \ {0} /\ Unused \notin Bytes
    /\ Putters \cap Getters = {} /\ Nobody \notin Threads
    /\ locked \/ /\ \A t, u \in Putters : t = u
                 /\ \A t, u \in Getters : t = u

size == Size + SLOP
Slots == 0 .. (size - 1)

VARIABLES lock, nextPut, nextGet, highWaterMark, buffer,
          pc,           \* where a thread is in put or get
          value,        \* what it puts, or has fetched
          nbytes,       \* how many bytes it asks for
          count,        \* ... and gets
          ncopied,      \* ... and has copied
          oldGet,       \* the nextGet that put has read
          ok, got       \* what its last call returned
idxVars == <<nextPut, nextGet>>
getVars == <<nbytes, count>>
copyVars == <<value, getVars, ncopied, oldGet>>
retVars == <<ok, got>>
vars == <<lock, idxVars, highWaterMark, buffer, pc, copyVars, retVars>>

Init ==
    /\ lock = Nobody /\ nextPut = 0 /\ nextGet = 0 /\ highWaterMark = 0
    /\ buffer = [i \in Slots |-> Unused]
    /\ pc = [t \in Threads |-> "idle"]
    /\ value = [t \in Threads |-> <<>>] /\ nbytes = [t \in Getters |-> 0]
    /\ count = [t \in Getters |-> 0]
    /\ ncopied = [t \in Putters |-> 0] /\ oldGet = [t \in Putters |-> 0]
    /\ ok = [t \in Putters |-> FALSE] /\ got = [t \in Getters |-> <<>>]

wrap(n) == IF n < 0 THEN n + size ELSE n
held(put, get) == wrap(put - get)
UsedBytes == held(nextPut, nextGet)
FreeBytes == IF nextPut < nextGet THEN nextGet - nextPut - SLOP
                                  ELSE size - nextPut + nextGet - SLOP

\* the slot i bytes from one
at(slot, i) == IF slot + i >= size THEN slot + i - size ELSE slot + i

Goto(t, l) == pc' = [pc EXCEPT ![t] = l]
Lock(t) == IF locked THEN lock = Nobody /\ lock' = t ELSE UNCHANGED lock
Unlock == lock' = Nobody
----------------------------------------------------------------------------
(* epicsRingBytesPut *)

PutCall(t, d) ==
    /\ pc[t] = "idle" /\ Lock(t) /\ Goto(t, "test")
    /\ value' = [value EXCEPT ![t] = d]
    /\ UNCHANGED <<idxVars, highWaterMark, buffer, getVars, ncopied, oldGet, retVars>>

PutReturn(t, r) ==
    /\ Unlock /\ Goto(t, "idle")
    /\ value' = [value EXCEPT ![t] = <<>>]
    /\ ncopied' = [ncopied EXCEPT ![t] = 0] /\ oldGet' = [oldGet EXCEPT ![t] = 0]
    /\ ok' = [ok EXCEPT ![t] = r]
    /\ UNCHANGED <<idxVars, buffer, getVars, got>>

PutTest(t) ==
    /\ pc[t] = "test"
    /\ \/ Len(value[t]) > FreeBytes /\ PutReturn(t, FALSE) /\ UNCHANGED highWaterMark
       \/ /\ Len(value[t]) <= FreeBytes
          /\ oldGet' = [oldGet EXCEPT ![t] = nextGet]
          /\ Goto(t, "copy")
          /\ UNCHANGED <<lock, idxVars, highWaterMark, buffer, value, getVars, ncopied,
                         retVars>>

PutCopy(t) ==
    /\ pc[t] = "copy" /\ ncopied[t] < Len(value[t])
    /\ buffer' = [buffer EXCEPT ![at(nextPut, ncopied[t])] = value[t][ncopied[t] + 1]]
    /\ ncopied' = [ncopied EXCEPT ![t] = @ + 1]
    /\ UNCHANGED <<lock, idxVars, highWaterMark, pc, value, getVars, oldGet, retVars>>

PutIndex(t) ==
    /\ pc[t] = "copy" /\ ncopied[t] = Len(value[t])
    /\ nextPut' = at(nextPut, Len(value[t]))
    /\ Goto(t, "mark")
    /\ UNCHANGED <<lock, nextGet, highWaterMark, buffer, copyVars, retVars>>

PutMark(t) ==
    /\ pc[t] = "mark"
    /\ LET used == held(nextPut, oldGet[t])
       IN  highWaterMark' = IF used > highWaterMark THEN used ELSE highWaterMark
    /\ PutReturn(t, TRUE)

Put(t) == PutTest(t) \/ PutCopy(t) \/ PutIndex(t) \/ PutMark(t)
----------------------------------------------------------------------------
(* epicsRingBytesGet *)

GetCall(t, n) ==
    /\ pc[t] = "idle" /\ Lock(t) /\ Goto(t, "test")
    /\ nbytes' = [nbytes EXCEPT ![t] = n]
    /\ UNCHANGED <<idxVars, highWaterMark, buffer, value, count, ncopied, oldGet, retVars>>

GetReturn(t, d) ==
    /\ Unlock /\ Goto(t, "idle")
    /\ value' = [value EXCEPT ![t] = <<>>]
    /\ nbytes' = [nbytes EXCEPT ![t] = 0] /\ count' = [count EXCEPT ![t] = 0]
    /\ got' = [got EXCEPT ![t] = d]
    /\ UNCHANGED <<nextPut, highWaterMark, buffer, ncopied, oldGet, ok>>

least(a, b) == IF a < b THEN a ELSE b
\* (mutant: the bytes at the bottom are not limited to those stored)
Fetched_Past(n) ==
    IF nextGet <= nextPut THEN least(n, nextPut - nextGet)
    ELSE LET top == least(n, size - nextGet)
         IN  IF nextGet + top = size THEN n ELSE top
\* of n bytes asked for, those there are
Fetched(n) ==
    IF nextGet <= nextPut THEN least(n, nextPut - nextGet)
    ELSE LET top == least(n, size - nextGet)
         IN  IF nextGet + top = size THEN top + least(n - top, nextPut) ELSE top

GetTest(t) ==
    /\ pc[t] = "test"
    /\ LET n == Fetched(nbytes[t]) IN
       \/ n = 0 /\ GetReturn(t, <<>>) /\ UNCHANGED nextGet
       \/ /\ n > 0 /\ Goto(t, "copy")
          /\ count' = [count EXCEPT ![t] = n]
          /\ UNCHANGED <<lock, idxVars, highWaterMark, buffer, value, nbytes, ncopied,
                         oldGet, retVars>>

GetCopy(t) ==
    /\ pc[t] = "copy" /\ Len(value[t]) < count[t]
    /\ value' = [value EXCEPT ![t] = Append(@, buffer[at(nextGet, Len(@))])]
    /\ UNCHANGED <<lock, idxVars, highWaterMark, buffer, pc, getVars, ncopied, oldGet,
                   retVars>>

GetIndex(t) ==
    /\ pc[t] = "copy" /\ Len(value[t]) = count[t]
    /\ nextGet' = at(nextGet, count[t])
    /\ GetReturn(t, value[t])

Get(t) == GetTest(t) \/ GetCopy(t) \/ GetIndex(t)
----------------------------------------------------------------------------
\* epicsRingBytesFlush and ...ResetHighWaterMark: under the lock, or "when both
\* gets and puts are locked out"
Quiet == \A t \in Threads : pc[t] = "idle"

Flush == /\ Quiet
         /\ nextGet' = nextPut
         /\ UNCHANGED <<lock, nextPut, highWaterMark, buffer, pc, copyVars, retVars>>

Reset == /\ Quiet
         /\ highWaterMark' = wrap(nextGet - nextPut)
         /\ UNCHANGED <<lock, idxVars, buffer, pc, copyVars, retVars>>

Next == \/ \E t \in Putters : Put(t) \/ \E d \in Puts : PutCall(t, d)
        \/ \E t \in Getters : Get(t) \/ \E n \in Amounts : GetCall(t, n)
        \/ Flush \/ Reset

Spec == Init /\ [][Next]_vars
----------------------------------------------------------------------------
Content == [i \in 1 .. UsedBytes |-> buffer[at(nextGet, i - 1)]]

\* a call is pending until the step that takes effect
Pending(t) == pc[t] \in {"test", "copy"}
Putting == [t \in Putters |-> IF Pending(t) THEN value[t] ELSE <<>>]
Answer  == [t \in Putters |-> IF pc[t] = "mark" THEN TRUE ELSE ok[t]]
Getting == [t \in Getters |-> IF Pending(t) THEN nbytes[t] ELSE 0]

Fifo == INSTANCE Fifo WITH
    Capacity <- Size, Puts <- Puts, Amounts <- Amounts,
    Putters <- Putters, Getters <- Getters,
    fifo <- Content, putting <- Putting, stored <- Answer, getting <- Getting, got <- got

\* The ring is a queue of bytes: a block goes in as a whole or, only if there is
\* no room for it, not at all; bytes come out once and in order; a get returns
\* nothing only if there is nothing.
BytesImplementFifo == Fifo!Spec
=============================================================================
