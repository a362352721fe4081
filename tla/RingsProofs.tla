---------------------------- MODULE RingsProofs -----------------------------
(***************************************************************************)
(* Theorems about both rings, as MCRings has them: for every size, every   *)
(* set of blocks, any number of threads under the spin lock, and one of    *)
(* each side without it, a ring is the queue that Fifo describes.          *)
(***************************************************************************)
EXTENDS MCRings, SequenceTheorems, TLAPS

USE RingAssumption DEF NULL, Nobody, Threads, size, Slots

\* What a ring in use satisfies.
RInv == TypeOK /\ Exclusive /\ Stable

\* Two indices determine how many elements there are.
LEMMA Held ==
  ASSUME NEW a \in Slots, NEW b \in Slots
  PROVE  /\ held(a, b) \in 0 .. Size
         /\ a = b <=> held(a, b) = 0
         /\ Inc(a) = b <=> held(a, b) = Size
         /\ Inc(a) \in Slots
         /\ Inc(a) # b => held(Inc(a), b) = held(a, b) + 1
         /\ a # b => held(a, Inc(b)) = held(a, b) - 1
BY DEF held, wrap, Inc

\* How getUsed, isEmpty, isFull and the slots in use agree.
LEMMA Used ==
  ASSUME TypeOK
  PROVE  /\ getUsed \in 0 .. Size
         /\ isEmpty <=> getUsed = 0
         /\ NoRoom <=> getUsed = Size
         /\ Inc(nextPush) \in Slots /\ Inc(nextPop) \in Slots
         /\ \A i \in 0 .. Size : Slot(i) \in Slots
         /\ Slot(getUsed) = nextPush
         /\ \A i \in 0 .. Size : Slot(i) = nextPush => i = getUsed
BY DEF TypeOK, getUsed, held, wrap, isEmpty, NoRoom, Inc, Slot, at

\* The same of the state after a step.
LEMMA UsedAfter ==
  ASSUME TypeOK'
  PROVE  /\ getUsed' \in 0 .. Size
         /\ isEmpty' <=> getUsed' = 0
         /\ NoRoom' <=> getUsed' = Size
BY Held DEF TypeOK, getUsed, isEmpty, NoRoom

\* Slots are stored into and released one at a time.
LEMMA UsedChanges ==
  ASSUME TypeOK
  PROVE  /\ nextPop' = nextPop /\ nextPush' = Inc(nextPush) /\ ~NoRoom
            => getUsed' = getUsed + 1
         /\ nextPush' = nextPush /\ nextPop' = Inc(nextPop) /\ ~isEmpty
            => getUsed' = getUsed - 1 /\ \A i \in 0 .. Size - 1 : Slot(i)' = Slot(i + 1)
BY SMTT(30) DEF TypeOK, getUsed, held, wrap, isEmpty, NoRoom, Inc, Slot, at

\* The empty ring satisfies the invariant.
LEMMA InitInv == Init => RInv
<1>. SUFFICES ASSUME Init PROVE RInv
  OBVIOUS
<1>1. TypeOK
  BY DEF Init, TypeOK
<1>2. Exclusive
  BY DEF Init, Exclusive
<1>3. getUsed = 0
  BY DEF Init, getUsed, held, wrap
<1>4. Stable
  BY <1>3 DEF Init, Stable
<1>. QED  BY <1>1, <1>2, <1>4 DEF RInv

\* The variables keep their types.
LEMMA TypeStep == ASSUME RInv, [Next]_vars PROVE TypeOK'
<1>. USE DEF RInv
<1>0. getUsed \in 0 .. Size /\ Inc(nextPush) \in Slots /\ Inc(nextPop) \in Slots
  BY Used
<1>1. ASSUME NEW t \in Pushers, NEW e \in Elements, PushCall(t, e) PROVE TypeOK'
  BY <1>1 DEF TypeOK, PushCall, Enter, Lock, Goto, idxVars, retVars
<1>2. ASSUME NEW t \in Pushers, PushTest(t) PROVE TypeOK'
  BY <1>2, ZenonT(30) DEF TypeOK, PushTest, PushReturn, Unlock, Goto, idxVars, retVars
<1>3. ASSUME NEW t \in Pushers, PushStore(t) PROVE TypeOK'
  BY <1>3 DEF TypeOK, PushStore, Goto, idxVars, retVars
<1>4. ASSUME NEW t \in Pushers, PushIndex(t) PROVE TypeOK'
  BY <1>0, <1>4 DEF TypeOK, PushIndex, Goto, retVars
<1>5. ASSUME NEW t \in Pushers, PushMark(t) PROVE TypeOK'
  BY <1>0, <1>5 DEF TypeOK, PushMark, Mark, PushReturn, Unlock, Goto, idxVars
<1>6. ASSUME NEW t \in Poppers, PopCall(t) PROVE TypeOK'
  BY <1>6 DEF TypeOK, PopCall, Enter, Lock, Goto, idxVars, retVars
<1>7. ASSUME NEW t \in Poppers, PopTest(t) PROVE TypeOK'
  BY <1>7 DEF TypeOK, PopTest, PopReturn, Unlock, Goto, idxVars, retVars
<1>8. ASSUME NEW t \in Poppers, PopLoad(t) PROVE TypeOK'
  BY <1>8 DEF TypeOK, PopLoad, Goto, idxVars, retVars
<1>9. ASSUME NEW t \in Poppers, PopIndex(t) PROVE TypeOK'
  BY <1>0, <1>9 DEF TypeOK, PopIndex, PopReturn, Unlock, Goto
<1>10. CASE Flush
  BY <1>10 DEF TypeOK, Flush, retVars
<1>11. CASE Reset
  BY <1>0, <1>11 DEF TypeOK, Reset, idxVars, retVars
<1>12. CASE UNCHANGED vars
  BY <1>12 DEF TypeOK, vars, idxVars, retVars
<1>. QED  BY <1>1, <1>2, <1>3, <1>4, <1>5, <1>6, <1>7, <1>8, <1>9, <1>10, <1>11, <1>12
             DEF Next, Push, Pop

\* Threads of a side follow one another: the lock, or their being one.
LEMMA ExclusiveStep == ASSUME RInv, [Next]_vars PROVE Exclusive'
<1>. USE DEF RInv
<1>1. ASSUME NEW t \in Threads, Enter(t) PROVE Exclusive'
  BY <1>1 DEF TypeOK, Exclusive, Enter, Lock, Goto
<1>2. ASSUME NEW t \in Threads, NEW l, pc[t] # "idle", Goto(t, l),
             UNCHANGED lock \/ (Unlock /\ l = "idle")
      PROVE  Exclusive'
  BY <1>2 DEF TypeOK, Exclusive, Unlock, Goto
<1>3. ASSUME NEW t \in Pushers, Push(t) PROVE Exclusive'
  <2>1. \E l : pc[t] # "idle" /\ Goto(t, l) /\ (UNCHANGED lock \/ (Unlock /\ l = "idle"))
    BY <1>3 DEF Push, PushTest, PushStore, PushIndex, PushMark, PushReturn
  <2>. QED  BY <1>2, <2>1
<1>4. ASSUME NEW t \in Poppers, Pop(t) PROVE Exclusive'
  <2>1. \E l : pc[t] # "idle" /\ Goto(t, l) /\ (UNCHANGED lock \/ (Unlock /\ l = "idle"))
    BY <1>4 DEF Pop, PopTest, PopLoad, PopIndex, PopReturn
  <2>. QED  BY <1>2, <2>1
<1>5. ASSUME UNCHANGED <<lock, pc>> PROVE Exclusive'
  BY <1>5 DEF Exclusive
<1>. QED  BY <1>1, <1>3, <1>4, <1>5 DEF Next, PushCall, PopCall, Flush, Reset, vars

\* What one side relies on is left alone, or improved, by the other.
LEMMA StableStep == ASSUME RInv, [Next]_vars PROVE Stable'
<1>. USE DEF RInv
<1>0. /\ TypeOK /\ Exclusive /\ Stable /\ TypeOK'
      /\ getUsed \in 0 .. Size /\ (isEmpty <=> getUsed = 0) /\ (NoRoom <=> getUsed = Size)
      /\ Slot(getUsed) = nextPush
      /\ \A i \in 0 .. Size : Slot(i) \in Slots /\ (Slot(i) = nextPush => i = getUsed)
  BY Used, TypeStep
<1>1. ASSUME NEW t \in Threads, Enter(t), t \in Pushers => p'[t] \in Elements,
             \A u \in Threads : u # t => p'[u] = p[u]
      PROVE  Stable'
  <2>1. UNCHANGED <<nextPush, nextPop, buffer>> /\ pc' = [pc EXCEPT ![t] = "test"]
    BY <1>1 DEF Enter, Goto, idxVars
  <2>. QED  BY <1>0, <1>1, <2>1 DEF Stable, TypeOK, NoRoom, isEmpty, getUsed, Slot
<1>2. ASSUME NEW t \in Threads, NEW l, Goto(t, l), UNCHANGED <<nextPush, nextPop, buffer>>,
             \A u \in Threads : u # t => p'[u] = p[u],
             l # "idle" => p'[t] = p[t],
             \/ l \in {"idle", "mark"}
             \/ t \in Pushers /\ l = "store" /\ pc[t] = "test" /\ ~NoRoom
             \/ t \in Poppers /\ l = "load" /\ ~isEmpty
      PROVE  Stable'
  <2>1. pc' = [pc EXCEPT ![t] = l]
    BY <1>2 DEF Goto
  <2>. QED  BY <1>0, <1>2, <2>1 DEF Stable, TypeOK, NoRoom, isEmpty, getUsed, Slot
<1>3. ASSUME NEW t \in Pushers, PushTest(t) PROVE Stable'
  <2>1. CASE NoRoom
    BY <1>0, <1>2, <1>3, <2>1 DEF PushTest, PushReturn, TypeOK, idxVars
  <2>2. CASE ~NoRoom
    BY <1>0, <1>2, <1>3, <2>2 DEF PushTest, idxVars
  <2>. QED  BY <2>1, <2>2
<1>4. ASSUME NEW t \in Pushers, PushStore(t) PROVE Stable'
  <2>1. /\ pc[t] = "store" /\ pc' = [pc EXCEPT ![t] = "index"]
        /\ buffer' = [buffer EXCEPT ![nextPush] = p[t]]
        /\ UNCHANGED <<nextPush, nextPop, p>>
    BY <1>4 DEF PushStore, Goto, idxVars
  <2>2. /\ p[t] \in Elements /\ ~NoRoom /\ nextPush \in Slots /\ nextPop \in Slots
        /\ \A u \in Pushers : u # t => pc[u] = "idle"
    BY <1>0, <2>1 DEF Stable, Exclusive, TypeOK
  <2>3. \A u \in Pushers : /\ pc'[u] \in {"test", "store", "index"} => p'[u] \in Elements
                           /\ pc'[u] \in {"store", "index"} => ~NoRoom'
                           /\ pc'[u] = "index" => buffer'[nextPush'] = p'[u]
    BY <1>0, <2>1, <2>2 DEF TypeOK, NoRoom
  <2>4. \A u \in Poppers : /\ pc'[u] \in {"load", "index"} => ~isEmpty'
                           /\ pc'[u] = "index" => p'[u] = buffer'[nextPop']
    BY <1>0, <2>1, <2>2, ZenonT(30) DEF TypeOK, Stable, isEmpty
  <2>5. ASSUME NEW i \in 0 .. (getUsed' - 1) PROVE buffer'[Slot(i)'] \in Elements
    <3>1. getUsed' = getUsed /\ Slot(i)' = Slot(i)
      BY <2>1 DEF getUsed, Slot
    <3>2. i \in 0 .. (getUsed - 1) /\ i \in 0 .. Size /\ Slot(i) # nextPush /\ Slot(i) \in Slots
      BY <1>0, <3>1
    <3>3. buffer'[Slot(i)] = buffer[Slot(i)]
      BY <1>0, <2>1, <3>2 DEF TypeOK
    <3>. QED  BY <1>0, <3>1, <3>2, <3>3 DEF Stable
  <2>. QED  BY <2>3, <2>4, <2>5 DEF Stable
<1>5. ASSUME NEW t \in Pushers, PushIndex(t) PROVE Stable'
  <2>1. /\ pc[t] = "index" /\ pc' = [pc EXCEPT ![t] = "mark"]
        /\ nextPush' = Inc(nextPush) /\ UNCHANGED <<nextPop, buffer, p>>
    BY <1>5 DEF PushIndex, Goto
  <2>2. /\ p[t] \in Elements /\ ~NoRoom /\ buffer[nextPush] = p[t]
        /\ \A u \in Pushers : u # t => pc[u] = "idle"
    BY <1>0, <2>1 DEF Stable, Exclusive, TypeOK
  <2>3. getUsed' = getUsed + 1
    BY <1>0, <2>1, <2>2, UsedChanges
  <2>4. isEmpty' <=> getUsed' = 0
    BY <1>0, UsedAfter
  <2>5. \A u \in Pushers : pc'[u] \notin {"test", "store", "index"}
    BY <1>0, <2>1, <2>2 DEF TypeOK
  <2>6. \A u \in Poppers : /\ pc'[u] \in {"load", "index"} => ~isEmpty'
                           /\ pc'[u] = "index" => p'[u] = buffer'[nextPop']
    BY <1>0, <2>1, <2>3, <2>4 DEF TypeOK, Stable
  <2>7. ASSUME NEW i \in 0 .. (getUsed' - 1) PROVE buffer'[Slot(i)'] \in Elements
    <3>1. Slot(i)' = Slot(i) /\ i \in 0 .. Size
      BY <1>0, <2>1, <2>2, <2>3 DEF Slot
    <3>2. i = getUsed \/ i \in 0 .. (getUsed - 1)
      BY <1>0, <2>3
    <3>. QED  BY <1>0, <2>1, <2>2, <3>1, <3>2 DEF Stable
  <2>. QED  BY <2>5, <2>6, <2>7 DEF Stable
<1>6. ASSUME NEW t \in Pushers, PushMark(t) PROVE Stable'
  BY <1>0, <1>2, <1>6 DEF PushMark, PushReturn, TypeOK, idxVars
<1>7. ASSUME NEW t \in Poppers, PopTest(t) PROVE Stable'
  <2>1. CASE isEmpty
    BY <1>0, <1>2, <1>7, <2>1 DEF PopTest, PopReturn, TypeOK
  <2>2. CASE ~isEmpty
    BY <1>0, <1>2, <1>7, <2>2 DEF PopTest, idxVars
  <2>. QED  BY <2>1, <2>2
<1>8. ASSUME NEW t \in Poppers, PopLoad(t) PROVE Stable'
  <2>1. /\ pc[t] = "load" /\ pc' = [pc EXCEPT ![t] = "index"]
        /\ p' = [p EXCEPT ![t] = buffer[nextPop]]
        /\ UNCHANGED <<nextPush, nextPop, buffer>>
    BY <1>8 DEF PopLoad, Goto, idxVars
  <2>. QED  BY <1>0, <2>1, ZenonT(30) DEF Stable, TypeOK, NoRoom, isEmpty, getUsed, Slot
<1>9. ASSUME NEW t \in Poppers, PopIndex(t) PROVE Stable'
  <2>1. /\ pc[t] = "index" /\ pc' = [pc EXCEPT ![t] = "idle"]
        /\ nextPop' = Inc(nextPop) /\ UNCHANGED <<nextPush, buffer>>
        /\ p' = [p EXCEPT ![t] = NULL]
    BY <1>9 DEF PopIndex, PopReturn, Goto
  <2>2. ~isEmpty /\ \A u \in Poppers : u # t => pc[u] = "idle"
    BY <1>0, <2>1 DEF Stable, Exclusive, TypeOK
  <2>3. getUsed' = getUsed - 1 /\ \A i \in 0 .. Size - 1 : Slot(i)' = Slot(i + 1)
    BY <1>0, <2>1, <2>2, UsedChanges
  <2>4. NoRoom' <=> getUsed' = Size
    BY <1>0, UsedAfter
  <2>5. \A u \in Pushers : /\ pc'[u] \in {"test", "store", "index"} => p'[u] \in Elements
                           /\ pc'[u] \in {"store", "index"} => ~NoRoom'
                           /\ pc'[u] = "index" => buffer'[nextPush'] = p'[u]
    BY <1>0, <2>1, <2>3, <2>4 DEF TypeOK, Stable
  <2>6. \A u \in Poppers : pc'[u] = "idle"
    BY <1>0, <2>1, <2>2 DEF TypeOK
  <2>7. ASSUME NEW i \in 0 .. (getUsed' - 1) PROVE buffer'[Slot(i)'] \in Elements
    <3>1. i \in 0 .. Size - 1 /\ i + 1 \in 0 .. (getUsed - 1)
      BY <1>0, <2>3
    <3>2. Slot(i)' = Slot(i + 1)
      BY <2>3, <3>1
    <3>. QED  BY <1>0, <2>1, <3>1, <3>2 DEF Stable
  <2>. QED  BY <2>5, <2>6, <2>7 DEF Stable
<1>10. CASE Flush
  <2>1. getUsed' = 0
    BY <1>10 DEF Flush, getUsed, held, wrap
  <2>. QED  BY <1>10, <2>1 DEF Flush, Quiet, Stable
<1>11. ASSUME UNCHANGED <<nextPush, nextPop, buffer, pc, p>> PROVE Stable'
  BY <1>11 DEF Stable, NoRoom, isEmpty, getUsed, Slot
<1>12. ASSUME NEW t \in Pushers, NEW e \in Elements, PushCall(t, e) PROVE Stable'
  BY <1>0, <1>1, <1>12 DEF PushCall, TypeOK
<1>13. ASSUME NEW t \in Poppers, PopCall(t) PROVE Stable'
  BY <1>0, <1>1, <1>13 DEF PopCall
<1>. QED  BY <1>3, <1>4, <1>5, <1>6, <1>7, <1>8, <1>9, <1>10, <1>11, <1>12, <1>13
             DEF Next, Push, Pop, Reset, vars, idxVars

\* The invariant holds for ever.
LEMMA RingInv == Spec => []RInv
<1>1. RInv /\ [Next]_vars => RInv'
  BY TypeStep, ExclusiveStep, StableStep DEF RInv
<1>. QED  BY InitInv, <1>1, PTL DEF Spec
----------------------------------------------------------------------------
(* The ring is a queue *)

Buffers == [Slots -> Elements \cup {NULL}]

\* What the ring stores is a sequence.
LEMMA StoredType ==
  ASSUME NEW buf \in Buffers, NEW a \in Slots, NEW b \in Slots
  PROVE  /\ Stored(buf, a, b) \in Seq(Elements \cup {NULL})
         /\ Len(Stored(buf, a, b)) = held(a, b)
         /\ \A i \in 1 .. held(a, b) : Stored(buf, a, b)[i] = buf[at(b, i - 1)]
<1>1. held(a, b) \in Nat
  BY Held
<1>2. \A i \in 1 .. held(a, b) : at(b, i - 1) \in Slots
  BY DEF held, wrap, at
<1>3. \A i \in 1 .. held(a, b) : buf[at(b, i - 1)] \in Elements \cup {NULL}
  BY <1>2 DEF Buffers
<1>. QED  BY <1>1, <1>3 DEF Stored

\* To store into the free slot changes nothing until the index is stored.
LEMMA StoredStore ==
  ASSUME NEW buf \in Buffers, NEW new \in Buffers, NEW a \in Slots, NEW b \in Slots,
         Inc(a) # b, \A i \in Slots : i # a => new[i] = buf[i]
  PROVE  Stored(new, a, b) = Stored(buf, a, b)
<1>1. \A i \in 1 .. held(a, b) : at(b, i - 1) # a /\ at(b, i - 1) \in Slots
  BY DEF held, wrap, at, Inc
<1>2. \A i \in 1 .. held(a, b) : new[at(b, i - 1)] = buf[at(b, i - 1)]
  BY <1>1
<1>. QED  BY <1>2 DEF Stored

\* To store the index appends the element.
LEMMA StoredPush ==
  ASSUME NEW buf \in Buffers, NEW a \in Slots, NEW b \in Slots, Inc(a) # b
  PROVE  Stored(buf, Inc(a), b) = Stored(buf, a, b) \o <<buf[a]>>
<1>. DEFINE s == Stored(buf, a, b)  u == Stored(buf, Inc(a), b)  n == held(a, b)
<1>1. /\ s \in Seq(Elements \cup {NULL}) /\ Len(s) = n
      /\ \A i \in 1 .. n : s[i] = buf[at(b, i - 1)]
  BY StoredType, ZenonT(60)
<1>2. /\ u \in Seq(Elements \cup {NULL}) /\ Len(u) = n + 1
      /\ \A i \in 1 .. n + 1 : u[i] = buf[at(b, i - 1)]
  <2>1. Inc(a) \in Slots /\ held(Inc(a), b) = n + 1
    BY Held
  <2>2. /\ u \in Seq(Elements \cup {NULL}) /\ Len(u) = held(Inc(a), b)
        /\ \A i \in 1 .. held(Inc(a), b) : u[i] = buf[at(b, i - 1)]
    BY <2>1, StoredType, ZenonT(30)
  <2>. HIDE DEF n, u
  <2>. QED  BY <2>1, <2>2
<1>3. at(b, n) = a /\ n \in Nat /\ buf[a] \in Elements \cup {NULL}
  BY Held DEF held, wrap, at, Inc, Buffers
<1>. HIDE DEF s, u, n
<1>4. u[n + 1] = buf[a]
  BY <1>2, <1>3
<1>5. \A i \in 1 .. n : u[i] = s[i]
  BY <1>1, <1>2, <1>3
<1>. QED  BY <1>1, <1>2, <1>3, <1>4, <1>5 DEF s, u

\* To release a slot removes the oldest element.
LEMMA StoredPop ==
  ASSUME NEW buf \in Buffers, NEW a \in Slots, NEW b \in Slots, a # b
  PROVE  /\ Len(Stored(buf, a, b)) >= 1
         /\ SubSeq(Stored(buf, a, b), 1, 1) = <<buf[b]>>
         /\ Stored(buf, a, Inc(b)) = SubSeq(Stored(buf, a, b), 2, Len(Stored(buf, a, b)))
<1>. DEFINE s == Stored(buf, a, b)  u == Stored(buf, a, Inc(b))  n == held(a, b)
<1>1. /\ s \in Seq(Elements \cup {NULL}) /\ Len(s) = n
      /\ \A i \in 1 .. n : s[i] = buf[at(b, i - 1)]
  BY StoredType
<1>2. n \in Nat /\ n >= 1 /\ Inc(b) \in Slots /\ held(a, Inc(b)) = n - 1
  BY Held
<1>3. /\ u \in Seq(Elements \cup {NULL}) /\ Len(u) = n - 1
      /\ \A i \in 1 .. n - 1 : u[i] = buf[at(Inc(b), i - 1)]
  <2>1. /\ u \in Seq(Elements \cup {NULL}) /\ Len(u) = held(a, Inc(b))
        /\ \A i \in 1 .. held(a, Inc(b)) : u[i] = buf[at(Inc(b), i - 1)]
    BY <1>2, StoredType, ZenonT(30)
  <2>. HIDE DEF n, u
  <2>. QED  BY <1>2, <2>1
<1>4. at(b, 0) = b /\ \A i \in 1 .. n - 1 : at(Inc(b), i - 1) = at(b, i)
  BY DEF held, wrap, at, Inc
<1>. HIDE DEF s, u, n
<1>5. s[1] = buf[b]
  BY <1>1, <1>2, <1>4
<1>6. \A i \in 1 .. n - 1 : u[i] = s[i + 1]
  <2>. SUFFICES ASSUME NEW i \in 1 .. n - 1 PROVE u[i] = s[i + 1]
    OBVIOUS
  <2>1. i + 1 \in 1 .. n /\ (i + 1) - 1 = i
    BY <1>2
  <2>2. s[i + 1] = buf[at(b, (i + 1) - 1)]
    BY <1>1, <2>1
  <2>. QED  BY <1>3, <1>4, <2>1, <2>2
<1>7. SubSeq(s, 1, 1) = <<buf[b]>>
  <2>1. Len(s) >= 1 /\ 1 \in 1 .. Len(s) /\ s[1] = buf[b]
    BY <1>1, <1>2, <1>5
  <2>2. SubSeq(s, 1, 1) = SubSeq(s, 1, 0) \o <<s[1]>>
    BY <1>1, <2>1, SubSeqRecursiveSecond
  <2>3. SubSeq(s, 1, 0) = <<>>
    BY SubSeqEmpty
  <2>4. <<>> \o <<buf[b]>> = <<buf[b]>>
    BY ConcatEmptySeq
  <2>. QED  BY <2>1, <2>2, <2>3, <2>4
<1>8. u = SubSeq(s, 2, Len(s))
  BY <1>1, <1>2, <1>3, <1>6
<1>. QED  BY <1>1, <1>2, <1>7, <1>8 DEF s, u

\* How the steps of a thread look to the queue: only its own call changes.
LEMMA PushView ==
  ASSUME RInv, NEW t \in Pushers, NEW l \in {"idle", "test", "store", "index", "mark"},
         pc' = [pc EXCEPT ![t] = l], UNCHANGED popped,
         p' = p \/ p' = [p EXCEPT ![t] = p'[t]], ok' = ok \/ ok' = [ok EXCEPT ![t] = ok'[t]]
  PROVE  /\ Putting' = [Putting EXCEPT ![t] = IF l \in {"test", "store", "index"}
                                              THEN <<p'[t]>> ELSE <<>>]
         /\ Answer' = [Answer EXCEPT ![t] = IF l = "mark" THEN TRUE ELSE ok'[t]]
         /\ Getting' = Getting /\ Got' = Got
<1>1. /\ pc'[t] = l /\ t \in Threads /\ t \notin Poppers
      /\ \A u \in Threads : u # t => pc'[u] = pc[u] /\ p'[u] = p[u]
      /\ \A u \in Pushers : u # t => ok'[u] = ok[u]
  BY DEF RInv, TypeOK
<1>2. Putting' = [Putting EXCEPT ![t] = IF l \in {"test", "store", "index"}
                                        THEN <<p'[t]>> ELSE <<>>]
  BY <1>1 DEF Putting, Pending
<1>3. Answer' = [Answer EXCEPT ![t] = IF l = "mark" THEN TRUE ELSE ok'[t]]
  BY <1>1 DEF Answer
<1>4. \A u \in Poppers : pc'[u] = pc[u]
  BY <1>1
<1>. QED  BY <1>2, <1>3, <1>4 DEF Getting, Got, Pending

\* The same of a thread that pops.
LEMMA PopView ==
  ASSUME RInv, NEW t \in Poppers, NEW l \in {"idle", "test", "load", "index"},
         pc' = [pc EXCEPT ![t] = l], UNCHANGED ok,
         p' = p \/ p' = [p EXCEPT ![t] = p'[t]],
         popped' = popped \/ popped' = [popped EXCEPT ![t] = popped'[t]]
  PROVE  /\ Getting' = [Getting EXCEPT ![t] = IF l = "idle" THEN 0 ELSE 1]
         /\ Got' = [Got EXCEPT ![t] = IF popped'[t] = NULL THEN <<>> ELSE <<popped'[t]>>]
         /\ Putting' = Putting /\ Answer' = Answer
<1>1. /\ pc'[t] = l /\ t \in Threads /\ t \notin Pushers
      /\ \A u \in Threads : u # t => pc'[u] = pc[u] /\ p'[u] = p[u]
      /\ \A u \in Poppers : u # t => popped'[u] = popped[u]
  BY DEF RInv, TypeOK
<1>2. Getting' = [Getting EXCEPT ![t] = IF l = "idle" THEN 0 ELSE 1]
  BY <1>1 DEF Getting, Pending
<1>3. Got' = [Got EXCEPT ![t] = IF popped'[t] = NULL THEN <<>> ELSE <<popped'[t]>>]
  BY <1>1 DEF Got
<1>4. \A u \in Pushers : pc'[u] = pc[u] /\ p'[u] = p[u]
  BY <1>1
<1>. QED  BY <1>2, <1>3, <1>4 DEF Putting, Answer, Pending

\* Each step of the ring is a step of the queue, or none.
LEMMA RingStep == ASSUME RInv, RInv', [Next]_vars PROVE [Fifo!Next]_(Fifo!fvars)
<1>. USE DEF Fifo!fvars, Fifo!putVars, Fifo!getVars
<1>0. /\ buffer \in Buffers /\ nextPush \in Slots /\ nextPop \in Slots
      /\ Len(Content) = getUsed /\ getUsed \in 0 .. Size
      /\ isEmpty <=> getUsed = 0
      /\ NoRoom <=> getUsed = Size
  <2>1. buffer \in Buffers /\ nextPush \in Slots /\ nextPop \in Slots
    BY DEF RInv, TypeOK, Buffers
  <2>2. Len(Content) = getUsed
    BY <2>1, StoredType DEF Content, getUsed
  <2>3. getUsed \in 0 .. Size /\ (isEmpty <=> getUsed = 0) /\ (NoRoom <=> getUsed = Size)
    BY Used DEF RInv
  <2>. QED  BY <2>1, <2>2, <2>3
<1>1. ASSUME NEW t \in Pushers, NEW e \in Elements, PushCall(t, e)
      PROVE  Fifo!CallPut(t, <<e>>)
  <2>1. /\ pc[t] = "idle" /\ pc' = [pc EXCEPT ![t] = "test"] /\ p' = [p EXCEPT ![t] = e]
        /\ p'[t] = e /\ UNCHANGED <<ok, popped, nextPush, nextPop, buffer>>
    BY <1>1 DEF PushCall, Enter, Goto, idxVars, retVars, RInv, TypeOK
  <2>2. /\ Putting' = [Putting EXCEPT ![t] = <<e>>] /\ Answer' = [Answer EXCEPT ![t] = ok[t]]
        /\ Getting' = Getting /\ Got' = Got
    BY <2>1, PushView
  <2>3. Answer[t] = ok[t] /\ Putting[t] = <<>> /\ Answer' = Answer
    BY <2>1, <2>2 DEF Answer, Putting, Pending
  <2>4. Content' = Content
    BY <2>1 DEF Content, Stored
  <2>. QED  BY <2>2, <2>3, <2>4 DEF Fifo!CallPut
<1>2. ASSUME NEW t \in Pushers, PushTest(t) PROVE [Fifo!Refuse(t)]_(Fifo!fvars)
  <2>0. pc[t] = "test" /\ Content' = Content
    BY <1>2 DEF PushTest, PushReturn, Content, Stored, idxVars
  <2>1. CASE NoRoom
    <3>1. /\ pc' = [pc EXCEPT ![t] = "idle"] /\ p' = [p EXCEPT ![t] = NULL]
          /\ p'[t] = NULL /\ ok' = [ok EXCEPT ![t] = FALSE] /\ ok'[t] = FALSE /\ UNCHANGED popped
      BY <1>2, <2>1 DEF PushTest, PushReturn, Goto, RInv, TypeOK
    <3>2. /\ Putting' = [Putting EXCEPT ![t] = <<>>] /\ Answer' = [Answer EXCEPT ![t] = FALSE]
          /\ Getting' = Getting /\ Got' = Got
      BY <3>1, PushView
    <3>3. Putting[t] = <<p[t]>>
      BY <2>0 DEF Putting, Pending
    <3>4. Len(Content) + Len(Putting[t]) > Size
      BY <1>0, <2>1, <3>3
    <3>. QED  BY <2>0, <3>2, <3>3, <3>4 DEF Fifo!Refuse, Fifo!Return
  <2>2. CASE ~NoRoom
    <3>1. pc' = [pc EXCEPT ![t] = "store"] /\ UNCHANGED <<p, ok, popped>>
      BY <1>2, <2>2 DEF PushTest, Goto, retVars
    <3>. QED  BY <2>0, <3>1 DEF RInv, TypeOK, Putting, Answer, Getting, Got, Pending
  <2>. QED  BY <2>1, <2>2
<1>3. ASSUME NEW t \in Pushers, PushStore(t) PROVE UNCHANGED Fifo!fvars
  <2>1. /\ pc[t] = "store" /\ pc' = [pc EXCEPT ![t] = "index"] /\ UNCHANGED <<p, ok, popped>>
        /\ buffer' = [buffer EXCEPT ![nextPush] = p[t]] /\ UNCHANGED <<nextPush, nextPop>>
    BY <1>3 DEF PushStore, Goto, idxVars, retVars
  <2>2. p[t] \in Elements /\ Inc(nextPush) # nextPop
    BY <2>1 DEF RInv, Stable, NoRoom
  <2>3. Content' = Content
    <3>1. buffer' \in Buffers /\ \A i \in Slots : i # nextPush => buffer'[i] = buffer[i]
      BY <1>0, <2>1, <2>2 DEF Buffers
    <3>2. Stored(buffer', nextPush, nextPop) = Stored(buffer, nextPush, nextPop)
      BY <1>0, <2>2, <3>1, StoredStore
    <3>. QED  BY <2>1, <3>2 DEF Content
  <2>. QED  BY <2>1, <2>3, ZenonT(60) DEF RInv, TypeOK, Putting, Answer, Getting, Got, Pending
<1>4. ASSUME NEW t \in Pushers, PushIndex(t) PROVE Fifo!Put(t)
  <2>1. /\ pc[t] = "index" /\ pc' = [pc EXCEPT ![t] = "mark"] /\ UNCHANGED <<p, ok, popped>>
        /\ nextPush' = Inc(nextPush) /\ UNCHANGED <<nextPop, buffer>>
    BY <1>4 DEF PushIndex, Goto, retVars
  <2>2. buffer[nextPush] = p[t] /\ ~NoRoom
    BY <2>1 DEF RInv, Stable
  <2>3. Putting[t] = <<p[t]>>
    BY <2>1 DEF Putting, Pending
  <2>4. Content' = Content \o Putting[t]
    BY <1>0, <2>1, <2>2, <2>3, StoredPush DEF Content, NoRoom
  <2>5. /\ Putting' = [Putting EXCEPT ![t] = <<>>] /\ Answer' = [Answer EXCEPT ![t] = TRUE]
        /\ Getting' = Getting /\ Got' = Got
    BY <2>1, PushView
  <2>6. Len(Content) + Len(Putting[t]) <= Size
    BY <1>0, <2>2, <2>3
  <2>. QED  BY <2>3, <2>4, <2>5, <2>6 DEF Fifo!Put, Fifo!Return
<1>5. ASSUME NEW t \in Pushers, PushMark(t) PROVE UNCHANGED Fifo!fvars
  <2>1. /\ pc[t] = "mark" /\ pc' = [pc EXCEPT ![t] = "idle"] /\ p' = [p EXCEPT ![t] = NULL]
        /\ ok' = [ok EXCEPT ![t] = TRUE] /\ ok'[t] = TRUE /\ p'[t] = NULL
        /\ UNCHANGED <<popped, nextPush, nextPop, buffer>>
    BY <1>5 DEF PushMark, PushReturn, Goto, idxVars, RInv, TypeOK
  <2>2. /\ Putting' = [Putting EXCEPT ![t] = <<>>] /\ Answer' = [Answer EXCEPT ![t] = TRUE]
        /\ Getting' = Getting /\ Got' = Got
    BY <2>1, PushView
  <2>3. Putting[t] = <<>> /\ Answer[t] = TRUE
    BY <2>1 DEF Putting, Answer, Pending
  <2>4. Putting' = Putting /\ Answer' = Answer
    BY <2>2, <2>3, ZenonT(60) DEF Putting, Answer
  <2>5. Content' = Content
    BY <2>1 DEF Content, Stored
  <2>. QED  BY <2>2, <2>4, <2>5
<1>6. ASSUME NEW t \in Poppers, PopCall(t) PROVE Fifo!CallGet(t, 1)
  <2>1. /\ pc[t] = "idle" /\ pc' = [pc EXCEPT ![t] = "test"]
        /\ UNCHANGED <<p, ok, popped, nextPush, nextPop, buffer>>
    BY <1>6 DEF PopCall, Enter, Goto, idxVars, retVars
  <2>2. Getting' = [Getting EXCEPT ![t] = 1] /\ Putting' = Putting /\ Answer' = Answer
    BY <2>1, PopView
  <2>3. Getting[t] = 0
    BY <2>1 DEF Getting, Pending
  <2>4. Content' = Content /\ Got' = Got
    BY <2>1 DEF Content, Stored, Got
  <2>. QED  BY <2>2, <2>3, <2>4 DEF Fifo!CallGet
<1>7. ASSUME NEW t \in Poppers, PopTest(t) PROVE [Fifo!Empty(t)]_(Fifo!fvars)
  <2>0. pc[t] = "test" /\ Content' = Content
    BY <1>7 DEF PopTest, PopReturn, Content, Stored, idxVars
  <2>1. CASE isEmpty
    <3>1. /\ pc' = [pc EXCEPT ![t] = "idle"] /\ p' = [p EXCEPT ![t] = NULL]
          /\ p'[t] = NULL /\ popped' = [popped EXCEPT ![t] = NULL] /\ popped'[t] = NULL
          /\ UNCHANGED ok
      BY <1>7, <2>1 DEF PopTest, PopReturn, Goto, RInv, TypeOK
    <3>2. /\ Getting' = [Getting EXCEPT ![t] = 0] /\ Got' = [Got EXCEPT ![t] = <<>>]
          /\ Putting' = Putting /\ Answer' = Answer
      BY <3>1, PopView
    <3>3. Getting[t] = 1
      BY <2>0 DEF Getting, Pending
    <3>4. Content = <<>>
      BY <1>0, <2>1, EmptySeq, StoredType DEF Content
    <3>. QED  BY <2>0, <3>2, <3>3, <3>4 DEF Fifo!Empty
  <2>2. CASE ~isEmpty
    <3>1. pc' = [pc EXCEPT ![t] = "load"] /\ UNCHANGED <<p, ok, popped>>
      BY <1>7, <2>2 DEF PopTest, Goto, retVars
    <3>. QED  BY <2>0, <3>1 DEF RInv, TypeOK, Putting, Answer, Getting, Got, Pending
  <2>. QED  BY <2>1, <2>2
<1>8. ASSUME NEW t \in Poppers, PopLoad(t) PROVE UNCHANGED Fifo!fvars
  <2>1. /\ pc[t] = "load" /\ pc' = [pc EXCEPT ![t] = "index"] /\ UNCHANGED <<ok, popped>>
        /\ p' = [p EXCEPT ![t] = buffer[nextPop]] /\ UNCHANGED <<nextPush, nextPop, buffer>>
    BY <1>8 DEF PopLoad, Goto, idxVars, retVars
  <2>2. Content' = Content
    BY <2>1 DEF Content, Stored
  <2>. QED  BY <2>1, <2>2, ZenonT(30) DEF RInv, TypeOK, Putting, Answer, Getting, Got, Pending
<1>9. ASSUME NEW t \in Poppers, PopIndex(t) PROVE Fifo!Get(t, 1) /\ Len(Content) >= 1
  <2>1. /\ pc[t] = "index" /\ pc' = [pc EXCEPT ![t] = "idle"] /\ p' = [p EXCEPT ![t] = NULL]
        /\ p'[t] = NULL /\ popped' = [popped EXCEPT ![t] = p[t]] /\ popped'[t] = p[t]
        /\ nextPop' = Inc(nextPop) /\ UNCHANGED <<ok, nextPush, buffer>>
    BY <1>9 DEF PopIndex, PopReturn, Goto, RInv, TypeOK
  <2>2. p[t] = buffer[nextPop] /\ ~isEmpty
    BY <2>1 DEF RInv, Stable
  <2>3. p[t] # NULL
    <3>1. 0 \in 0 .. (getUsed - 1) /\ Slot(0) = nextPop
      BY <1>0, <2>2 DEF Slot, at
    <3>. QED  BY <2>2, <3>1 DEF RInv, Stable
  <2>4. /\ Getting' = [Getting EXCEPT ![t] = 0] /\ Got' = [Got EXCEPT ![t] = <<p[t]>>]
        /\ Putting' = Putting /\ Answer' = Answer
    BY <2>1, <2>3, PopView
  <2>5. Getting[t] = 1
    BY <2>1 DEF Getting, Pending
  <2>6. /\ Len(Content) >= 1 /\ SubSeq(Content, 1, 1) = <<p[t]>>
        /\ Content' = SubSeq(Content, 2, Len(Content))
    <3>1. /\ Len(Content) >= 1 /\ SubSeq(Content, 1, 1) = <<buffer[nextPop]>>
          /\ Stored(buffer, nextPush, Inc(nextPop)) = SubSeq(Content, 2, Len(Content))
      BY <1>0, <2>2, StoredPop DEF Content, isEmpty
    <3>. QED  BY <2>1, <2>2, <3>1 DEF Content
  <2>7. 1 + 1 = 2 /\ 1 <= Getting[t]
    BY <2>5
  <2>. QED  BY <2>4, <2>6, <2>7 DEF Fifo!Get
<1>10. CASE Flush
  <2>1. /\ nextPop' = 0 /\ nextPush' = 0 /\ UNCHANGED <<buffer, pc, p, ok, popped>>
    BY <1>10 DEF Flush, retVars
  <2>2. 0 \in Slots /\ held(0, 0) = 0
    BY DEF held, wrap
  <2>3. Content' = <<>>
    BY <1>0, <2>1, <2>2, StoredType, EmptySeq DEF Content
  <2>. QED  BY <2>1, <2>3 DEF Fifo!Next, Fifo!Flush, Putting, Answer, Getting, Got, Pending
<1>11. ASSUME UNCHANGED <<nextPush, nextPop, buffer, pc, p, ok, popped>>
       PROVE  UNCHANGED Fifo!fvars
  BY <1>11 DEF Content, Stored, Putting, Answer, Getting, Got, Pending
<1>12. ASSUME NEW t \in Poppers, PopIndex(t) PROVE Fifo!Next
  <2>1. 1 \in 1 .. Len(Content)
    BY <1>0, <1>9, <1>12
  <2>. QED  BY <1>9, <1>12, <2>1 DEF Fifo!Next
<1>13. ASSUME NEW t \in Pushers, NEW e \in Elements, PushCall(t, e) PROVE Fifo!Next
  BY <1>1, <1>13 DEF Fifo!Next
<1>14. ASSUME NEW t \in Pushers, PushIndex(t) \/ PushTest(t) PROVE [Fifo!Next]_(Fifo!fvars)
  BY <1>2, <1>4, <1>14 DEF Fifo!Next
<1>15. ASSUME NEW t \in Poppers, PopCall(t) \/ PopTest(t) PROVE [Fifo!Next]_(Fifo!fvars)
  BY <1>6, <1>7, <1>15 DEF Fifo!Next
<1>. QED  BY <1>3, <1>5, <1>8, <1>10, <1>11, <1>12, <1>13, <1>14, <1>15
             DEF Next, Push, Pop, Reset, vars, idxVars, retVars

\* The ring is the queue of Fifo, for every size and any number of threads.
THEOREM RingImplementsFifo == Spec => ImplementsFifo
<1>1. Init => Fifo!Init
  <2>. SUFFICES ASSUME Init PROVE Fifo!Init
    OBVIOUS
  <2>1. Content = <<>>
    <3>1. buffer \in Buffers /\ nextPush = 0 /\ nextPop = 0 /\ 0 \in Slots /\ held(0, 0) = 0
      BY DEF Init, Buffers, held, wrap
    <3>. QED  BY <3>1, StoredType, EmptySeq DEF Content
  <2>. QED  BY <2>1 DEF Init, Fifo!Init, Putting, Answer, Getting, Got, Pending
<1>. QED  BY <1>1, RingInv, RingStep, PTL DEF Spec, ImplementsFifo, Fifo!Spec
----------------------------------------------------------------------------
(* What the ring tells about itself *)

\* The variables keep their types.
THEOREM RingTypes == Spec => []TypeOK
BY RingInv, PTL DEF RInv

\* The questions agree, with the indices anywhere.
THEOREM MeasuresHold == Spec => []Measures
<1>1. TypeOK => Measures
  BY DEF TypeOK, Measures, getUsed, getFree, held, wrap, isFull, isEmpty, NoRoom, Inc
<1>. QED  BY <1>1, RingTypes, PTL

\* Under the lock the mark is behind only between the two stores of a push.
Marked == locked /\ (\A t \in Pushers : pc[t] # "mark") => getUsed <= highWaterMark

\* Only a push adds an element, and it raises the mark before it unlocks.
LEMMA MarkedStep == ASSUME RInv, RInv', Marked, [Next]_vars PROVE Marked'
<1>0. getUsed \in 0 .. Size /\ highWaterMark \in 0 .. Size
  BY Used DEF RInv, TypeOK
<1>1. ASSUME NEW t \in Threads, NEW l, pc[t] # "mark", l # "mark", Goto(t, l),
             UNCHANGED <<nextPush, nextPop, highWaterMark>>
      PROVE  Marked'
  BY <1>1 DEF RInv, TypeOK, Marked, Goto, getUsed
<1>2. ASSUME NEW t \in Threads, Enter(t) PROVE Marked'
  BY <1>1, <1>2 DEF Enter, idxVars
<1>3. ASSUME NEW t \in Pushers, PushTest(t) PROVE Marked'
  BY <1>1, <1>3 DEF PushTest, PushReturn, idxVars
<1>4. ASSUME NEW t \in Pushers, PushStore(t) PROVE Marked'
  BY <1>1, <1>4 DEF PushStore, idxVars
<1>5. ASSUME NEW t \in Pushers, PushIndex(t) PROVE Marked'
  BY <1>5 DEF PushIndex, Goto, Marked, RInv, TypeOK
<1>6. ASSUME NEW t \in Pushers, PushMark(t) PROVE Marked'
  <2>1. highWaterMark' = Mark(getUsed) /\ UNCHANGED <<nextPush, nextPop>>
    BY <1>6 DEF PushMark, PushReturn, idxVars
  <2>2. getUsed' = getUsed
    BY <2>1 DEF getUsed
  <2>3. getUsed <= Mark(getUsed)
    BY <1>0 DEF Mark
  <2>. QED  BY <2>1, <2>2, <2>3 DEF Marked
<1>7. ASSUME NEW t \in Poppers, PopTest(t) PROVE Marked'
  BY <1>1, <1>7 DEF PopTest, PopReturn, idxVars
<1>8. ASSUME NEW t \in Poppers, PopLoad(t) PROVE Marked'
  BY <1>1, <1>8 DEF PopLoad, idxVars
<1>9. ASSUME NEW t \in Poppers, PopIndex(t) PROVE Marked'
  <2>1. /\ pc[t] = "index" /\ pc' = [pc EXCEPT ![t] = "idle"]
        /\ nextPop' = Inc(nextPop) /\ UNCHANGED <<nextPush, highWaterMark>>
    BY <1>9 DEF PopIndex, PopReturn, Goto
  <2>2. getUsed' = getUsed - 1
    BY <2>1, UsedChanges DEF RInv, Stable
  <2>3. (\A u \in Pushers : pc'[u] # "mark") => \A u \in Pushers : pc[u] # "mark"
    BY <2>1 DEF RInv, TypeOK
  <2>. QED  BY <1>0, <2>1, <2>2, <2>3 DEF Marked
<1>10. CASE Flush
  <2>1. getUsed' = 0 /\ UNCHANGED highWaterMark
    BY <1>10 DEF Flush, getUsed, held, wrap
  <2>. QED  BY <1>0, <2>1 DEF Marked
<1>11. CASE Reset
  <2>1. highWaterMark' = getUsed /\ getUsed' = getUsed
    BY <1>11 DEF Reset, getUsed, idxVars
  <2>. QED  BY <1>0, <2>1 DEF Marked
<1>12. CASE UNCHANGED vars
  BY <1>12 DEF vars, idxVars, Marked, getUsed
<1>. QED  BY <1>2, <1>3, <1>4, <1>5, <1>6, <1>7, <1>8, <1>9, <1>10, <1>11, <1>12
             DEF Next, Push, Pop, PushCall, PopCall

\* The high water mark of a locked ring covers what it holds.
THEOREM MarkCoversHolds == Spec => []MarkCovers
<1>1. Init => Marked
  BY DEF Init, Marked, getUsed, held, wrap
<1>2. RInv /\ RInv' /\ Marked /\ [Next]_vars => Marked'
  BY MarkedStep
<1>3. Marked => MarkCovers
  BY DEF Marked, MarkCovers, Quiet
<1>. QED  BY <1>1, <1>2, <1>3, RingInv, PTL DEF Spec

-----------------------------------------------------------------------------
(* The ring of bytes *)

HIDE RingAssumption DEF NULL, Nobody, Threads, size, Slots
USE DEF B!RingAssumption, B!Nobody, B!Threads, B!size, B!Slots

Cells == B!Bytes \cup {B!Unused}

\* The variables have their types.
Types ==
    /\ blockLock \in B!Threads \cup {B!Nobody} /\ nextPut \in B!Slots /\ nextGet \in B!Slots
    /\ bytes \in [B!Slots -> Cells]
    /\ blockPc \in [B!Threads -> {"idle", "test", "copy", "mark"}]
    /\ value \in [B!Threads -> Seq(Cells)]
    /\ nbytes \in [Readers -> Nat] /\ count \in [Readers -> Nat]
    /\ ncopied \in [Writers -> Nat] /\ oldGet \in [Writers -> B!Slots]
    /\ blockOk \in [Writers -> BOOLEAN] /\ got \in [Readers -> Seq(Cells)]

\* One thread on each side, and under the lock one.
BlockExclusive ==
    /\ blockLocked => \A t \in B!Threads : blockPc[t] # "idle" => blockLock = t
    /\ \A t, u \in Writers : blockPc[t] # "idle" /\ blockPc[u] # "idle" => t = u
    /\ \A t, u \in Readers : blockPc[t] # "idle" /\ blockPc[u] # "idle" => t = u

\* A block that is put has its room, and is in the buffer as far as it has been copied.
PutStable == \A t \in Writers :
    /\ blockPc[t] \in {"test", "copy"} => value[t] \in Blocks
    /\ blockPc[t] # "copy" => ncopied[t] = 0 \/ blockPc[t] = "mark"
    /\ blockPc[t] = "copy" => /\ B!UsedBytes + Len(value[t]) <= blockSize
                              /\ ncopied[t] <= Len(value[t])
                              /\ \A i \in 1 .. ncopied[t] : bytes[B!at(nextPut, i - 1)] = value[t][i]

\* What is fetched is stored, and has been copied as far as it has.
GetStable == \A t \in Readers :
    /\ blockPc[t] # "mark"
    /\ blockPc[t] \in {"test", "copy"} => nbytes[t] \in Amounts
    /\ blockPc[t] # "copy" => value[t] = <<>>
    /\ blockPc[t] = "copy" => /\ count[t] \in 1 .. B!UsedBytes /\ count[t] <= nbytes[t]
                              /\ Len(value[t]) <= count[t]
                              /\ \A i \in 1 .. Len(value[t]) : value[t][i] = bytes[B!at(nextGet, i - 1)]

BInv == Types /\ BlockExclusive /\ B!UsedBytes <= blockSize /\ PutStable /\ GetStable

-----------------------------------------------------------------------------
(* Arithmetic of the ring                                                  *)

(* How much two indices hold, and what they leave free.                    *)
LEMMA BlockHeld ==
    ASSUME B!RingAssumption, NEW a \in B!Slots, NEW b \in B!Slots
    PROVE  /\ B!held(a, b) \in 0 .. B!size - 1
           /\ \A n \in 0 .. B!size - 1 : /\ B!at(b, n) \in B!Slots
                                         /\ B!at(b, n) = a <=> n = B!held(a, b)
  BY SMTT(30) DEF B!held, B!wrap, B!at

(* Two slots less than a turn from one are different.                      *)
LEMMA AtApart ==
    ASSUME B!RingAssumption, NEW b \in B!Slots, NEW m \in 0 .. B!size - 1, NEW n \in 0 .. B!size - 1
    PROVE  /\ B!at(b, m) = B!at(b, n) => m = n
           /\ m + n <= B!size - 1 => B!at(B!at(b, m), n) = B!at(b, m + n)
  BY SMTT(30) DEF B!at

(* What is stored, what is free and what a get of n bytes fetches.         *)
LEMMA BlockUsed ==
    ASSUME B!RingAssumption, nextPut \in B!Slots, nextGet \in B!Slots
    PROVE  /\ B!UsedBytes \in 0 .. B!size - 1 /\ B!FreeBytes = blockSize - B!UsedBytes
           /\ B!at(nextGet, B!UsedBytes) = nextPut
           /\ \A n \in Nat : B!Fetched(n) = IF n < B!UsedBytes THEN n ELSE B!UsedBytes
           /\ nextPut = nextGet <=> B!UsedBytes = 0
<1>1. B!UsedBytes \in 0 .. B!size - 1 /\ B!at(nextGet, B!UsedBytes) = nextPut
  BY BlockHeld DEF B!UsedBytes
<1>2. B!FreeBytes = blockSize - B!UsedBytes /\ (nextPut = nextGet <=> B!UsedBytes = 0)
  BY DEF B!FreeBytes, B!UsedBytes, B!held, B!wrap
<1>3. ASSUME NEW n \in Nat
      PROVE  B!Fetched(n) = IF n < B!UsedBytes THEN n ELSE B!UsedBytes
  BY SMTT(30) DEF B!Fetched, B!least, B!UsedBytes, B!held, B!wrap
<1> QED BY <1>1, <1>2, <1>3

(* Storing n more bytes: the index moves past them.                        *)
LEMMA UsedPut ==
    ASSUME B!RingAssumption, nextPut \in B!Slots, nextGet \in B!Slots,
           NEW n \in Nat, B!UsedBytes + n <= blockSize,
           nextPut' = B!at(nextPut, n), nextGet' = nextGet
    PROVE  nextPut' \in B!Slots /\ B!UsedBytes' = B!UsedBytes + n
  BY SMTT(30) DEF B!UsedBytes, B!held, B!wrap, B!at

(* Releasing n bytes: what is left begins n bytes later.                   *)
LEMMA UsedGet ==
    ASSUME B!RingAssumption, nextPut \in B!Slots, nextGet \in B!Slots,
           NEW n \in 0 .. B!UsedBytes,
           nextGet' = B!at(nextGet, n), nextPut' = nextPut
    PROVE  nextGet' \in B!Slots /\ B!UsedBytes' = B!UsedBytes - n
  BY SMTT(30) DEF B!UsedBytes, B!held, B!wrap, B!at

(* A block is a sequence of at least one byte.                             *)
LEMMA BlockType ==
    ASSUME B!RingAssumption, NEW d \in Blocks
    PROVE  d \in Seq(Cells) /\ Len(d) \in Nat /\ Len(d) > 0 /\ d # <<>>
<1>1. d \in Seq(B!Bytes) /\ d # <<>>
  OBVIOUS
<1>2. d \in Seq(Cells)
  BY <1>1, SeqDef DEF Cells
<1>3. Len(d) \in Nat /\ Len(d) # 0
  BY <1>1, EmptySeq, LenProperties
<1> QED BY <1>1, <1>2, <1>3

-----------------------------------------------------------------------------
(* The invariant                                                           *)

\* It holds of an empty ring.
LEMMA InvInit == B!RingAssumption /\ B!Init => BInv
<1> SUFFICES ASSUME B!RingAssumption, B!Init PROVE BInv
  OBVIOUS
<1>1. 0 \in B!Slots /\ B!UsedBytes = 0
  BY DEF B!Init, B!UsedBytes, B!held, B!wrap
<1>2. Types
  BY <1>1, EmptySeq DEF B!Init, Types, Cells
<1>3. BlockExclusive /\ PutStable /\ GetStable
  BY DEF B!Init, BlockExclusive, PutStable, GetStable
<1> QED BY <1>1, <1>2, <1>3 DEF BInv

(* The variables keep their types.                                         *)
LEMMA TypesStep == ASSUME B!RingAssumption, BInv, [B!Next]_(B!vars) PROVE Types'
<1>0. Types /\ PutStable /\ GetStable /\ B!UsedBytes <= blockSize /\ B!UsedBytes \in 0 .. B!size - 1
  BY BlockUsed DEF BInv, Types
<1>1. ASSUME NEW t \in Writers, NEW d \in Blocks, B!PutCall(t, d) PROVE Types'
  BY <1>0, <1>1, BlockType DEF Types, B!PutCall, B!Lock, B!Goto, B!idxVars, B!getVars, B!retVars
<1>2. ASSUME NEW t \in Writers, NEW r \in BOOLEAN, B!PutReturn(t, r) PROVE Types'
  <2>1. 0 \in B!Slots /\ <<>> \in Seq(Cells)
    BY EmptySeq
  <2> QED BY <1>0, <1>2, <2>1 DEF Types, B!PutReturn, B!Unlock, B!Goto, B!idxVars, B!getVars
<1>3. ASSUME NEW t \in Writers, B!PutTest(t) PROVE Types'
  <2>1. CASE B!PutReturn(t, FALSE)
    BY <1>2, <2>1
  <2>2. CASE ~B!PutReturn(t, FALSE)
    BY <1>0, <1>3, <2>2 DEF Types, B!PutTest, B!Goto, B!idxVars, B!getVars, B!retVars
  <2> QED BY <2>1, <2>2
<1>4. ASSUME NEW t \in Writers, B!PutCopy(t) PROVE Types'
  <2>1. /\ ncopied[t] \in Nat /\ ncopied[t] + 1 \in 1 .. Len(value[t]) /\ value[t] \in Seq(Cells)
        /\ bytes' = [bytes EXCEPT ![B!at(nextPut, ncopied[t])] = value[t][ncopied[t] + 1]]
        /\ ncopied' = [ncopied EXCEPT ![t] = ncopied[t] + 1]
       
        /\ UNCHANGED <<blockLock, B!idxVars, blockMark, blockPc, value, B!getVars, oldGet, B!retVars>>
    BY <1>0, <1>4, LenProperties DEF B!PutCopy, Types
  <2>2. value[t][ncopied[t] + 1] \in Cells
    BY <2>1, ElementOfSeq
  <2> HIDE DEF B!RingAssumption
  <2>3. bytes' \in [B!Slots -> Cells]
    BY <1>0, <2>1, <2>2 DEF Types
  <2>4. ncopied' \in [Writers -> Nat]
    BY <1>0, <2>1 DEF Types
  <2> QED BY <1>0, <2>1, <2>3, <2>4 DEF Types, B!idxVars, B!getVars, B!retVars
<1>5. ASSUME NEW t \in Writers, B!PutIndex(t) PROVE Types'
  <2>1. blockPc[t] = "copy" /\ value[t] \in Blocks /\ B!UsedBytes + Len(value[t]) <= blockSize
    BY <1>0, <1>5 DEF B!PutIndex, PutStable
  <2>2. nextPut' \in B!Slots
    BY <1>0, <1>5, <2>1, BlockType, UsedPut DEF B!PutIndex, Types
  <2> QED BY <1>0, <1>5, <2>2 DEF Types, B!PutIndex, B!Goto, B!copyVars, B!getVars, B!retVars
<1>6. ASSUME NEW t \in Writers, B!PutMark(t) PROVE Types'
  BY <1>2, <1>6 DEF B!PutMark
<1>7. ASSUME NEW t \in Readers, NEW n \in Amounts, B!GetCall(t, n) PROVE Types'
  BY <1>0, <1>7 DEF Types, B!GetCall, B!Lock, B!Goto, B!idxVars, B!retVars
<1>8. ASSUME NEW t \in Readers, NEW d \in Seq(Cells), B!GetReturn(t, d), nextGet' \in B!Slots
      PROVE  Types'
  <2>1. <<>> \in Seq(Cells)
    BY EmptySeq
  <2> QED BY <1>0, <1>8, <2>1 DEF Types, B!GetReturn, B!Unlock, B!Goto
<1>9. ASSUME NEW t \in Readers, B!GetTest(t) PROVE Types'
  <2>1. CASE B!GetReturn(t, <<>>) /\ UNCHANGED nextGet
    BY <1>0, <1>8, <2>1, EmptySeq DEF Types
  <2>2. CASE ~(B!GetReturn(t, <<>>) /\ UNCHANGED nextGet)
    <3>1. nbytes[t] \in Nat /\ B!Fetched(nbytes[t]) \in {nbytes[t], B!UsedBytes}
      BY <1>0, BlockUsed DEF Types
    <3>2. B!Fetched(nbytes[t]) \in Nat
      BY <1>0, <3>1
    <3>3. /\ blockPc' = [blockPc EXCEPT ![t] = "copy"]
          /\ count' = [count EXCEPT ![t] = B!Fetched(nbytes[t])]
          /\ UNCHANGED <<blockLock, B!idxVars, blockMark, bytes, value, nbytes, ncopied, oldGet,
                         B!retVars>>
      BY <1>9, <2>2 DEF B!GetTest, B!Goto
    <3> HIDE DEF B!RingAssumption
    <3> QED BY <1>0, <3>2, <3>3 DEF Types, B!idxVars, B!retVars
  <2> QED BY <2>1, <2>2
<1>10. ASSUME NEW t \in Readers, B!GetCopy(t) PROVE Types'
  <2>1. /\ Len(value[t]) \in 0 .. B!size - 1 /\ value[t] \in Seq(Cells)
        /\ value' = [value EXCEPT ![t] = Append(value[t], bytes[B!at(nextGet, Len(value[t]))])]
    BY <1>0, <1>10, LenProperties DEF B!GetCopy, GetStable, Types
  <2>2. Append(value[t], bytes[B!at(nextGet, Len(value[t]))]) \in Seq(Cells)
    BY <1>0, <2>1, BlockHeld, AppendProperties DEF Types
  <2> QED BY <1>0, <1>10, <2>1, <2>2 DEF Types, B!GetCopy, B!idxVars, B!getVars, B!retVars
<1>11. ASSUME NEW t \in Readers, B!GetIndex(t) PROVE Types'
  <2>1. nextGet' \in B!Slots
    BY <1>0, <1>11, UsedGet DEF B!GetIndex, B!GetReturn, GetStable, Types
  <2> QED BY <1>0, <1>8, <1>11, <2>1 DEF B!GetIndex, Types
<1>12. CASE B!Flush
  BY <1>0, <1>12 DEF Types, B!Flush, B!copyVars, B!getVars, B!retVars
<1>13. CASE B!Reset
  BY <1>0, <1>13 DEF Types, B!Reset, B!idxVars, B!copyVars, B!getVars, B!retVars
<1>14. CASE UNCHANGED B!vars
  BY <1>0, <1>14 DEF Types, B!vars, B!idxVars, B!copyVars, B!getVars, B!retVars
<1> QED BY <1>1, <1>3, <1>4, <1>5, <1>6, <1>7, <1>9, <1>10, <1>11, <1>12, <1>13, <1>14
           DEF B!Next, B!Put, B!Get

(* Threads of a side follow one another: by the lock, or as they are one.  *)
LEMMA BlockExclusiveStep == ASSUME B!RingAssumption, BInv, [B!Next]_(B!vars) PROVE BlockExclusive'
<1>0. Types /\ BlockExclusive
  BY DEF BInv
<1>1. ASSUME NEW t \in B!Threads, blockPc[t] = "idle", B!Lock(t), B!Goto(t, "test")
      PROVE  BlockExclusive'
  BY <1>0, <1>1 DEF Types, BlockExclusive, B!Lock, B!Goto
<1>2. ASSUME NEW t \in B!Threads, NEW l, blockPc[t] # "idle", B!Goto(t, l),
             UNCHANGED blockLock \/ (B!Unlock /\ l = "idle")
      PROVE  BlockExclusive'
  BY <1>0, <1>2 DEF Types, BlockExclusive, B!Unlock, B!Goto
<1>3. ASSUME UNCHANGED <<blockLock, blockPc>> PROVE BlockExclusive'
  BY <1>0, <1>3 DEF BlockExclusive
<1>4. ASSUME NEW t \in Writers, B!Put(t) PROVE BlockExclusive'
  <2>1. CASE B!PutCopy(t)
    BY <1>3, <2>1 DEF B!PutCopy
  <2>2. CASE ~B!PutCopy(t)
    <3>1. \E l : blockPc[t] # "idle" /\ B!Goto(t, l) /\ (UNCHANGED blockLock \/ (B!Unlock /\ l = "idle"))
      BY <1>4, <2>2 DEF B!Put, B!PutTest, B!PutIndex, B!PutMark, B!PutReturn
    <3> QED BY <1>2, <3>1
  <2> QED BY <2>1, <2>2
<1>5. ASSUME NEW t \in Readers, B!Get(t) PROVE BlockExclusive'
  <2>1. CASE B!GetCopy(t)
    BY <1>3, <2>1 DEF B!GetCopy
  <2>2. CASE ~B!GetCopy(t)
    <3>1. \E l : blockPc[t] # "idle" /\ B!Goto(t, l) /\ (UNCHANGED blockLock \/ (B!Unlock /\ l = "idle"))
      BY <1>5, <2>2 DEF B!Get, B!GetTest, B!GetIndex, B!GetReturn
    <3> QED BY <1>2, <3>1
  <2> QED BY <2>1, <2>2
<1> QED BY <1>1, <1>3, <1>4, <1>5 DEF B!Next, B!PutCall, B!GetCall, B!Flush, B!Reset, B!vars

(* A thread in a call is alone on its side.                                *)
LEMMA Alone ==
    ASSUME B!RingAssumption, BInv, NEW t \in B!Threads, blockPc[t] # "idle"
    PROVE  /\ t \in Writers => t \notin Readers /\ \A u \in Writers \ {t} : blockPc[u] = "idle"
           /\ t \in Readers => t \notin Writers /\ \A u \in Readers \ {t} : blockPc[u] = "idle"
  BY DEF BInv, BlockExclusive

(* A step of one side leaves the variables of the other alone.             *)
LEMMA Frames ==
    ASSUME B!RingAssumption, BInv
    PROVE  /\ \A t \in Writers : B!Put(t) \/ (\E d \in Blocks : B!PutCall(t, d)) =>
                /\ nextGet' = nextGet
                /\ \A u \in B!Threads \ {t} : blockPc'[u] = blockPc[u] /\ value'[u] = value[u]
                /\ \A u \in Writers \ {t} : ncopied'[u] = ncopied[u]
                /\ UNCHANGED <<nbytes, count>>
           /\ \A t \in Readers : B!Get(t) \/ (\E n \in Amounts : B!GetCall(t, n)) =>
                /\ nextPut' = nextPut /\ bytes' = bytes /\ ncopied' = ncopied
                /\ \A u \in B!Threads \ {t} : blockPc'[u] = blockPc[u] /\ value'[u] = value[u]
                /\ \A u \in Readers \ {t} : nbytes'[u] = nbytes[u] /\ count'[u] = count[u]
<1>0. Types
  BY DEF BInv
<1>1. ASSUME NEW t \in Writers, B!Put(t) \/ \E d \in Blocks : B!PutCall(t, d)
      PROVE  /\ nextGet' = nextGet
             /\ \A u \in B!Threads \ {t} : blockPc'[u] = blockPc[u] /\ value'[u] = value[u]
             /\ \A u \in Writers \ {t} : ncopied'[u] = ncopied[u]
             /\ UNCHANGED <<nbytes, count>>
  <2> HIDE DEF B!RingAssumption
  <2>1. CASE \E d \in Blocks : B!PutCall(t, d)
    BY <1>0, <2>1 DEF Types, B!PutCall, B!Goto, B!idxVars, B!getVars
  <2>2. CASE B!PutTest(t)
    BY <1>0, <2>2 DEF Types, B!PutTest, B!PutReturn, B!Goto, B!idxVars, B!getVars
  <2>3. CASE B!PutCopy(t)
    BY <1>0, <2>3 DEF Types, B!PutCopy, B!idxVars, B!getVars
  <2>4. CASE B!PutIndex(t)
    BY <1>0, <2>4 DEF Types, B!PutIndex, B!Goto, B!copyVars, B!getVars
  <2>5. CASE B!PutMark(t)
    BY <1>0, <2>5 DEF Types, B!PutMark, B!PutReturn, B!Goto, B!idxVars, B!getVars
  <2> QED BY <1>1, <2>1, <2>2, <2>3, <2>4, <2>5 DEF B!Put
<1>2. ASSUME NEW t \in Readers, B!Get(t) \/ \E n \in Amounts : B!GetCall(t, n)
      PROVE  /\ nextPut' = nextPut /\ bytes' = bytes /\ ncopied' = ncopied
             /\ \A u \in B!Threads \ {t} : blockPc'[u] = blockPc[u] /\ value'[u] = value[u]
             /\ \A u \in Readers \ {t} : nbytes'[u] = nbytes[u] /\ count'[u] = count[u]
  <2> HIDE DEF B!RingAssumption
  <2>1. CASE \E n \in Amounts : B!GetCall(t, n)
    BY <1>0, <2>1 DEF Types, B!GetCall, B!Goto, B!idxVars
  <2>2. CASE B!GetTest(t)
    BY <1>0, <2>2 DEF Types, B!GetTest, B!GetReturn, B!Goto, B!idxVars
  <2>3. CASE B!GetCopy(t)
    BY <1>0, <2>3 DEF Types, B!GetCopy, B!idxVars, B!getVars
  <2>4. CASE B!GetIndex(t)
    BY <1>0, <2>4 DEF Types, B!GetIndex, B!GetReturn, B!Goto
  <2> QED BY <1>2, <2>1, <2>2, <2>3, <2>4 DEF B!Get
<1> QED BY <1>1, <1>2

(* What a thread that puts relies on.                                      *)
LEMMA PutStep ==
    ASSUME B!RingAssumption, BInv, [B!Next]_(B!vars)
    PROVE  PutStable' /\ B!UsedBytes' <= blockSize
<1>0. /\ Types /\ PutStable /\ GetStable /\ B!UsedBytes <= blockSize
      /\ B!UsedBytes \in 0 .. B!size - 1
      /\ B!UsedBytes \in Nat /\ blockSize \in Nat /\ Writers \cap Readers = {}
  BY BlockUsed DEF BInv, Types
<1>1. ASSUME NEW t \in Writers, B!UsedBytes' <= blockSize, blockPc[t] = "idle" => blockPc'[t] = "test",
             B!Put(t) \/ (\E d \in Blocks : B!PutCall(t, d)),
             /\ blockPc'[t] \in {"test", "copy"} => value'[t] \in Blocks
             /\ blockPc'[t] # "copy" => ncopied'[t] = 0 \/ blockPc'[t] = "mark"
             /\ blockPc'[t] = "copy" =>
                 /\ B!UsedBytes' + Len(value'[t]) <= blockSize /\ ncopied'[t] <= Len(value'[t])
                 /\ \A i \in 1 .. ncopied'[t] : bytes'[B!at(nextPut', i - 1)] = value'[t][i]
      PROVE  PutStable' /\ B!UsedBytes' <= blockSize
  <2>1. \A u \in Writers \ {t} : /\ blockPc'[u] = blockPc[u] /\ value'[u] = value[u]
                                 /\ ncopied'[u] = ncopied[u]
    BY <1>1, Frames
  <2>2. ASSUME NEW u \in Writers \ {t} PROVE blockPc'[u] = "idle" /\ ncopied'[u] = 0
    <3>1. BlockExclusive' /\ blockPc'[t] # "idle" => blockPc'[u] = "idle"
      BY DEF BlockExclusive
    <3>2. BlockExclusive' /\ (blockPc[t] # "idle" => blockPc[u] = "idle")
      BY BlockExclusiveStep, Alone
    <3> QED BY <1>0, <1>1, <2>1, <3>1, <3>2 DEF PutStable
  <2> HIDE DEF B!RingAssumption
  <2> QED BY <1>1, <2>2 DEF PutStable
<1>2. ASSUME NEW t \in Writers, NEW d \in Blocks, B!PutCall(t, d)
      PROVE  PutStable' /\ B!UsedBytes' <= blockSize
  <2> HIDE DEF B!RingAssumption
  <2>1. /\ blockPc[t] = "idle" /\ blockPc'[t] = "test" /\ value'[t] = d /\ ncopied' = ncopied
        /\ UNCHANGED <<nextPut, nextGet>>
    BY <1>0, <1>2 DEF B!PutCall, B!Goto, Types, B!idxVars
  <2>2. B!UsedBytes' = B!UsedBytes
    BY <2>1 DEF B!UsedBytes
  <2> QED BY <1>0, <1>1, <1>2, <2>1, <2>2 DEF PutStable
<1>3. ASSUME NEW t \in Writers, B!PutTest(t) PROVE PutStable' /\ B!UsedBytes' <= blockSize
  <2>0. blockPc[t] = "test" /\ UNCHANGED <<nextPut, nextGet, bytes>> /\ B!Put(t)
    BY <1>3 DEF B!Put, B!PutTest, B!PutReturn, B!idxVars
  <2>1. B!UsedBytes' = B!UsedBytes /\ B!FreeBytes = blockSize - B!UsedBytes
    BY <1>0, <2>0, BlockUsed DEF B!UsedBytes, Types
  <2> HIDE DEF B!RingAssumption
  <2>2. CASE B!PutReturn(t, FALSE)
    <3>1. blockPc'[t] = "idle" /\ ncopied'[t] = 0
      BY <1>0, <2>2 DEF B!PutReturn, B!Goto, Types
    <3> QED BY <1>0, <1>1, <2>0, <2>1, <3>1
  <2>3. CASE ~B!PutReturn(t, FALSE)
    <3>1. /\ blockPc'[t] = "copy" /\ UNCHANGED <<value, ncopied>>
          /\ Len(value[t]) <= blockSize - B!UsedBytes
          /\ value[t] \in Blocks /\ ncopied[t] = 0
      BY <1>0, <1>3, <2>0, <2>1, <2>3 DEF B!PutTest, B!Goto, Types, PutStable
    <3>2. Len(value[t]) \in Nat
      BY <1>0, LenProperties DEF Types
    <3> QED BY <1>0, <1>1, <2>0, <2>1, <3>1, <3>2
  <2> QED BY <2>2, <2>3
<1>4. ASSUME NEW t \in Writers, B!PutCopy(t) PROVE PutStable' /\ B!UsedBytes' <= blockSize
  <2>1. /\ blockPc'[t] = "copy" /\ blockPc[t] = "copy" /\ ncopied[t] < Len(value[t])
        /\ UNCHANGED <<nextPut, nextGet, value>> /\ B!Put(t)
        /\ ncopied'[t] = ncopied[t] + 1 /\ ncopied[t] \in Nat
        /\ bytes' = [bytes EXCEPT ![B!at(nextPut, ncopied[t])] = value[t][ncopied[t] + 1]]
    BY <1>0, <1>4 DEF B!Put, B!PutCopy, Types, B!idxVars
  <2>2. B!UsedBytes' = B!UsedBytes
    BY <2>1 DEF B!UsedBytes
  <2>3. /\ Len(value[t]) \in Nat /\ B!UsedBytes + Len(value[t]) <= blockSize /\ value[t] \in Blocks
        /\ \A i \in 1 .. ncopied[t] : bytes[B!at(nextPut, i - 1)] = value[t][i]
    BY <1>0, <2>1, LenProperties DEF PutStable, Types
  <2>4. ASSUME NEW i \in 1 .. ncopied'[t] PROVE bytes'[B!at(nextPut, i - 1)] = value[t][i]
    <3>1. i - 1 \in 0 .. B!size - 1 /\ ncopied[t] \in 0 .. B!size - 1 /\ nextPut \in B!Slots
      BY <1>0, <2>1, <2>3 DEF Types
    <3>2. /\ B!at(nextPut, i - 1) \in B!Slots /\ B!at(nextPut, ncopied[t]) \in B!Slots
          /\ B!at(nextPut, i - 1) = B!at(nextPut, ncopied[t]) => i - 1 = ncopied[t]
      <4> HIDE DEF B!RingAssumption, B!size, B!Slots
      <4>1. B!at(nextPut, i - 1) \in B!Slots /\ B!at(nextPut, ncopied[t]) \in B!Slots
        BY <3>1, BlockHeld
      <4>2. B!at(nextPut, i - 1) = B!at(nextPut, ncopied[t]) => i - 1 = ncopied[t]
        BY <3>1, AtApart
      <4> QED BY <4>1, <4>2
    <3>3. CASE i = ncopied[t] + 1
      BY <1>0, <2>1, <3>2, <3>3 DEF Types
    <3>4. CASE i # ncopied[t] + 1
      <4>1. i \in 1 .. ncopied[t] /\ i - 1 # ncopied[t]
        BY <2>1, <3>4
      <4> QED BY <1>0, <2>1, <2>3, <3>2, <4>1 DEF Types
    <3> QED BY <3>3, <3>4
  <2> HIDE DEF B!RingAssumption
  <2>5. ncopied'[t] <= Len(value[t])
    BY <2>1, <2>3
  <2> QED BY <1>0, <1>1, <2>1, <2>2, <2>3, <2>4, <2>5
<1>5. ASSUME NEW t \in Writers, B!PutIndex(t) PROVE PutStable' /\ B!UsedBytes' <= blockSize
  <2>1. /\ blockPc[t] = "copy" /\ blockPc'[t] = "mark" /\ B!Put(t)
        /\ nextPut' = B!at(nextPut, Len(value[t]))
        /\ nextGet' = nextGet
    BY <1>0, <1>5 DEF B!Put, B!PutIndex, B!Goto, Types
  <2>2. Len(value[t]) \in Nat /\ B!UsedBytes + Len(value[t]) <= blockSize
    BY <1>0, <2>1, LenProperties DEF PutStable, Types
  <2>3. B!UsedBytes' = B!UsedBytes + Len(value[t])
    BY <1>0, <2>1, <2>2, UsedPut DEF Types
  <2> HIDE DEF B!RingAssumption
  <2> QED BY <1>1, <2>1, <2>2, <2>3
<1>6. ASSUME NEW t \in Writers, B!PutMark(t) PROVE PutStable' /\ B!UsedBytes' <= blockSize
  <2> HIDE DEF B!RingAssumption
  <2>1. /\ blockPc[t] = "mark" /\ blockPc'[t] = "idle" /\ ncopied'[t] = 0 /\ B!Put(t)
        /\ UNCHANGED <<nextPut, nextGet>>
    BY <1>0, <1>6 DEF B!Put, B!PutMark, B!PutReturn, B!Goto, Types, B!idxVars
  <2>2. B!UsedBytes' = B!UsedBytes
    BY <2>1 DEF B!UsedBytes
  <2> QED BY <1>0, <1>1, <2>1, <2>2
<1>7. ASSUME NEW t \in Readers, B!Get(t) \/ \E n \in Amounts : B!GetCall(t, n)
      PROVE  PutStable' /\ B!UsedBytes' <= blockSize
  <2>1. B!UsedBytes' \in Nat /\ B!UsedBytes' <= B!UsedBytes
    <3>1. CASE B!GetIndex(t)
      <4>1. /\ blockPc[t] = "copy" /\ nextGet' = B!at(nextGet, count[t]) /\ nextPut' = nextPut
            /\ count[t] \in 0 .. B!UsedBytes
        BY <1>0, <3>1 DEF B!GetIndex, B!GetReturn, GetStable
      <4>2. B!UsedBytes' = B!UsedBytes - count[t]
        BY <1>0, <4>1, UsedGet DEF Types
      <4> QED BY <1>0, <4>1, <4>2
    <3>2. CASE ~B!GetIndex(t)
      <4>1. UNCHANGED <<nextPut, nextGet>>
        BY <1>7, <3>2 DEF B!Get, B!GetTest, B!GetReturn, B!GetCopy, B!GetCall, B!idxVars
      <4> QED BY <1>0, <4>1 DEF B!UsedBytes
    <3> QED BY <3>1, <3>2
  <2>2. \A u \in Writers : /\ blockPc'[u] = blockPc[u] /\ value'[u] = value[u] /\ ncopied'[u] = ncopied[u]
                           /\ blockPc[u] = "copy" => Len(value[u]) \in Nat
    <3>1. \A u \in B!Threads \ {t} : blockPc'[u] = blockPc[u] /\ value'[u] = value[u]
      BY <1>7, Frames
    <3>2. ncopied' = ncopied
      BY <1>7, Frames
    <3>3. \A u \in Writers : u \in B!Threads \ {t} /\ value[u] \in Seq(Cells)
      BY <1>0 DEF Types
    <3> HIDE DEF B!RingAssumption
    <3> QED BY <3>1, <3>2, <3>3, LenProperties
  <2>3. UNCHANGED <<nextPut, bytes>>
    BY <1>7, Frames
  <2> HIDE DEF B!RingAssumption
  <2> QED BY <1>0, <2>1, <2>2, <2>3 DEF PutStable
<1>8. CASE B!Flush \/ B!Reset
  <2>1. /\ \A u \in B!Threads : blockPc[u] = "idle"
        /\ UNCHANGED <<nextPut, blockPc, value, ncopied>> /\ nextGet' \in {nextGet, nextPut}
    BY <1>8 DEF B!Flush, B!Reset, B!Quiet, B!copyVars, B!idxVars
  <2>2. B!UsedBytes' \in {0, B!UsedBytes}
    <3>1. nextGet' = nextGet => B!UsedBytes' = B!UsedBytes
      BY <2>1 DEF B!UsedBytes
    <3>2. nextGet' = nextPut => B!UsedBytes' = 0
      BY <1>0, <2>1 DEF B!UsedBytes, B!held, B!wrap, Types
    <3> QED BY <2>1, <3>1, <3>2
  <2> QED BY <1>0, <2>1, <2>2 DEF PutStable
<1>9. CASE UNCHANGED B!vars
  BY <1>0, <1>9 DEF B!vars, B!idxVars, B!copyVars, PutStable, B!UsedBytes
<1> QED BY <1>2, <1>3, <1>4, <1>5, <1>6, <1>7, <1>8, <1>9 DEF B!Next, B!Put

(* What a thread that gets relies on.                                      *)
LEMMA GetStep == ASSUME B!RingAssumption, BInv, [B!Next]_(B!vars) PROVE GetStable'
<1>0. /\ Types /\ PutStable /\ GetStable /\ B!UsedBytes <= blockSize
      /\ B!UsedBytes \in 0 .. B!size - 1
      /\ B!UsedBytes \in Nat /\ blockSize \in Nat /\ Writers \cap Readers = {}
      /\ B!at(nextGet, B!UsedBytes) = nextPut
  BY BlockUsed DEF BInv, Types
<1>1. ASSUME NEW t \in Readers, blockPc[t] = "idle" => blockPc'[t] = "test",
             B!Get(t) \/ (\E n \in Amounts : B!GetCall(t, n)),
             /\ blockPc'[t] # "mark"
             /\ blockPc'[t] \in {"test", "copy"} => nbytes'[t] \in Amounts
             /\ blockPc'[t] # "copy" => value'[t] = <<>>
             /\ blockPc'[t] = "copy" =>
                 /\ count'[t] \in 1 .. B!UsedBytes' /\ count'[t] <= nbytes'[t]
                 /\ Len(value'[t]) <= count'[t]
                 /\ \A i \in 1 .. Len(value'[t]) : value'[t][i] = bytes'[B!at(nextGet', i - 1)]
      PROVE  GetStable'
  <2>1. \A u \in Readers \ {t} : blockPc'[u] = blockPc[u] /\ value'[u] = value[u]
    BY <1>1, Frames
  <2>2. ASSUME NEW u \in Readers \ {t} PROVE blockPc'[u] = "idle" /\ value'[u] = <<>>
    <3>1. BlockExclusive' /\ blockPc'[t] # "idle" => blockPc'[u] = "idle"
      BY DEF BlockExclusive
    <3>2. BlockExclusive' /\ (blockPc[t] # "idle" => blockPc[u] = "idle")
      BY BlockExclusiveStep, Alone
    <3> QED BY <1>0, <1>1, <2>1, <3>1, <3>2 DEF GetStable
  <2> HIDE DEF B!RingAssumption
  <2> QED BY <1>1, <2>2 DEF GetStable
<1>2. ASSUME NEW t \in Readers, NEW n \in Amounts, B!GetCall(t, n) PROVE GetStable'
  <2> HIDE DEF B!RingAssumption
  <2>1. /\ blockPc[t] = "idle" /\ blockPc'[t] = "test" /\ nbytes'[t] = n /\ value' = value
    BY <1>0, <1>2 DEF B!GetCall, B!Goto, Types
  <2> QED BY <1>0, <1>1, <1>2, <2>1 DEF GetStable
<1>3. ASSUME NEW t \in Readers, NEW d, B!GetReturn(t, d), B!Get(t), blockPc[t] # "idle"
      PROVE  GetStable'
  <2> HIDE DEF B!RingAssumption
  <2>1. blockPc'[t] = "idle" /\ value'[t] = <<>>
    BY <1>0, <1>3 DEF B!GetReturn, B!Goto, Types
  <2> QED BY <1>1, <1>3, <2>1
<1>4. ASSUME NEW t \in Readers, B!GetTest(t) PROVE GetStable'
  <2>0. blockPc[t] = "test" /\ B!Get(t)
    BY <1>4 DEF B!Get, B!GetTest
  <2>1. CASE B!GetReturn(t, <<>>)
    BY <1>3, <2>0, <2>1
  <2>2. CASE ~B!GetReturn(t, <<>>)
    <3>1. /\ nbytes[t] \in Amounts /\ nbytes[t] \in Nat /\ value[t] = <<>>
          /\ B!Fetched(nbytes[t]) = IF nbytes[t] < B!UsedBytes THEN nbytes[t] ELSE B!UsedBytes
      BY <1>0, <2>0, BlockUsed DEF Types, GetStable
    <3> HIDE DEF B!RingAssumption
    <3>2. /\ blockPc'[t] = "copy" /\ count'[t] = B!Fetched(nbytes[t]) /\ B!Fetched(nbytes[t]) > 0
          /\ UNCHANGED <<nextPut, nextGet, bytes, value, nbytes>>
      BY <1>0, <1>4, <2>2 DEF B!GetTest, B!Goto, Types, B!idxVars
    <3>3. B!UsedBytes' = B!UsedBytes
      BY <3>2 DEF B!UsedBytes
    <3>4. count'[t] \in 1 .. B!UsedBytes /\ count'[t] <= nbytes[t] /\ Len(value'[t]) = 0
      BY <1>0, <3>1, <3>2, EmptySeq
    <3> QED BY <1>1, <2>0, <3>1, <3>2, <3>3, <3>4
  <2> QED BY <2>1, <2>2
<1>5. ASSUME NEW t \in Readers, B!GetCopy(t) PROVE GetStable'
  <2> DEFINE v == value[t]
             b == bytes[B!at(nextGet, Len(v))]
  <2>1. /\ blockPc[t] = "copy" /\ B!Get(t) /\ Len(v) < count[t] /\ v \in Seq(Cells)
        /\ UNCHANGED <<nextPut, nextGet, bytes, blockPc, nbytes, count>>
        /\ value'[t] = Append(v, b)
        /\ count[t] \in 1 .. B!UsedBytes /\ count[t] <= nbytes[t] /\ nbytes[t] \in Amounts
        /\ \A i \in 1 .. Len(v) : v[i] = bytes[B!at(nextGet, i - 1)]
    BY <1>0, <1>5 DEF B!Get, B!GetCopy, Types, GetStable, B!idxVars, B!getVars
  <2>2. B!UsedBytes' = B!UsedBytes /\ Len(v) \in Nat
    BY <2>1, LenProperties DEF B!UsedBytes
  <2>3. b \in Cells
    <3>1. Len(v) \in 0 .. B!size - 1 /\ nextGet \in B!Slots
      BY <1>0, <2>1, <2>2 DEF Types
    <3> HIDE DEF v, B!RingAssumption, B!size, B!Slots
    <3>2. B!at(nextGet, Len(v)) \in B!Slots
      BY <3>1, BlockHeld
    <3> QED BY <1>0, <3>2 DEF Types
  <2>4. /\ Len(value'[t]) = Len(v) + 1 /\ value'[t][Len(v) + 1] = b
        /\ \A i \in 1 .. Len(v) : value'[t][i] = v[i]
    BY <2>1, <2>3, AppendProperties
  <2> HIDE DEF B!RingAssumption, v
  <2>5. ASSUME NEW i \in 1 .. Len(v) + 1 PROVE value'[t][i] = bytes[B!at(nextGet, i - 1)]
    <3>1. CASE i = Len(v) + 1
      BY <2>2, <2>4, <3>1
    <3>2. CASE i # Len(v) + 1
      <4>1. i \in 1 .. Len(v)
        BY <2>2, <3>2
      <4> QED BY <2>1, <2>4, <4>1
    <3> QED BY <3>1, <3>2
  <2>6. Len(value'[t]) <= count[t]
    BY <1>0, <2>1, <2>2, <2>4
  <2> QED BY <1>1, <2>1, <2>2, <2>4, <2>5, <2>6
<1>6. ASSUME NEW t \in Readers, B!GetIndex(t) PROVE GetStable'
  BY <1>3, <1>6 DEF B!GetIndex, B!Get
<1>7. ASSUME NEW t \in Writers, B!Put(t) \/ \E d \in Blocks : B!PutCall(t, d) PROVE GetStable'
  <2>1. /\ \A u \in B!Threads \ {t} : blockPc'[u] = blockPc[u] /\ value'[u] = value[u]
        /\ UNCHANGED <<nextGet, nbytes, count>>
    BY <1>7, Frames
  <2>2. B!UsedBytes' \in Nat /\ B!UsedBytes <= B!UsedBytes'
    <3>1. CASE B!PutIndex(t)
      <4>1. /\ blockPc[t] = "copy" /\ nextPut' = B!at(nextPut, Len(value[t]))
            /\ B!UsedBytes + Len(value[t]) <= blockSize /\ Len(value[t]) \in Nat
        BY <1>0, <3>1, LenProperties DEF B!PutIndex, PutStable, Types
      <4>2. B!UsedBytes' = B!UsedBytes + Len(value[t])
        BY <1>0, <2>1, <4>1, UsedPut DEF Types
      <4> QED BY <1>0, <4>1, <4>2
    <3>2. CASE ~B!PutIndex(t)
      <4>1. UNCHANGED <<nextPut, nextGet>>
        BY <1>7, <3>2 DEF B!Put, B!PutTest, B!PutReturn, B!PutCopy, B!PutMark, B!PutCall, B!idxVars
      <4> QED BY <1>0, <4>1 DEF B!UsedBytes
    <3> QED BY <3>1, <3>2
  <2>3. ASSUME NEW i \in 0 .. B!UsedBytes - 1
        PROVE  bytes'[B!at(nextGet, i)] = bytes[B!at(nextGet, i)]
    <3>1. CASE B!PutCopy(t)
      <4>1. /\ blockPc[t] = "copy" /\ ncopied[t] \in Nat /\ ncopied[t] < Len(value[t])
            /\ Len(value[t]) \in Nat /\ B!UsedBytes + Len(value[t]) <= blockSize
            /\ bytes' = [bytes EXCEPT ![B!at(nextPut, ncopied[t])] = value[t][ncopied[t] + 1]]
        BY <1>0, <3>1, LenProperties DEF B!PutCopy, PutStable, Types
      <4>2. /\ B!UsedBytes + ncopied[t] \in 0 .. B!size - 1
            /\ B!UsedBytes + ncopied[t] <= B!size - 1
            /\ ncopied[t] \in 0 .. B!size - 1 /\ i \in 0 .. B!size - 1
            /\ i # B!UsedBytes + ncopied[t]
        BY <1>0, <4>1
      <4>3. nextGet \in B!Slots
        BY <1>0 DEF Types
      <4> HIDE DEF B!size, B!Slots
      <4>4. B!at(nextPut, ncopied[t]) = B!at(nextGet, B!UsedBytes + ncopied[t])
        BY <1>0, <4>2, <4>3, AtApart
      <4>5. B!at(nextGet, i) # B!at(nextGet, B!UsedBytes + ncopied[t])
        BY <4>2, <4>3, AtApart
      <4>6. B!at(nextGet, i) \in B!Slots
        BY <4>2, <4>3, BlockHeld
      <4> QED BY <1>0, <4>1, <4>4, <4>5, <4>6 DEF Types
    <3>2. CASE ~B!PutCopy(t)
      BY <1>7, <3>2 DEF B!Put, B!PutTest, B!PutReturn, B!PutIndex, B!PutMark, B!PutCall
    <3> QED BY <3>1, <3>2
  <2>4. \A u \in Readers : u \in B!Threads \ {t} /\ Len(value[u]) \in Nat
    BY <1>0, LenProperties DEF Types
  <2>5. ASSUME NEW u \in Readers, blockPc[u] = "copy"
        PROVE  /\ count[u] \in 1 .. B!UsedBytes'
               /\ \A i \in 1 .. Len(value[u]) : value[u][i] = bytes'[B!at(nextGet, i - 1)]
    <3>1. /\ count[u] \in 1 .. B!UsedBytes /\ Len(value[u]) <= count[u] /\ Len(value[u]) \in Nat
          /\ \A i \in 1 .. Len(value[u]) : value[u][i] = bytes[B!at(nextGet, i - 1)]
      BY <1>0, <2>4, <2>5 DEF GetStable
    <3> HIDE DEF B!RingAssumption
    <3>2. ASSUME NEW i \in 1 .. Len(value[u])
          PROVE  bytes'[B!at(nextGet, i - 1)] = bytes[B!at(nextGet, i - 1)]
      <4>1. i - 1 \in 0 .. B!UsedBytes - 1
        BY <1>0, <3>1
      <4> QED BY <2>3, <4>1
    <3> QED BY <1>0, <2>2, <3>1, <3>2, SMTT(60), ZenonT(60)
  <2> HIDE DEF B!RingAssumption
  <2> QED BY <1>0, <2>1, <2>4, <2>5 DEF GetStable
<1>8. CASE B!Flush \/ B!Reset
  <2>1. \A u \in B!Threads : blockPc[u] = "idle" /\ UNCHANGED <<blockPc, value>>
    BY <1>8 DEF B!Flush, B!Reset, B!Quiet, B!copyVars
  <2> QED BY <1>0, <2>1 DEF GetStable
<1>9. CASE UNCHANGED B!vars
  BY <1>0, <1>9 DEF B!vars, B!idxVars, B!copyVars, B!getVars, GetStable, B!UsedBytes
<1> QED BY <1>2, <1>4, <1>5, <1>6, <1>7, <1>8, <1>9 DEF B!Next, B!Get

(* The invariant holds for ever.                                           *)
LEMMA InvStep == ASSUME B!RingAssumption, BInv, [B!Next]_(B!vars) PROVE BInv'
  BY TypesStep, BlockExclusiveStep, PutStep, GetStep DEF BInv

-----------------------------------------------------------------------------
(* The ring is a queue                                                     *)

(* The n bytes stored from a slot on.                                      *)
BlockStored(buf, b, n) == [i \in 1 .. n |-> buf[B!at(b, i - 1)]]

(* They are a sequence.                                                    *)
LEMMA BlockStoredType ==
    ASSUME B!RingAssumption, NEW buf \in [B!Slots -> Cells], NEW b \in B!Slots,
           NEW n \in 0 .. B!size - 1
    PROVE  /\ BlockStored(buf, b, n) \in Seq(Cells) /\ Len(BlockStored(buf, b, n)) = n
           /\ \A i \in 1 .. n : BlockStored(buf, b, n)[i] = buf[B!at(b, i - 1)]
<1>1. n \in Nat
  OBVIOUS
<1>2. ASSUME NEW i \in 1 .. n PROVE buf[B!at(b, i - 1)] \in Cells
  <2>1. i - 1 \in 0 .. B!size - 1
    OBVIOUS
  <2> HIDE DEF B!size, B!Slots, B!RingAssumption
  <2>2. B!at(b, i - 1) \in B!Slots
    BY <2>1, BlockHeld
  <2> QED BY <2>2
<1> HIDE DEF B!RingAssumption
<1>3. BlockStored(buf, b, n) \in [1 .. n -> Cells]
  BY <1>2 DEF BlockStored
<1>4. \A i \in 1 .. n : BlockStored(buf, b, n)[i] = buf[B!at(b, i - 1)]
  BY DEF BlockStored
<1>5. BlockStored(buf, b, n) \in Seq(Cells) /\ Len(BlockStored(buf, b, n)) = n
  BY <1>1, <1>3, SeqDef, LenProperties
<1> QED BY <1>4, <1>5

(* What the ring stores, before and after a step.                          *)
LEMMA ContentType ==
    ASSUME B!RingAssumption, BInv
    PROVE  /\ B!Content \in Seq(Cells) /\ Len(B!Content) = B!UsedBytes
           /\ \A i \in 1 .. B!UsedBytes : B!Content[i] = bytes[B!at(nextGet, i - 1)]
<1>1. B!UsedBytes \in 0 .. B!size - 1 /\ bytes \in [B!Slots -> Cells] /\ nextGet \in B!Slots
  BY BlockUsed DEF BInv, Types
<1>2. B!Content = BlockStored(bytes, nextGet, B!UsedBytes)
  BY DEF B!Content, BlockStored
<1> HIDE DEF B!RingAssumption, B!size, B!Slots, BlockStored, B!Content, B!UsedBytes, Cells
<1>3. /\ BlockStored(bytes, nextGet, B!UsedBytes) \in Seq(Cells)
      /\ Len(BlockStored(bytes, nextGet, B!UsedBytes)) = B!UsedBytes
      /\ \A i \in 1 .. B!UsedBytes :
            BlockStored(bytes, nextGet, B!UsedBytes)[i] = bytes[B!at(nextGet, i - 1)]
  BY <1>1, BlockStoredType
<1> QED BY <1>2, <1>3

\* The same after a step.
LEMMA ContentTypeAfter ==
    ASSUME B!RingAssumption, BInv'
    PROVE  /\ B!Content' \in Seq(Cells) /\ Len(B!Content') = B!UsedBytes'
           /\ \A i \in 1 .. B!UsedBytes' : B!Content'[i] = bytes'[B!at(nextGet', i - 1)]
<1>1. nextPut' \in B!Slots /\ bytes' \in [B!Slots -> Cells] /\ nextGet' \in B!Slots
  BY DEF BInv, Types
<1>2. B!UsedBytes' \in 0 .. B!size - 1
  BY <1>1, BlockHeld DEF B!UsedBytes
<1>3. B!Content' = BlockStored(bytes', nextGet', B!UsedBytes')
  BY DEF B!Content, BlockStored
<1>4. /\ BlockStored(bytes', nextGet', B!UsedBytes') \in Seq(Cells)
      /\ Len(BlockStored(bytes', nextGet', B!UsedBytes')) = B!UsedBytes'
      /\ \A i \in 1 .. B!UsedBytes' :
            BlockStored(bytes', nextGet', B!UsedBytes')[i] = bytes'[B!at(nextGet', i - 1)]
  BY <1>1, <1>2, BlockStoredType, ZenonT(60)
<1> HIDE DEF BlockStored
<1> QED BY <1>3, <1>4

(* A step that moves no index leaves it, unless it stores into it.         *)
LEMMA ContentSame ==
    ASSUME B!UsedBytes' = B!UsedBytes,
           \A i \in 1 .. B!UsedBytes : bytes'[B!at(nextGet', i - 1)] = bytes[B!at(nextGet, i - 1)]
    PROVE  B!Content' = B!Content
  BY DEF B!Content

(* Two sequences of one length with the same elements are equal.           *)
LEMMA SameSeq ==
    ASSUME NEW u \in Seq(Cells), NEW v \in Seq(Cells), Len(u) = Len(v),
           \A i \in 1 .. Len(u) : u[i] = v[i]
    PROVE  u = v
  BY SeqEqual

(* How the steps of a thread that puts look to the queue.                  *)
LEMMA PutView ==
    ASSUME B!RingAssumption, BInv, NEW t \in Writers, B!Put(t) \/ \E d \in Blocks : B!PutCall(t, d),
           blockOk' = [blockOk EXCEPT ![t] = blockOk'[t]], got' = got
    PROVE  /\ B!Putting' = [B!Putting EXCEPT ![t] = IF blockPc'[t] \in {"test", "copy"}
                                                    THEN value'[t] ELSE <<>>]
           /\ B!Answer' = [B!Answer EXCEPT ![t] = IF blockPc'[t] = "mark" THEN TRUE ELSE blockOk'[t]]
           /\ B!Getting' = B!Getting
<1>0. Types /\ Writers \cap Readers = {}
  BY DEF BInv
<1>1. /\ \A u \in B!Threads \ {t} : blockPc'[u] = blockPc[u] /\ value'[u] = value[u]
      /\ nbytes' = nbytes
  BY Frames
<1>2. \A u \in Writers \ {t} : blockOk'[u] = blockOk[u]
  BY <1>0 DEF Types
<1>3. \A u \in Readers : u \in B!Threads \ {t}
  BY <1>0
<1> HIDE DEF B!RingAssumption
<1> QED BY <1>0, <1>1, <1>2, <1>3 DEF B!Putting, B!Answer, B!Getting, B!Pending

(* The same of a thread that gets.                                         *)
LEMMA GetView ==
    ASSUME B!RingAssumption, BInv, NEW t \in Readers, B!Get(t) \/ \E n \in Amounts : B!GetCall(t, n),
           blockOk' = blockOk
    PROVE  /\ B!Getting' = [B!Getting EXCEPT ![t] = IF blockPc'[t] \in {"test", "copy"}
                                                    THEN nbytes'[t] ELSE 0]
           /\ B!Putting' = B!Putting /\ B!Answer' = B!Answer
<1>0. Types /\ Writers \cap Readers = {}
  BY DEF BInv
<1>1. /\ \A u \in B!Threads \ {t} : blockPc'[u] = blockPc[u] /\ value'[u] = value[u]
      /\ \A u \in Readers \ {t} : nbytes'[u] = nbytes[u]
  BY Frames
<1>3. \A u \in Writers : u \in B!Threads \ {t}
  BY <1>0
<1> HIDE DEF B!RingAssumption
<1> QED BY <1>0, <1>1, <1>3 DEF B!Putting, B!Answer, B!Getting, B!Pending

(* A put that finds no room is refused, and one that finds it goes on.     *)
LEMMA PutTestRefines ==
    ASSUME B!RingAssumption, BInv, NEW t \in Writers, B!PutTest(t)
    PROVE  [B!Fifo!Refuse(t)]_(B!Fifo!fvars)
<1>0. /\ Types /\ blockPc[t] = "test" /\ B!Put(t) /\ value[t] \in Blocks
      /\ UNCHANGED <<nextPut, nextGet, bytes, got>>
  BY DEF BInv, B!PutTest, B!PutReturn, B!Put, PutStable, B!idxVars, B!retVars
<1>1. B!Content' = B!Content
  BY <1>0, ContentSame DEF B!UsedBytes
<1>2. B!Putting[t] = value[t] /\ value[t] # <<>>
  BY <1>0, BlockType DEF B!Putting, B!Pending
<1>3. B!FreeBytes = blockSize - B!UsedBytes /\ Len(B!Content) = B!UsedBytes
  BY <1>0, BlockUsed, ContentType DEF Types
<1>4. CASE B!PutReturn(t, FALSE) /\ Len(value[t]) > B!FreeBytes
  <2>1. blockPc'[t] = "idle" /\ blockOk' = [blockOk EXCEPT ![t] = FALSE] /\ blockOk'[t] = FALSE
    BY <1>0, <1>4 DEF B!PutReturn, B!Goto, Types
  <2>2. /\ B!Putting' = [B!Putting EXCEPT ![t] = <<>>] /\ B!Answer' = [B!Answer EXCEPT ![t] = FALSE]
        /\ B!Getting' = B!Getting
    BY <1>0, <2>1, PutView
  <2>3. Len(B!Content) + Len(B!Putting[t]) > blockSize
    <3>1. Len(value[t]) \in Nat /\ B!UsedBytes \in Nat
      BY <1>0, BlockUsed, LenProperties DEF Types
    <3> QED BY <1>2, <1>3, <1>4, <3>1
  <2> QED BY <1>0, <1>1, <1>2, <2>2, <2>3 DEF B!Fifo!Refuse, B!Fifo!Return, B!Fifo!getVars
<1>5. CASE ~(B!PutReturn(t, FALSE) /\ Len(value[t]) > B!FreeBytes)
  <2>1. blockPc' = [blockPc EXCEPT ![t] = "copy"] /\ UNCHANGED <<value, blockOk, nbytes>>
    BY <1>5 DEF B!PutTest, B!Goto, B!getVars, B!retVars
  <2> HIDE DEF B!RingAssumption
  <2>2. B!Putting' = B!Putting /\ B!Answer' = B!Answer /\ B!Getting' = B!Getting
    BY <1>0, <2>1 DEF Types, B!Putting, B!Answer, B!Getting, B!Pending
  <2> QED BY <1>0, <1>1, <2>2 DEF B!Fifo!fvars
<1> QED BY <1>4, <1>5

(* A byte that is copied is not stored yet.                                *)
LEMMA PutCopyRefines ==
    ASSUME B!RingAssumption, BInv, NEW t \in Writers, B!PutCopy(t)
    PROVE  UNCHANGED B!Fifo!fvars
<1>1. /\ Types /\ blockPc[t] = "copy" /\ ncopied[t] \in Nat /\ ncopied[t] < Len(value[t])
      /\ Len(value[t]) \in Nat /\ B!UsedBytes + Len(value[t]) <= blockSize
      /\ bytes' = [bytes EXCEPT ![B!at(nextPut, ncopied[t])] = value[t][ncopied[t] + 1]]
      /\ UNCHANGED <<nextPut, nextGet, blockPc, value, nbytes, blockOk, got>>
  BY LenProperties DEF BInv, B!PutCopy, PutStable, Types, B!idxVars, B!getVars, B!retVars
<1>2. B!UsedBytes \in 0 .. B!size - 1 /\ B!at(nextGet, B!UsedBytes) = nextPut
  BY <1>1, BlockUsed DEF Types
<1>3. ASSUME NEW i \in 1 .. B!UsedBytes
      PROVE  bytes'[B!at(nextGet', i - 1)] = bytes[B!at(nextGet, i - 1)]
  <2>1. /\ B!UsedBytes + ncopied[t] \in 0 .. B!size - 1 /\ B!UsedBytes + ncopied[t] <= B!size - 1
        /\ ncopied[t] \in 0 .. B!size - 1 /\ i - 1 \in 0 .. B!size - 1
        /\ i - 1 # B!UsedBytes + ncopied[t]
    BY <1>1, <1>2
  <2>2. nextGet \in B!Slots
    BY <1>1 DEF Types
  <2> HIDE DEF B!size, B!Slots
  <2>3. B!at(nextPut, ncopied[t]) = B!at(nextGet, B!UsedBytes + ncopied[t])
    BY <1>2, <2>1, <2>2, AtApart
  <2>4. B!at(nextGet, i - 1) # B!at(nextGet, B!UsedBytes + ncopied[t])
    BY <2>1, <2>2, AtApart
  <2>5. B!at(nextGet, i - 1) \in B!Slots
    BY <2>1, <2>2, BlockHeld
  <2> QED BY <1>1, <2>3, <2>4, <2>5 DEF Types
<1>4. B!UsedBytes' = B!UsedBytes
  BY <1>1 DEF B!UsedBytes
<1>5. B!Content' = B!Content
  BY <1>3, <1>4, ContentSame
<1> QED BY <1>1, <1>5 DEF B!Fifo!fvars, B!Putting, B!Answer, B!Getting, B!Pending

(* The index makes the whole block part of the queue.                      *)
LEMMA PutIndexRefines ==
    ASSUME B!RingAssumption, BInv, BInv', NEW t \in Writers, B!PutIndex(t)
    PROVE  B!Fifo!Put(t)
<1> DEFINE d == value[t]
<1>1. /\ Types /\ blockPc[t] = "copy" /\ ncopied[t] = Len(d) /\ d \in Blocks /\ d \in Seq(Cells)
      /\ B!UsedBytes + Len(d) <= blockSize /\ Len(d) \in Nat /\ B!Put(t)
      /\ \A i \in 1 .. Len(d) : bytes[B!at(nextPut, i - 1)] = d[i]
      /\ blockPc'[t] = "mark" /\ nextPut' = B!at(nextPut, Len(d))
      /\ UNCHANGED <<nextGet, bytes, blockOk, got>>
  BY LenProperties DEF BInv, B!PutIndex, B!Put, PutStable, Types, B!Goto, B!retVars
<1>2. /\ B!UsedBytes \in 0 .. B!size - 1 /\ B!at(nextGet, B!UsedBytes) = nextPut
      /\ nextGet \in B!Slots /\ nextPut \in B!Slots
  BY <1>1, BlockUsed DEF Types
<1>3. B!UsedBytes' = B!UsedBytes + Len(d)
  BY <1>1, <1>2, UsedPut
<1>4. /\ B!Content \in Seq(Cells) /\ Len(B!Content) = B!UsedBytes
      /\ \A i \in 1 .. B!UsedBytes : B!Content[i] = bytes[B!at(nextGet, i - 1)]
  BY ContentType
<1>5. /\ B!Content' \in Seq(Cells) /\ Len(B!Content') = B!UsedBytes'
      /\ \A i \in 1 .. B!UsedBytes' : B!Content'[i] = bytes[B!at(nextGet, i - 1)]
  BY <1>1, ContentTypeAfter
<1> HIDE DEF d
<1>6. B!Content' = B!Content \o d
  <2>1. /\ B!Content \o d \in Seq(Cells) /\ Len(B!Content \o d) = B!UsedBytes + Len(d)
        /\ \A i \in 1 .. B!UsedBytes + Len(d) :
              (B!Content \o d)[i] = IF i <= B!UsedBytes THEN B!Content[i] ELSE d[i - B!UsedBytes]
    BY <1>1, <1>4, ConcatProperties, SMTT(60), ZenonT(60)
  <2>2. ASSUME NEW i \in 1 .. B!UsedBytes + Len(d) PROVE B!Content'[i] = (B!Content \o d)[i]
    <3>1. CASE i <= B!UsedBytes
      <4>1. i \in 1 .. B!UsedBytes
        BY <1>2, <3>1
      <4> QED BY <1>3, <1>4, <1>5, <2>1, <3>1, <4>1
    <3>2. CASE ~(i <= B!UsedBytes)
      <4>1. /\ i - B!UsedBytes \in 1 .. Len(d) /\ (i - B!UsedBytes) - 1 \in 0 .. B!size - 1
            /\ B!UsedBytes + ((i - B!UsedBytes) - 1) = i - 1 /\ i - 1 <= B!size - 1
        BY <1>1, <1>2, <3>2
      <4>2. B!at(nextPut, (i - B!UsedBytes) - 1) = B!at(nextGet, i - 1)
        <5> HIDE DEF B!size, B!Slots, B!RingAssumption
        <5>1. B!at(B!at(nextGet, B!UsedBytes), (i - B!UsedBytes) - 1)
                 = B!at(nextGet, B!UsedBytes + ((i - B!UsedBytes) - 1))
          BY <1>2, <4>1, AtApart
        <5> QED BY <1>2, <4>1, <5>1
      <4>3. d[i - B!UsedBytes] = bytes[B!at(nextGet, i - 1)]
        BY <1>1, <4>1, <4>2
      <4> QED BY <1>3, <1>5, <2>1, <3>2, <4>3
    <3> QED BY <3>1, <3>2
  <2> HIDE DEF B!RingAssumption
  <2> QED BY <1>3, <1>5, <2>1, <2>2, SameSeq
<1>7. B!Putting[t] = d /\ d # <<>>
  BY <1>1, BlockType DEF B!Putting, B!Pending, d
<1>8. /\ B!Putting' = [B!Putting EXCEPT ![t] = <<>>] /\ B!Answer' = [B!Answer EXCEPT ![t] = TRUE]
      /\ B!Getting' = B!Getting
  <2>1. blockOk' = [blockOk EXCEPT ![t] = blockOk'[t]]
    BY <1>1 DEF Types
  <2> QED BY <1>1, <2>1, PutView
<1> HIDE DEF B!RingAssumption
<1> QED BY <1>1, <1>4, <1>6, <1>7, <1>8 DEF B!Fifo!Put, B!Fifo!Return, B!Fifo!getVars

(* A get that finds nothing says so, and one that finds something goes on. *)
LEMMA GetTestRefines ==
    ASSUME B!RingAssumption, BInv, NEW t \in Readers, B!GetTest(t)
    PROVE  [B!Fifo!Empty(t)]_(B!Fifo!fvars)
<1>0. /\ Types /\ blockPc[t] = "test" /\ B!Get(t) /\ nbytes[t] \in Nat \ {0}
      /\ UNCHANGED <<nextPut, bytes, blockOk>>
  BY DEF BInv, B!GetTest, B!GetReturn, B!Get, GetStable, B!idxVars, B!retVars
<1>1. B!Getting[t] = nbytes[t]
  BY <1>0 DEF B!Getting, B!Pending
<1>2. /\ B!Fetched(nbytes[t]) = IF nbytes[t] < B!UsedBytes THEN nbytes[t] ELSE B!UsedBytes
      /\ B!UsedBytes \in Nat /\ Len(B!Content) = B!UsedBytes /\ B!Content \in Seq(Cells)
  BY <1>0, BlockUsed, ContentType DEF Types
<1>3. CASE B!Fetched(nbytes[t]) = 0 /\ B!GetReturn(t, <<>>) /\ UNCHANGED nextGet
  <2>1. blockPc'[t] = "idle" /\ got' = [got EXCEPT ![t] = <<>>]
    BY <1>0, <1>3 DEF B!GetReturn, B!Goto, Types
  <2>2. B!Getting' = [B!Getting EXCEPT ![t] = 0] /\ B!Putting' = B!Putting /\ B!Answer' = B!Answer
    BY <1>0, <2>1, GetView
  <2>3. B!UsedBytes = 0
    BY <1>0, <1>2, <1>3
  <2>4. B!Content = <<>>
    BY <1>2, <2>3, EmptySeq
  <2>5. B!Content' = B!Content
    BY <1>0, <1>3, ContentSame DEF B!UsedBytes
  <2> QED BY <1>0, <1>1, <2>1, <2>2, <2>4, <2>5 DEF B!Fifo!Empty, B!Fifo!putVars
<1>4. CASE ~(B!Fetched(nbytes[t]) = 0 /\ B!GetReturn(t, <<>>) /\ UNCHANGED nextGet)
  <2>1. blockPc' = [blockPc EXCEPT ![t] = "copy"] /\ UNCHANGED <<nextGet, value, blockOk, got, nbytes>>
    BY <1>4 DEF B!GetTest, B!Goto, B!idxVars, B!retVars
  <2>2. B!Content' = B!Content
    BY <1>0, <2>1, ContentSame DEF B!UsedBytes
  <2> HIDE DEF B!RingAssumption
  <2>3. B!Putting' = B!Putting /\ B!Answer' = B!Answer /\ B!Getting' = B!Getting
    BY <1>0, <2>1 DEF Types, B!Putting, B!Answer, B!Getting, B!Pending
  <2> QED BY <2>1, <2>2, <2>3 DEF B!Fifo!fvars
<1> QED BY <1>3, <1>4

(* The index takes what was copied from the queue.                         *)
LEMMA GetIndexRefines ==
    ASSUME B!RingAssumption, BInv, BInv', NEW t \in Readers, B!GetIndex(t)
    PROVE  \E n \in 1 .. Len(B!Content) : B!Fifo!Get(t, n)
<1> DEFINE n == count[t]
           r == SubSeq(B!Content, n + 1, Len(B!Content))
<1>1. /\ Types /\ blockPc[t] = "copy" /\ Len(value[t]) = n /\ value[t] \in Seq(Cells) /\ B!Get(t)
      /\ n \in 1 .. B!UsedBytes /\ n <= nbytes[t]
      /\ \A i \in 1 .. n : value[t][i] = bytes[B!at(nextGet, i - 1)]
      /\ blockPc'[t] = "idle" /\ nextGet' = B!at(nextGet, n) /\ got' = [got EXCEPT ![t] = value[t]]
      /\ UNCHANGED <<nextPut, bytes, blockOk>>
  BY SMTT(60), ZenonT(60) DEF BInv, B!GetIndex, B!GetReturn, B!Get, GetStable, Types, B!Goto
<1>2. /\ B!UsedBytes \in 0 .. B!size - 1 /\ B!UsedBytes \in Nat /\ n \in 0 .. B!UsedBytes
      /\ nextGet \in B!Slots /\ nextPut \in B!Slots
  BY <1>1, BlockUsed DEF Types
<1>3. B!UsedBytes' = B!UsedBytes - n
  BY <1>1, <1>2, UsedGet
<1>4. /\ B!Content \in Seq(Cells) /\ Len(B!Content) = B!UsedBytes
      /\ \A i \in 1 .. B!UsedBytes : B!Content[i] = bytes[B!at(nextGet, i - 1)]
  BY ContentType
<1>5. /\ B!Content' \in Seq(Cells) /\ Len(B!Content') = B!UsedBytes'
      /\ \A i \in 1 .. B!UsedBytes' : B!Content'[i] = bytes[B!at(nextGet', i - 1)]
  BY <1>1, ContentTypeAfter
<1> HIDE DEF n
<1>6. SubSeq(B!Content, 1, n) = value[t]
  <2>1. /\ SubSeq(B!Content, 1, n) \in Seq(Cells) /\ Len(SubSeq(B!Content, 1, n)) = n
        /\ \A i \in 1 .. n : SubSeq(B!Content, 1, n)[i] = B!Content[i]
    BY <1>1, <1>2, <1>4, SubSeqProperties
  <2>2. ASSUME NEW i \in 1 .. n PROVE SubSeq(B!Content, 1, n)[i] = value[t][i]
    <3>1. i \in 1 .. B!UsedBytes
      BY <1>2
    <3> HIDE DEF B!RingAssumption
    <3> QED BY <1>1, <1>4, <2>1, <3>1
  <2> HIDE DEF B!RingAssumption
  <2> QED BY <1>1, <2>1, <2>2, SameSeq
<1>7. B!Content' = r
  <2>1. /\ r \in Seq(Cells) /\ Len(r) = B!UsedBytes - n
        /\ \A i \in 1 .. B!UsedBytes - n : r[i] = B!Content[n + i]
    BY <1>1, <1>2, <1>4, SubSeqProperties
  <2>2. ASSUME NEW i \in 1 .. B!UsedBytes - n PROVE B!Content'[i] = r[i]
    <3>1. /\ n + i \in 1 .. B!UsedBytes /\ (n + i) - 1 = n + (i - 1) /\ n + (i - 1) <= B!size - 1
          /\ n \in 0 .. B!size - 1 /\ i - 1 \in 0 .. B!size - 1
      BY <1>1, <1>2
    <3>2. B!Content[n + i] = bytes[B!at(nextGet, n + (i - 1))]
      BY <1>4, <3>1
    <3>3. B!at(B!at(nextGet, n), i - 1) = B!at(nextGet, n + (i - 1))
      <4> HIDE DEF B!size, B!Slots, B!RingAssumption
      <4> QED BY <1>2, <3>1, AtApart
    <3> HIDE DEF B!RingAssumption, r
    <3> QED BY <1>1, <1>3, <1>5, <2>1, <3>2, <3>3
  <2> HIDE DEF B!RingAssumption, r
  <2> QED BY <1>3, <1>5, <2>1, <2>2, SameSeq
<1>8. B!Getting[t] = nbytes[t]
  BY <1>1 DEF B!Getting, B!Pending
<1>9. B!Getting' = [B!Getting EXCEPT ![t] = 0] /\ B!Putting' = B!Putting /\ B!Answer' = B!Answer
  BY <1>1, GetView
<1>10. n \in 1 .. Len(B!Content)
  BY <1>1, <1>4
<1> HIDE DEF B!RingAssumption
<1>11. B!Fifo!Get(t, n)
  BY <1>1, <1>6, <1>7, <1>8, <1>9 DEF B!Fifo!Get, B!Fifo!putVars
<1> QED BY <1>10, <1>11

(* Each step of the ring is a step of the queue, or none.                  *)
LEMMA BlockRingStep ==
    ASSUME B!RingAssumption, BInv, BInv', [B!Next]_(B!vars)
    PROVE  [B!Fifo!Next]_(B!Fifo!fvars)
<1>0. Types /\ nextPut \in B!Slots /\ nextGet \in B!Slots /\ Writers \cap Readers = {}
  BY DEF BInv, Types
<1>1. ASSUME NEW t \in Writers, NEW d \in Blocks, B!PutCall(t, d) PROVE B!Fifo!CallPut(t, d)
  <2>1. /\ blockPc[t] = "idle" /\ blockPc'[t] = "test" /\ value'[t] = d /\ blockOk[t] \in BOOLEAN
        /\ UNCHANGED <<nextPut, nextGet, bytes, blockOk, got>>
    BY <1>0, <1>1 DEF B!PutCall, B!Goto, Types, B!idxVars, B!retVars
  <2>2. blockOk' = [blockOk EXCEPT ![t] = blockOk'[t]]
    BY <1>0, <2>1 DEF Types
  <2>3. /\ B!Putting' = [B!Putting EXCEPT ![t] = d]
        /\ B!Answer' = [B!Answer EXCEPT ![t] = blockOk[t]]
        /\ B!Getting' = B!Getting
    BY <1>1, <2>1, <2>2, PutView
  <2>4. B!Putting[t] = <<>> /\ B!Answer[t] = blockOk[t]
    BY <2>1 DEF B!Putting, B!Answer, B!Pending
  <2>5. B!Answer' = B!Answer
    BY <2>3, <2>4 DEF B!Answer
  <2>6. B!Content' = B!Content
    BY <2>1, ContentSame DEF B!UsedBytes
  <2> HIDE DEF B!RingAssumption
  <2> QED BY <2>1, <2>3, <2>4, <2>5, <2>6 DEF B!Fifo!CallPut, B!Fifo!getVars
<1>2. ASSUME NEW t \in Writers, B!PutMark(t) PROVE UNCHANGED B!Fifo!fvars
  <2>1. /\ blockPc[t] = "mark" /\ blockPc'[t] = "idle"
        /\ blockOk' = [blockOk EXCEPT ![t] = TRUE] /\ blockOk'[t] = TRUE
        /\ UNCHANGED <<nextPut, nextGet, bytes, got>> /\ B!Put(t)
    BY <1>0, <1>2 DEF B!Put, B!PutMark, B!PutReturn, B!Goto, Types, B!idxVars
  <2>2. /\ B!Putting' = [B!Putting EXCEPT ![t] = <<>>] /\ B!Answer' = [B!Answer EXCEPT ![t] = TRUE]
        /\ B!Getting' = B!Getting
    BY <2>1, PutView
  <2>3. B!Putting[t] = <<>> /\ B!Answer[t] = TRUE
    BY <2>1 DEF B!Putting, B!Answer, B!Pending
  <2>4. B!Putting' = B!Putting /\ B!Answer' = B!Answer
    BY <2>2, <2>3, ZenonT(60) DEF B!Putting, B!Answer
  <2>5. B!Content' = B!Content
    BY <2>1, ContentSame DEF B!UsedBytes
  <2> QED BY <2>1, <2>2, <2>4, <2>5 DEF B!Fifo!fvars
<1>3. ASSUME NEW t \in Readers, NEW n \in Amounts, B!GetCall(t, n) PROVE B!Fifo!CallGet(t, n)
  <2>1. /\ blockPc[t] = "idle" /\ blockPc'[t] = "test" /\ nbytes'[t] = n
        /\ UNCHANGED <<nextPut, nextGet, bytes, blockOk, got>>
    BY <1>0, <1>3 DEF B!GetCall, B!Goto, Types, B!idxVars, B!retVars
  <2>2. B!Getting' = [B!Getting EXCEPT ![t] = n] /\ B!Putting' = B!Putting /\ B!Answer' = B!Answer
    BY <1>3, <2>1, GetView
  <2>3. B!Getting[t] = 0
    BY <2>1 DEF B!Getting, B!Pending
  <2>4. B!Content' = B!Content
    BY <2>1, ContentSame DEF B!UsedBytes
  <2> QED BY <2>1, <2>2, <2>3, <2>4 DEF B!Fifo!CallGet, B!Fifo!putVars
<1>4. ASSUME NEW t \in Readers, B!GetCopy(t) PROVE UNCHANGED B!Fifo!fvars
  <2>1. /\ blockPc[t] = "copy" /\ blockPc' = blockPc /\ B!Get(t) /\ nbytes' = nbytes
        /\ UNCHANGED <<nextPut, nextGet, bytes, blockOk, got>>
    BY <1>4 DEF B!GetCopy, B!Get, B!idxVars, B!getVars, B!retVars
  <2>2. /\ B!Getting' = [B!Getting EXCEPT ![t] = nbytes[t]] /\ B!Putting' = B!Putting
        /\ B!Answer' = B!Answer
    BY <2>1, GetView
  <2>3. B!Getting[t] = nbytes[t]
    BY <2>1 DEF B!Getting, B!Pending
  <2>4. B!Getting' = B!Getting
    BY <2>2, <2>3 DEF B!Getting
  <2>5. B!Content' = B!Content
    BY <2>1, ContentSame DEF B!UsedBytes
  <2> QED BY <2>1, <2>2, <2>4, <2>5 DEF B!Fifo!fvars
<1>5. CASE B!Flush
  <2>1. nextGet' = nextPut /\ UNCHANGED <<nextPut, blockPc, value, nbytes, blockOk, got>>
    BY <1>5 DEF B!Flush, B!copyVars, B!getVars, B!retVars
  <2>2. B!UsedBytes' = 0
    BY <1>0, <2>1 DEF B!UsedBytes, B!held, B!wrap
  <2>3. B!Content' = <<>>
    BY <2>2, ContentTypeAfter, EmptySeq
  <2>4. B!Fifo!Flush
    BY <2>1, <2>3 DEF B!Fifo!Flush, B!Fifo!putVars, B!Fifo!getVars, B!Putting, B!Answer, B!Getting,
                      B!Pending
  <2> QED BY <2>4 DEF B!Fifo!Next
<1>6. ASSUME UNCHANGED <<nextPut, nextGet, bytes, blockPc, value, nbytes, blockOk, got>>
      PROVE  UNCHANGED B!Fifo!fvars
  <2>1. B!Content' = B!Content
    BY <1>6, ContentSame DEF B!UsedBytes
  <2> QED BY <1>6, <2>1 DEF B!Fifo!fvars, B!Putting, B!Answer, B!Getting, B!Pending
<1>7. CASE B!Reset \/ UNCHANGED B!vars
  BY <1>6, <1>7 DEF B!Reset, B!vars, B!idxVars, B!copyVars, B!getVars, B!retVars
<1>8. ASSUME NEW t \in Writers, B!Put(t) PROVE [B!Fifo!Next]_(B!Fifo!fvars)
  BY <1>2, <1>8, PutTestRefines, PutCopyRefines, PutIndexRefines DEF B!Put, B!Fifo!Next
<1>9. ASSUME NEW t \in Readers, B!Get(t) PROVE [B!Fifo!Next]_(B!Fifo!fvars)
  BY <1>4, <1>9, GetTestRefines, GetIndexRefines DEF B!Get, B!Fifo!Next
<1>10. ASSUME NEW t \in Writers, NEW d \in Blocks, B!PutCall(t, d) PROVE B!Fifo!Next
  BY <1>1, <1>10 DEF B!Fifo!Next
<1>11. ASSUME NEW t \in Readers, NEW n \in Amounts, B!GetCall(t, n) PROVE B!Fifo!Next
  BY <1>3, <1>11 DEF B!Fifo!Next
<1> QED BY <1>5, <1>7, <1>8, <1>9, <1>10, <1>11 DEF B!Next

(* epicsRingBytes is the queue of Fifo, for every size, any blocks and     *)
(* amounts, any number of threads with the spin lock and one of each side  *)
(* without it: a block goes in whole or not at all, though it is copied    *)
(* byte by byte beside the other side.                                     *)
THEOREM BlocksImplementFifo ==
    ASSUME B!RingAssumption
    PROVE  B!Spec => BytesImplementFifo
<1>1. B!Init => BInv
  BY InvInit
<1>2. BInv /\ [B!Next]_(B!vars) => BInv'
  BY InvStep
<1>3. B!Init => B!Fifo!Init
  <2> SUFFICES ASSUME B!Init PROVE B!Fifo!Init
    OBVIOUS
  <2>1. B!UsedBytes = 0
    BY DEF B!Init, B!UsedBytes, B!held, B!wrap
  <2>2. B!Content = <<>>
    BY <1>1, <2>1, ContentType, EmptySeq
  <2> QED BY <2>2 DEF B!Init, B!Fifo!Init, B!Putting, B!Answer, B!Getting, B!Pending
<1>4. BInv /\ BInv' /\ [B!Next]_(B!vars) => [B!Fifo!Next]_(B!Fifo!fvars)
  BY BlockRingStep
<1> QED BY <1>1, <1>2, <1>3, <1>4, PTL DEF B!Spec, BytesImplementFifo, B!BytesImplementFifo, B!Fifo!Spec
=============================================================================
