--------------------------- MODULE ScanListProofs ---------------------------
(***************************************************************************)
(* Theorems about ScanList, for every set of records, lists, phases and    *)
(* threads.  Inv relates the lists to the fields and the locks: it needs   *)
(* that a record is on no list while a thread writes its fields, and that  *)
(* this thread holds its lock set.  CursorFresh is what the flag modified  *)
(* means to scanList; it is invariant when no two threads scan one list.   *)
(* HistoryOK says, on top of both, that each of pse, prev and next either  *)
(* has left the list or parts the records processed from the others.       *)
(***************************************************************************)
EXTENDS ScanList, SequenceTheorems, FiniteSetTheorems, TLAPS

(* RemoveAt on a sequence of records: length and elements.                 *)
LEMMA Removed ==
    ASSUME NEW q \in Seq(Records), NEW i \in 1 .. Len(q)
    PROVE  /\ RemoveAt(q, i) \in Seq(Records)
           /\ Len(RemoveAt(q, i)) = Len(q) - 1
           /\ \A j \in 1 .. Len(q) - 1 :
                RemoveAt(q, i)[j] = IF j < i THEN q[j] ELSE q[j + 1]
<1> DEFINE u == SubSeq(q, 1, i - 1)
           v == SubSeq(q, i + 1, Len(q))
<1>1. /\ u \in Seq(Records) /\ Len(u) = i - 1
      /\ \A j \in 1 .. i - 1 : u[j] = q[j]
  BY SubSeqProperties
<1>2. /\ v \in Seq(Records) /\ Len(v) = Len(q) - i
      /\ \A j \in 1 .. Len(q) - i : v[j] = q[i + j]
  BY SubSeqProperties
<1>3. RemoveAt(q, i) = u \o v
  BY DEF RemoveAt
<1> HIDE DEF u, v
<1>3a. i \in Nat /\ Len(q) \in Nat /\ Len(u) + Len(v) = Len(q) - 1
  BY <1>1, <1>2, LenProperties
<1>4. /\ u \o v \in Seq(Records) /\ Len(u \o v) = Len(q) - 1
      /\ \A j \in 1 .. Len(u) + Len(v) :
            (u \o v)[j] = IF j <= Len(u) THEN u[j] ELSE v[j - Len(u)]
  BY <1>1, <1>2, <1>3a, ConcatProperties
<1>5. ASSUME NEW j \in 1 .. Len(q) - 1
      PROVE  (u \o v)[j] = IF j < i THEN q[j] ELSE q[j + 1]
  <2>1. CASE j < i
    BY <1>1, <1>3a, <1>4, <2>1
  <2>2. CASE ~(j < i)
    <3>1. j - (i - 1) \in 1 .. Len(q) - i
      BY <2>2
    <3>2. v[j - (i - 1)] = q[j + 1]
      BY <1>2, <3>1
    <3>3. (u \o v)[j] = v[j - (i - 1)]
      BY <1>1, <1>3a, <1>4, <2>2
    <3> QED BY <2>2, <3>2, <3>3
  <2> QED BY <2>1, <2>2
<1> QED BY <1>3, <1>4, <1>5

(* InsertAt on a sequence of records: length and elements.                 *)
LEMMA Inserted ==
    ASSUME NEW q \in Seq(Records), NEW i \in 1 .. Len(q) + 1, NEW e \in Records
    PROVE  /\ InsertAt(q, i, e) \in Seq(Records)
           /\ Len(InsertAt(q, i, e)) = Len(q) + 1
           /\ \A j \in 1 .. Len(q) + 1 :
                InsertAt(q, i, e)[j] = IF j < i THEN q[j]
                                       ELSE IF j = i THEN e ELSE q[j - 1]
<1> DEFINE u == SubSeq(q, 1, i - 1)
           v == SubSeq(q, i, Len(q))
           w == u \o <<e>>
<1>1. /\ u \in Seq(Records) /\ Len(u) = i - 1
      /\ \A j \in 1 .. i - 1 : u[j] = q[j]
  BY SubSeqProperties
<1>2. /\ v \in Seq(Records) /\ Len(v) = Len(q) - i + 1
      /\ \A j \in 1 .. Len(q) - i + 1 : v[j] = q[i - 1 + j]
  BY SubSeqProperties
<1>3. InsertAt(q, i, e) = w \o v
  BY DEF InsertAt
<1>4. <<e>> \in Seq(Records) /\ Len(<<e>>) = 1 /\ <<e>>[1] = e
  OBVIOUS
<1> HIDE DEF u, v
<1>5. /\ w \in Seq(Records) /\ Len(w) = i
      /\ \A j \in 1 .. i : w[j] = IF j < i THEN q[j] ELSE e
  BY <1>1, <1>4, ConcatProperties
<1> HIDE DEF w
<1>6. /\ w \o v \in Seq(Records) /\ Len(w \o v) = Len(q) + 1
      /\ \A j \in 1 .. Len(q) + 1 : (w \o v)[j] = IF j <= i THEN w[j] ELSE v[j - i]
  BY <1>2, <1>5, ConcatProperties
<1>7. ASSUME NEW j \in 1 .. Len(q) + 1
      PROVE  (w \o v)[j] = IF j < i THEN q[j] ELSE IF j = i THEN e ELSE q[j - 1]
  <2>1. CASE j <= i
    BY <1>5, <1>6, <2>1
  <2>2. CASE ~(j <= i)
    <3>1. j - i \in 1 .. Len(q) - i + 1
      BY <2>2
    <3>2. v[j - i] = q[j - 1]
      BY <1>2, <3>1
    <3>3. (w \o v)[j] = v[j - i]
      BY <1>6, <2>2
    <3>4. ~(j < i) /\ j # i
      BY <2>2
    <3> QED BY <3>2, <3>3, <3>4
  <2> QED BY <2>1, <2>2
<1> QED BY <1>3, <1>6, <1>7

-----------------------------------------------------------------------------
(* A list apart from the state: its elements, its order by a phase f.      *)
Items(q) == {q[i] : i \in 1 .. Len(q)}

Ordered(q, f) == \A i, j \in 1 .. Len(q) : i < j => q[i] # q[j] /\ f[q[i]] <= f[q[j]]

(* Deleting an element takes it, and nothing else, from an ordered list.   *)
LEMMA RemovedItems ==
    ASSUME NEW q \in Seq(Records), NEW i \in 1 .. Len(q), NEW f, Ordered(q, f)
    PROVE  /\ Items(RemoveAt(q, i)) = Items(q) \ {q[i]}
           /\ Ordered(RemoveAt(q, i), f)
<1> DEFINE u == RemoveAt(q, i)
<1>1. /\ Len(q) \in Nat /\ Len(u) = Len(q) - 1
      /\ \A j \in 1 .. Len(q) - 1 : u[j] = IF j < i THEN q[j] ELSE q[j + 1]
  BY Removed, LenProperties
<1> HIDE DEF u
<1>2. Items(u) \subseteq Items(q) \ {q[i]}
  <2> SUFFICES ASSUME NEW j \in 1 .. Len(u)
               PROVE  u[j] \in Items(q) /\ u[j] # q[i]
    BY DEF Items
  <2>1. CASE j < i
    BY <1>1, <2>1 DEF Items, Ordered
  <2>2. CASE ~(j < i)
    <3>1. u[j] = q[j + 1] /\ j + 1 \in 1 .. Len(q) /\ i < j + 1
      BY <1>1, <2>2
    <3> QED BY <3>1 DEF Items, Ordered
  <2> QED BY <2>1, <2>2
<1>3. Items(q) \ {q[i]} \subseteq Items(u)
  <2> SUFFICES ASSUME NEW j \in 1 .. Len(q), j # i
               PROVE  q[j] \in Items(u)
    BY DEF Items
  <2>1. CASE j < i
    <3>1. j \in 1 .. Len(u) /\ u[j] = q[j]
      BY <1>1, <2>1
    <3> QED BY <3>1 DEF Items
  <2>2. CASE j > i
    <3>1. j - 1 \in 1 .. Len(u) /\ u[j - 1] = q[j]
      BY <1>1, <2>2
    <3> QED BY <3>1 DEF Items
  <2> QED BY <2>1, <2>2
<1>4. ASSUME NEW j \in 1 .. Len(u), NEW m \in 1 .. Len(u), j < m
      PROVE  u[j] # u[m] /\ f[u[j]] <= f[u[m]]
  <2> DEFINE a == IF j < i THEN j ELSE j + 1
             b == IF m < i THEN m ELSE m + 1
  <2>1. a \in 1 .. Len(q) /\ b \in 1 .. Len(q) /\ a < b
    BY <1>1, <1>4
  <2>2. u[j] = q[a] /\ u[m] = q[b]
    BY <1>1
  <2> HIDE DEF a, b
  <2> QED BY <2>1, <2>2 DEF Ordered
<1> QED BY <1>2, <1>3, <1>4 DEF Ordered, u

(* Inserting an element behind the last one of no higher phase keeps the   *)
(* list in order.                                                          *)
LEMMA InsertedItems ==
    ASSUME NEW q \in Seq(Records), NEW r \in Records, r \notin Items(q),
           NEW f \in [Records -> Nat], NEW ph \in Nat, Ordered(q, f),
           NEW p \in 1 .. Len(q) + 1,
           \A n \in 1 .. Len(q) : f[q[n]] <= ph => n < p,
           p > 1 => f[q[p - 1]] <= ph
    PROVE  /\ Items(InsertAt(q, p, r)) = Items(q) \cup {r}
           /\ Ordered(InsertAt(q, p, r), [f EXCEPT ![r] = ph])
<1> DEFINE g == [f EXCEPT ![r] = ph]
<1>0a. \A x \in Items(q) : g[x] = f[x] /\ f[x] \in Nat
  <2>1. Items(q) \subseteq Records
    BY DEF Items
  <2> QED BY <2>1
<1>0b. g[r] = ph /\ g[r] \in Nat
  OBVIOUS
<1> HIDE DEF g
<1> DEFINE u == InsertAt(q, p, r)
           i == p - 1
<1>0. Len(q) \in Nat /\ i \in 0 .. Len(q) /\ i + 1 \in 1 .. Len(q) + 1 /\ p = i + 1
  BY LenProperties
<1>1. /\ Len(u) = Len(q) + 1
      /\ \A j \in 1 .. Len(q) + 1 :
           u[j] = IF j < i + 1 THEN q[j] ELSE IF j = i + 1 THEN r ELSE q[j - 1]
  <2>1. /\ Len(u) = Len(q) + 1
        /\ \A j \in 1 .. Len(q) + 1 :
             u[j] = IF j < p THEN q[j] ELSE IF j = p THEN r ELSE q[j - 1]
    <3>1. /\ Len(InsertAt(q, p, r)) = Len(q) + 1
          /\ \A j \in 1 .. Len(q) + 1 :
               InsertAt(q, p, r)[j] = IF j < p THEN q[j] ELSE IF j = p THEN r ELSE q[j - 1]
      BY Inserted, ZenonT(30)
    <3> QED BY <3>1
  <2> HIDE DEF u, i
  <2> QED BY <1>0, <2>1
<1>1a. /\ i > 0 => f[q[i]] <= g[r]
       /\ \A n \in 1 .. Len(q) : f[q[n]] <= g[r] => n <= i
  BY <1>0, <1>0b
<1> HIDE DEF i
<1> HIDE DEF u
<1>2. Items(u) \subseteq Items(q) \cup {r}
  <2> SUFFICES ASSUME NEW j \in 1 .. Len(u)
               PROVE  u[j] \in Items(q) \cup {r}
    BY DEF Items
  <2>1. CASE j < i + 1
    BY <1>0, <1>1, <2>1 DEF Items
  <2>2. CASE j = i + 1
    BY <1>0, <1>1, <2>2 DEF Items
  <2>3. CASE j > i + 1
    <3>1. u[j] = q[j - 1] /\ j - 1 \in 1 .. Len(q)
      BY <1>0, <1>1, <2>3
    <3> QED BY <3>1 DEF Items
  <2> QED BY <1>0, <2>1, <2>2, <2>3
<1>3. Items(q) \subseteq Items(u)
  <2> SUFFICES ASSUME NEW j \in 1 .. Len(q)
               PROVE  q[j] \in Items(u)
    BY DEF Items
  <2>1. CASE j < i + 1
    <3>1. j \in 1 .. Len(u) /\ u[j] = q[j]
      BY <1>0, <1>1, <2>1
    <3> QED BY <3>1 DEF Items
  <2>2. CASE j >= i + 1
    <3>1. j + 1 \in 1 .. Len(u) /\ u[j + 1] = q[j]
      BY <1>0, <1>1, <2>2
    <3> QED BY <3>1 DEF Items
  <2> QED BY <1>0, <2>1, <2>2
<1>4. r \in Items(u)
  <2>1. i + 1 \in 1 .. Len(u) /\ u[i + 1] = r
    BY <1>0, <1>1
  <2> QED BY <2>1 DEF Items
<1>5. \A n \in 1 .. Len(q) : /\ q[n] # r /\ g[q[n]] = f[q[n]] /\ f[q[n]] \in Nat
                             /\ n <= i => f[q[n]] <= g[r]
                             /\ n > i => g[r] <= f[q[n]]
  <2> TAKE n \in 1 .. Len(q)
  <2>1. q[n] # r /\ g[q[n]] = f[q[n]] /\ f[q[n]] \in Nat
    BY <1>0a DEF Items
  <2>2. CASE n <= i
    <3>1. i \in 1 .. Len(q) /\ f[q[i]] <= g[r] /\ f[q[i]] \in Nat
      BY <1>0, <1>0a, <1>1a, <2>2 DEF Items
    <3>2. f[q[n]] <= f[q[i]]
      <4>1. CASE n = i
        BY <2>1, <4>1
      <4>2. CASE n < i
        BY <3>1, <4>2 DEF Ordered
      <4> QED BY <1>0, <2>2, <4>1, <4>2
    <3> QED BY <1>0, <1>0b, <2>1, <2>2, <3>1, <3>2, SMTT(30)
  <2>3. CASE n > i
    <3>1. ~(f[q[n]] <= g[r])
      BY <1>0, <1>0b, <1>1a, <2>3
    <3> QED BY <1>0, <1>0b, <2>1, <2>3, <3>1
  <2> QED BY <1>0, <2>2, <2>3
<1>6. ASSUME NEW j \in 1 .. Len(u), NEW m \in 1 .. Len(u), j < m
      PROVE  u[j] # u[m] /\ g[u[j]] <= g[u[m]]
  <2>1. CASE j = i + 1
    <3>0. m > i + 1 /\ ~(m < i + 1) /\ m # i + 1
      BY <1>0, <1>6, <2>1
    <3>1. u[j] = r /\ u[m] = q[m - 1] /\ m - 1 \in 1 .. Len(q) /\ m - 1 > i
      BY <1>0, <1>1, <2>1, <3>0
    <3> QED BY <1>5, <3>1
  <2>2. CASE m = i + 1
    <3>1. u[m] = r /\ u[j] = q[j] /\ j \in 1 .. Len(q) /\ j <= i
      BY <1>0, <1>1, <1>6, <2>2
    <3> QED BY <1>5, <3>1
  <2>3. CASE j # i + 1 /\ m # i + 1
    <3> DEFINE x == IF j < i + 1 THEN j ELSE j - 1
               y == IF m < i + 1 THEN m ELSE m - 1
    <3>1. x \in 1 .. Len(q) /\ y \in 1 .. Len(q) /\ x < y
      BY <1>0, <1>1, <1>6, <2>3
    <3>2. u[j] = q[x] /\ u[m] = q[y]
      BY <1>0, <1>1, <2>3
    <3> HIDE DEF x, y
    <3>3. q[x] # q[y] /\ f[q[x]] <= f[q[y]]
      BY <3>1 DEF Ordered
    <3> QED BY <1>5, <3>1, <3>2, <3>3
  <2> QED BY <2>1, <2>2, <2>3
<1> QED BY <1>2, <1>3, <1>4, <1>6 DEF Ordered, u, g

-----------------------------------------------------------------------------
(* The pointers of an element that is on a list.                           *)
LEMMA AtOnList ==
    ASSUME ListTypes, ListIntact, NEW l \in Lists, NEW i
    PROVE  /\ At(l, i) \in Records \cup {None}
           /\ At(l, i) # None => pscan_list[At(l, i)] = l
<1>1. CASE i \in 1 .. Len(list[l])
  <2>1. At(l, i) = list[l][i] /\ At(l, i) \in Elements(l)
    BY <1>1 DEF At, Elements
  <2> QED BY <2>1 DEF ListIntact
<1>2. CASE i \notin 1 .. Len(list[l])
  BY <1>2 DEF At
<1> QED BY <1>1, <1>2

(* ellNext stays on the list of an element that is on one.                 *)
LEMMA NextOnList ==
    ASSUME ListTypes, ListIntact, NEW r \in Records
    PROVE  /\ ellNext(r) \in Records \cup {None}
           /\ pscan_list[r] # None /\ ellNext(r) # None =>
                pscan_list[ellNext(r)] = pscan_list[r]
<1>1. CASE pscan_list[r] = None
  BY <1>1 DEF ellNext, ListTypes
<1>2. CASE pscan_list[r] # None
  <2>1. pscan_list[r] \in Lists
    BY <1>2 DEF ListTypes
  <2>2. ellNext(r) = At(pscan_list[r], Position(pscan_list[r], r) + 1)
    BY <1>2 DEF ellNext
  <2> QED BY <2>1, <2>2, AtOnList
<1> QED BY <1>1, <1>2

(* ellPrevious of an element on a list is an element or none.              *)
LEMMA PreviousOnList ==
    ASSUME ListTypes, ListIntact, NEW r \in Records, pscan_list[r] # None
    PROVE  ellPrevious(r) \in Records \cup {None}
<1>1. pscan_list[r] \in Lists
  BY DEF ListTypes
<1> QED BY <1>1, AtOnList DEF ellPrevious

(* A record that is on a list has a position there.                        *)
LEMMA PositionOf ==
    ASSUME ListTypes, ListIntact, NEW r \in Records, NEW l \in Lists, pscan_list[r] = l
    PROVE  Position(l, r) \in 1 .. Len(list[l]) /\ list[l][Position(l, r)] = r
<1>1. r \in Elements(l)
  BY DEF ListIntact
<1>2. \E i \in 1 .. Len(list[l]) : list[l][i] = r
  BY <1>1 DEF Elements
<1> QED BY <1>2 DEF Position

-----------------------------------------------------------------------------
(* scanDelete takes a record off the list its fields name.                 *)
LEMMA DeleteStep ==
    ASSUME ListTypes, HistoryTypes, ListIntact, NEW r \in Records,
           pscan_list[r] = scan[r], scanDelete(r), UNCHANGED fields
    PROVE  /\ ListTypes' /\ HistoryTypes' /\ ListIntact'
           /\ pscan_list' = [pscan_list EXCEPT ![r] = None]
           /\ \A l \in Lists : ~modified'[l] => ~modified[l] /\ pscan_list[r] # l
<1> USE ScanListAssumption
<1>1. CASE scan[r] = None
  <2>1. UNCHANGED <<lists, history>>
    BY <1>1 DEF scanDelete
  <2>2. pscan_list' = [pscan_list EXCEPT ![r] = None]
    BY <1>1, <2>1 DEF lists, ListTypes
  <2>3. ListTypes' /\ HistoryTypes'
    BY <2>1 DEF lists, history, fields, ListTypes, HistoryTypes
  <2>4. ListIntact'
    BY <2>1 DEF lists, fields, ListIntact, Elements
  <2>5. \A l \in Lists : ~modified'[l] => ~modified[l] /\ pscan_list[r] # l
    BY <1>1, <2>1 DEF lists
  <2> QED BY <2>2, <2>3, <2>4, <2>5
<1>2. CASE scan[r] # None
  <2> DEFINE m == scan[r]
             i == Position(m, r)
  <2>1. m \in Lists /\ pscan_list[r] = m
    BY <1>2 DEF ListTypes
  <2>2. i \in 1 .. Len(list[m]) /\ list[m][i] = r
    BY <2>1, PositionOf
  <2>3. deleteFromList(r, m)
    BY <1>2 DEF scanDelete
  <2>4. /\ pscan_list' = [pscan_list EXCEPT ![r] = None]
        /\ list' = [list EXCEPT ![m] = RemoveAt(list[m], i)]
        /\ stale' = [stale EXCEPT ![r] = ellNext(r)]
        /\ modified' = [modified EXCEPT ![m] = TRUE]
        /\ Leaves(r, m)
        /\ scan' = scan /\ phas' = phas
    BY <2>1, <2>3 DEF deleteFromList, ellDelete, fields
  <2> HIDE DEF m, i
  <2>5. list[m] \in Seq(Records) /\ Ordered(list[m], phas) /\ Elements(m) = Items(list[m])
    BY <2>1 DEF ListTypes, ListIntact, Ordered, Elements, Items
  <2>6. /\ RemoveAt(list[m], i) \in Seq(Records)
        /\ Items(RemoveAt(list[m], i)) = Items(list[m]) \ {r}
        /\ Ordered(RemoveAt(list[m], i), phas)
    BY <2>2, <2>5, Removed, RemovedItems
  <2>7. ListTypes'
    BY <2>1, <2>4, <2>6, NextOnList DEF ListTypes
  <2>8. HistoryTypes'
    BY <2>4 DEF Leaves, HistoryTypes
  <2>9. ListIntact'
    <3> SUFFICES ASSUME NEW l \in Lists
                 PROVE  /\ Items(list'[l]) = {x \in Records : pscan_list'[x] = l}
                        /\ Ordered(list'[l], phas)
      BY <2>4 DEF ListIntact, Elements, Items, Ordered
    <3>1. Items(list[l]) = {x \in Records : pscan_list[x] = l} /\ Ordered(list[l], phas)
      BY DEF ListIntact, Elements, Items, Ordered
    <3>2. CASE l = m
      <4>1. list'[l] = RemoveAt(list[m], i)
        BY <2>1, <2>4, <3>2 DEF ListTypes
      <4> QED BY <2>1, <2>4, <2>6, <3>1, <3>2, <4>1 DEF ListTypes
    <3>3. CASE l # m
      <4>1. list'[l] = list[l]
        BY <2>4, <3>3 DEF ListTypes
      <4> QED BY <2>1, <2>4, <3>1, <3>3, <4>1 DEF ListTypes
    <3> QED BY <3>2, <3>3
  <2>10. \A l \in Lists : ~modified'[l] => ~modified[l] /\ pscan_list[r] # l
    BY <2>1, <2>4 DEF ListTypes
  <2> QED BY <2>4, <2>7, <2>8, <2>9, <2>10
<1> QED BY <1>1, <1>2

(* The place after the last element of no higher phase (addToList).        *)
LEMMA PlaceBound ==
    ASSUME NEW q \in Seq(Records), NEW f, NEW ph \in Nat, NEW i, NEW p, p = i + 1,
           i \in {n \in 1 .. Len(q) : f[q[n]] <= ph} \cup {0},
           \A j \in {n \in 1 .. Len(q) : f[q[n]] <= ph} \cup {0} : j <= i
    PROVE  /\ p \in 1 .. Len(q) + 1
           /\ p > 1 => f[q[p - 1]] <= ph
           /\ \A n \in 1 .. Len(q) : f[q[n]] <= ph => n < p
<1>1. Len(q) \in Nat
  BY LenProperties
<1>2. p - 1 = i /\ i \in 0 .. Len(q)
  BY <1>1
<1>3. p > 1 => f[q[i]] <= ph
  BY <1>1, <1>2
<1>4. \A n \in 1 .. Len(q) : f[q[n]] <= ph => n <= i
  OBVIOUS
<1> QED BY <1>1, <1>2, <1>3, <1>4

(* scanAdd puts a record that is on no list where its fields say.          *)
LEMMA AddStep ==
    ASSUME ListTypes, HistoryTypes, ListIntact, NEW r \in Records, pscan_list[r] = None,
           NEW l \in Lists \cup {None}, NEW ph \in Phases,
           scan' = [scan EXCEPT ![r] = l], phas' = [phas EXCEPT ![r] = ph],
           scanAdd(r, l, ph)
    PROVE  /\ ListTypes' /\ HistoryTypes' /\ ListIntact'
           /\ pscan_list' = [pscan_list EXCEPT ![r] = l]
           /\ \A x \in Lists : ~modified'[x] => ~modified[x]
<1> USE ScanListAssumption
<1>0. \A x \in Lists : /\ Items(list[x]) = {y \in Records : pscan_list[y] = x}
                        /\ r \notin Items(list[x])
                        /\ Ordered(list[x], phas)
  BY DEF ListIntact, Elements, Items, Ordered
<1>1. CASE l = None
  <2>1. UNCHANGED <<lists, history>>
    BY <1>1 DEF scanAdd
  <2>2. pscan_list' = [pscan_list EXCEPT ![r] = l]
    BY <1>1, <2>1 DEF lists, ListTypes
  <2>3. ListTypes' /\ HistoryTypes'
    BY <2>1 DEF lists, history, ListTypes, HistoryTypes
  <2>4. ListIntact'
    <3> SUFFICES ASSUME NEW x \in Lists
                 PROVE  Ordered(list[x], phas')
      BY <1>0, <2>1 DEF lists, ListIntact, Elements, Items, Ordered
    <3>1. \A i \in 1 .. Len(list[x]) : list[x][i] # r /\ list[x][i] \in Records
      BY <1>0 DEF Items, ListTypes
    <3> QED BY <1>0, <3>1 DEF Ordered, ListTypes
  <2>5. \A x \in Lists : ~modified'[x] => ~modified[x]
    BY <2>1 DEF lists
  <2> QED BY <2>2, <2>3, <2>4, <2>5
<1>2. CASE l # None
  <2>0. l \in Lists /\ addToList(r, l, ph)
    BY <1>2 DEF scanAdd
  <2>1. PICK i \in PlaceFor(l, ph) : /\ \A j \in PlaceFor(l, ph) : j <= i
                                     /\ ellInsert(l, i, r)
    BY <2>0 DEF addToList
  <2>2. /\ pscan_list' = [pscan_list EXCEPT ![r] = l]
        /\ list' = [list EXCEPT ![l] = InsertAt(list[l], i + 1, r)]
        /\ modified' = [modified EXCEPT ![l] = TRUE]
        /\ back' = [s \in Scanners |-> back[s] \/ (Scans[s] = l /\ r \in left[s])]
        /\ UNCHANGED <<stale, steady, left, seen>>
    BY <2>0, <2>1 DEF addToList, ellInsert
  <2>3. list[l] \in Seq(Records) /\ phas'[r] = ph /\ ph \in Nat
    BY <2>0 DEF ListTypes
  <2>4. i \in 0 .. Len(list[l]) /\ i + 1 \in 1 .. Len(list[l]) + 1
    BY <2>3, LenProperties DEF PlaceFor
  <2>5. PlaceFor(l, ph) = {n \in 1 .. Len(list[l]) : phas[list[l][n]] <= phas'[r]} \cup {0}
    BY <2>3 DEF PlaceFor
  <2>6. \A x \in Lists : \A y \in Items(list[x]) : phas'[y] = phas[y] /\ phas[y] \in Nat
    <3> TAKE x \in Lists
    <3> TAKE y \in Items(list[x])
    <3>1. y \in Records /\ y # r
      BY <1>0
    <3>2. phas[y] \in Phases
      BY <3>1 DEF ListTypes
    <3>3. phas'[y] = phas[y]
      BY <3>1 DEF ListTypes
    <3> QED BY <3>2, <3>3
  <2>7. /\ InsertAt(list[l], i + 1, r) \in Seq(Records)
        /\ Items(InsertAt(list[l], i + 1, r)) = Items(list[l]) \cup {r}
        /\ Ordered(InsertAt(list[l], i + 1, r), phas')
    <3> DEFINE q == list[l]
               g == [phas EXCEPT ![r] = ph]
               p == i + 1
    <3>1. InsertAt(q, p, r) \in Seq(Records)
      BY <2>3, <2>4, Inserted
    <3>2. q \in Seq(Records) /\ r \notin Items(q) /\ Ordered(q, phas)
      BY <1>0, <2>0, <2>3
    <3>4. g = phas' /\ phas \in [Records -> Nat] /\ ph \in Nat
      BY <2>3 DEF ListTypes
    <3>5. /\ i \in {n \in 1 .. Len(q) : phas[q[n]] <= ph} \cup {0}
          /\ \A j \in {n \in 1 .. Len(q) : phas[q[n]] <= ph} \cup {0} : j <= i
      BY <2>1 DEF PlaceFor
    <3>6. p = i + 1
      OBVIOUS
    <3> HIDE DEF q, g, p
    <3>7. /\ p \in 1 .. Len(q) + 1
          /\ p > 1 => phas[q[p - 1]] <= ph
          /\ \A n \in 1 .. Len(q) : phas[q[n]] <= ph => n < p
      BY <3>2, <3>4, <3>5, <3>6, PlaceBound
    <3>8. /\ Items(InsertAt(q, p, r)) = Items(q) \cup {r}
          /\ Ordered(InsertAt(q, p, r), [phas EXCEPT ![r] = ph])
      BY <3>2, <3>4, <3>7, InsertedItems
    <3> QED BY <3>1, <3>4, <3>8 DEF p, q, g
  <2>8. ListTypes'
    BY <2>0, <2>2, <2>7 DEF ListTypes
  <2>9. HistoryTypes'
    BY <2>2 DEF HistoryTypes
  <2>10. ListIntact'
    <3> SUFFICES ASSUME NEW x \in Lists
                 PROVE  /\ Items(list'[x]) = {y \in Records : pscan_list'[y] = x}
                        /\ Ordered(list'[x], phas')
      BY DEF ListIntact, Elements, Items, Ordered
    <3>2. CASE x = l
      <4>1. list'[x] = InsertAt(list[l], i + 1, r)
        BY <2>0, <2>2, <3>2 DEF ListTypes
      <4> QED BY <1>0, <2>0, <2>2, <2>7, <3>2, <4>1 DEF ListTypes
    <3>3. CASE x # l
      <4>1. list'[x] = list[x]
        BY <2>2, <3>3 DEF ListTypes
      <4>2. Items(list'[x]) = {y \in Records : pscan_list'[y] = x}
        BY <1>0, <2>2, <3>3, <4>1 DEF ListTypes
      <4>3. \A n \in 1 .. Len(list[x]) : list[x][n] \in Items(list[x])
        BY DEF Items
      <4>4. Ordered(list[x], phas')
        BY <1>0, <2>6, <4>3 DEF Ordered
      <4> QED BY <4>1, <4>2, <4>4
    <3> QED BY <3>2, <3>3
  <2>11. \A x \in Lists : ~modified'[x] => ~modified[x]
    BY <2>0, <2>2 DEF ListTypes
  <2> QED BY <2>2, <2>8, <2>9, <2>10, <2>11
<1> QED BY <1>1, <1>2

-----------------------------------------------------------------------------
(* A record's fields are written by one thread at a time: the one that     *)
(* holds its lock set.                                                     *)
LEMMA OneWriter ==
    ASSUME Inv, NEW r \in Records, NEW t \in Threads \cup {None}, Locked(t, r),
           NEW t2 \in Threads, changing[t2] = r
    PROVE  t2 = t /\ t # None
BY ScanListAssumption DEF Inv, LocksHeld, Locked, Threads

(* A scan field written from within the processing of a record.            *)
LEMMA NestedStep ==
    ASSUME Inv, NEW s \in Scanners, NEW r \in Records, BeginNested(s, r)
    PROVE  /\ Inv'
           /\ CursorFresh => CursorFresh'
<1> USE ScanListAssumption
<1>1. /\ pc[s] = "process" /\ Locked(s, r) /\ changing[s] = None
      /\ changing' = [changing EXCEPT ![s] = r]
      /\ scanDelete(r)
      /\ UNCHANGED <<fields, lock, cursor>>
  BY DEF BeginNested
<1>2. /\ ListTypes /\ HistoryTypes /\ ThreadTypes /\ ListIntact
      /\ FieldsName /\ LocksHeld /\ OffList /\ CursorSet
  BY DEF Inv, TypeOK
<1>3. \A t \in Threads : changing[t] # r
  BY <1>1, OneWriter DEF Threads
<1>4. pscan_list[r] = scan[r]
  BY <1>2, <1>3 DEF FieldsName
<1>5. /\ ListTypes' /\ HistoryTypes' /\ ListIntact'
      /\ pscan_list' = [pscan_list EXCEPT ![r] = None]
      /\ \A l \in Lists : ~modified'[l] => ~modified[l] /\ pscan_list[r] # l
  BY <1>1, <1>2, <1>4, DeleteStep
<1>6. s \in Threads
  BY DEF Threads
<1>7. ThreadTypes'
  BY <1>1, <1>2, <1>6 DEF ThreadTypes, cursor
<1>8. FieldsName'
  <2> SUFFICES ASSUME NEW x \in Records
               PROVE  scan'[x] = pscan_list'[x] \/ \E t \in Threads : changing'[t] = x
    BY DEF FieldsName
  <2>1. CASE x = r
    BY <1>1, <1>2, <1>6, <2>1 DEF ThreadTypes
  <2>2. CASE x # r
    <3>1. scan'[x] = scan[x] /\ pscan_list'[x] = pscan_list[x]
      BY <1>1, <1>2, <1>5, <2>2 DEF fields, ListTypes
    <3>2. \A t \in Threads : changing[t] = x => changing'[t] = x
      BY <1>1, <1>2 DEF ThreadTypes
    <3> QED BY <1>2, <3>1, <3>2 DEF FieldsName
  <2> QED BY <2>1, <2>2
<1>9. LocksHeld'
  BY <1>1, <1>2, <1>6 DEF LocksHeld, Locked, ThreadTypes, cursor
<1>10. OffList'
  BY <1>1, <1>2, <1>5, <1>6 DEF OffList, ThreadTypes, ListTypes
<1>11. CursorSet'
  BY <1>1, <1>2 DEF CursorSet, cursor
<1>12. CursorFresh => CursorFresh'
  BY <1>1, <1>2, <1>5 DEF CursorFresh, cursor, ThreadTypes, ListTypes
<1> QED BY <1>5, <1>7, <1>8, <1>9, <1>10, <1>11, <1>12 DEF Inv, TypeOK

(* A scan field written by another thread, until the record is off its     *)
(* list.                                                                   *)
LEMMA PutStep ==
    ASSUME Inv, NEW u \in Putters, NEW r \in Records, BeginPut(u, r)
    PROVE  /\ Inv'
           /\ CursorFresh => CursorFresh'
<1> USE ScanListAssumption
<1>1. /\ changing[u] = None /\ Locked(None, r)
      /\ lock' = [lock EXCEPT ![LockSet[r]] = u]
      /\ changing' = [changing EXCEPT ![u] = r]
      /\ scanDelete(r)
      /\ UNCHANGED <<fields, cursor>>
  BY DEF BeginPut
<1>2. /\ ListTypes /\ HistoryTypes /\ ThreadTypes /\ ListIntact
      /\ FieldsName /\ LocksHeld /\ OffList /\ CursorSet
  BY DEF Inv, TypeOK
<1>3. \A t \in Threads : changing[t] # r
  BY <1>1, OneWriter
<1>4. pscan_list[r] = scan[r]
  BY <1>2, <1>3 DEF FieldsName
<1>5. /\ ListTypes' /\ HistoryTypes' /\ ListIntact'
      /\ pscan_list' = [pscan_list EXCEPT ![r] = None]
      /\ \A l \in Lists : ~modified'[l] => ~modified[l] /\ pscan_list[r] # l
  BY <1>1, <1>2, <1>4, DeleteStep
<1>6. u \in Threads /\ LockSet[r] \in LockSets
  BY DEF Threads, LockSets
<1>7. ThreadTypes'
  BY <1>1, <1>2, <1>6 DEF ThreadTypes, cursor
<1>8. FieldsName'
  <2> SUFFICES ASSUME NEW x \in Records
               PROVE  scan'[x] = pscan_list'[x] \/ \E t \in Threads : changing'[t] = x
    BY DEF FieldsName
  <2>1. CASE x = r
    BY <1>1, <1>2, <1>6, <2>1 DEF ThreadTypes
  <2>2. CASE x # r
    <3>1. scan'[x] = scan[x] /\ pscan_list'[x] = pscan_list[x]
      BY <1>1, <1>2, <1>5, <2>2 DEF fields, ListTypes
    <3>2. \A t \in Threads : changing[t] = x => changing'[t] = x
      BY <1>1, <1>2 DEF ThreadTypes
    <3> QED BY <1>2, <3>1, <3>2 DEF FieldsName
  <2> QED BY <2>1, <2>2
<1>9. LocksHeld'
  <2>1. ASSUME NEW s \in Scanners, pc'[s] = "process"
        PROVE  Locked(s, pse[s])'
    BY <1>1, <1>2, <1>6, <2>1 DEF LocksHeld, Locked, ThreadTypes, Threads, LockSets, cursor
  <2>2. ASSUME NEW t \in Threads, changing'[t] # None
        PROVE  Locked(t, changing[t])'
    BY <1>1, <1>2, <1>6, <2>2 DEF LocksHeld, Locked, ThreadTypes, Threads, LockSets
  <2> QED BY <2>1, <2>2 DEF LocksHeld
<1>10. OffList'
  BY <1>1, <1>2, <1>5, <1>6 DEF OffList, ThreadTypes, ListTypes
<1>11. CursorSet'
  BY <1>1, <1>2 DEF CursorSet, cursor
<1>12. CursorFresh => CursorFresh'
  BY <1>1, <1>2, <1>5 DEF CursorFresh, cursor, ThreadTypes, ListTypes
<1> QED BY <1>5, <1>7, <1>8, <1>9, <1>10, <1>11, <1>12 DEF Inv, TypeOK

(* The field is written and the record is put on its new list.             *)
LEMMA EndStep ==
    ASSUME Inv, NEW t \in Threads, NEW l \in Lists \cup {None}, NEW ph \in Phases,
           EndChange(t, l, ph)
    PROVE  /\ Inv'
           /\ CursorFresh => CursorFresh'
<1> USE ScanListAssumption
<1> DEFINE r == changing[t]
<1>1. /\ r # None
      /\ scan' = [scan EXCEPT ![r] = l]
      /\ phas' = [phas EXCEPT ![r] = ph]
      /\ scanAdd(r, l, ph)
      /\ changing' = [changing EXCEPT ![t] = None]
      /\ lock' = IF t \in Putters THEN [lock EXCEPT ![LockSet[r]] = None] ELSE lock
      /\ UNCHANGED cursor
  BY DEF EndChange
<1>2. /\ ListTypes /\ HistoryTypes /\ ThreadTypes /\ ListIntact
      /\ FieldsName /\ LocksHeld /\ OffList /\ CursorSet
  BY DEF Inv, TypeOK
<1>3. r \in Records /\ Locked(t, r) /\ pscan_list[r] = None
  BY <1>1, <1>2 DEF ThreadTypes, LocksHeld, OffList
<1>4. \A x \in Threads : changing[x] = r => x = t
  BY <1>3, OneWriter
<1> HIDE DEF r
<1>5. /\ ListTypes' /\ HistoryTypes' /\ ListIntact'
      /\ pscan_list' = [pscan_list EXCEPT ![r] = l]
      /\ \A x \in Lists : ~modified'[x] => ~modified[x]
  BY <1>1, <1>2, <1>3, AddStep
<1>6. LockSet[r] \in LockSets
  BY <1>3 DEF LockSets
<1>7. ThreadTypes'
  BY <1>1, <1>2, <1>6 DEF ThreadTypes, cursor
<1>8. FieldsName'
  <2> SUFFICES ASSUME NEW x \in Records
               PROVE  scan'[x] = pscan_list'[x] \/ \E y \in Threads : changing'[y] = x
    BY DEF FieldsName
  <2>1. CASE x = r
    BY <1>1, <1>2, <1>5, <2>1 DEF ListTypes
  <2>2. CASE x # r
    <3>1. scan'[x] = scan[x] /\ pscan_list'[x] = pscan_list[x]
      BY <1>1, <1>2, <1>5, <2>2 DEF ListTypes
    <3>2. \A y \in Threads : changing[y] = x => changing'[y] = x
      BY <1>1, <1>2, <2>2 DEF ThreadTypes, r
    <3> QED BY <1>2, <3>1, <3>2 DEF FieldsName
  <2> QED BY <2>1, <2>2
<1>9. LocksHeld'
  <2>1. ASSUME NEW s \in Scanners, pc'[s] = "process"
        PROVE  Locked(s, pse[s])'
    <3>1. Locked(s, pse[s]) /\ pse[s] \in Records /\ pse'[s] = pse[s]
      BY <1>1, <1>2, <2>1 DEF LocksHeld, CursorSet, ThreadTypes, cursor
    <3>2. t \in Putters => LockSet[pse[s]] # LockSet[r]
      BY <1>3, <3>1 DEF Locked
    <3> QED BY <1>1, <1>2, <3>1, <3>2 DEF Locked, ThreadTypes, LockSets
  <2>2. ASSUME NEW x \in Threads, changing'[x] # None
        PROVE  Locked(x, changing[x])'
    <3>1. x # t /\ changing'[x] = changing[x] /\ changing[x] \in Records /\ Locked(x, changing[x])
      BY <1>1, <1>2, <2>2 DEF LocksHeld, ThreadTypes
    <3>2. LockSet[changing[x]] # LockSet[r]
      BY <1>3, <3>1 DEF Locked
    <3> QED BY <1>1, <1>2, <3>1, <3>2 DEF Locked, ThreadTypes, LockSets
  <2> QED BY <2>1, <2>2 DEF LocksHeld
<1>10. OffList'
  <2> SUFFICES ASSUME NEW x \in Threads, changing'[x] # None
               PROVE  pscan_list'[changing'[x]] = None
    BY DEF OffList
  <2>1. x # t /\ changing'[x] = changing[x] /\ changing[x] \in Records
    BY <1>1, <1>2 DEF ThreadTypes
  <2>2. changing[x] # r
    BY <1>4, <2>1
  <2> QED BY <1>2, <1>5, <2>1, <2>2 DEF OffList, ListTypes
<1>11. CursorSet'
  BY <1>1, <1>2 DEF CursorSet, cursor
<1>12. CursorFresh => CursorFresh'
  <2> SUFFICES ASSUME CursorFresh, NEW s \in Scanners, pc'[s] # "idle", ~modified'[Scans[s]]
               PROVE  pscan_list'[pse'[s]] = Scans[s]
    BY DEF CursorFresh
  <2>1. pse'[s] = pse[s] /\ pse[s] \in Records /\ pscan_list[pse[s]] = Scans[s]
    BY <1>1, <1>2, <1>5 DEF CursorFresh, CursorSet, ThreadTypes, cursor
  <2>2. pse[s] # r
    BY <1>3, <2>1
  <2> QED BY <1>2, <1>5, <2>1, <2>2 DEF ListTypes
<1> QED BY <1>5, <1>7, <1>8, <1>9, <1>10, <1>11, <1>12 DEF Inv, TypeOK

-----------------------------------------------------------------------------
(* The steps of scanList change no list, only the flag of the scanner's.   *)
LEMMA CursorStep ==
    ASSUME Inv, NEW s \in Scanners,
           NEW e \in Records \cup {None}, NEW p \in Records \cup {None},
           NEW n \in Records \cup {None},
           NEW q \in {"idle", "lock", "step"}, q # "idle" => e # None,
           Moved(s, e, p, n), pc' = [pc EXCEPT ![s] = q],
           modified' \in [Lists -> BOOLEAN], HistoryTypes',
           UNCHANGED <<list, stale, pscan_list, fields, lock, changing>>
    PROVE  Inv'
<1>1. /\ ListTypes /\ ThreadTypes /\ ListIntact
      /\ FieldsName /\ LocksHeld /\ OffList /\ CursorSet
  BY DEF Inv, TypeOK
<1>2. ListTypes' /\ ThreadTypes'
  BY <1>1 DEF ListTypes, ThreadTypes, Moved, fields
<1>3. ListIntact'
  BY <1>1 DEF ListIntact, Elements, fields
<1>4. FieldsName' /\ OffList'
  BY <1>1 DEF FieldsName, OffList, fields
<1>5. LocksHeld'
  BY <1>1 DEF LocksHeld, Locked, ThreadTypes, Moved
<1>6. CursorSet'
  BY <1>1 DEF CursorSet, ThreadTypes, Moved
<1> QED BY <1>2, <1>3, <1>4, <1>5, <1>6 DEF Inv, TypeOK

(* The scan goes on with an element of its list, or ends.                  *)
LEMMA ContinueStep ==
    ASSUME Inv, NEW s \in Scanners,
           NEW e \in Records \cup {None}, NEW p \in Records \cup {None},
           NEW n, e # None => n \in Records \cup {None},
           Continue(s, e, p, n), modified' \in [Lists -> BOOLEAN],
           UNCHANGED <<list, stale, pscan_list, fields, lock, changing>>
    PROVE  /\ Inv'
           /\ pc' = [pc EXCEPT ![s] = IF e = None THEN "idle" ELSE "lock"]
           /\ pse' = [pse EXCEPT ![s] = e]
<1> DEFINE q == IF e = None THEN "idle" ELSE "lock"
           m == IF e = None THEN None ELSE n
           b == IF e = None THEN None ELSE p
<1>1. pc' = [pc EXCEPT ![s] = q] /\ Moved(s, e, b, m)
  BY DEF Continue
<1>2. HistoryTypes'
  BY DEF Continue, Forget, history, HistoryTypes, Inv, TypeOK
<1>3. /\ q \in {"idle", "lock", "step"} /\ (q # "idle" => e # None)
      /\ b \in Records \cup {None} /\ m \in Records \cup {None}
  OBVIOUS
<1>4. pse' = [pse EXCEPT ![s] = e]
  BY <1>1 DEF Moved
<1>5. pc' = [pc EXCEPT ![s] = IF e = None THEN "idle" ELSE "lock"]
  BY <1>1
<1> HIDE DEF q, m, b
<1>6. Inv'
  BY <1>1, <1>2, <1>3, CursorStep
<1> QED BY <1>4, <1>5, <1>6

(* With one scanner to a list, a scanner that clears the flag of its list  *)
(* leaves those of the others alone.                                       *)
OneScanner == \A s1, s2 \in Scanners : Scans[s1] = Scans[s2] => s1 = s2

(* A scanner that clears the flag and comes to an element of its list.     *)
LEMMA FreshAfter ==
    ASSUME Inv, CursorFresh, OneScanner, NEW s \in Scanners,
           NEW e \in Records \cup {None},
           e # None => pscan_list[e] = Scans[s],
           NEW q, pc' = [pc EXCEPT ![s] = q], q # "idle" => e # None,
           pse' = [pse EXCEPT ![s] = e],
           modified' = [modified EXCEPT ![Scans[s]] = FALSE],
           UNCHANGED pscan_list
    PROVE  CursorFresh'
<1> USE ScanListAssumption
<1>1. ThreadTypes /\ ListTypes
  BY DEF Inv, TypeOK
<1> SUFFICES ASSUME NEW x \in Scanners, pc'[x] # "idle", ~modified'[Scans[x]]
             PROVE  pscan_list[pse'[x]] = Scans[x]
  BY DEF CursorFresh
<1>2. CASE x = s
  BY <1>1, <1>2 DEF ThreadTypes
<1>3. CASE x # s
  <2>1. Scans[x] # Scans[s]
    BY <1>3 DEF OneScanner
  <2>2. modified'[Scans[x]] = modified[Scans[x]] /\ pc'[x] = pc[x] /\ pse'[x] = pse[x]
    BY <1>1, <1>3, <2>1 DEF ThreadTypes, ListTypes
  <2> QED BY <2>2 DEF CursorFresh
<1> QED BY <1>2, <1>3

(* The first critical section of scanList.                                 *)
LEMMA StartStep ==
    ASSUME Inv, NEW s \in Scanners, StartScan(s)
    PROVE  /\ Inv'
           /\ CursorFresh /\ OneScanner => CursorFresh'
<1> USE ScanListAssumption
<1> DEFINE l == Scans[s]
           e == FirstOf(l)
           n == NextOf(e, None)
           q == IF e = None THEN "idle" ELSE "lock"
<1>1. /\ pc[s] = "idle"
      /\ modified' = [modified EXCEPT ![l] = FALSE]
      /\ Moved(s, e, None, n)
      /\ UNCHANGED <<list, stale, pscan_list, fields, lock, changing>>
      /\ IF e = None THEN UNCHANGED <<pc, history>>
         ELSE /\ pc' = [pc EXCEPT ![s] = "lock"]
              /\ steady' = [steady EXCEPT ![s] = Elements(l)]
              /\ UNCHANGED <<left, back, seen>>
  BY DEF StartScan
<1>2. ListTypes /\ HistoryTypes /\ ThreadTypes /\ ListIntact
  BY DEF Inv, TypeOK
<1>3. l \in Lists
  OBVIOUS
<1>4. e \in Records \cup {None} /\ (e # None => pscan_list[e] = l)
  BY <1>2, <1>3, AtOnList DEF FirstOf
<1>5. n \in Records \cup {None}
  BY <1>2, <1>4, NextOnList DEF NextOf
<1>6. pc' = [pc EXCEPT ![s] = q]
  BY <1>1, <1>2 DEF ThreadTypes
<1>7. Elements(l) \in SUBSET Records
  BY <1>2, <1>3 DEF Elements, ListTypes
<1>8. modified' \in [Lists -> BOOLEAN]
  BY <1>1, <1>2 DEF ListTypes
<1>9. HistoryTypes'
  BY <1>1, <1>2, <1>7 DEF HistoryTypes, history
<1>10. q \in {"idle", "lock", "step"} /\ (q # "idle" => e # None)
  OBVIOUS
<1>11. pse' = [pse EXCEPT ![s] = e]
  BY <1>1 DEF Moved
<1> HIDE DEF e, n, q
<1>12. Inv'
  BY <1>1, <1>4, <1>5, <1>6, <1>8, <1>9, <1>10, CursorStep
<1>13. CursorFresh /\ OneScanner => CursorFresh'
  BY <1>1, <1>4, <1>6, <1>10, <1>11, FreshAfter
<1> QED BY <1>12, <1>13

(* dbScanLock by the scanner.                                              *)
LEMMA ProcessStep ==
    ASSUME Inv, NEW s \in Scanners, Process(s)
    PROVE  /\ Inv'
           /\ CursorFresh => CursorFresh'
<1> USE ScanListAssumption
<1>1. /\ pc[s] = "lock" /\ Locked(None, pse[s])
      /\ lock' = [lock EXCEPT ![LockSet[pse[s]]] = s]
      /\ pc' = [pc EXCEPT ![s] = "process"]
      /\ UNCHANGED <<lists, fields, changing, pse, prev, next, history>>
  BY DEF Process
<1>2. /\ ListTypes /\ HistoryTypes /\ ThreadTypes /\ ListIntact
      /\ FieldsName /\ LocksHeld /\ OffList /\ CursorSet
  BY DEF Inv, TypeOK
<1>3. pse[s] \in Records /\ LockSet[pse[s]] \in LockSets /\ s \in Threads
  BY <1>1, <1>2 DEF CursorSet, ThreadTypes, LockSets, Threads
<1>4. TypeOK'
  BY <1>1, <1>2, <1>3 DEF TypeOK, ListTypes, HistoryTypes, ThreadTypes, lists, fields, history
<1>5. ListIntact' /\ FieldsName' /\ OffList'
  BY <1>1, <1>2 DEF ListIntact, Elements, FieldsName, OffList, lists, fields
<1>6. LocksHeld'
  <2>1. ASSUME NEW x \in Scanners, pc'[x] = "process"
        PROVE  Locked(x, pse[x])'
    BY <1>1, <1>2, <1>3, <2>1 DEF LocksHeld, Locked, ThreadTypes, Threads
  <2>2. ASSUME NEW t \in Threads, changing'[t] # None
        PROVE  Locked(t, changing[t])'
    <3>1. t \in Threads /\ Locked(t, changing[t]) /\ t # None
      BY <1>1, <1>2, <2>2 DEF LocksHeld, Threads
    <3>2. LockSet[changing[t]] # LockSet[pse[s]]
      BY <1>1, <3>1 DEF Locked
    <3> QED BY <1>1, <1>2, <3>1, <3>2 DEF Locked, ThreadTypes
  <2> QED BY <2>1, <2>2 DEF LocksHeld
<1>7. CursorSet' /\ (CursorFresh => CursorFresh')
  BY <1>1, <1>2 DEF CursorSet, CursorFresh, ThreadTypes, lists
<1> QED BY <1>4, <1>5, <1>6, <1>7 DEF Inv

(* dbScanUnlock by the scanner.                                            *)
LEMMA ProcessedStep ==
    ASSUME Inv, NEW s \in Scanners, Processed(s)
    PROVE  /\ Inv'
           /\ CursorFresh => CursorFresh'
<1> USE ScanListAssumption
<1>1. /\ pc[s] = "process" /\ changing[s] = None
      /\ lock' = [lock EXCEPT ![LockSet[pse[s]]] = None]
      /\ pc' = [pc EXCEPT ![s] = "step"]
      /\ seen' = [seen EXCEPT ![s] = @ \cup ({pse[s]} \cap steady[s])]
      /\ UNCHANGED <<lists, fields, changing, pse, prev, next, steady, left, back>>
  BY DEF Processed
<1>2. /\ ListTypes /\ HistoryTypes /\ ThreadTypes /\ ListIntact
      /\ FieldsName /\ LocksHeld /\ OffList /\ CursorSet
  BY DEF Inv, TypeOK
<1>3. pse[s] \in Records /\ LockSet[pse[s]] \in LockSets /\ lock[LockSet[pse[s]]] = s
  BY <1>1, <1>2 DEF CursorSet, ThreadTypes, LockSets, LocksHeld, Locked
<1>4. TypeOK'
  <2>1. ListTypes' /\ ThreadTypes'
    BY <1>1, <1>2, <1>3 DEF ListTypes, ThreadTypes, lists, fields
  <2>2. HistoryTypes'
    BY <1>1, <1>2 DEF HistoryTypes
  <2> QED BY <2>1, <2>2 DEF TypeOK
<1>5. ListIntact' /\ FieldsName' /\ OffList'
  BY <1>1, <1>2 DEF ListIntact, Elements, FieldsName, OffList, lists, fields
<1>6. LocksHeld'
  <2>1. ASSUME NEW x \in Scanners, pc'[x] = "process"
        PROVE  Locked(x, pse[x])'
    <3>1. x # s /\ pc[x] = "process" /\ Locked(x, pse[x])
      BY <1>1, <1>2, <2>1 DEF LocksHeld, ThreadTypes
    <3>2. LockSet[pse[x]] # LockSet[pse[s]]
      BY <1>3, <3>1 DEF Locked
    <3> QED BY <1>1, <1>2, <3>1, <3>2 DEF Locked, ThreadTypes
  <2>2. ASSUME NEW t \in Threads, changing'[t] # None
        PROVE  Locked(t, changing[t])'
    <3>1. t # s /\ Locked(t, changing[t])
      BY <1>1, <1>2, <2>2 DEF LocksHeld
    <3>2. LockSet[changing[t]] # LockSet[pse[s]]
      BY <1>3, <3>1 DEF Locked
    <3> QED BY <1>1, <1>2, <3>1, <3>2 DEF Locked, ThreadTypes
  <2> QED BY <1>1, <2>1, <2>2 DEF LocksHeld, Locked
<1>7. CursorSet' /\ (CursorFresh => CursorFresh')
  BY <1>1, <1>2 DEF CursorSet, CursorFresh, ThreadTypes, lists
<1> QED BY <1>4, <1>5, <1>6, <1>7 DEF Inv

-----------------------------------------------------------------------------
(* Where the scan goes from a record: its list is the scanner's.           *)
LEMMA StepStep ==
    ASSUME Inv, NEW s \in Scanners, Step(s)
    PROVE  /\ Inv'
           /\ CursorFresh /\ OneScanner =>
                /\ CursorFresh'
                /\ pc'[s] = "lock" => pscan_list[pse'[s]] = Scans[s]
<1> USE ScanListAssumption
<1> DEFINE l == Scans[s]
<1>1. /\ pc[s] = "step"
      /\ UNCHANGED <<list, stale, pscan_list, fields, lock, changing>>
  BY DEF Step
<1>2. ListTypes /\ HistoryTypes /\ ThreadTypes /\ ListIntact /\ CursorSet
  BY DEF Inv, TypeOK
<1>3. l \in Lists /\ pse[s] \in Records
  BY <1>1, <1>2 DEF CursorSet, ThreadTypes
<1>4. ASSUME NEW e \in Records \cup {None}, NEW p \in Records \cup {None},
             NEW n, e # None => n \in Records \cup {None},
             CursorFresh /\ OneScanner /\ e # None => pscan_list[e] = l,
             Continue(s, e, p, n), modified' = [modified EXCEPT ![l] = FALSE]
      PROVE  /\ Inv'
             /\ CursorFresh /\ OneScanner =>
                  /\ CursorFresh'
                  /\ pc'[s] = "lock" => pscan_list[pse'[s]] = l
  <2> DEFINE q == IF e = None THEN "idle" ELSE "lock"
  <2>1. modified' \in [Lists -> BOOLEAN]
    BY <1>2, <1>4 DEF ListTypes
  <2>2. Inv' /\ pc' = [pc EXCEPT ![s] = q] /\ pse' = [pse EXCEPT ![s] = e]
    BY <1>1, <1>4, <2>1, ContinueStep
  <2>3. (q # "idle" => e # None) /\ (q = "lock" => e # None)
    OBVIOUS
  <2> HIDE DEF q
  <2>4. CursorFresh /\ OneScanner => CursorFresh'
    BY <1>1, <1>4, <2>2, <2>3, FreshAfter
  <2>5. pc'[s] = q /\ pse'[s] = e
    BY <1>2, <2>2 DEF ThreadTypes
  <2> QED BY <1>4, <2>2, <2>3, <2>4, <2>5
<1>5. \A r \in Records : ellNext(r) \in Records \cup {None}
  BY <1>2, NextOnList
<1>6. \A e \in Records \cup {None} : e # None => NextOf(e, None) \in Records \cup {None}
  BY <1>5 DEF NextOf
<1>7. ASSUME NEW r \in Records \cup {None}, OnList(r, l)
      PROVE  /\ r \in Records /\ pscan_list[r] = l
             /\ ellNext(r) \in Records \cup {None}
             /\ ellNext(r) # None => pscan_list[ellNext(r)] = l
             /\ ellPrevious(r) \in Records \cup {None}
  <2>1. r \in Records /\ pscan_list[r] = l /\ pscan_list[r] # None
    BY <1>3, <1>7 DEF OnList
  <2> QED BY <1>2, <2>1, NextOnList, PreviousOnList
<1>8. CASE ~modified[l] /\ AfterCurrent(s) /\ UNCHANGED modified
  <2> DEFINE e == ellNext(pse[s])
             n == NextOf(e, None)
  <2>1. e \in Records \cup {None} /\ (e # None => n \in Records \cup {None})
    BY <1>3, <1>5, <1>6
  <2>2. Continue(s, e, pse[s], n)
    BY <1>8 DEF AfterCurrent
  <2>3. modified' = [modified EXCEPT ![l] = FALSE]
    BY <1>2, <1>8 DEF ListTypes
  <2>4. CursorFresh => pscan_list[pse[s]] = l /\ l # None
    BY <1>1, <1>3, <1>8 DEF CursorFresh
  <2>5. CursorFresh /\ OneScanner /\ e # None => pscan_list[e] = l
    BY <1>2, <1>3, <2>4, NextOnList
  <2> HIDE DEF e, n
  <2> QED BY <1>3, <1>4, <2>1, <2>2, <2>3, <2>5
<1>9. CASE OnList(pse[s], l) /\ AfterCurrent(s) /\ modified' = [modified EXCEPT ![l] = FALSE]
  <2> DEFINE e == ellNext(pse[s])
             n == NextOf(e, None)
  <2>1. e \in Records \cup {None} /\ (e # None => n \in Records \cup {None})
    BY <1>3, <1>5, <1>6
  <2>2. Continue(s, e, pse[s], n)
    BY <1>9 DEF AfterCurrent
  <2>3. e # None => pscan_list[e] = l
    BY <1>3, <1>7, <1>9
  <2> HIDE DEF e, n
  <2> QED BY <1>3, <1>4, <1>9, <2>1, <2>2, <2>3
<1>10. CASE OnList(prev[s], l) /\ AfterPrevious(s) /\ modified' = [modified EXCEPT ![l] = FALSE]
  <2> DEFINE e == ellNext(prev[s])
             p == IF e = None THEN None ELSE ellPrevious(e)
             n == NextOf(e, None)
  <2>0. prev[s] \in Records \cup {None}
    BY <1>2 DEF ThreadTypes
  <2>1. e \in Records \cup {None} /\ (e # None => pscan_list[e] = l)
    BY <1>7, <1>10, <2>0
  <2>2. e # None => n \in Records \cup {None}
    BY <1>6, <2>1
  <2>3. p \in Records \cup {None}
    BY <1>7, <2>1 DEF OnList
  <2>4. Continue(s, e, p, n)
    BY <1>10 DEF AfterPrevious
  <2> HIDE DEF e, n, p
  <2> QED BY <1>4, <1>10, <2>1, <2>2, <2>3, <2>4
<1>11. CASE OnList(next[s], l) /\ AtNext(s) /\ modified' = [modified EXCEPT ![l] = FALSE]
  <2> DEFINE e == next[s]
             p == ellPrevious(e)
             n == ellNext(e)
  <2>0. e \in Records \cup {None}
    BY <1>2 DEF ThreadTypes
  <2>1. /\ pscan_list[e] = l /\ p \in Records \cup {None}
        /\ n \in Records \cup {None}
    BY <1>7, <1>11, <2>0
  <2>2. Continue(s, e, p, n)
    BY <1>11 DEF AtNext
  <2> HIDE DEF e, n, p
  <2> QED BY <1>4, <1>11, <2>0, <2>1, <2>2
<1>12. CASE GiveUp(s) /\ UNCHANGED modified
  <2>1. /\ pc' = [pc EXCEPT ![s] = "idle"] /\ Moved(s, pse[s], None, None)
        /\ HistoryTypes'
    BY <1>2, <1>12 DEF GiveUp, Forget, HistoryTypes
  <2>2. modified' \in [Lists -> BOOLEAN]
    BY <1>2, <1>12 DEF ListTypes
  <2>3. Inv'
    BY <1>1, <1>3, <2>1, <2>2, CursorStep
  <2>4. pc'[s] = "idle" /\ \A x \in Scanners : x # s => pc'[x] = pc[x] /\ pse'[x] = pse[x]
    BY <1>2, <2>1 DEF ThreadTypes, Moved
  <2>5. CursorFresh => CursorFresh'
    BY <1>1, <1>12, <2>4 DEF CursorFresh
  <2> QED BY <2>3, <2>4, <2>5
<1> QED BY <1>8, <1>9, <1>10, <1>11, <1>12 DEF Step, Unmodified

-----------------------------------------------------------------------------
(* The lists that buildScanLists makes.                                    *)
LEMMA InvInit == Init => Inv /\ CursorFresh
<1> SUFFICES ASSUME Init
             PROVE  Inv /\ CursorFresh
  OBVIOUS
<1> USE ScanListAssumption
<1>1. Cardinality(Records) \in Nat
  BY FS_CardinalityType
<1>2. ASSUME NEW l \in Lists
      PROVE  list[l] \in Seq(Records)
  <2>1. PICK n \in 0 .. Cardinality(Records) : list[l] \in [1 .. n -> Records]
    <3>1. list \in [Lists -> UNION {[1 .. n -> Records] : n \in 0 .. Cardinality(Records)}]
      BY DEF Init
    <3>2. list[l] \in UNION {[1 .. n -> Records] : n \in 0 .. Cardinality(Records)}
      BY <3>1
    <3> QED BY <3>2
  <2> QED BY <1>1, <2>1
<1>3. ListTypes
  <2>1. list \in [Lists -> Seq(Records)]
    <3>1. list = [l \in Lists |-> list[l]]
      BY DEF Init
    <3> QED BY <1>2, <3>1
  <2> QED BY <2>1 DEF Init, ListTypes
<1>4. ThreadTypes
  BY DEF Init, ThreadTypes
<1>5. HistoryTypes
  BY DEF Init, HistoryTypes
<1>6. ListIntact
  BY DEF Init, ListIntact
<1>7. FieldsName
  BY DEF Init, FieldsName
<1>8. LocksHeld /\ OffList /\ CursorSet /\ CursorFresh
  BY DEF Init, LocksHeld, OffList, CursorSet, CursorFresh, Threads
<1> QED BY <1>3, <1>4, <1>5, <1>6, <1>7, <1>8 DEF Inv, TypeOK

(* A stutter changes none of it.                                           *)
LEMMA InvUnchanged ==
    ASSUME UNCHANGED vars
    PROVE  /\ Inv => Inv'
           /\ CursorFresh => CursorFresh'
BY DEF vars, lists, fields, cursor, history, Inv, TypeOK, ListTypes, ThreadTypes,
       HistoryTypes, ListIntact, Elements, FieldsName, LocksHeld, Locked, OffList,
       CursorSet, CursorFresh

(* Every step keeps Inv, and CursorFresh with one scanner to a list.       *)
LEMMA InvStep == Inv /\ [Next]_vars => Inv' /\ (CursorFresh /\ OneScanner => CursorFresh')
<1> SUFFICES ASSUME Inv, [Next]_vars
             PROVE  Inv' /\ (CursorFresh /\ OneScanner => CursorFresh')
  OBVIOUS
<1>1. ASSUME NEW s \in Scanners, StartScan(s) PROVE Inv' /\ (CursorFresh /\ OneScanner => CursorFresh')
  BY <1>1, StartStep
<1>2. ASSUME NEW s \in Scanners, Process(s) PROVE Inv' /\ (CursorFresh => CursorFresh')
  BY <1>2, ProcessStep
<1>3. ASSUME NEW s \in Scanners, Processed(s) PROVE Inv' /\ (CursorFresh => CursorFresh')
  BY <1>3, ProcessedStep
<1>4. ASSUME NEW s \in Scanners, Step(s)
      PROVE  Inv' /\ (CursorFresh /\ OneScanner => CursorFresh')
  BY <1>4, StepStep
<1>5. ASSUME NEW s \in Scanners, NEW r \in Records, BeginNested(s, r)
      PROVE  Inv' /\ (CursorFresh => CursorFresh')
  BY <1>5, NestedStep
<1>6. ASSUME NEW t \in Putters, NEW r \in Records, BeginPut(t, r)
      PROVE  Inv' /\ (CursorFresh => CursorFresh')
  BY <1>6, PutStep
<1>7. ASSUME NEW t \in Threads, NEW l \in Lists \cup {None}, NEW ph \in Phases,
             EndChange(t, l, ph)
      PROVE  Inv' /\ (CursorFresh => CursorFresh')
  BY <1>7, EndStep
<1>8. ASSUME UNCHANGED vars PROVE Inv' /\ (CursorFresh => CursorFresh')
  BY <1>8, InvUnchanged
<1> QED BY <1>1, <1>2, <1>3, <1>4, <1>5, <1>6, <1>7, <1>8 DEF Next

(* The lists, the scan fields and the locks agree, for any number of       *)
(* threads that scan and write: Inv is inductive.                          *)
THEOREM InvHolds == Spec => []Inv
<1>1. Init => Inv
  BY InvInit
<1>2. Inv /\ [Next]_vars => Inv'
  BY InvStep
<1> QED BY <1>1, <1>2, PTL DEF Spec

(* Every variable of the scan lists keeps holding a value of its kind.     *)
THEOREM ScanListTypes == Spec => []TypeOK
<1>1. Inv => TypeOK
  BY DEF Inv
<1> QED BY <1>1, InvHolds, PTL

(* Whatever fields are written, and whatever the scans are doing, a list   *)
(* holds each of its records once, in order of PHAS (addToList,            *)
(* deleteFromList).                                                        *)
THEOREM ListIntactHolds == Spec => []ListIntact
<1>1. Inv => ListIntact
  BY DEF Inv
<1> QED BY <1>1, InvHolds, PTL

(* Between two changes of its fields a record is on the list they name     *)
(* (scanAdd, scanDelete).                                                  *)
THEOREM FieldsNameHolds == Spec => []FieldsName
<1>1. Inv => FieldsName
  BY DEF Inv
<1> QED BY <1>1, InvHolds, PTL

(* If no two threads scan the same list, a scan never leaves its list for  *)
(* another (scanList).                                                     *)
THEOREM StaysOnListHolds ==
    ASSUME OneScanner
    PROVE  Spec => StaysOnList
<1> DEFINE Stays == \A s \in Scanners :
                      pc[s] = "step" /\ pc'[s] = "lock" => pscan_list[pse'[s]] = Scans[s]
<1>1. Init => CursorFresh
  BY InvInit
<1>2. Inv /\ CursorFresh /\ [Next]_vars => CursorFresh'
  BY InvStep
<1>3. Inv /\ CursorFresh /\ [Next]_vars => [Stays]_vars
  <2> SUFFICES ASSUME Inv, CursorFresh, Next, NEW s \in Scanners,
                      pc[s] = "step", pc'[s] = "lock"
               PROVE  pscan_list[pse'[s]] = Scans[s]
    OBVIOUS
  <2> USE DEF Inv, TypeOK, ThreadTypes
  <2>1. ASSUME NEW x \in Scanners, Step(x) PROVE x = s
    BY <2>1 DEF Step, Continue, GiveUp, AfterCurrent, AfterPrevious, AtNext
  <2>2. ASSUME NEW x \in Scanners, StartScan(x) PROVE FALSE
    BY <2>2 DEF StartScan
  <2>3. ASSUME NEW x \in Scanners, Process(x) \/ Processed(x) PROVE FALSE
    BY <2>3 DEF Process, Processed
  <2>4. ASSUME UNCHANGED cursor PROVE FALSE
    BY <2>4 DEF cursor
  <2>5. Step(s)
    BY <2>1, <2>2, <2>3, <2>4 DEF Next, BeginNested, BeginPut, EndChange
  <2> QED BY <2>5, StepStep
<1> QED BY <1>1, <1>2, <1>3, InvHolds, PTL DEF Spec, StaysOnList

-----------------------------------------------------------------------------
(* The order of two elements in a list.                                    *)
Before(q, x, y) == \E i, j \in 1 .. Len(q) : i < j /\ q[i] = x /\ q[j] = y

(* In an ordered list an element has one place.                            *)
LEMMA OnePlace ==
    ASSUME NEW q \in Seq(Records), NEW f, Ordered(q, f),
           NEW i \in 1 .. Len(q), NEW j \in 1 .. Len(q), q[i] = q[j]
    PROVE  i = j
<1>1. Len(q) \in Nat
  BY LenProperties
<1> QED BY <1>1 DEF Ordered

(* Before, by places.                                                      *)
LEMMA BeforeAt ==
    ASSUME NEW q \in Seq(Records), NEW f, Ordered(q, f),
           NEW i \in 1 .. Len(q), NEW j \in 1 .. Len(q)
    PROVE  Before(q, q[i], q[j]) <=> i < j
<1>1. ASSUME Before(q, q[i], q[j]) PROVE i < j
  <2>1. PICK a \in 1 .. Len(q), b \in 1 .. Len(q) : a < b /\ q[a] = q[i] /\ q[b] = q[j]
    BY <1>1 DEF Before
  <2>2. a = i
    BY <2>1, OnePlace
  <2>3. b = j
    BY <2>1, OnePlace
  <2> QED BY <2>1, <2>2, <2>3
<1> QED BY <1>1 DEF Before

(* What comes before another element has no higher phase.                  *)
LEMMA BeforeOrder ==
    ASSUME NEW q, NEW f, Ordered(q, f), NEW x, NEW y, Before(q, x, y)
    PROVE  x # y /\ f[x] <= f[y]
BY DEF Before, Ordered

(* The order of the others when an element is deleted.                     *)
LEMMA BeforeRemoved ==
    ASSUME NEW q \in Seq(Records), NEW i \in 1 .. Len(q), NEW x, NEW y, x # q[i], y # q[i]
    PROVE  Before(RemoveAt(q, i), x, y) <=> Before(q, x, y)
<1> DEFINE u == RemoveAt(q, i)
<1>1. /\ Len(q) \in Nat /\ Len(u) = Len(q) - 1
      /\ \A j \in 1 .. Len(q) - 1 : u[j] = IF j < i THEN q[j] ELSE q[j + 1]
  BY Removed, LenProperties
<1> HIDE DEF u
<1>2. ASSUME Before(u, x, y) PROVE Before(q, x, y)
  <2>1. PICK a \in 1 .. Len(u), b \in 1 .. Len(u) : a < b /\ u[a] = x /\ u[b] = y
    BY <1>2 DEF Before
  <2> DEFINE c == IF a < i THEN a ELSE a + 1
             d == IF b < i THEN b ELSE b + 1
  <2>2. c \in 1 .. Len(q) /\ d \in 1 .. Len(q) /\ c < d
    BY <1>1, <2>1
  <2>3. q[c] = x /\ q[d] = y
    BY <1>1, <2>1
  <2> HIDE DEF c, d
  <2> QED BY <2>2, <2>3 DEF Before
<1>3. ASSUME Before(q, x, y) PROVE Before(u, x, y)
  <2>1. PICK a \in 1 .. Len(q), b \in 1 .. Len(q) : a < b /\ q[a] = x /\ q[b] = y
    BY <1>3 DEF Before
  <2>2. a # i /\ b # i
    BY <2>1
  <2> DEFINE c == IF a < i THEN a ELSE a - 1
             d == IF b < i THEN b ELSE b - 1
  <2>3. c \in 1 .. Len(u) /\ d \in 1 .. Len(u) /\ c < d
    BY <1>1, <2>1, <2>2
  <2>4. u[c] = x /\ u[d] = y
    BY <1>1, <2>1, <2>2
  <2> HIDE DEF c, d
  <2> QED BY <2>3, <2>4 DEF Before
<1> QED BY <1>2, <1>3 DEF u

(* The order of the others when an element is inserted.                    *)
LEMMA BeforeInserted ==
    ASSUME NEW q \in Seq(Records), NEW p \in 1 .. Len(q) + 1, NEW r \in Records,
           NEW x, NEW y, x # r, y # r
    PROVE  Before(InsertAt(q, p, r), x, y) <=> Before(q, x, y)
<1> DEFINE u == InsertAt(q, p, r)
<1>1. /\ Len(q) \in Nat /\ Len(u) = Len(q) + 1
      /\ \A j \in 1 .. Len(q) + 1 :
           u[j] = IF j < p THEN q[j] ELSE IF j = p THEN r ELSE q[j - 1]
  BY Inserted, LenProperties
<1> HIDE DEF u
<1>2. ASSUME Before(u, x, y) PROVE Before(q, x, y)
  <2>1. PICK a \in 1 .. Len(u), b \in 1 .. Len(u) : a < b /\ u[a] = x /\ u[b] = y
    BY <1>2 DEF Before
  <2>2. a # p /\ b # p
    BY <1>1, <2>1
  <2> DEFINE c == IF a < p THEN a ELSE a - 1
             d == IF b < p THEN b ELSE b - 1
  <2>3. c \in 1 .. Len(q) /\ d \in 1 .. Len(q) /\ c < d
    BY <1>1, <2>1, <2>2
  <2>4. q[c] = x /\ q[d] = y
    BY <1>1, <2>1, <2>2
  <2> HIDE DEF c, d
  <2> QED BY <2>3, <2>4 DEF Before
<1>3. ASSUME Before(q, x, y) PROVE Before(u, x, y)
  <2>1. PICK a \in 1 .. Len(q), b \in 1 .. Len(q) : a < b /\ q[a] = x /\ q[b] = y
    BY <1>3 DEF Before
  <2> DEFINE c == IF a < p THEN a ELSE a + 1
             d == IF b < p THEN b ELSE b + 1
  <2>3. c \in 1 .. Len(u) /\ d \in 1 .. Len(u) /\ c < d
    BY <1>1, <2>1
  <2>4. u[c] = x /\ u[d] = y
    BY <1>1, <2>1
  <2> HIDE DEF c, d
  <2> QED BY <2>3, <2>4 DEF Before
<1> QED BY <1>2, <1>3 DEF u

-----------------------------------------------------------------------------
(* What scanList's variables e (pse), p (prev) and n (next) say of a list  *)
(* q: each is on the list or in L, has left it; D, those of S that it has  *)
(* processed, come before e or are in X, and so for the neighbours.        *)
Track(q, S, L, D, e, p, n, X) ==
    /\ S \subseteq Items(q) /\ L \cap Items(q) = {} /\ D \subseteq S
    /\ e \in Items(q) \cup L
    /\ {p, n} \subseteq Items(q) \cup L \cup {None}
    /\ e \in Items(q) => \A r \in S : r \in D <=> Before(q, r, e) \/ r \in X
    /\ p \in Items(q) => \A r \in S \ {e} : r \in D <=> r = p \/ Before(q, r, p)
    /\ n \in Items(q) => \A r \in S \ {e} : r \in D <=> Before(q, r, n)

(* An element is deleted.                                                  *)
LEMMA TrackRemoved ==
    ASSUME NEW q \in Seq(Records), NEW f, Ordered(q, f), NEW i \in 1 .. Len(q),
           NEW S, NEW L, NEW D, NEW e, NEW p, NEW n, NEW X,
           None \notin Records,
           Track(q, S, L, D, e, p, n, X)
    PROVE  Track(RemoveAt(q, i), S \ {q[i]}, L \cup {q[i]}, D \ {q[i]}, e, p, n, X)
<1> DEFINE u == RemoveAt(q, i)
           z == q[i]
<1>1. Items(u) = Items(q) \ {z}
  BY RemovedItems
<1>2. \A x, y : x # z /\ y # z => (Before(u, x, y) <=> Before(q, x, y))
  BY BeforeRemoved
<1>3. z \in Items(q)
  BY DEF Items
<1> HIDE DEF u, z
<1>4. /\ S \subseteq Items(q) /\ L \cap Items(q) = {} /\ D \subseteq S
      /\ e \in Items(q) \cup L
      /\ {p, n} \subseteq Items(q) \cup L \cup {None}
  BY DEF Track
<1>5. /\ S \ {z} \subseteq Items(u) /\ (L \cup {z}) \cap Items(u) = {}
      /\ D \ {z} \subseteq S \ {z}
      /\ e \in Items(u) \cup (L \cup {z})
      /\ {p, n} \subseteq Items(u) \cup (L \cup {z}) \cup {None}
  BY <1>1, <1>3, <1>4
<1>6. ASSUME e \in Items(u), NEW r \in S \ {z}
      PROVE  r \in D \ {z} <=> Before(u, r, e) \/ r \in X
  BY <1>1, <1>2, <1>6 DEF Track
<1>7. ASSUME p \in Items(u), NEW r \in (S \ {z}) \ {e}
      PROVE  r \in D \ {z} <=> r = p \/ Before(u, r, p)
  BY <1>1, <1>2, <1>7 DEF Track
<1>8. ASSUME n \in Items(u), NEW r \in (S \ {z}) \ {e}
      PROVE  r \in D \ {z} <=> Before(u, r, n)
  BY <1>1, <1>2, <1>8 DEF Track
<1>9. Track(u, S \ {z}, L \cup {z}, D \ {z}, e, p, n, X)
  BY <1>5, <1>6, <1>7, <1>8 DEF Track
<1> QED BY <1>9 DEF u, z

(* An element that has not been on the list since the scan began comes in. *)
LEMMA TrackInserted ==
    ASSUME NEW q \in Seq(Records), NEW v \in 1 .. Len(q) + 1, NEW z \in Records,
           NEW S, NEW L, NEW D, NEW e, NEW p, NEW n, NEW X,
           None \notin Records, z \notin Items(q), z \notin L,
           Items(InsertAt(q, v, z)) = Items(q) \cup {z},
           Track(q, S, L, D, e, p, n, X)
    PROVE  Track(InsertAt(q, v, z), S, L, D, e, p, n, X)
<1> DEFINE u == InsertAt(q, v, z)
<1>1. Items(u) = Items(q) \cup {z}
  OBVIOUS
<1>2. \A x, y : x # z /\ y # z => (Before(u, x, y) <=> Before(q, x, y))
  BY BeforeInserted
<1> HIDE DEF u
<1>4. /\ S \subseteq Items(q) /\ L \cap Items(q) = {} /\ D \subseteq S
      /\ e \in Items(q) \cup L
      /\ {p, n} \subseteq Items(q) \cup L \cup {None}
  BY DEF Track
<1>5. /\ S \subseteq Items(u) /\ L \cap Items(u) = {}
      /\ e \in Items(u) \cup L
      /\ {p, n} \subseteq Items(u) \cup L \cup {None}
      /\ z \notin S /\ e # z /\ p # z /\ n # z
  BY <1>1, <1>4
<1>6. ASSUME e \in Items(u), NEW r \in S
      PROVE  r \in D <=> Before(u, r, e) \/ r \in X
  BY <1>1, <1>2, <1>5, <1>6 DEF Track
<1>7. ASSUME p \in Items(u), NEW r \in S \ {e}
      PROVE  r \in D <=> r = p \/ Before(u, r, p)
  BY <1>1, <1>2, <1>5, <1>7 DEF Track
<1>8. ASSUME n \in Items(u), NEW r \in S \ {e}
      PROVE  r \in D <=> Before(u, r, n)
  BY <1>1, <1>2, <1>5, <1>8 DEF Track
<1>9. Track(u, S, L, D, e, p, n, X)
  BY <1>4, <1>5, <1>6, <1>7, <1>8 DEF Track
<1> QED BY <1>9 DEF u

(* The record e has been processed.                                        *)
LEMMA TrackDone ==
    ASSUME NEW q, NEW S, NEW L, NEW D, NEW e, NEW p, NEW n,
           Track(q, S, L, D, e, p, n, {})
    PROVE  Track(q, S, L, D \cup ({e} \cap S), e, p, n, {e})
BY DEF Track

(* The scan comes to e and looks up its neighbours.                        *)
LEMMA TrackTaken ==
    ASSUME NEW q \in Seq(Records), NEW f, Ordered(q, f), NEW i \in 1 .. Len(q),
           NEW S, NEW L, NEW D, NEW p, NEW n,
           None \notin Records,
           S \subseteq Items(q), L \cap Items(q) = {}, D \subseteq S,
           p = None \/ (i > 1 /\ p = q[i - 1]),
           n = None \/ (i < Len(q) /\ n = q[i + 1]),
           \A r \in S : r \in D <=> Before(q, r, q[i])
    PROVE  Track(q, S, L, D, q[i], p, n, {})
<1>1. Len(q) \in Nat /\ Items(q) \subseteq Records
  BY LenProperties DEF Items
<1>2. q[i] \in Items(q)
  BY DEF Items
<1>3. p # None => i - 1 \in 1 .. Len(q) /\ p = q[i - 1] /\ p \in Items(q)
  BY <1>1 DEF Items
<1>4. n # None => i + 1 \in 1 .. Len(q) /\ n = q[i + 1] /\ n \in Items(q)
  BY <1>1 DEF Items
<1>5. ASSUME p \in Items(q), NEW r \in S \ {q[i]}
      PROVE  r \in D <=> r = p \/ Before(q, r, p)
  <2>1. PICK j \in 1 .. Len(q) : r = q[j]
    BY DEF Items
  <2>2. i - 1 \in 1 .. Len(q) /\ p = q[i - 1]
    BY <1>1, <1>3, <1>5
  <2>3. (Before(q, r, q[i]) <=> j < i) /\ (Before(q, r, p) <=> j < i - 1)
    BY <2>1, <2>2, BeforeAt
  <2>4. r = p <=> j = i - 1
    BY <2>1, <2>2, OnePlace
  <2> QED BY <1>1, <2>2, <2>3, <2>4
<1>6. ASSUME n \in Items(q), NEW r \in S \ {q[i]}
      PROVE  r \in D <=> Before(q, r, n)
  <2>1. PICK j \in 1 .. Len(q) : r = q[j]
    BY DEF Items
  <2>2. i + 1 \in 1 .. Len(q) /\ n = q[i + 1]
    BY <1>1, <1>4, <1>6
  <2>3. (Before(q, r, q[i]) <=> j < i) /\ (Before(q, r, n) <=> j < i + 1)
    BY <2>1, <2>2, BeforeAt
  <2>4. j # i
    BY <2>1
  <2> QED BY <1>1, <2>2, <2>3, <2>4
<1> QED BY <1>2, <1>3, <1>4, <1>5, <1>6 DEF Track

-----------------------------------------------------------------------------
(* What the history of a scan says of its place, unless a record that left *)
(* the list has come back.                                                 *)
JustDone(s) == IF pc[s] = "step" THEN {pse[s]} ELSE {}

Walk(s) ==
    pc[s] # "idle" /\ ~back[s] =>
      Track(list[Scans[s]], steady[s], left[s], seen[s], pse[s], prev[s], next[s], JustDone(s))

Rest(s) == pc[s] = "idle" => steady[s] = {} /\ left[s] = {} /\ seen[s] = {} /\ ~back[s]

HistoryOK == \A s \in Scanners : Walk(s) /\ Rest(s)

(* A list of the state as a sequence.                                      *)
LEMMA TheList ==
    ASSUME ListTypes, ListIntact, NEW l \in Lists
    PROVE  /\ list[l] \in Seq(Records) /\ Len(list[l]) \in Nat
           /\ Ordered(list[l], phas)
           /\ Items(list[l]) = {r \in Records : pscan_list[r] = l}
           /\ Elements(l) = Items(list[l])
<1>1. list[l] \in Seq(Records)
  BY DEF ListTypes
<1>2. Len(list[l]) \in Nat
  BY <1>1, LenProperties
<1> QED BY <1>1, <1>2 DEF ListIntact, Elements, Items, Ordered

(* The neighbours of an element.                                           *)
LEMMA Neighbours ==
    ASSUME ListTypes, ListIntact, NEW l \in Lists, NEW i \in 1 .. Len(list[l])
    PROVE  /\ ellNext(list[l][i]) = IF i < Len(list[l]) THEN list[l][i + 1] ELSE None
           /\ ellPrevious(list[l][i]) = IF i > 1 THEN list[l][i - 1] ELSE None
<1> USE ScanListAssumption
<1> DEFINE r == list[l][i]
<1>1. /\ list[l] \in Seq(Records) /\ Len(list[l]) \in Nat
      /\ Ordered(list[l], phas)
      /\ r \in Records /\ pscan_list[r] = l
  BY TheList DEF Items
<1>2. Position(l, r) \in 1 .. Len(list[l]) /\ list[l][Position(l, r)] = r
  BY <1>1, PositionOf
<1>3. Position(l, r) = i
  BY <1>1, <1>2, OnePlace
<1>4. l # None
  OBVIOUS
<1> HIDE DEF r
<1>5. ellNext(r) = At(l, i + 1) /\ ellPrevious(r) = At(l, i - 1)
  BY <1>1, <1>3, <1>4 DEF ellNext, ellPrevious
<1>6. /\ i + 1 \in 1 .. Len(list[l]) <=> i < Len(list[l])
      /\ i - 1 \in 1 .. Len(list[l]) <=> i > 1
  BY <1>1
<1> QED BY <1>5, <1>6 DEF At, r

(* The variables of one scanner.                                           *)
Place(s) == <<pc[s], pse[s], prev[s], next[s], steady[s], left[s], back[s], seen[s]>>

(* A step of one scanner leaves the histories of the others true.          *)
LEMMA OneMoves ==
    ASSUME HistoryOK, NEW s \in Scanners, UNCHANGED list,
           \A x \in Scanners : x # s => Place(x)' = Place(x),
           Walk(s)', Rest(s)'
    PROVE  HistoryOK'
<1> SUFFICES ASSUME NEW x \in Scanners, x # s
             PROVE  Walk(x)' /\ Rest(x)'
  BY DEF HistoryOK
<1>1. Walk(x) /\ Rest(x)
  BY DEF HistoryOK
<1>2. /\ pc'[x] = pc[x] /\ pse'[x] = pse[x] /\ prev'[x] = prev[x] /\ next'[x] = next[x]
      /\ steady'[x] = steady[x] /\ left'[x] = left[x]
      /\ back'[x] = back[x] /\ seen'[x] = seen[x]
  BY DEF Place
<1>3. JustDone(x)' = JustDone(x)
  BY <1>2 DEF JustDone
<1> QED BY <1>1, <1>2, <1>3 DEF Walk, Rest

(* scanDelete and the scans.                                               *)
LEMMA DeleteWalk ==
    ASSUME ListTypes, HistoryTypes, ListIntact, NEW r \in Records,
           pscan_list[r] = scan[r], scanDelete(r), UNCHANGED <<fields, cursor>>,
           HistoryOK
    PROVE  HistoryOK'
<1> USE ScanListAssumption
<1>0. UNCHANGED <<pc, pse, prev, next>>
  BY DEF cursor
<1>a. \A s \in Scanners : JustDone(s)' = JustDone(s)
  BY <1>0 DEF JustDone
<1>1. CASE scan[r] = None
  <2>1. UNCHANGED <<list, steady, left, back, seen>>
    BY <1>1 DEF scanDelete, lists, history
  <2> SUFFICES ASSUME NEW s \in Scanners
               PROVE  Walk(s)' /\ Rest(s)'
    BY DEF HistoryOK
  <2>2. Walk(s) /\ Rest(s)
    BY DEF HistoryOK
  <2> QED BY <1>0, <1>a, <2>1, <2>2 DEF Walk, Rest
<1>2. CASE scan[r] # None
  <2> DEFINE m == scan[r]
             i == Position(m, r)
  <2>1. m \in Lists /\ pscan_list[r] = m
    BY <1>2 DEF ListTypes
  <2>2. i \in 1 .. Len(list[m]) /\ list[m][i] = r
    BY <2>1, PositionOf
  <2>3. deleteFromList(r, m)
    BY <1>2 DEF scanDelete
  <2>4. list' = [list EXCEPT ![m] = RemoveAt(list[m], i)] /\ Leaves(r, m)
    BY <2>1, <2>3 DEF deleteFromList, ellDelete
  <2> HIDE DEF m, i
  <2> SUFFICES ASSUME NEW s \in Scanners
               PROVE  Walk(s)' /\ Rest(s)'
    BY DEF HistoryOK
  <2>5. /\ steady'[s] = steady[s] \ {r} /\ seen'[s] = seen[s] \ {r} /\ back'[s] = back[s]
        /\ left'[s] = IF pc[s] # "idle" /\ Scans[s] = m THEN left[s] \cup {r} ELSE left[s]
    BY <2>4 DEF Leaves
  <2>6. Walk(s) /\ Rest(s)
    BY DEF HistoryOK
  <2>7. Rest(s)'
    BY <1>0, <2>5, <2>6 DEF Rest
  <2>8. Walk(s)'
    <3> SUFFICES ASSUME pc[s] # "idle", ~back[s]
                 PROVE  Track(list'[Scans[s]], steady'[s], left'[s], seen'[s],
                              pse[s], prev[s], next[s], JustDone(s))
      BY <1>0, <1>a, <2>5 DEF Walk
    <3>1. Track(list[Scans[s]], steady[s], left[s], seen[s],
                pse[s], prev[s], next[s], JustDone(s))
      BY <2>6 DEF Walk
    <3>2. CASE Scans[s] = m
      <4>1. list'[m] = RemoveAt(list[m], i) /\ left'[s] = left[s] \cup {r}
        BY <2>1, <2>4, <2>5, <3>2 DEF ListTypes
      <4>2. list[m] \in Seq(Records) /\ Ordered(list[m], phas)
        BY <2>1, TheList
      <4>3. Track(RemoveAt(list[m], i), steady[s] \ {list[m][i]}, left[s] \cup {list[m][i]},
                  seen[s] \ {list[m][i]}, pse[s], prev[s], next[s], JustDone(s))
        BY <2>2, <3>1, <3>2, <4>2, TrackRemoved
      <4> QED BY <2>2, <2>5, <3>2, <4>1, <4>3
    <3>3. CASE Scans[s] # m
      <4>1. list'[Scans[s]] = list[Scans[s]] /\ left'[s] = left[s]
        BY <2>4, <2>5, <3>3 DEF ListTypes
      <4>2. steady[s] \subseteq Items(list[Scans[s]]) /\ seen[s] \subseteq steady[s]
        BY <3>1 DEF Track
      <4>3. r \notin Items(list[Scans[s]])
        BY <2>1, <3>3, TheList
      <4>4. steady'[s] = steady[s] /\ seen'[s] = seen[s]
        BY <2>5, <4>2, <4>3
      <4> QED BY <3>1, <4>1, <4>4
    <3> QED BY <3>2, <3>3
  <2> QED BY <2>7, <2>8
<1> QED BY <1>1, <1>2

(* scanAdd and the scans.                                                  *)
LEMMA AddWalk ==
    ASSUME ListTypes, HistoryTypes, ListIntact, NEW r \in Records, pscan_list[r] = None,
           NEW l \in Lists \cup {None}, NEW ph \in Phases,
           scan' = [scan EXCEPT ![r] = l], phas' = [phas EXCEPT ![r] = ph],
           scanAdd(r, l, ph), UNCHANGED cursor, HistoryOK
    PROVE  HistoryOK'
<1> USE ScanListAssumption
<1>0. UNCHANGED <<pc, pse, prev, next>>
  BY DEF cursor
<1>a. \A s \in Scanners : JustDone(s)' = JustDone(s)
  BY <1>0 DEF JustDone
<1>1. CASE l = None
  <2>1. UNCHANGED <<list, steady, left, back, seen>>
    BY <1>1 DEF scanAdd, lists, history
  <2> SUFFICES ASSUME NEW s \in Scanners
               PROVE  Walk(s)' /\ Rest(s)'
    BY DEF HistoryOK
  <2>2. Walk(s) /\ Rest(s)
    BY DEF HistoryOK
  <2> QED BY <1>0, <1>a, <2>1, <2>2 DEF Walk, Rest
<1>2. CASE l # None
  <2>0. l \in Lists /\ addToList(r, l, ph)
    BY <1>2 DEF scanAdd
  <2>1. PICK i \in PlaceFor(l, ph) : ellInsert(l, i, r)
    BY <2>0 DEF addToList
  <2>2. /\ list' = [list EXCEPT ![l] = InsertAt(list[l], i + 1, r)]
        /\ back' = [s \in Scanners |-> back[s] \/ (Scans[s] = l /\ r \in left[s])]
        /\ UNCHANGED <<steady, left, seen>>
    BY <2>0, <2>1 DEF addToList, ellInsert
  <2>3. /\ list[l] \in Seq(Records) /\ Len(list[l]) \in Nat
        /\ Items(list[l]) = {y \in Records : pscan_list[y] = l}
    BY <2>0, TheList
  <2>4. i + 1 \in 1 .. Len(list[l]) + 1
    BY <2>1, <2>3 DEF PlaceFor
  <2>5. /\ ListTypes' /\ ListIntact'
        /\ pscan_list' = [pscan_list EXCEPT ![r] = l]
    BY AddStep
  <2>6. list'[l] = InsertAt(list[l], i + 1, r)
    BY <2>0, <2>2 DEF ListTypes
  <2>7. Items(list'[l]) = {y \in Records : pscan_list'[y] = l}
    BY <2>0, <2>5 DEF ListIntact, Elements, Items
  <2>8. Items(InsertAt(list[l], i + 1, r)) = Items(list[l]) \cup {r} /\ r \notin Items(list[l])
    BY <2>0, <2>3, <2>5, <2>6, <2>7 DEF ListTypes
  <2> SUFFICES ASSUME NEW s \in Scanners
               PROVE  Walk(s)' /\ Rest(s)'
    BY DEF HistoryOK
  <2>9. Walk(s) /\ Rest(s)
    BY DEF HistoryOK
  <2>10. Rest(s)'
    BY <1>0, <2>2, <2>9 DEF Rest
  <2>11. Walk(s)'
    <3> SUFFICES ASSUME pc[s] # "idle", ~back'[s]
                 PROVE  Track(list'[Scans[s]], steady[s], left[s], seen[s],
                              pse[s], prev[s], next[s], JustDone(s))
      BY <1>0, <1>a, <2>2 DEF Walk
    <3>1. ~back[s] /\ (Scans[s] = l => r \notin left[s])
      BY <2>2
    <3>2. Track(list[Scans[s]], steady[s], left[s], seen[s],
                pse[s], prev[s], next[s], JustDone(s))
      BY <2>9, <3>1 DEF Walk
    <3>3. CASE Scans[s] = l
      <4>1. Track(InsertAt(list[l], i + 1, r), steady[s], left[s], seen[s],
                  pse[s], prev[s], next[s], JustDone(s))
        BY <2>3, <2>4, <2>8, <3>1, <3>2, <3>3, TrackInserted
      <4> QED BY <2>6, <3>3, <4>1
    <3>4. CASE Scans[s] # l
      <4>1. list'[Scans[s]] = list[Scans[s]]
        BY <2>2, <3>4 DEF ListTypes
      <4> QED BY <3>2, <4>1
    <3> QED BY <3>3, <3>4
  <2> QED BY <2>10, <2>11
<1> QED BY <1>1, <1>2

(* The first record of a scan.                                             *)
LEMMA StartWalk ==
    ASSUME Inv, HistoryOK, NEW s \in Scanners, StartScan(s)
    PROVE  HistoryOK'
<1> USE ScanListAssumption
<1> DEFINE l == Scans[s]
           e == FirstOf(l)
           n == NextOf(e, None)
<1>1. /\ pc[s] = "idle"
      /\ Moved(s, e, None, n)
      /\ UNCHANGED list
      /\ IF e = None THEN UNCHANGED <<pc, history>>
         ELSE /\ pc' = [pc EXCEPT ![s] = "lock"]
              /\ steady' = [steady EXCEPT ![s] = Elements(l)]
              /\ UNCHANGED <<left, back, seen>>
  BY DEF StartScan
<1>2. ListTypes /\ HistoryTypes /\ ThreadTypes /\ ListIntact
  BY DEF Inv, TypeOK
<1>3. l \in Lists
  OBVIOUS
<1>4. ASSUME NEW x \in Scanners, x # s PROVE Place(x)' = Place(x)
  BY <1>1, <1>2, <1>4 DEF Place, Moved, ThreadTypes, HistoryTypes, history
<1>5. Walk(s) /\ Rest(s)
  BY DEF HistoryOK
<1>6. CASE e = None
  <2>1. Walk(s)' /\ Rest(s)'
    BY <1>1, <1>5, <1>6 DEF Walk, Rest, history
  <2> QED BY <1>1, <1>4, <2>1, OneMoves
<1>7. CASE e # None
  <2> DEFINE q == list[l]
  <2>1. /\ pc'[s] = "lock" /\ pse'[s] = e /\ prev'[s] = None /\ next'[s] = n
        /\ steady'[s] = Elements(l) /\ left'[s] = {} /\ seen'[s] = {} /\ list' = list
    BY <1>1, <1>2, <1>5, <1>7 DEF Moved, ThreadTypes, HistoryTypes, Rest
  <2>2. /\ q \in Seq(Records) /\ Len(q) \in Nat /\ Ordered(q, phas)
        /\ Elements(l) = Items(q)
    BY <1>2, <1>3, TheList
  <2>3. 1 \in 1 .. Len(q) /\ e = q[1]
    BY <1>7 DEF FirstOf, At
  <2>4. n = None \/ (1 < Len(q) /\ n = q[2])
    <3>1. ellNext(q[1]) = IF 1 < Len(q) THEN q[1 + 1] ELSE None
      BY <1>2, <1>3, <2>3, Neighbours
    <3> QED BY <1>7, <2>3, <3>1 DEF NextOf
  <2> HIDE DEF e, n
  <2>5. \A r \in Items(q) : r \in {} <=> Before(q, r, q[1])
    <3> SUFFICES ASSUME NEW j \in 1 .. Len(q)
                 PROVE  ~Before(q, q[j], q[1])
      BY DEF Items
    <3> QED BY <2>2, <2>3, BeforeAt
  <2>6. Track(q, Items(q), {}, {}, q[1], None, n, {})
    <3> DEFINE i == 1
               S == Items(q)
               L == {}
               D == {}
               p == None
    <3>1. /\ i \in 1 .. Len(q) /\ S \subseteq Items(q) /\ L \cap Items(q) = {}
          /\ D \subseteq S /\ p = None
          /\ n = None \/ (i < Len(q) /\ n = q[i + 1])
          /\ \A r \in S : r \in D <=> Before(q, r, q[i])
      BY <2>3, <2>4, <2>5
    <3> HIDE DEF i, S, L, D, p, q
    <3>2. Track(q, S, L, D, q[i], p, n, {})
      BY <2>2, <3>1, TrackTaken
    <3> QED BY <3>2 DEF i, S, L, D, p
  <2>7. Walk(s)' /\ Rest(s)'
    BY <2>1, <2>2, <2>3, <2>6 DEF Walk, Rest, JustDone
  <2> QED BY <1>1, <1>4, <2>7, OneMoves
<1> QED BY <1>6, <1>7

(* The scanner locks its record.                                           *)
LEMMA ProcessWalk ==
    ASSUME Inv, HistoryOK, NEW s \in Scanners, Process(s)
    PROVE  HistoryOK'
<1>1. /\ pc[s] = "lock" /\ pc' = [pc EXCEPT ![s] = "process"]
      /\ UNCHANGED <<list, pse, prev, next, steady, left, back, seen>>
  BY DEF Process, lists, history
<1>2. ThreadTypes /\ Walk(s) /\ Rest(s)
  BY DEF Inv, TypeOK, HistoryOK
<1>3. ASSUME NEW x \in Scanners, x # s PROVE Place(x)' = Place(x)
  BY <1>1, <1>2, <1>3 DEF Place, ThreadTypes
<1>4. Walk(s)' /\ Rest(s)'
  BY <1>1, <1>2 DEF Walk, Rest, JustDone, ThreadTypes
<1> QED BY <1>1, <1>3, <1>4, OneMoves

(* The record has been processed.                                          *)
LEMMA ProcessedWalk ==
    ASSUME Inv, HistoryOK, NEW s \in Scanners, Processed(s)
    PROVE  HistoryOK'
<1>1. /\ pc[s] = "process" /\ pc' = [pc EXCEPT ![s] = "step"]
      /\ seen' = [seen EXCEPT ![s] = @ \cup ({pse[s]} \cap steady[s])]
      /\ UNCHANGED <<list, pse, prev, next, steady, left, back>>
  BY DEF Processed, lists
<1>2. ThreadTypes /\ HistoryTypes /\ Walk(s) /\ Rest(s)
  BY DEF Inv, TypeOK, HistoryOK
<1>3. ASSUME NEW x \in Scanners, x # s PROVE Place(x)' = Place(x)
  BY <1>1, <1>2, <1>3 DEF Place, ThreadTypes, HistoryTypes
<1>4. pc'[s] = "step" /\ seen'[s] = seen[s] \cup ({pse[s]} \cap steady[s])
  BY <1>1, <1>2 DEF ThreadTypes, HistoryTypes
<1>5. Walk(s)'
  <2> SUFFICES ASSUME ~back[s]
               PROVE  Track(list[Scans[s]], steady[s], left[s],
                            seen[s] \cup ({pse[s]} \cap steady[s]),
                            pse[s], prev[s], next[s], {pse[s]})
    BY <1>1, <1>4 DEF Walk, JustDone
  <2>1. Track(list[Scans[s]], steady[s], left[s], seen[s], pse[s], prev[s], next[s], {})
    BY <1>1, <1>2 DEF Walk, JustDone
  <2> QED BY <2>1, TrackDone
<1>6. Rest(s)'
  BY <1>4 DEF Rest
<1> QED BY <1>1, <1>3, <1>5, <1>6, OneMoves

(* The scan has come to the element e of its list, from which p and n are  *)
(* the neighbours; the records before e, and no other, have been           *)
(* processed.                                                              *)
Arrival(s, e, p, n) ==
    LET q == list[Scans[s]] IN
    \E i \in 1 .. Len(q) :
      /\ e = q[i]
      /\ p = None \/ (i > 1 /\ p = q[i - 1])
      /\ n = None \/ (i < Len(q) /\ n = q[i + 1])
      /\ \A r \in steady[s] : r \in seen[s] <=> Before(q, r, q[i])

(* From an element x, the last of those that have been processed.          *)
LEMMA Onward ==
    ASSUME ListTypes, ListIntact, NEW s \in Scanners, NEW x \in Records,
           pscan_list[x] = Scans[s], steady[s] \subseteq Items(list[Scans[s]]),
           \A r \in steady[s] : r \in seen[s] <=> r = x \/ Before(list[Scans[s]], r, x)
    PROVE  /\ ellNext(x) = None => steady[s] \subseteq seen[s]
           /\ ellNext(x) # None =>
                /\ ellPrevious(ellNext(x)) = x
                /\ Arrival(s, ellNext(x), x, NextOf(ellNext(x), None))
<1> USE ScanListAssumption
<1> DEFINE l == Scans[s]
           q == list[l]
<1>1. l \in Lists
  OBVIOUS
<1>2. /\ q \in Seq(Records) /\ Len(q) \in Nat /\ Ordered(q, phas)
      /\ Items(q) = {r \in Records : pscan_list[r] = l}
  BY <1>1, TheList
<1>3. x \in Items(q)
  BY <1>2
<1>4. PICK i \in 1 .. Len(q) : x = q[i]
  BY <1>3 DEF Items
<1>5. \A j \in 1 .. Len(q) : q[j] \in Records /\ q[j] # None
  BY <1>2
<1>6. ellNext(x) = IF i < Len(q) THEN q[i + 1] ELSE None
  BY <1>1, <1>4, Neighbours
<1>7. \A r \in steady[s] : \E j \in 1 .. Len(q) : r = q[j]
  BY DEF Items
<1> HIDE DEF l
<1>8. \A j \in 1 .. Len(q) : q[j] \in steady[s] => (q[j] \in seen[s] <=> j <= i)
  <2> TAKE j \in 1 .. Len(q)
  <2>1. q[j] = x <=> j = i
    BY <1>2, <1>4, OnePlace
  <2>2. Before(q, q[j], x) <=> j < i
    BY <1>2, <1>4, BeforeAt
  <2> QED BY <1>4, <2>1, <2>2 DEF l
<1>9. CASE ~(i < Len(q))
  <2>1. ellNext(x) = None
    BY <1>6, <1>9
  <2>2. \A j \in 1 .. Len(q) : j <= i
    BY <1>2, <1>4, <1>9
  <2> QED BY <1>7, <1>8, <2>1, <2>2
<1>10. CASE i < Len(q)
  <2> DEFINE e == ellNext(x)
  <2>1. i + 1 \in 1 .. Len(q) /\ e = q[i + 1] /\ e # None
    BY <1>2, <1>4, <1>5, <1>6, <1>10
  <2>2. /\ ellNext(q[i + 1]) = IF i + 1 < Len(q) THEN q[i + 1 + 1] ELSE None
        /\ ellPrevious(q[i + 1]) = IF i + 1 > 1 THEN q[i + 1 - 1] ELSE None
    BY <1>1, <2>1, Neighbours DEF l
  <2>3. i + 1 > 1 /\ i + 1 - 1 = i
    BY <1>4
  <2>4. ellPrevious(e) = x
    BY <1>4, <2>1, <2>2, <2>3
  <2> DEFINE n == NextOf(e, None)
  <2>5. n = None \/ (i + 1 < Len(q) /\ n = q[i + 1 + 1])
    BY <2>1, <2>2 DEF NextOf
  <2>6. \A r \in steady[s] : r \in seen[s] <=> Before(q, r, q[i + 1])
    <3> TAKE r \in steady[s]
    <3>1. PICK j \in 1 .. Len(q) : r = q[j]
      BY <1>7
    <3>2. Before(q, q[j], q[i + 1]) <=> j < i + 1
      BY <1>2, <2>1, BeforeAt
    <3>3. j < i + 1 <=> j <= i
      BY <1>4, <3>1
    <3> QED BY <1>8, <3>1, <3>2, <3>3
  <2> HIDE DEF e, n
  <2>7. Arrival(s, e, x, n)
    <3>1. x = q[i + 1 - 1]
      BY <1>4, <2>3
    <3> QED BY <2>1, <2>3, <2>5, <2>6, <3>1 DEF Arrival, l
  <2> QED BY <2>1, <2>4, <2>7 DEF e, n
<1> QED BY <1>9, <1>10

(* Where scanList goes from the record just processed, or that it gives up.*)
LEMMA WhereTo ==
    ASSUME Inv, CursorFresh, HistoryOK, NEW s \in Scanners, Step(s), ~back[s]
    PROVE  \/ GiveUp(s)
           \/ \E e, p, n : /\ Continue(s, e, p, n)
                           /\ e = None => steady[s] \subseteq seen[s]
                           /\ e # None => e \in Records /\ Arrival(s, e, p, n)
<1> USE ScanListAssumption
<1> DEFINE l == Scans[s]
           q == list[l]
           S == steady[s]
           Goal == \E e, p, n : /\ Continue(s, e, p, n)
                                /\ e = None => S \subseteq seen[s]
                                /\ e # None => e \in Records /\ Arrival(s, e, p, n)
<1>1. pc[s] = "step"
  BY DEF Step
<1>2. ListTypes /\ HistoryTypes /\ ThreadTypes /\ ListIntact /\ CursorSet
  BY DEF Inv, TypeOK
<1>3. l \in Lists /\ l # None /\ pse[s] \in Records
  BY <1>1, <1>2 DEF CursorSet, ThreadTypes
<1>4. /\ q \in Seq(Records) /\ Len(q) \in Nat /\ Ordered(q, phas)
      /\ Items(q) = {r \in Records : pscan_list[r] = l}
  BY <1>2, <1>3, TheList
<1>5. Track(q, S, left[s], seen[s], pse[s], prev[s], next[s], {pse[s]})
  BY <1>1 DEF HistoryOK, Walk, JustDone
<1>6. S \subseteq Items(q)
  BY <1>5 DEF Track
<1>7. \A r \in Records : ellNext(r) \in Records \cup {None}
  BY <1>2, NextOnList
<1>8. CASE pscan_list[pse[s]] = l /\ AfterCurrent(s)
  <2> DEFINE x == pse[s]
             e == ellNext(x)
             n == NextOf(e, None)
  <2>1. x \in Items(q)
    BY <1>3, <1>4, <1>8
  <2>2. \A r \in S : r \in seen[s] <=> r = x \/ Before(q, r, x)
    BY <1>5, <2>1 DEF Track
  <2>3. /\ e = None => S \subseteq seen[s]
        /\ e # None => Arrival(s, e, x, n)
    BY <1>2, <1>3, <1>6, <1>8, <2>2, Onward
  <2>4. Continue(s, e, x, n) /\ e \in Records \cup {None}
    BY <1>3, <1>7, <1>8 DEF AfterCurrent
  <2> HIDE DEF e, n, x
  <2> QED BY <2>3, <2>4
<1>9. CASE ~OnList(pse[s], l) /\ OnList(prev[s], l) /\ AfterPrevious(s)
  <2> DEFINE x == prev[s]
             e == ellNext(x)
             n == NextOf(e, None)
             p == IF e = None THEN None ELSE ellPrevious(e)
  <2>1. x \in Records /\ pscan_list[x] = l
    BY <1>2, <1>9 DEF OnList, ThreadTypes
  <2>2. x \in Items(q) /\ pse[s] \notin S
    <3>1. pse[s] \notin Items(q)
      BY <1>3, <1>4, <1>9 DEF OnList
    <3> QED BY <1>4, <1>6, <2>1, <3>1
  <2>3. \A r \in S : r \in seen[s] <=> r = x \/ Before(q, r, x)
    BY <1>5, <2>2 DEF Track
  <2>4. /\ e = None => S \subseteq seen[s]
        /\ e # None => ellPrevious(e) = x /\ Arrival(s, e, x, n)
    BY <1>2, <1>3, <1>6, <2>1, <2>3, Onward
  <2>5. Continue(s, e, p, n) /\ e \in Records \cup {None}
    BY <1>7, <1>9, <2>1 DEF AfterPrevious
  <2>6. e # None => p = x
    BY <2>4
  <2> HIDE DEF e, n, x, p
  <2> QED BY <2>4, <2>5, <2>6
<1>10. CASE ~OnList(pse[s], l) /\ OnList(next[s], l) /\ AtNext(s)
  <2> DEFINE e == next[s]
             p == ellPrevious(e)
             n == ellNext(e)
  <2>1. e \in Records /\ pscan_list[e] = l /\ e # None
    BY <1>2, <1>10 DEF OnList, ThreadTypes
  <2>2. e \in Items(q) /\ pse[s] \notin S
    <3>1. pse[s] \notin Items(q)
      BY <1>3, <1>4, <1>10 DEF OnList
    <3> QED BY <1>4, <1>6, <2>1, <3>1
  <2>3. \A r \in S : r \in seen[s] <=> Before(q, r, e)
    BY <1>5, <2>2 DEF Track
  <2>4. PICK i \in 1 .. Len(q) : e = q[i]
    BY <2>2 DEF Items
  <2>5. /\ ellNext(q[i]) = IF i < Len(q) THEN q[i + 1] ELSE None
        /\ ellPrevious(q[i]) = IF i > 1 THEN q[i - 1] ELSE None
    BY <1>2, <1>3, <2>4, Neighbours
  <2>6. /\ p = None \/ (i > 1 /\ p = q[i - 1])
        /\ n = None \/ (i < Len(q) /\ n = q[i + 1])
    BY <2>4, <2>5
  <2>7. Continue(s, e, p, n)
    BY <1>10 DEF AtNext
  <2> HIDE DEF e, n, p
  <2>8. Arrival(s, e, p, n)
    BY <2>3, <2>4, <2>6 DEF Arrival
  <2> QED BY <2>1, <2>7, <2>8
<1>11. ~modified[l] => pscan_list[pse[s]] = l
  BY <1>1 DEF CursorFresh
<1> HIDE DEF q, S
<1> QED BY <1>8, <1>9, <1>10, <1>11 DEF Step, Unmodified, OnList, Goal

(* A step of a scan that a record came back to.                            *)
LEMMA BackStep ==
    ASSUME Inv, NEW s \in Scanners, Step(s)
    PROVE  \/ /\ pc'[s] = "idle" /\ Forget(s)
           \/ /\ pc'[s] = "lock" /\ UNCHANGED history
<1>1. ThreadTypes
  BY DEF Inv, TypeOK
<1>2. ASSUME NEW e, NEW p, NEW n, Continue(s, e, p, n)
      PROVE  \/ /\ pc'[s] = "idle" /\ Forget(s)
             \/ /\ pc'[s] = "lock" /\ UNCHANGED history
  BY <1>1, <1>2 DEF Continue, ThreadTypes
<1>3. ASSUME GiveUp(s)
      PROVE  pc'[s] = "idle" /\ Forget(s)
  BY <1>1, <1>3 DEF GiveUp, ThreadTypes
<1> QED BY <1>2, <1>3 DEF Step, AfterCurrent, AfterPrevious, AtNext

(* The next record of a scan, or its end.                                  *)
LEMMA StepWalk ==
    ASSUME Inv, CursorFresh, HistoryOK, NEW s \in Scanners, Step(s)
    PROVE  HistoryOK'
<1> USE ScanListAssumption
<1>1. /\ pc[s] = "step" /\ UNCHANGED list
  BY DEF Step
<1>2. ListTypes /\ HistoryTypes /\ ThreadTypes /\ ListIntact /\ Walk(s)
  BY DEF Inv, TypeOK, HistoryOK
<1>3. \/ /\ pc'[s] = "idle" /\ Forget(s)
      \/ /\ pc'[s] = "lock" /\ UNCHANGED history
  BY BackStep
<1>4. ASSUME NEW x \in Scanners, x # s PROVE Place(x)' = Place(x)
  <2>1. /\ steady'[x] = steady[x] /\ left'[x] = left[x]
        /\ back'[x] = back[x] /\ seen'[x] = seen[x]
    BY <1>2, <1>3, <1>4 DEF Forget, history, HistoryTypes
  <2>2. ASSUME NEW e, NEW p, NEW n, Moved(s, e, p, n)
        PROVE  pse'[x] = pse[x] /\ prev'[x] = prev[x] /\ next'[x] = next[x]
    BY <1>2, <1>4, <2>2 DEF Moved, ThreadTypes
  <2>3. pse'[x] = pse[x] /\ prev'[x] = prev[x] /\ next'[x] = next[x]
    BY <2>2 DEF Step, AfterCurrent, AfterPrevious, AtNext, Continue, GiveUp
  <2>4. pc'[x] = pc[x]
    BY <1>2, <1>4 DEF Step, AfterCurrent, AfterPrevious, AtNext, Continue, GiveUp, ThreadTypes
  <2> QED BY <2>1, <2>3, <2>4 DEF Place
<1>5. CASE pc'[s] = "idle" /\ Forget(s)
  <2>1. Walk(s)' /\ Rest(s)'
    BY <1>2, <1>5 DEF Walk, Rest, Forget, HistoryTypes
  <2> QED BY <1>1, <1>4, <2>1, OneMoves
<1>6. CASE pc'[s] = "lock" /\ UNCHANGED history
  <2>1. Rest(s)'
    BY <1>6 DEF Rest
  <2>2. UNCHANGED <<steady, left, back, seen>>
    BY <1>6 DEF history
  <2>3. Walk(s)'
    <3>1. CASE back[s]
      BY <2>2, <3>1 DEF Walk
    <3>2. CASE ~back[s]
      <4>1. PICK e, p, n : /\ Continue(s, e, p, n)
                           /\ e # None => Arrival(s, e, p, n)
        <5>1. ~GiveUp(s)
          BY <1>2, <1>6 DEF GiveUp, ThreadTypes
        <5> QED BY <3>2, <5>1, WhereTo
      <4>2. e # None /\ Moved(s, e, p, n)
        BY <1>2, <1>6, <4>1 DEF Continue, ThreadTypes
      <4>3. pse'[s] = e /\ prev'[s] = p /\ next'[s] = n
        BY <1>2, <4>2 DEF Moved, ThreadTypes
      <4> DEFINE q == list[Scans[s]]
      <4>4. PICK i \in 1 .. Len(q) :
              /\ e = q[i]
              /\ p = None \/ (i > 1 /\ p = q[i - 1])
              /\ n = None \/ (i < Len(q) /\ n = q[i + 1])
              /\ \A r \in steady[s] : r \in seen[s] <=> Before(q, r, q[i])
        BY <4>1, <4>2 DEF Arrival
      <4>5. q \in Seq(Records) /\ Ordered(q, phas)
        BY <1>2, TheList
      <4>6. /\ steady[s] \subseteq Items(q) /\ left[s] \cap Items(q) = {}
            /\ seen[s] \subseteq steady[s]
        BY <1>1, <1>2, <3>2 DEF Walk, Track
      <4>7. Track(q, steady[s], left[s], seen[s], q[i], p, n, {})
        BY <4>4, <4>5, <4>6, TrackTaken
      <4> QED BY <1>1, <1>6, <2>2, <4>3, <4>4, <4>7 DEF Walk, JustDone
    <3> QED BY <3>1, <3>2
  <2> QED BY <1>1, <1>4, <2>1, <2>3, OneMoves
<1> QED BY <1>3, <1>5, <1>6

-----------------------------------------------------------------------------
(* Before the first scan there is no history.                              *)
LEMMA HistoryInit == Init => HistoryOK
BY DEF Init, HistoryOK, Walk, Rest

(* Every step keeps the histories.                                         *)
LEMMA HistoryStep ==
    ASSUME Inv, CursorFresh, HistoryOK, [Next]_vars
    PROVE  HistoryOK'
<1> USE ScanListAssumption
<1>0. /\ ListTypes /\ HistoryTypes /\ ThreadTypes /\ ListIntact
      /\ FieldsName /\ LocksHeld /\ OffList
  BY DEF Inv, TypeOK
<1>1. ASSUME NEW s \in Scanners, StartScan(s) PROVE HistoryOK'
  BY <1>1, StartWalk
<1>2. ASSUME NEW s \in Scanners, Process(s) PROVE HistoryOK'
  BY <1>2, ProcessWalk
<1>3. ASSUME NEW s \in Scanners, Processed(s) PROVE HistoryOK'
  BY <1>3, ProcessedWalk
<1>4. ASSUME NEW s \in Scanners, Step(s) PROVE HistoryOK'
  BY <1>4, StepWalk
<1>5. ASSUME NEW t \in Threads \cup {None}, NEW r \in Records, Locked(t, r),
             t \in Threads => changing[t] = None,
             scanDelete(r), UNCHANGED <<fields, cursor>>
      PROVE  HistoryOK'
  <2>1. \A x \in Threads : changing[x] # r
    BY <1>5, OneWriter
  <2>2. pscan_list[r] = scan[r]
    BY <1>0, <2>1 DEF FieldsName
  <2> QED BY <1>0, <1>5, <2>2, DeleteWalk
<1>6. ASSUME NEW s \in Scanners, NEW r \in Records, BeginNested(s, r) PROVE HistoryOK'
  BY <1>5, <1>6 DEF BeginNested, Threads
<1>7. ASSUME NEW t \in Putters, NEW r \in Records, BeginPut(t, r) PROVE HistoryOK'
  <2>1. /\ None \notin Threads /\ Locked(None, r)
        /\ scanDelete(r) /\ UNCHANGED <<fields, cursor>>
    BY <1>7 DEF BeginPut, Threads
  <2> QED BY <1>5, <2>1
<1>8. ASSUME NEW t \in Threads, NEW l \in Lists \cup {None}, NEW ph \in Phases,
             EndChange(t, l, ph)
      PROVE  HistoryOK'
  <2> DEFINE r == changing[t]
  <2>1. /\ r # None
        /\ scan' = [scan EXCEPT ![r] = l] /\ phas' = [phas EXCEPT ![r] = ph]
        /\ scanAdd(r, l, ph) /\ UNCHANGED cursor
    BY <1>8 DEF EndChange
  <2>2. r \in Records /\ pscan_list[r] = None
    BY <1>0, <2>1 DEF ThreadTypes, OffList
  <2> HIDE DEF r
  <2> QED BY <1>0, <2>1, <2>2, AddWalk
<1>9. ASSUME UNCHANGED vars PROVE HistoryOK'
  <2>1. UNCHANGED <<list, pc, pse, prev, next, steady, left, back, seen>>
    BY <1>9 DEF vars, lists, cursor, history
  <2> SUFFICES ASSUME NEW s \in Scanners
               PROVE  Walk(s)' /\ Rest(s)'
    BY DEF HistoryOK
  <2>2. Walk(s) /\ Rest(s)
    BY DEF HistoryOK
  <2>3. JustDone(s)' = JustDone(s)
    BY <2>1 DEF JustDone
  <2> QED BY <2>1, <2>2, <2>3 DEF Walk, Rest
<1> QED BY <1>1, <1>2, <1>3, <1>4, <1>6, <1>7, <1>8, <1>9 DEF Next

(* The places and the histories of the scans agree.                        *)
LEMMA HistoryHolds ==
    ASSUME OneScanner
    PROVE  Spec => [](Inv /\ CursorFresh /\ HistoryOK)
<1>1. Init => CursorFresh
  BY InvInit
<1>2. Inv /\ CursorFresh /\ [Next]_vars => CursorFresh'
  BY InvStep
<1>3. Init => HistoryOK
  BY HistoryInit
<1>4. Inv /\ CursorFresh /\ HistoryOK /\ [Next]_vars => HistoryOK'
  BY HistoryStep
<1> QED BY <1>1, <1>2, <1>3, <1>4, InvHolds, PTL DEF Spec

(* If no two threads scan the same list and no record that left the list   *)
(* has come back, a scan meets the records that stayed on the list once    *)
(* each, in order of PHAS, whatever else was put on the list or taken off  *)
(* it (scanList).                                                          *)
THEOREM InPhaseOrderHolds ==
    ASSUME OneScanner
    PROVE  Spec => []InPhaseOrder
<1> USE ScanListAssumption
<1>1. Inv /\ HistoryOK => InPhaseOrder
  <2> SUFFICES ASSUME Inv, HistoryOK, NEW s \in Scanners,
                      pc[s] = "lock", pse[s] \in steady[s], ~back[s], NEW r \in seen[s]
               PROVE  r # pse[s] /\ phas[r] <= phas[pse[s]]
    BY DEF InPhaseOrder
  <2> DEFINE q == list[Scans[s]]
  <2>1. Track(q, steady[s], left[s], seen[s], pse[s], prev[s], next[s], {})
    BY DEF HistoryOK, Walk, JustDone
  <2>2. Ordered(q, phas)
    BY TheList DEF Inv, TypeOK
  <2> HIDE DEF q
  <2>3. Before(q, r, pse[s])
    BY <2>1 DEF Track
  <2> QED BY <2>2, <2>3, BeforeOrder
<1> QED BY <1>1, HistoryHolds, PTL

(* ... and when the scan comes to the end of the list it has processed all *)
(* of them (scanList, unless it gives up, 1031-1035).                      *)
THEOREM NothingSkippedHolds ==
    ASSUME OneScanner
    PROVE  Spec => NothingSkipped
<1> DEFINE Whole == \A s \in Scanners : Completes(s) /\ ~back[s] => steady[s] \subseteq seen[s]
<1>1. Inv /\ CursorFresh /\ HistoryOK /\ [Next]_vars => [Whole]_vars
  <2> SUFFICES ASSUME Inv, CursorFresh, HistoryOK, Next, NEW s \in Scanners,
                      Completes(s), ~back[s]
               PROVE  steady[s] \subseteq seen[s]
    OBVIOUS
  <2> USE DEF Inv, TypeOK, ThreadTypes
  <2>0. pc[s] = "step" /\ pc'[s] = "idle" /\ pse'[s] = None /\ pse[s] # None
    BY DEF Completes, CursorSet
  <2>1. ASSUME NEW x \in Scanners, Step(x) PROVE x = s
    BY <2>0, <2>1 DEF Step, Continue, GiveUp, AfterCurrent, AfterPrevious, AtNext
  <2>2. ASSUME NEW x \in Scanners, StartScan(x) PROVE FALSE
    BY <2>0, <2>2 DEF StartScan
  <2>3. ASSUME NEW x \in Scanners, Process(x) \/ Processed(x) PROVE FALSE
    BY <2>0, <2>3 DEF Process, Processed
  <2>4. ASSUME UNCHANGED cursor PROVE FALSE
    BY <2>0, <2>4 DEF cursor
  <2>5. Step(s)
    BY <2>1, <2>2, <2>3, <2>4 DEF Next, BeginNested, BeginPut, EndChange
  <2>6. ~GiveUp(s)
    BY <2>0 DEF GiveUp, Moved
  <2>7. PICK e, p, n : Continue(s, e, p, n) /\ (e = None => steady[s] \subseteq seen[s])
    BY <2>5, <2>6, WhereTo
  <2>8. e = None
    BY <2>0, <2>7 DEF Continue
  <2> QED BY <2>7, <2>8
<1> QED BY <1>1, HistoryHolds, PTL DEF Spec, NothingSkipped
-----------------------------------------------------------------------------
(* ScanList gives each lock set an owner.  That no two threads then process *)
(* one record, though links move records between lock sets, is what        *)
(* RecordLocks says of dbScanLock, for any threads, records and links.     *)
CONSTANT Fields               \* link fields: <<record, number>>
VARIABLES link, asked, held   \* of RecordLocks
Locks == INSTANCE RecordLocks

LinkTypes ==
    /\ link \in [Fields -> Records \cup {None}]
    /\ held \in [Threads -> SUBSET Records]
    /\ asked \in [Threads -> SUBSET Records]

\* A link that a thread changes has both ends, before and after, in what it has, so it
\* has neither end in what another has.
LEMMA ChangeKeepsWhole ==
    ASSUME LinkTypes, Locks!Apart, Locks!Whole,
           NEW t \in Threads, Locks!ChangeLink(t)
    PROVE  Locks!Whole'
<1>1. PICK f \in Fields, r \in held[t] \cup {None} :
        f[1] \in held[t] /\ link' = [link EXCEPT ![f] = r]
  BY DEF Locks!ChangeLink
<1>2. held' = held /\ asked' = asked
  BY DEF Locks!ChangeLink
<1>3. ASSUME NEW u \in Threads, NEW g \in Fields, link'[g] # None
      PROVE  g[1] \in held[u] <=> link'[g] \in held[u]
  <2>1. CASE g # f
    BY <1>1, <1>3, <2>1 DEF LinkTypes, Locks!Whole, Locks!Closed
  <2>2. CASE g = f
    <3>1. link'[g] = r /\ r \in held[t]
      BY <1>1, <1>3, <2>2 DEF LinkTypes
    <3>2. CASE u = t
      BY <1>1, <2>2, <3>1, <3>2
    <3>3. CASE u # t
      BY <1>1, <2>2, <3>1, <3>3 DEF Locks!Apart
    <3>. QED  BY <3>2, <3>3
  <2>. QED  BY <2>1, <2>2
<1>. QED  BY <1>2, <1>3 DEF Locks!Whole, Locks!Closed

\* Whatever threads lock and unlock and whatever links they change, no two have one
\* record, and each has what links connect with the records it locked.
THEOREM LocksKeepApart == Locks!Spec => [](Locks!Apart /\ Locks!Whole)
<1> DEFINE LockInv == LinkTypes /\ Locks!Apart /\ Locks!Whole
<1>1. Locks!Init => LockInv
  BY DEF Locks!Init, LinkTypes, Locks!Apart, Locks!Whole, Locks!Closed
<1>2. LockInv /\ [Locks!Next]_(Locks!vars) => LockInv'
  <2>. SUFFICES ASSUME LockInv, [Locks!Next]_(Locks!vars) PROVE LockInv'
    OBVIOUS
  <2>1. CASE UNCHANGED Locks!vars
    BY <2>1 DEF Locks!vars, LinkTypes, Locks!Apart, Locks!Whole, Locks!Closed
  <2>2. ASSUME NEW t \in Threads, Locks!Lock(t) PROVE LockInv'
    <3>1. PICK S \in SUBSET Records :
            /\ Locks!Closed(S)
            /\ \A u \in Threads \ {t} : held[u] \cap S = {}
            /\ held' = [held EXCEPT ![t] = S] /\ link' = link
            /\ \E A \in SUBSET S : asked' = [asked EXCEPT ![t] = A]
      BY <2>2 DEF Locks!Lock
    <3>2. PICK A \in SUBSET S : asked' = [asked EXCEPT ![t] = A]
      BY <3>1
    <3>3. LinkTypes'
      BY <3>1, <3>2 DEF LinkTypes
    <3>4. Locks!Apart'
      BY <3>1 DEF LinkTypes, Locks!Apart
    <3>5. Locks!Whole'
      BY <3>1, <3>2 DEF LinkTypes, Locks!Whole, Locks!Closed
    <3>. QED  BY <3>3, <3>4, <3>5
  <2>3. ASSUME NEW t \in Threads, Locks!Unlock(t) PROVE LockInv'
    <3>1. LinkTypes'
      BY <2>3 DEF Locks!Unlock, LinkTypes
    <3>2. Locks!Apart'
      BY <2>3 DEF Locks!Unlock, LinkTypes, Locks!Apart
    <3>3. Locks!Whole'
      BY <2>3 DEF Locks!Unlock, LinkTypes, Locks!Whole, Locks!Closed
    <3>. QED  BY <3>1, <3>2, <3>3
  <2>4. ASSUME NEW t \in Threads, Locks!ChangeLink(t) PROVE LockInv'
    <3>1. LinkTypes'
      BY <2>4 DEF Locks!ChangeLink, LinkTypes
    <3>2. Locks!Apart'
      BY <2>4 DEF Locks!ChangeLink, Locks!Apart
    <3>3. Locks!Whole'
      BY <2>4, ChangeKeepsWhole
    <3>. QED  BY <3>1, <3>2, <3>3
  <2>. QED  BY <2>1, <2>2, <2>3, <2>4 DEF Locks!Next
<1>3. LockInv => Locks!Apart /\ Locks!Whole
  OBVIOUS
<1>. QED  BY <1>1, <1>2, <1>3, PTL DEF Locks!Spec
=============================================================================
