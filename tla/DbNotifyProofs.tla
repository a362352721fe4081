--------------------------- MODULE DbNotifyProofs ---------------------------
(***************************************************************************)
(* Theorems about DbNotify, for any number of requests and threads, every  *)
(* chain of records and whatever processes them.                           *)
(***************************************************************************)
EXTENDS DbNotify, SequenceTheorems, FunctionTheorems, FiniteSetTheorems, TLAPS

-----------------------------------------------------------------------------
(* Sequences and what is in them.                                          *)

\* What is in a sequence is in it some number of times.
LEMMA TimesIn ==
    ASSUME NEW S, NEW q \in Seq(S), NEW x
    PROVE  /\ Times(q, x) \in Nat /\ (IsIn(q, x) <=> Times(q, x) > 0)
           /\ IsIn(q, x) => x \in S /\ q # <<>>
           /\ q = <<>> => Times(q, x) = 0
<1> DEFINE I == {i \in DOMAIN q : q[i] = x}
<1>1. Len(q) \in Nat /\ I \in SUBSET (1 .. Len(q)) /\ DOMAIN q = 1 .. Len(q)
  OBVIOUS
<1>2. IsFiniteSet(I) /\ Cardinality(I) \in Nat
  <2>1. IsFiniteSet(1 .. Len(q))
    BY <1>1, FS_Interval
  <2>. HIDE DEF I
  <2>. QED  BY <1>1, <2>1, FS_Subset, FS_CardinalityType
<1>3. I = {} <=> Cardinality(I) = 0
  BY <1>2, FS_EmptySet
<1>4. IsIn(q, x) <=> I # {}
  BY DEF IsIn
<1>5. IsIn(q, x) => x \in S /\ q # <<>>
  BY <1>1 DEF IsIn
<1>6. q = <<>> => I = {}
  OBVIOUS
<1>. HIDE DEF I
<1>7. Times(q, x) = Cardinality(I)
  BY DEF Times, I
<1>. QED  BY <1>2, <1>3, <1>4, <1>5, <1>6, <1>7

\* How often something is in a sequence that grows at its end or loses its head.
LEMMA TimesChange ==
    ASSUME NEW S, NEW q \in Seq(S), NEW x
    PROVE  /\ \A y \in S : Times(Append(q, y), x) = Times(q, x) + (IF y = x THEN 1 ELSE 0)
           /\ q # <<>> => /\ Head(q) \in S /\ Tail(q) \in Seq(S)
                          /\ Times(q, x) = Times(Tail(q), x) + (IF Head(q) = x THEN 1 ELSE 0)
<1> DEFINE I(r) == {i \in DOMAIN r : r[i] = x}
<1>1. ASSUME NEW r \in Seq(S) PROVE IsFiniteSet(I(r)) /\ Cardinality(I(r)) \in Nat
  <2>1. Len(r) \in Nat /\ I(r) \in SUBSET (1 .. Len(r))
    OBVIOUS
  <2>2. IsFiniteSet(1 .. Len(r))
    BY <2>1, FS_Interval
  <2>. HIDE DEF I
  <2>. QED  BY <2>1, <2>2, FS_Subset, FS_CardinalityType
<1>2. ASSUME NEW y \in S
      PROVE Cardinality(I(Append(q, y))) = Cardinality(I(q)) + (IF y = x THEN 1 ELSE 0)
  <2>1. CASE y = x
    <3>1. I(Append(q, y)) = I(q) \cup {Len(q) + 1} /\ Len(q) + 1 \notin I(q)
      BY <2>1
    <3>. HIDE DEF I
    <3>. QED  BY <1>1, <2>1, <3>1, FS_AddElement
  <2>2. CASE y # x
    <3>1. I(Append(q, y)) = I(q)
      BY <2>2
    <3>. HIDE DEF I
    <3>. QED  BY <1>1, <2>2, <3>1
  <2>. QED  BY <2>1, <2>2
<1>3. ASSUME q # <<>>
      PROVE  /\ Head(q) \in S /\ Tail(q) \in Seq(S)
             /\ Cardinality(I(q)) = Cardinality(I(Tail(q))) + (IF Head(q) = x THEN 1 ELSE 0)
  <2>1. /\ Head(q) \in S /\ Head(q) = q[1] /\ Tail(q) \in Seq(S) /\ Len(q) \in Nat \ {0}
        /\ Len(Tail(q)) = Len(q) - 1 /\ \A i \in 1 .. Len(q) - 1 : Tail(q)[i] = q[i + 1]
    BY <1>3
  <2> DEFINE J == I(q) \ {1}
             f == [i \in I(Tail(q)) |-> i + 1]
  <2>2. f \in [I(Tail(q)) -> J] /\ \A a, b \in I(Tail(q)) : f[a] = f[b] => a = b
    BY <2>1
  <2>3. \A t \in J : \E a \in I(Tail(q)) : f[a] = t
    <3>1. \A t \in J : t - 1 \in I(Tail(q)) /\ f[t - 1] = t
      BY <2>1
    <3>. QED  BY <3>1
  <2>4. f \in Bijection(I(Tail(q)), J)
    BY <2>2, <2>3, Fun_IsBij
  <2>5. 1 \in I(q) <=> Head(q) = x
    BY <2>1
  <2>. HIDE DEF I, f
  <2>6. Cardinality(J) = Cardinality(I(Tail(q)))
    BY <1>1, <2>1, <2>4, FS_Bijection DEF ExistsBijection
  <2>7. Cardinality(J) = IF 1 \in I(q) THEN Cardinality(I(q)) - 1 ELSE Cardinality(I(q))
    BY <1>1, FS_RemoveElement
  <2>. HIDE DEF J
  <2>. QED  BY <1>1, <2>1, <2>5, <2>6, <2>7
<1>4. /\ Times(q, x) = Cardinality(I(q))
      /\ \A y \in S : Times(Append(q, y), x) = Cardinality(I(Append(q, y)))
      /\ Times(Tail(q), x) = Cardinality(I(Tail(q)))
  BY DEF Times
<1>. HIDE DEF I
<1>. QED  BY <1>2, <1>3, <1>4

\* What is in two sequences one after the other.
LEMMA TimesConcat ==
    ASSUME NEW S, NEW p \in Seq(S), NEW q \in Seq(S), NEW x
    PROVE  p \o q \in Seq(S) /\ Times(p \o q, x) = Times(p, x) + Times(q, x)
<1> DEFINE I == {i \in DOMAIN p : p[i] = x}
           J == {i \in DOMAIN q : q[i] = x}
           K == {i \in DOMAIN (p \o q) : (p \o q)[i] = x}
           M == K \ I
           f == [i \in J |-> i + Len(p)]
<1>1. /\ Len(p) \in Nat /\ Len(q) \in Nat /\ p \o q \in Seq(S) /\ Len(p \o q) = Len(p) + Len(q)
      /\ \A i \in 1 .. Len(p) : (p \o q)[i] = p[i]
      /\ \A i \in 1 .. Len(q) : (p \o q)[i + Len(p)] = q[i]
      /\ \A i \in Len(p) + 1 .. Len(p) + Len(q) : (p \o q)[i] = q[i - Len(p)]
  OBVIOUS
<1>2. /\ I \in SUBSET (1 .. Len(p)) /\ J \in SUBSET (1 .. Len(q))
      /\ K \in SUBSET (1 .. Len(p) + Len(q)) /\ I \subseteq K
  BY <1>1
<1>3. IsFiniteSet(I) /\ IsFiniteSet(J) /\ IsFiniteSet(K) /\ IsFiniteSet(M)
  <2>1. Len(p) + Len(q) \in Nat
    BY <1>1
  <2>2. IsFiniteSet(1 .. Len(p)) /\ IsFiniteSet(1 .. Len(q)) /\ IsFiniteSet(1 .. Len(p) + Len(q))
    BY <1>1, <2>1, FS_Interval
  <2>. HIDE DEF I, J, K
  <2>. QED  BY <1>2, <2>2, FS_Subset
<1>4. f \in [J -> M] /\ \A a, b \in J : f[a] = f[b] => a = b
  BY <1>1, <1>2
<1>5. \A t \in M : \E a \in J : f[a] = t
  <2>1. ASSUME NEW t \in M PROVE t - Len(p) \in J /\ f[t - Len(p)] = t
    <3>1. t \in Len(p) + 1 .. Len(p) + Len(q) /\ (p \o q)[t] = x
      BY <1>1, <1>2
    <3>. QED  BY <1>1, <3>1
  <2>. QED  BY <2>1
<1>. HIDE DEF f
<1>6. f \in Bijection(J, M)
  BY <1>4, <1>5, Fun_IsBij
<1>. HIDE DEF I, J, K
<1>7. Cardinality(M) = Cardinality(J)
  BY <1>3, <1>6, FS_Bijection DEF ExistsBijection
<1>8. Cardinality(M) = Cardinality(K) - Cardinality(K \cap I)
  BY <1>3, FS_Difference
<1>9. Cardinality(K \cap I) = Cardinality(I)
  <2>1. K \cap I = I
    BY <1>2
  <2>. QED  BY <2>1
<1>10. /\ Cardinality(I) \in Nat /\ Cardinality(J) \in Nat /\ Cardinality(K) \in Nat
  BY <1>3, FS_CardinalityType
<1>11. Times(p \o q, x) = Cardinality(K) /\ Times(p, x) = Cardinality(I)
       /\ Times(q, x) = Cardinality(J)
  BY DEF Times, I, J, K
<1>. HIDE DEF M
<1>12. Cardinality(K) = Cardinality(I) + Cardinality(J)
  BY <1>7, <1>8, <1>9, <1>10
<1>. QED  BY <1>1, <1>11, <1>12

\* The elements of a sequence that are in a set are in it as often as before, and no other.
LEMMA ThoseTimes ==
    ASSUME NEW T, NEW q \in Seq(T), NEW S
    PROVE  /\ Those(q, S) \in Seq(T \cap S)
           /\ \A x : Times(Those(q, S), x) = IF x \in S THEN Times(q, x) ELSE 0
<1> DEFINE P == {i \in DOMAIN q : q[i] \in S}
           below(i) == {j \in P : j <= i}
           rank == [i \in P |-> Cardinality(below(i))]
           nth(k) == CHOOSE i \in P : Cardinality({j \in P : j <= i}) = k
           m == Cardinality(P)
           s == Those(q, S)
<1>1. Len(q) \in Nat /\ DOMAIN q = 1 .. Len(q) /\ P \in SUBSET (1 .. Len(q)) /\ P \subseteq Nat
  OBVIOUS
<1>2. IsFiniteSet(P) /\ m \in Nat
  <2>1. IsFiniteSet(1 .. Len(q))
    BY <1>1, FS_Interval
  <2>. HIDE DEF P
  <2>. QED  BY <1>1, <2>1, FS_Subset, FS_CardinalityType
<1>3. s = [k \in 1 .. m |-> q[nth(k)]]
  BY DEF Those
<1>. HIDE DEF P, s
<1>4. ASSUME NEW i \in P
      PROVE  /\ IsFiniteSet(below(i)) /\ Cardinality(below(i)) \in 1 .. m
             /\ \A j \in P : j < i => Cardinality(below(j)) < Cardinality(below(i))
  <2>1. IsFiniteSet(below(i)) /\ Cardinality(below(i)) \in Nat /\ Cardinality(below(i)) <= m
    <3>1. below(i) \in SUBSET P
      OBVIOUS
    <3>. QED  BY <1>2, <3>1, FS_Subset, FS_CardinalityType
  <2>2. i \in below(i)
    BY <1>1
  <2>3. Cardinality(below(i)) # 0
    BY <2>1, <2>2, FS_EmptySet
  <2>4. ASSUME NEW j \in P, j < i PROVE Cardinality(below(j)) < Cardinality(below(i))
    <3>1. below(j) \in SUBSET below(i) /\ i \notin below(j)
      <4>1. i \in Nat /\ j \in Nat /\ \A e \in P : e \in Nat
        BY <1>1
      <4>2. \A e \in P : e <= j => e <= i
        BY <2>4, <4>1
      <4>3. ~(i <= j)
        BY <2>4, <4>1
      <4>. QED  BY <4>2, <4>3
    <3>2. below(j) # below(i)
      BY <2>2, <3>1
    <3>3. /\ Cardinality(below(j)) <= Cardinality(below(i))
          /\ Cardinality(below(j)) = Cardinality(below(i)) => below(j) = below(i)
      BY <2>1, <3>1, FS_Subset
    <3>4. Cardinality(below(j)) \in Nat
      <4>1. IsFiniteSet(below(j))
        BY <2>1, <3>1, FS_Subset
      <4>. QED  BY <4>1, FS_CardinalityType
    <3>. QED  BY <2>1, <3>2, <3>3, <3>4
  <2>. QED  BY <1>2, <2>1, <2>3, <2>4
<1>5. rank \in [P -> 1 .. m] /\ \A i, j \in P : rank[i] = rank[j] => i = j
  <2>1. \A i \in P : rank[i] \in 1 .. m
    BY <1>4
  <2>2. ASSUME NEW i \in P, NEW j \in P, rank[i] = rank[j] PROVE i = j
    <3>1. i \in Nat /\ j \in Nat /\ rank[i] \in Nat
      BY <1>1, <1>2, <2>1
    <3>2. rank[i] = Cardinality(below(i)) /\ rank[j] = Cardinality(below(j))
      OBVIOUS
    <3>. HIDE DEF rank, below
    <3>3. ~(i < j) /\ ~(j < i)
      <4>1. i < j => Cardinality(below(i)) < Cardinality(below(j))
        BY <1>4
      <4>2. j < i => Cardinality(below(j)) < Cardinality(below(i))
        BY <1>4
      <4>3. Cardinality(below(i)) = Cardinality(below(j)) /\ Cardinality(below(i)) \in Nat
        BY <2>2, <3>1, <3>2
      <4> DEFINE a == Cardinality(below(i))
                 b == Cardinality(below(j))
      <4>4. a = b /\ a \in Nat /\ (i < j => a < b) /\ (j < i => b < a)
        BY <4>1, <4>2, <4>3
      <4>. HIDE DEF a, b
      <4>. QED  BY <4>4
    <3>. QED  BY <3>1, <3>3
  <2>. HIDE DEF rank
  <2>3. rank \in [P -> 1 .. m]
    <3>1. rank = [i \in P |-> Cardinality(below(i))]
      BY DEF rank
    <3>. QED  BY <2>1, <3>1
  <2>. QED  BY <2>2, <2>3
<1>6. \A k \in 1 .. m : \E i \in P : rank[i] = k
  <2>1. rank \in Injection(P, 1 .. m)
    BY <1>5, Fun_IsInj
  <2>2. IsFiniteSet(1 .. m) /\ Cardinality(1 .. m) = m
    BY <1>2, FS_Interval
  <2>. HIDE DEF rank, m
  <2>3. rank \in Surjection(P, 1 .. m)
    BY <1>2, <2>1, <2>2, FS_Injection DEF m
  <2>. QED  BY <2>3, Fun_SurjectionProperties
<1>7. ASSUME NEW k \in 1 .. m PROVE nth(k) \in P /\ rank[nth(k)] = k
  <2>1. \E i \in P : Cardinality({j \in P : j <= i}) = k
    BY <1>6
  <2>2. nth(k) \in P /\ Cardinality({j \in P : j <= nth(k)}) = k
    BY <2>1
  <2>. QED  BY <2>2
<1>. HIDE DEF rank, nth
<1>8. Len(s) = m /\ DOMAIN s = 1 .. m /\ s \in Seq(T \cap S)
  <2>1. \A k \in 1 .. m : q[nth(k)] \in T \cap S
    BY <1>1, <1>7 DEF P
  <2>. HIDE DEF m
  <2>. QED  BY <1>2, <1>3, <2>1
<1>9. ASSUME NEW x
      PROVE  Times(s, x) = IF x \in S THEN Times(q, x) ELSE 0
  <2> DEFINE I == {i \in DOMAIN q : q[i] = x}
             K == {k \in DOMAIN s : s[k] = x}
  <2>1. CASE x \notin S
    <3>1. K = {}
      <4>1. \A k \in DOMAIN s : s[k] \in T \cap S
        BY <1>8
      <4>. QED  BY <2>1, <4>1
    <3>. QED  BY <2>1, <3>1, FS_EmptySet DEF Times
  <2>2. CASE x \in S
    <3>1. I \subseteq P
      BY <2>2 DEF P
    <3> DEFINE f == [k \in K |-> nth(k)]
    <3>2. \A k \in K : k \in 1 .. m /\ nth(k) \in I
      BY <1>1, <1>3, <1>7, <1>8 DEF P
    <3>3. \A a, b \in K : f[a] = f[b] => a = b
      BY <1>7, <3>2
    <3>4. \A i \in I : \E k \in K : f[k] = i
      <4>1. ASSUME NEW i \in I PROVE rank[i] \in K /\ f[rank[i]] = i
        <5>1. rank[i] \in 1 .. m /\ i \in P
          BY <1>5, <3>1
        <5>2. nth(rank[i]) = i
          BY <1>5, <1>7, <5>1
        <5>. QED  BY <1>3, <1>8, <5>1, <5>2
      <4>. QED  BY <4>1
    <3>5. f \in [K -> I]
      BY <3>2
    <3>. HIDE DEF f
    <3>6. f \in Bijection(K, I)
      BY <3>3, <3>4, <3>5, Fun_IsBij
    <3>7. IsFiniteSet(K)
      <4>1. IsFiniteSet(1 .. m) /\ K \in SUBSET (1 .. m)
        BY <1>2, <1>8, FS_Interval
      <4>. HIDE DEF K
      <4>. QED  BY <4>1, FS_Subset
    <3>. HIDE DEF I, K
    <3>8. Cardinality(I) = Cardinality(K)
      BY <3>6, <3>7, FS_Bijection DEF ExistsBijection
    <3>. QED  BY <2>2, <3>8 DEF Times, I, K
  <2>. QED  BY <2>1, <2>2
<1>. QED  BY <1>8, <1>9 DEF s

-----------------------------------------------------------------------------
(* The invariant.                                                          *)

Working(t) == th[t].pc \in Processing
CallsFor(t, n) == th[t].pc \in {"calling", "returning"} /\ th[t].n = n
\* What a thread has to do with a request: who waits is its client, and a callback that is called is
\* of a request that is told of it, by one thread.
Places ==
    /\ \A t \in Threads :
          /\ th[t].pc \in {"waitUser", "waitCancel"} => t \in Notifies
          /\ th[t].pc = "callback" => t \in Workers /\ th[t].n \in Notifies
          /\ th[t].pc \in {"calling", "returning"} =>
                LET n == th[t].n IN
                /\ n \in Notifies /\ state[n] = "notifyUserCallbackActive"
                /\ served[n] = (th[t].pc = "returning")
                /\ ~Canceled(n) /\ ~userCallbackEvent[pvt[n]]
    /\ \A t, u \in Threads, n \in Notifies : CallsFor(t, n) /\ CallsFor(u, n) => t = u

\* A thread at work has the records it came by, with no link removed between them, and no other
\* thread has their lock set.
Locks ==
    /\ \A t \in Threads : Working(t) =>
          /\ th[t].from <= th[t].at
          /\ \A c \in cut : ~(th[t].from <= c /\ c < th[t].at)
          /\ th[t].pc = "add" => th[t].at \notin cut /\ th[t].at + 1 \in Records
          /\ th[t].pc \in {"notify", "disabled", "add"} => th[t].ppn # None
    /\ \A t, u \in Threads :
          Working(t) /\ Working(u) /\ SameSet(th[t].from, th[u].from) => t = u

\* From a request to the end of its callback or cancel.
LifeOf(n) ==
    /\ pvt[n] = 0 <=> state[n] = "notifyNotActive"
    /\ ~served[n] => pvt[n] # 0
    /\ served[n] /\ pvt[n] # 0 => state[n] = "notifyUserCallbackActive"
    /\ th[n].pc = "waitCancel" => /\ state[n] \in CancelWaitsIn
                                  /\ cancelWait[n] \/ cancelEvent[pvt[n]]
    /\ th[n].pc = "waitUser" => /\ state[n] = "notifyUserCallbackActive" /\ served[n]
                                /\ userCallbackWait[n] \/ userCallbackEvent[pvt[n]]
    /\ Canceled(n) => th[n].pc = "waitCancel"
    /\ pvt[n] # 0 /\ userCallbackEvent[pvt[n]] => th[n].pc = "waitUser"
    /\ cancelWait[n] /\ pvt[n] # 0 => th[n].pc = "waitCancel"
    /\ userCallbackWait[n] => th[n].pc = "waitUser"
    /\ n \in refused => state[n] \in Requested /\ ~Canceled(n)
Life == \A n \in Notifies : LifeOf(n)

\* A request waits for a record once, and to restart with its own alone.
Lists ==
    /\ OwnersAgree
    /\ \A n \in Notifies, r \in Records : Times(waitList[n], r) <= 1
    /\ \A n \in Notifies : state[n] = "notifyRestartInProgress" => waitList[n] = <<Chan(n)>>
    /\ \A n \in Notifies, r \in Records : Canceled(n) => ppn[r] # n

\* A flag is set of a record that is busy, or about to be processed.
Putf == \A r \in Records : putf[r] \/ rpro[r] =>
    pact[r] \/ \E t \in Threads : th[t].pc = "process" /\ th[t].at = r

(* As long as no link is removed one thread at a time processes records.   *)

\* It knows who owns the record it is at; one that is disabled is not busy.
HoldsOwner == \A t \in Threads :
    /\ th[t].pc \in {"notify", "disabled", "add"} => th[t].ppn = ppn[th[t].at]
    /\ th[t].pc = "disabled" => ~pact[th[t].at]
\* t has come to r, and is not about to go back from it
CameBy(t, r) == Working(t) /\ th[t].from <= r /\ r <= th[t].at
\* A record that completes at once is busy, or has an owner, only while it is processed.
SyncFree == \A r \in Records \ inst.async :
    /\ ppn[r] # None => \E t \in Threads : CameBy(t, r) /\ (r = th[t].at => th[t].pc # "end")
    /\ pact[r] => \E t \in Threads :
          CameBy(t, r) /\ (r = th[t].at => th[t].pc \notin {"process", "disabled"})
\* A request waits only for a record that completes later.
AsyncOnly == \A n \in Notifies :
    state[n] \in {"notifyWaitForRestart", "notifyRestartInProgress",
                  "notifyRestartCallbackRequested"} => Chan(n) \in inst.async
\* A record that is busy for a request is one the request waits for, unless its processing is at
\* the end.
CausesOwned == \A r \in Records : cause[r] # None =>
    /\ state[cause[r]] # "notifyUserCallbackActive" /\ pact[r] /\ r >= Chan(cause[r])
    /\ \/ ppn[r] = cause[r] /\ state[cause[r]] = "notifyProcessInProgress"
       \/ \E t \in Threads : th[t].pc = "end" /\ th[t].at = r
\* The request a thread processes records for waits for those it has come by and will come back to.
Past(t) == IF th[t].pc \in {"process", "disabled", "end"} THEN th[t].at - 1 ELSE th[t].at
PathOwned == \A t \in Threads : Working(t) /\ th[t].cause # None =>
    LET n == th[t].cause
        s == th[t].at
    IN
    /\ th[t].from >= Chan(n)
    /\ th[t].pc # "end" \/ s # th[t].from => state[n] = "notifyProcessInProgress"
    /\ state[n] # "notifyUserCallbackActive"
    /\ \A r \in Records : th[t].from <= r /\ r <= Past(t) => ppn[r] = n
    /\ th[t].pc = "process" => pact[s] \/ ppn[s] = n \/ (ppn[s] # None /\ s \in inst.async)
Chain == cut = {} => HoldsOwner /\ SyncFree /\ AsyncOnly /\ CausesOwned /\ PathOwned

NotifyInv == /\ TypeOK /\ Places /\ Locks /\ Life /\ Lists /\ PvtsReturned /\ OneCallback
             /\ Putf /\ Chain
-----------------------------------------------------------------------------
(* What a part of the invariant reads: a step that leaves it as it is      *)
(* keeps that part.                                                        *)

\* What the types say of requests, records and threads.
LEMMA Typed ==
    ASSUME TypeOK
    PROVE  /\ inst \in Instances
           /\ \A n \in Notifies : /\ n # None /\ n \in Threads /\ Chan(n) \in Records
                                  /\ pvt[n] \in {0} \cup Pvts /\ state[n] \in States
                                  /\ waitList[n] \in Seq(Records)
                                  /\ cancelWait[n] \in BOOLEAN /\ userCallbackWait[n] \in BOOLEAN
                                  /\ served[n] \in BOOLEAN
           /\ \A r \in Records : /\ r \in Int /\ restartList[r] \in Seq(Notifies)
                                 /\ ppn[r] \in Notifies \cup {None}
                                 /\ cause[r] \in Notifies \cup {None}
                                 /\ pact[r] \in BOOLEAN /\ putf[r] \in BOOLEAN /\ rpro[r] \in BOOLEAN
           /\ \A t \in Threads : /\ th[t].pc \in Processing \cup {"idle", "calling", "returning",
                                                        "callback", "waitUser", "waitCancel"}
                                 /\ th[t].n \in Notifies \cup {None}
                                 /\ th[t].from \in Records /\ th[t].at \in Records
                                 /\ th[t].ppn \in Notifies \cup {None}
                                 /\ th[t].cause \in Notifies \cup {None}
           /\ \A p \in Pvts : p \in Nat \ {0} /\ cancelEvent[p] \in BOOLEAN
                                 /\ userCallbackEvent[p] \in BOOLEAN
           /\ 1 \in Records /\ inst.passive \subseteq Records /\ inst.async \subseteq Records
           /\ Cardinality(Notifies) \in Nat /\ \A w \in Workers : w \in Threads /\ w \notin Notifies
<1>1. PICK k \in Records : Records = 1 .. k
  BY NotifyAssumption
<1>2. k \in Nat /\ 1 \in Records /\ \A r \in Records : r \in Int
  BY <1>1
<1>3. Cardinality(Notifies) \in Nat
  BY NotifyAssumption, FS_CardinalityType
<1>4. inst \in Instances /\ inst.chan \in [Notifies -> Records] /\ inst.passive \subseteq Records
      /\ inst.async \subseteq Records
  BY NotifyAssumption DEF TypeOK
<1>5. \A n \in Notifies : n # None /\ n \in Threads /\ Chan(n) \in Records
  BY <1>4, NotifyAssumption DEF None, Threads, Chan
<1>6. \A w \in Workers : w \in Threads /\ w \notin Notifies
  BY NotifyAssumption DEF Threads
<1>7. \A t \in Threads : /\ th[t].pc \in Processing \cup {"idle", "calling", "returning",
                                               "callback", "waitUser", "waitCancel"}
                         /\ th[t].n \in Notifies \cup {None}
                         /\ th[t].from \in Records /\ th[t].at \in Records
                         /\ th[t].ppn \in Notifies \cup {None}
                         /\ th[t].cause \in Notifies \cup {None}
  BY DEF TypeOK
<1>8. \A p \in Pvts : p \in Nat \ {0} /\ cancelEvent[p] \in BOOLEAN
                                 /\ userCallbackEvent[p] \in BOOLEAN
  <2>1. cancelEvent \in [Pvts -> BOOLEAN] /\ userCallbackEvent \in [Pvts -> BOOLEAN]
    BY DEF TypeOK
  <2>. QED  BY <1>3, <2>1 DEF Pvts
<1>. QED  BY <1>2, <1>3, <1>4, <1>5, <1>6, <1>7, <1>8 DEF TypeOK

\* What a thread is at.
Place == [pc : Processing \cup {"idle", "calling", "returning", "callback", "waitUser", "waitCancel"},
          n : Notifies \cup {None}, from : Records, at : Records,
          ppn : Notifies \cup {None}, cause : Notifies \cup {None}]

\* The types, variable by variable.
LEMMA TypesKept ==
    ASSUME TypeOK, UNCHANGED inst, cut' \subseteq inst.cuts,
           pact' \in [Records -> BOOLEAN], putf' \in [Records -> BOOLEAN],
           rpro' \in [Records -> BOOLEAN], ppn' \in [Records -> Notifies \cup {None}],
           restartList' \in [Records -> Seq(Notifies)],
           pvt' \in [Notifies -> {0} \cup Pvts], state' \in [Notifies -> States],
           waitList' \in [Notifies -> Seq(Records)],
           cancelWait' \in [Notifies -> BOOLEAN], userCallbackWait' \in [Notifies -> BOOLEAN],
           freeList' \in Seq(Pvts), callbacks' \in Seq(Notifies), refused' \subseteq Notifies,
           cancelEvent' \in [Pvts -> BOOLEAN], userCallbackEvent' \in [Pvts -> BOOLEAN],
           onceQ' \in Seq(Records), pending' \subseteq inst.async, scans' \in 0 .. inst.scans,
           th' \in [Threads -> Place],
           requests' \in [Notifies -> 0 .. inst.requests], served' \in [Notifies -> BOOLEAN],
           cause' \in [Records -> Notifies \cup {None}], owed' \subseteq Records
    PROVE  TypeOK'
BY DEF TypeOK, Place, Pvts, Threads, Processing, States, InProgress, Requested

\* And what they are.
LEMMA TypesThen ==
    ASSUME TypeOK
    PROVE  /\ cut \subseteq inst.cuts /\ pact \in [Records -> BOOLEAN]
           /\ putf \in [Records -> BOOLEAN] /\ rpro \in [Records -> BOOLEAN]
           /\ ppn \in [Records -> Notifies \cup {None}]
           /\ restartList \in [Records -> Seq(Notifies)] /\ waitList \in [Notifies -> Seq(Records)]
           /\ pvt \in [Notifies -> {0} \cup Pvts] /\ state \in [Notifies -> States]
           /\ cancelWait \in [Notifies -> BOOLEAN] /\ userCallbackWait \in [Notifies -> BOOLEAN]
           /\ freeList \in Seq(Pvts) /\ callbacks \in Seq(Notifies) /\ refused \subseteq Notifies
           /\ cancelEvent \in [Pvts -> BOOLEAN] /\ userCallbackEvent \in [Pvts -> BOOLEAN]
           /\ onceQ \in Seq(Records) /\ pending \subseteq inst.async /\ scans \in 0 .. inst.scans
           /\ th \in [Threads -> Place]
           /\ requests \in [Notifies -> 0 .. inst.requests] /\ served \in [Notifies -> BOOLEAN]
           /\ cause \in [Records -> Notifies \cup {None}] /\ owed \subseteq Records
BY DEF TypeOK, Place

\* A thread that is idle or processes records has no part in a request.
LEMMA WorkKeeps ==
    ASSUME TypeOK, NEW t \in Threads, NEW e \in Place, th' = [th EXCEPT ![t] = e],
           th[t].pc \in Processing \cup {"idle"}, e.pc \in Processing \cup {"idle"},
           UNCHANGED <<inst, pvtVars, served>>
    PROVE  /\ Places /\ UNCHANGED state => Places'
           /\ Life /\ UNCHANGED state /\ UNCHANGED refused => Life'
           /\ PvtsReturned => PvtsReturned'
           /\ OneCallback /\ UNCHANGED <<state, cbVars>> => OneCallback'
           /\ UNCHANGED <<listVars, cbVars>> /\ Lists => Lists'
<1>1. /\ \A u \in Threads : u # t => th'[u] = th[u]
      /\ th'[t] = e
      /\ \A n \in Notifies : n \in Threads
      /\ \A w \in Workers : w \in Threads
      /\ UNCHANGED <<pvt, cancelWait, userCallbackWait, freeList, cancelEvent, userCallbackEvent, served>>
  BY Typed DEF TypeOK, pvtVars
<1>2. /\ \A n : Canceled(n)' <=> Canceled(n)
      /\ \A q \in {"calling", "returning", "callback", "waitUser", "waitCancel"} :
            \A u \in Threads : (th'[u].pc = q <=> th[u].pc = q) /\ (th[u].pc = q => th'[u] = th[u])
  BY <1>1 DEF Canceled, Processing
<1>3. Places /\ UNCHANGED state => Places'
  BY <1>1, <1>2 DEF Places, CallsFor
<1>4. Life /\ UNCHANGED state /\ UNCHANGED refused => Life'
  BY <1>1, <1>2 DEF Life, LifeOf
<1>5. PvtsReturned => PvtsReturned'
  <2>1. \A p : Held(p)' = Held(p)
    BY <1>1 DEF Held
  <2>2. \A n \in Notifies : th'[n].pc \in {"waitCancel", "waitUser"}
                               <=> th[n].pc \in {"waitCancel", "waitUser"}
    BY <1>1, <1>2
  <2>. QED  BY <1>1, <2>1, <2>2 DEF PvtsReturned
<1>6. OneCallback /\ UNCHANGED <<state, cbVars>> => OneCallback'
  <2>1. \A n : {w \in Workers : th'[w].pc = "callback" /\ th'[w].n = n}
                   = {w \in Workers : th[w].pc = "callback" /\ th[w].n = n}
    BY <1>1, <1>2
  <2>. QED  BY <1>2, <2>1 DEF OneCallback, Called, cbVars
<1>7. UNCHANGED <<listVars, cbVars>> /\ Lists => Lists'
  BY <1>2 DEF Lists, OwnersAgree, listVars, Chan
<1>. QED  BY <1>3, <1>4, <1>5, <1>6, <1>7

\* A thread whose place in a request changes takes no part in processing.
SameWork == \A u \in Threads : /\ Working(u)' <=> Working(u)
                               /\ Working(u) => th'[u] = th[u]

\* What is processed stays as it is when a request goes on.
LEMMA RestKeeps ==
    ASSUME SameWork, UNCHANGED cut
    PROVE  /\ Locks => Locks'
           /\ Putf /\ UNCHANGED <<putf, rpro, pact>> => Putf'
           /\ (/\ Chain /\ UNCHANGED <<inst, ppn, pact, cause>>
               /\ \A n \in Notifies : \/ state'[n] = state[n]
                                      \/ state'[n] = "notifyNotActive" /\ state[n] \in CancelWaitsIn
               /\ TypeOK)
                 => Chain'
<1>1. /\ \A u \in Threads : \A q \in Processing :
            (th'[u].pc = q <=> th[u].pc = q) /\ (th[u].pc = q => th'[u] = th[u])
      /\ \A u \in Threads : Working(u) => Past(u)' = Past(u)
      /\ \A u \in Threads, r \in Records : CameBy(u, r)' <=> CameBy(u, r)
  BY DEF SameWork, Working, Past, CameBy
<1>2. Locks => Locks'
  BY <1>1 DEF Locks, SameWork, SameSet, Processing, Working
<1>3. Putf /\ UNCHANGED <<putf, rpro, pact>> => Putf'
  BY <1>1 DEF Putf, Processing
<1>4. ASSUME Chain, UNCHANGED <<inst, ppn, pact, cause>>, cut' = {}, TypeOK,
             \A n \in Notifies : \/ state'[n] = state[n]
                                 \/ state'[n] = "notifyNotActive" /\ state[n] \in CancelWaitsIn
      PROVE  HoldsOwner' /\ SyncFree' /\ AsyncOnly' /\ CausesOwned' /\ PathOwned'
  <2>0. HoldsOwner /\ SyncFree /\ AsyncOnly /\ CausesOwned /\ PathOwned
    BY <1>4 DEF Chain
  <2>1. HoldsOwner'
    BY <1>1, <1>4, <2>0 DEF HoldsOwner, Processing
  <2>2. SyncFree'
    BY <1>1, <1>4, <2>0 DEF SyncFree, CameBy, Working, SameWork
  <2>3. AsyncOnly'
    BY <1>4, <2>0 DEF AsyncOnly, Chan
  <2>4. \A n \in Notifies :
           /\ state[n] = "notifyProcessInProgress" => state'[n] = "notifyProcessInProgress"
           /\ state[n] # "notifyUserCallbackActive" => state'[n] # "notifyUserCallbackActive"
    BY <1>4 DEF CancelWaitsIn, Requested
  <2>5. CausesOwned'
    BY <1>1, <1>4, <2>0, <2>4, Typed DEF CausesOwned, Chan, Processing
  <2>6. PathOwned'
    BY <1>1, <1>4, <2>0, <2>4, Typed DEF PathOwned, Chan, Processing, SameWork, Working
  <2>. QED  BY <2>1, <2>2, <2>3, <2>5, <2>6
<1>. QED  BY <1>2, <1>3, <1>4 DEF Chain

-----------------------------------------------------------------------------
(* Threads that process records.                                           *)

\* A thread at work goes on within the records it has, or comes to one that nobody has.
LEMMA LocksGo ==
    ASSUME TypeOK, Locks, UNCHANGED cut, NEW t \in Threads, NEW e \in Place,
           th' = [th EXCEPT ![t] = e],
           e.pc \in Processing =>
              /\ e.from <= e.at
              /\ \A c \in cut : ~(e.from <= c /\ c < e.at)
              /\ e.pc = "add" => e.at \notin cut /\ e.at + 1 \in Records
              /\ e.pc \in {"notify", "disabled", "add"} => e.ppn # None
              /\ \/ Working(t) /\ e.from = th[t].from
                 \/ ~Locked(e.from)
    PROVE  Locks'
<1>1. /\ \A u \in Threads : u # t => th'[u] = th[u]
      /\ th'[t] = e
  BY DEF TypeOK
<1>2. ASSUME NEW u \in Threads, u # t, Working(u), Working(t)',
             SameSet(th[u].from, e.from) \/ SameSet(e.from, th[u].from)
      PROVE  FALSE
  <2>1. SameSet(th[u].from, e.from) /\ SameSet(e.from, th[u].from)
    BY <1>2 DEF SameSet
  <2>2. CASE Working(t) /\ e.from = th[t].from
    BY <1>2, <2>1, <2>2 DEF Locks
  <2>3. CASE ~Locked(e.from)
    BY <1>2, <2>1, <2>3 DEF Locked, Working
  <2>. QED  BY <1>1, <1>2, <2>2, <2>3 DEF Working
<1>3. \A u \in Threads : Working(u)' <=> (u = t /\ e.pc \in Processing) \/ (u # t /\ Working(u))
  BY <1>1 DEF Working
<1>4. \A u, v \in Threads :
         Working(u)' /\ Working(v)' /\ SameSet(th'[u].from, th'[v].from) => u = v
  BY <1>1, <1>2, <1>3 DEF Locks
<1>5. \A a, b : SameSet(a, b)' <=> SameSet(a, b)
  BY DEF SameSet
<1>6. \A u \in Threads : Working(u)' =>
          /\ th'[u].from <= th'[u].at
          /\ \A c \in cut : ~(th'[u].from <= c /\ c < th'[u].at)
          /\ th'[u].pc = "add" => th'[u].at \notin cut /\ th'[u].at + 1 \in Records
          /\ th'[u].pc \in {"notify", "disabled", "add"} => th'[u].ppn # None
  BY <1>1, <1>3 DEF Locks, Working
<1>. QED  BY <1>4, <1>5, <1>6 DEF Locks

\* While no link has been removed one thread works at a time.
LEMMA Alone ==
    ASSUME cut = {}
    PROVE  /\ Locks => \A t, u \in Threads : Working(t) /\ Working(u) => t = u
           /\ \A r : ~Locked(r) => \A t \in Threads : ~Working(t)
BY DEF Locks, SameSet, Locked, Working

\* A thread at work has the record it is at.
LEMMA HasRecords ==
    ASSUME TypeOK, Locks, NEW t \in Threads, Working(t), NEW r \in Records,
           th[t].from <= r, r <= th[t].at
    PROVE  Locked(r)
<1>1. /\ th[t].from \in Int /\ th[t].at \in Int /\ r \in Int
  BY Typed
<1>2. \A c \in cut : c \in Int
  BY Typed, NotifyAssumption DEF TypeOK
<1>3. SameSet(th[t].from, r)
  BY <1>1, <1>2 DEF SameSet, Locks
<1>. QED  BY <1>3 DEF Locked, Working

(* What Chain says where e is the place of the only thread that may be at  *)
(* work.                                                                   *)
AtOwner(e) == /\ e.pc \in {"notify", "disabled", "add"} => e.ppn = ppn[e.at]
              /\ e.pc = "disabled" => ~pact[e.at]
AtBy(e, r) == e.pc \in Processing /\ e.from <= r /\ r <= e.at
AtSync(e) == \A r \in Records \ inst.async :
    /\ ppn[r] # None => AtBy(e, r) /\ (r = e.at => e.pc # "end")
    /\ pact[r] => AtBy(e, r) /\ (r = e.at => e.pc \notin {"process", "disabled"})
AtCauses(e) == \A r \in Records : cause[r] # None =>
    /\ state[cause[r]] # "notifyUserCallbackActive" /\ pact[r] /\ r >= Chan(cause[r])
    /\ \/ ppn[r] = cause[r] /\ state[cause[r]] = "notifyProcessInProgress"
       \/ e.pc = "end" /\ e.at = r
AtPast(e) == IF e.pc \in {"process", "disabled", "end"} THEN e.at - 1 ELSE e.at
AtPath(e) == e.pc \in Processing /\ e.cause # None =>
    LET n == e.cause
        s == e.at
    IN
    /\ e.from >= Chan(n)
    /\ e.pc # "end" \/ s # e.from => state[n] = "notifyProcessInProgress"
    /\ state[n] # "notifyUserCallbackActive"
    /\ \A r \in Records : e.from <= r /\ r <= AtPast(e) => ppn[r] = n
    /\ e.pc = "process" => pact[s] \/ ppn[s] = n \/ (ppn[s] # None /\ s \in inst.async)
ChainOf(e) == AtOwner(e) /\ AtSync(e) /\ AtCauses(e) /\ AtPath(e)

\* So it is while no link has been removed, for a thread at work, or any if none is.
LEMMA ChainThen ==
    ASSUME cut = {}, Chain, NEW t \in Threads, \A u \in Threads : Working(u) => u = t
    PROVE  AsyncOnly /\ ChainOf(th[t])
<1>0. HoldsOwner /\ SyncFree /\ AsyncOnly /\ CausesOwned /\ PathOwned
  BY DEF Chain
<1>1. \A r \in Records \ inst.async :
          /\ ppn[r] # None => CameBy(t, r) /\ (r = th[t].at => th[t].pc # "end")
          /\ pact[r] => CameBy(t, r) /\ (r = th[t].at => th[t].pc \notin {"process", "disabled"})
  BY <1>0 DEF SyncFree, CameBy
<1>2. \A r \in Records : cause[r] # None =>
          /\ state[cause[r]] # "notifyUserCallbackActive" /\ pact[r] /\ r >= Chan(cause[r])
          /\ \/ ppn[r] = cause[r] /\ state[cause[r]] = "notifyProcessInProgress"
             \/ th[t].pc = "end" /\ th[t].at = r
  BY <1>0 DEF CausesOwned, Working, Processing
<1>3. Working(t) /\ th[t].cause # None =>
          /\ th[t].from >= Chan(th[t].cause)
          /\ th[t].pc # "end" \/ th[t].at # th[t].from =>
                state[th[t].cause] = "notifyProcessInProgress"
          /\ state[th[t].cause] # "notifyUserCallbackActive"
          /\ \A r \in Records : th[t].from <= r /\ r <= Past(t) => ppn[r] = th[t].cause
          /\ th[t].pc = "process" =>
                \/ pact[th[t].at] \/ ppn[th[t].at] = th[t].cause
                \/ (ppn[th[t].at] # None /\ th[t].at \in inst.async)
  BY <1>0 DEF PathOwned
<1>4. /\ th[t].pc \in {"notify", "disabled", "add"} => th[t].ppn = ppn[th[t].at]
      /\ th[t].pc = "disabled" => ~pact[th[t].at]
  BY <1>0 DEF HoldsOwner
<1>. QED  BY <1>0, <1>1, <1>2, <1>3, <1>4
     DEF ChainOf, AtOwner, AtSync, AtBy, AtCauses, AtPath, AtPast, CameBy, Working, Past

\* And so it becomes.
LEMMA ChainNext ==
    ASSUME NEW t \in Threads,
           cut' = {} => /\ \A u \in Threads : Working(u)' => u = t
                        /\ AsyncOnly' /\ ChainOf(th[t])'
    PROVE  Chain'
<1>0. SUFFICES ASSUME cut' = {}
               PROVE  HoldsOwner' /\ SyncFree' /\ AsyncOnly' /\ CausesOwned' /\ PathOwned'
  BY DEF Chain
<1>1. \A r \in Records \ inst'.async :
          /\ ppn'[r] # None => CameBy(t, r)' /\ (r = th'[t].at => th'[t].pc # "end")
          /\ pact'[r] => CameBy(t, r)' /\ (r = th'[t].at => th'[t].pc \notin {"process", "disabled"})
  BY <1>0 DEF ChainOf, AtSync, AtBy, CameBy, Working
<1>2. SyncFree'
  BY <1>1 DEF SyncFree
<1>3. CausesOwned'
  BY <1>0 DEF ChainOf, AtCauses, CausesOwned
<1>4. HoldsOwner'
  BY <1>0 DEF ChainOf, AtOwner, HoldsOwner, Working, Processing
<1>5. PathOwned'
  BY <1>0 DEF ChainOf, AtPath, AtPast, PathOwned, Working, Past
<1>. QED  BY <1>0, <1>2, <1>3, <1>4, <1>5

\* A step of a thread that processes records keeps the invariant if it keeps what is said of
\* records and of the thread.
LEMMA WorkStep ==
    ASSUME NotifyInv, NEW t \in Threads, NEW e \in Place, th' = [th EXCEPT ![t] = e],
           th[t].pc \in Processing \cup {"idle"}, e.pc \in Processing \cup {"idle"},
           UNCHANGED <<inst, cut, pvtVars, listVars, cbVars, requests, served>>,
           pact' \in [Records -> BOOLEAN], putf' \in [Records -> BOOLEAN],
           rpro' \in [Records -> BOOLEAN], onceQ' \in Seq(Records), pending' \subseteq inst.async,
           scans' \in 0 .. inst.scans, cause' \in [Records -> Notifies \cup {None}],
           owed' \subseteq Records,
           Working(t) \/ \E r \in Records : ~Locked(r),
           e.pc \in Processing =>
              /\ e.from <= e.at
              /\ \A c \in cut : ~(e.from <= c /\ c < e.at)
              /\ e.pc = "add" => e.at \notin cut /\ e.at + 1 \in Records
              /\ e.pc \in {"notify", "disabled", "add"} => e.ppn # None
              /\ \/ Working(t) /\ e.from = th[t].from
                 \/ ~Locked(e.from),
           Putf',
           cut = {} /\ AsyncOnly /\ ChainOf(th[t]) => ChainOf(th[t])'
    PROVE  NotifyInv'
<1>0. /\ TypeOK /\ Places /\ Locks /\ Life /\ Lists /\ PvtsReturned /\ OneCallback /\ Putf /\ Chain
  BY DEF NotifyInv
<1>1. TypeOK'
  <2>1. th' \in [Threads -> Place]
    BY <1>0, TypesThen
  <2>2. restartList' \in [Records -> Seq(Notifies)] /\ waitList' \in [Notifies -> Seq(Records)]
    BY <1>0, TypesThen DEF listVars
  <2>. QED  BY <1>0, <2>1, <2>2, TypesThen, TypesKept DEF pvtVars, listVars, cbVars
<1>2. Places' /\ Life' /\ Lists' /\ PvtsReturned' /\ OneCallback'
  <2>1. UNCHANGED <<inst, pvtVars, served>> /\ UNCHANGED state /\ UNCHANGED refused
        /\ UNCHANGED <<state, cbVars>> /\ UNCHANGED <<listVars, cbVars>>
    BY DEF listVars, cbVars
  <2>. QED  BY <1>0, <2>1, WorkKeeps
<1>3. Locks'
  BY <1>0, LocksGo
<1>4. Chain'
  <2>1. ASSUME cut' = {}
        PROVE  (\A u \in Threads : Working(u)' => u = t) /\ AsyncOnly' /\ ChainOf(th[t])'
    <3>1. \A u \in Threads : Working(u) => u = t
      <4>1. cut = {}
        BY <2>1
      <4>. QED  BY <1>0, <4>1, Alone
    <3>2. \A u \in Threads : Working(u)' => u = t
      BY <1>0, <3>1 DEF Working, TypeOK
    <3>3. AsyncOnly /\ ChainOf(th[t])
      BY <1>0, <2>1, <3>1, ChainThen
    <3>4. AsyncOnly'
      BY <3>3 DEF AsyncOnly, listVars, Chan
    <3>. QED  BY <2>1, <3>2, <3>3, <3>4
  <2>. QED  BY <2>1, ChainNext
<1>. QED  BY <1>1, <1>2, <1>3, <1>4 DEF NotifyInv

\* dbProcess returns: the record is not processed on, or all of it is done.
LEMMA BackPlace ==
    ASSUME TypeOK, Locks, NEW t \in Threads, Working(t)
    PROVE  /\ Back(t) \in Place /\ Back(t).pc \in {"test", "idle"}
           /\ Back(t).pc = "test" =>
                /\ Back(t) = [th[t] EXCEPT !.at = th[t].at - 1, !.pc = "test"]
                /\ Back(t).from = th[t].from /\ Back(t).at = th[t].at - 1
                /\ Back(t).cause = th[t].cause /\ Back(t).ppn = th[t].ppn
                /\ Back(t).from <= Back(t).at /\ Back(t).at \in Records
                /\ \A c \in cut : ~(Back(t).from <= c /\ c < Back(t).at)
           /\ Back(t).pc = "idle" => th[t].at = th[t].from
           /\ th[t].at = th[t].from => Back(t).pc = "idle"
<1>1. th[t] \in Place /\ th[t].from \in Records /\ th[t].at \in Records
  BY Typed, TypesThen
<1>2. PICK k \in Records : Records = 1 .. k
  BY NotifyAssumption
<1>3. th[t].from <= th[t].at /\ \A c \in cut : ~(th[t].from <= c /\ c < th[t].at)
  BY DEF Locks
<1>4. \A c \in cut : c \in Int
  BY Typed, NotifyAssumption DEF TypeOK
<1>5. CASE th[t].at = th[t].from
  <2>1. Back(t) = Idle
    BY <1>5 DEF Back
  <2>. QED  BY <1>5, <2>1, Typed DEF Idle, Place
<1>6. CASE th[t].at # th[t].from
  <2>1. Back(t) = [th[t] EXCEPT !.at = th[t].at - 1, !.pc = "test"]
    BY <1>6 DEF Back
  <2>2. th[t].at - 1 \in Records /\ th[t].from <= th[t].at - 1
    BY <1>1, <1>2, <1>3, <1>6
  <2>3. \A c \in cut : ~(th[t].from <= c /\ c < th[t].at - 1)
    BY <1>1, <1>2, <1>3, <1>4
  <2>4. Back(t) \in Place
    BY <1>1, <2>1, <2>2 DEF Place, Processing
  <2>. QED  BY <1>1, <1>6, <2>1, <2>2, <2>3, <2>4 DEF Place
<1>. QED  BY <1>5, <1>6

\* A place with another pc, and where it is.
LEMMA OtherPlace ==
    ASSUME TypeOK, NEW t \in Threads
    PROVE  /\ th[t] \in Place /\ Idle \in Place /\ Idle.pc = "idle"
           /\ \A e : th' = [th EXCEPT ![t] = e] => th'[t] = e /\ \A u \in Threads : u # t => th'[u] = th[u]
           /\ \A q \in Processing : Goes(t, q) =>
                 /\ th' = [th EXCEPT ![t] = [th[t] EXCEPT !.pc = q]]
                 /\ [th[t] EXCEPT !.pc = q] \in Place
                 /\ [th[t] EXCEPT !.pc = q].pc = q
                 /\ [th[t] EXCEPT !.pc = q].n = th[t].n
                 /\ [th[t] EXCEPT !.pc = q].from = th[t].from
                 /\ [th[t] EXCEPT !.pc = q].at = th[t].at
                 /\ [th[t] EXCEPT !.pc = q].ppn = th[t].ppn
                 /\ [th[t] EXCEPT !.pc = q].cause = th[t].cause
<1>1. th[t] \in Place /\ th \in [Threads -> Place]
  BY TypesThen
<1>2. Idle \in Place
  BY Typed DEF Idle, Place
<1>3. \A q \in Processing : Goes(t, q) => th' = [th EXCEPT ![t] = [th[t] EXCEPT !.pc = q]]
  BY <1>1 DEF Goes
<1>4. ASSUME NEW q \in Processing
      PROVE  /\ [th[t] EXCEPT !.pc = q] \in Place
             /\ [th[t] EXCEPT !.pc = q].pc = q
             /\ [th[t] EXCEPT !.pc = q].n = th[t].n
             /\ [th[t] EXCEPT !.pc = q].from = th[t].from
             /\ [th[t] EXCEPT !.pc = q].at = th[t].at
             /\ [th[t] EXCEPT !.pc = q].ppn = th[t].ppn
             /\ [th[t] EXCEPT !.pc = q].cause = th[t].cause
  BY <1>1 DEF Place
<1>. QED  BY <1>1, <1>2, <1>3, <1>4 DEF Idle

\* A step of a thread at work, within the records it has.
LEMMA GoesOn ==
    ASSUME NotifyInv, NEW t \in Threads, Working(t), NEW e \in Place, th' = [th EXCEPT ![t] = e],
           e.pc \in Processing \cup {"idle"},
           UNCHANGED <<inst, cut, pvtVars, listVars, cbVars, requests, scans, served>>,
           pact' \in [Records -> BOOLEAN], putf' \in [Records -> BOOLEAN],
           rpro' \in [Records -> BOOLEAN], onceQ' \in Seq(Records), pending' \subseteq inst.async,
           cause' \in [Records -> Notifies \cup {None}], owed' \subseteq Records,
           e.pc \in Processing =>
              /\ e.from <= e.at /\ e.from = th[t].from
              /\ \A c \in cut : ~(e.from <= c /\ c < e.at)
              /\ e.pc = "add" => e.at \notin cut /\ e.at + 1 \in Records
              /\ e.pc \in {"notify", "disabled", "add"} => e.ppn # None,
           \A r \in Records : putf'[r] \/ rpro'[r] =>
              \/ pact'[r] \/ (e.pc = "process" /\ e.at = r)
              \/ \E u \in Threads : u # t /\ th[u].pc = "process" /\ th[u].at = r,
           AsyncOnly /\ ChainOf(th[t]) /\ th'[t] = e => ChainOf(th[t])'
    PROVE  NotifyInv'
<1>1. TypeOK /\ th[t].pc \in Processing /\ th[t].pc \in Processing \cup {"idle"}
  BY DEF NotifyInv, Working
<1>2. th'[t] = e /\ \A u \in Threads : u # t => th'[u] = th[u]
  BY <1>1, OtherPlace
<1>3. Putf'
  BY <1>2 DEF Putf
<1>4. cut = {} /\ AsyncOnly /\ ChainOf(th[t]) => ChainOf(th[t])'
  BY <1>2
<1>5. scans' \in 0 .. inst.scans
  BY <1>1, TypesThen
<1>. QED  BY <1>1, <1>3, <1>4, <1>5, WorkStep

\* dbProcess of a record that is busy, found disabled, or starts.
LEMMA ProcessStep ==
    ASSUME NotifyInv, NEW t \in Threads, dbProcess(t)
    PROVE  NotifyInv'
<1> DEFINE r == th[t].at
<1>0. /\ TypeOK /\ Locks /\ Putf /\ th[t].pc = "process" /\ Working(t) /\ th[t].pc \in Processing
      /\ UNCHANGED <<inst, cut, pvtVars, listVars, cbVars, workVars, requests, served>>
  BY DEF NotifyInv, dbProcess, Working, Processing
<1>1. /\ r \in Records /\ th[t].from \in Records /\ r \in Int /\ th[t].from \in Int
      /\ th[t].from <= r /\ \A c \in cut : ~(th[t].from <= c /\ c < r)
      /\ \A s \in Records : s \in Int
      /\ th[t].cause \in Notifies \cup {None} /\ ppn[r] \in Notifies \cup {None}
      /\ th[t].cause # None => Chan(th[t].cause) \in Int
  BY <1>0, Typed DEF Locks
<1>2. /\ Back(t) \in Place /\ Back(t).pc \in Processing \cup {"idle"}
      /\ Back(t).pc \in {"test", "idle"}
      /\ Back(t).pc = "test" =>
            /\ Back(t).from = th[t].from /\ Back(t).at = r - 1
            /\ Back(t).cause = th[t].cause
            /\ Back(t).from <= Back(t).at
            /\ \A c \in cut : ~(Back(t).from <= c /\ c < Back(t).at)
      /\ Back(t).pc = "idle" => r = th[t].from
  BY <1>0, BackPlace DEF Processing
<1>3. /\ pact \in [Records -> BOOLEAN] /\ putf \in [Records -> BOOLEAN]
      /\ rpro \in [Records -> BOOLEAN] /\ onceQ \in Seq(Records) /\ pending \subseteq inst.async
      /\ cause \in [Records -> Notifies \cup {None}] /\ owed \subseteq Records
      /\ UNCHANGED <<onceQ, scans>>
  BY <1>0, TypesThen DEF workVars
<1>4. ppn' = ppn /\ state' = state /\ inst' = inst /\ \A n : Chan(n)' = Chan(n)
  BY <1>0 DEF listVars, Chan
<1>6. \A s \in Records : putf[s] \/ rpro[s] =>
         \/ pact[s] \/ s = r
         \/ \E u \in Threads : u # t /\ th[u].pc = "process" /\ th[u].at = s
  BY <1>0 DEF Putf
<1>. HIDE DEF r
<1>5. CASE pact[r] /\ th' = [th EXCEPT ![t] = Back(t)] /\ UNCHANGED <<recVars, cause, owed>>
  <2>1. UNCHANGED <<pact, putf, rpro, pending, cause, owed>>
    BY <1>5 DEF recVars
  <2>3. \A s \in Records : putf'[s] \/ rpro'[s] =>
         \/ pact'[s]
         \/ \E u \in Threads : u # t /\ th[u].pc = "process" /\ th[u].at = s
    BY <1>5, <1>6, <2>1
  <2>4. ASSUME AsyncOnly, ChainOf(th[t]), th'[t] = Back(t) PROVE ChainOf(th[t])'
    <3>1. AtOwner(th[t])' 
      BY <1>2, <2>4 DEF AtOwner
    <3>2. AtSync(th[t])' 
      BY <1>0, <1>1, <1>2, <1>4, <1>5, <2>1, <2>4 DEF ChainOf, AtSync, AtBy, Processing, r
    <3>3. AtCauses(th[t])' 
      BY <1>0, <1>1, <1>2, <1>4, <1>5, <2>1, <2>4 DEF ChainOf, AtCauses, r
    <3>4. AtPath(th[t])' 
      BY <1>0, <1>1, <1>2, <1>4, <1>5, <2>1, <2>4 DEF ChainOf, AtPath, AtPast, r, Processing
    <3>. QED  BY <3>1, <3>2, <3>3, <3>4 DEF ChainOf
  <2>5. Back(t).pc \in Processing =>
              /\ Back(t).from <= Back(t).at /\ Back(t).from = th[t].from
              /\ \A c \in cut : ~(Back(t).from <= c /\ c < Back(t).at)
              /\ Back(t).pc = "add" => Back(t).at \notin cut /\ Back(t).at + 1 \in Records
              /\ Back(t).pc \in {"notify", "disabled", "add"} => Back(t).ppn # None
    BY <1>2 DEF Processing
  <2>. QED  BY <1>0, <1>2, <1>3, <1>5, <2>1, <2>3, <2>4, <2>5, GoesOn, ZenonT(60)
<1>7. CASE /\ ~pact[r] /\ r \in inst.disabled
           /\ putf' = [putf EXCEPT ![r] = FALSE] /\ rpro' = [rpro EXCEPT ![r] = FALSE]
           /\ owed' = owed \ {r}
           /\ th' = [th EXCEPT ![t] = IF ppn[r] = None THEN Back(t)
                                      ELSE [@ EXCEPT !.pc = "disabled", !.ppn = ppn[r]]]
           /\ UNCHANGED <<pact, pending, cause>>
  <2> DEFINE d == [th[t] EXCEPT !.pc = "disabled", !.ppn = ppn[r]]
             e == IF ppn[r] = None THEN Back(t) ELSE d
  <2>1. /\ d \in Place /\ d.pc = "disabled" /\ d.ppn = ppn[r] /\ d.from = th[t].from
        /\ d.at = r /\ d.cause = th[t].cause
    <3>1. th[t] \in Place
      BY <1>0, OtherPlace
    <3>. QED  BY <1>1, <3>1 DEF Place, Processing, r
  <2>2. th' = [th EXCEPT ![t] = e]
    BY <1>0, <1>7, TypesThen
  <2>. HIDE DEF d
  <2>3. \A s \in Records : putf'[s] \/ rpro'[s] =>
         \/ pact'[s]
         \/ \E u \in Threads : u # t /\ th[u].pc = "process" /\ th[u].at = s
    BY <1>3, <1>7, <1>6
  <2>4. ASSUME AsyncOnly, ChainOf(th[t]), th'[t] = e PROVE ChainOf(th[t])'
    <3>1. AtOwner(th[t])'
      BY <1>2, <1>4, <1>7, <2>1, <2>4 DEF AtOwner
    <3>2. AtSync(th[t])'
      BY <1>0, <1>1, <1>2, <1>4, <1>7, <2>1, <2>4 DEF ChainOf, AtSync, AtBy, Processing, r
    <3>3. AtCauses(th[t])'
      BY <1>0, <1>1, <1>2, <1>4, <1>7, <2>1, <2>4 DEF ChainOf, AtCauses, r
    <3>4. AtPath(th[t])'
      BY <1>0, <1>1, <1>2, <1>4, <1>7, <2>1, <2>4 DEF ChainOf, AtPath, AtPast, r, Processing
    <3>. QED  BY <3>1, <3>2, <3>3, <3>4 DEF ChainOf
  <2>5. e.pc \in Processing =>
              /\ e.from <= e.at /\ e.from = th[t].from
              /\ \A c \in cut : ~(e.from <= c /\ c < e.at)
              /\ e.pc = "add" => e.at \notin cut /\ e.at + 1 \in Records
              /\ e.pc \in {"notify", "disabled", "add"} => e.ppn # None
    BY <1>1, <1>2, <2>1 DEF Processing
  <2>6. e \in Place /\ e.pc \in Processing \cup {"idle"}
    BY <1>2, <2>1 DEF Processing
  <2>7. /\ pact' \in [Records -> BOOLEAN] /\ putf' \in [Records -> BOOLEAN]
        /\ rpro' \in [Records -> BOOLEAN] /\ onceQ' \in Seq(Records) /\ pending' \subseteq inst.async
        /\ cause' \in [Records -> Notifies \cup {None}] /\ owed' \subseteq Records
    BY <1>1, <1>3, <1>7
  <2>8. UNCHANGED <<inst, cut, pvtVars, listVars, cbVars, requests, scans, served>>
    BY <1>0, <1>3
  <2>. HIDE DEF e
  <2>. QED  BY <1>0, <2>2, <2>3, <2>4, <2>5, <2>6, <2>7, <2>8, GoesOn, ZenonT(60)
<1>8. CASE /\ ~pact[r] /\ r \in inst.async
           /\ pact' = [pact EXCEPT ![r] = TRUE] /\ pending' = pending \cup {r}
           /\ cause' = [cause EXCEPT ![r] = IF ppn[r] \in {None, th[t].cause}
                                            THEN th[t].cause ELSE None]
           /\ owed' = owed \ {r}
           /\ th' = [th EXCEPT ![t] = Back(t)]
           /\ UNCHANGED <<putf, rpro>>
  <2>3. \A s \in Records : putf'[s] \/ rpro'[s] =>
         \/ pact'[s]
         \/ \E u \in Threads : u # t /\ th[u].pc = "process" /\ th[u].at = s
    BY <1>3, <1>6, <1>8
  <2>4. ASSUME AsyncOnly, ChainOf(th[t]), th'[t] = Back(t) PROVE ChainOf(th[t])'
    <3>0. /\ \A s \in Records : pact'[s] = (s = r \/ pact[s])
          /\ \A s \in Records : s # r => cause'[s] = cause[s]
          /\ cause'[r] = IF ppn[r] \in {None, th[t].cause} THEN th[t].cause ELSE None
      BY <1>1, <1>3, <1>8
    <3>1. AtOwner(th[t])'
      BY <1>2, <2>4 DEF AtOwner
    <3>2. AtSync(th[t])'
      BY <1>0, <1>1, <1>2, <1>4, <1>8, <2>4, <3>0 DEF ChainOf, AtSync, AtBy, Processing, r
    <3>1a. cause'[r] # None => /\ state[cause'[r]] = "notifyProcessInProgress"
                               /\ r >= Chan(cause'[r]) /\ ppn[r] = cause'[r]
      BY <1>0, <1>1, <1>8, <2>4, <3>0 DEF ChainOf, AtPath, r
    <3>2a. \A s \in Records : s # r /\ cause'[s] # None =>
              /\ state[cause'[s]] = "notifyProcessInProgress" /\ pact'[s]
              /\ s >= Chan(cause'[s]) /\ ppn[s] = cause'[s]
      BY <1>0, <1>1, <1>8, <2>4, <3>0 DEF ChainOf, AtCauses
    <3>3. AtCauses(th[t])'
      BY <1>4, <3>0, <3>1a, <3>2a DEF AtCauses
    <3>4. AtPath(th[t])'
      BY <1>0, <1>1, <1>2, <1>4, <1>8, <2>4, <3>0 DEF ChainOf, AtPath, AtPast, r, Processing
    <3>. QED  BY <3>1, <3>2, <3>3, <3>4 DEF ChainOf
  <2>5. Back(t).pc \in Processing =>
              /\ Back(t).from <= Back(t).at /\ Back(t).from = th[t].from
              /\ \A c \in cut : ~(Back(t).from <= c /\ c < Back(t).at)
              /\ Back(t).pc = "add" => Back(t).at \notin cut /\ Back(t).at + 1 \in Records
              /\ Back(t).pc \in {"notify", "disabled", "add"} => Back(t).ppn # None
    BY <1>2 DEF Processing
  <2>6. /\ pact' \in [Records -> BOOLEAN] /\ putf' \in [Records -> BOOLEAN]
        /\ rpro' \in [Records -> BOOLEAN] /\ onceQ' \in Seq(Records) /\ pending' \subseteq inst.async
        /\ cause' \in [Records -> Notifies \cup {None}] /\ owed' \subseteq Records
    BY <1>1, <1>3, <1>8
  <2>7. UNCHANGED <<inst, cut, pvtVars, listVars, cbVars, requests, scans, served>>
    BY <1>0, <1>3
  <2>8. th' = [th EXCEPT ![t] = Back(t)] /\ Back(t) \in Place /\ Back(t).pc \in Processing \cup {"idle"}
    BY <1>2, <1>8
  <2>. HIDE DEF Back
  <2>. QED  BY <1>0, <2>3, <2>4, <2>5, <2>6, <2>7, <2>8, GoesOn, ZenonT(60)
<1>9. CASE /\ ~pact[r] /\ r \notin inst.async
           /\ pact' = [pact EXCEPT ![r] = TRUE]
           /\ owed' = owed \ {r}
           /\ Goes(t, "fwd")
           /\ UNCHANGED <<putf, rpro, pending, cause>>
  <2> DEFINE e == [th[t] EXCEPT !.pc = "fwd"]
  <2>1. /\ e \in Place /\ e.pc = "fwd" /\ e.from = th[t].from
        /\ e.at = r /\ e.cause = th[t].cause /\ th' = [th EXCEPT ![t] = e]
    BY <1>0, <1>9, OtherPlace DEF Processing, r
  <2>. HIDE DEF e
  <2>3. \A s \in Records : putf'[s] \/ rpro'[s] =>
         \/ pact'[s]
         \/ \E u \in Threads : u # t /\ th[u].pc = "process" /\ th[u].at = s
    BY <1>3, <1>6, <1>9
  <2>4. ASSUME AsyncOnly, ChainOf(th[t]), th'[t] = e PROVE ChainOf(th[t])'
    <3>0. /\ \A s \in Records : pact'[s] = (s = r \/ pact[s])
      BY <1>1, <1>3, <1>9
    <3>1. AtOwner(th[t])'
      BY <2>1, <2>4 DEF AtOwner
    <3>2. AtSync(th[t])'
      BY <1>0, <1>1, <1>4, <1>9, <2>1, <2>4, <3>0 DEF ChainOf, AtSync, AtBy, Processing, r
    <3>3. AtCauses(th[t])'
      BY <1>0, <1>1, <1>4, <1>9, <2>1, <2>4, <3>0 DEF ChainOf, AtCauses, r
    <3>4. AtPath(th[t])'
      BY <1>0, <1>1, <1>4, <1>9, <2>1, <2>4, <3>0 DEF ChainOf, AtPath, AtPast, r, Processing
    <3>. QED  BY <3>1, <3>2, <3>3, <3>4 DEF ChainOf
  <2>5. e.pc \in Processing =>
              /\ e.from <= e.at /\ e.from = th[t].from
              /\ \A c \in cut : ~(e.from <= c /\ c < e.at)
              /\ e.pc = "add" => e.at \notin cut /\ e.at + 1 \in Records
              /\ e.pc \in {"notify", "disabled", "add"} => e.ppn # None
    BY <1>1, <2>1
  <2>6. /\ pact' \in [Records -> BOOLEAN] /\ putf' \in [Records -> BOOLEAN]
        /\ rpro' \in [Records -> BOOLEAN] /\ onceQ' \in Seq(Records) /\ pending' \subseteq inst.async
        /\ cause' \in [Records -> Notifies \cup {None}] /\ owed' \subseteq Records
        /\ e.pc \in Processing \cup {"idle"}
    BY <1>1, <1>3, <1>9, <2>1 DEF Processing
  <2>7. UNCHANGED <<inst, cut, pvtVars, listVars, cbVars, requests, scans, served>>
    BY <1>0, <1>3
  <2>. QED  BY <1>0, <2>1, <2>3, <2>4, <2>5, <2>6, <2>7, GoesOn, ZenonT(60)
<1>. QED  BY <1>5, <1>7, <1>8, <1>9 DEF dbProcess, r

\* What the steps of a thread at work start from.
WorkFacts(t) ==
    /\ TypeOK /\ Locks /\ Lists /\ th[t].pc \in Processing /\ th[t] \in Place
    /\ th[t].at \in Records /\ th[t].from \in Records
    /\ th[t].at \in Int /\ th[t].from \in Int
    /\ th[t].from <= th[t].at /\ \A c \in cut : ~(th[t].from <= c /\ c < th[t].at)
    /\ \A c \in cut : c \in Int
    /\ \A s \in Records : s \in Int
    /\ th[t].cause \in Notifies \cup {None} /\ ppn[th[t].at] \in Notifies \cup {None}
    /\ th[t].ppn \in Notifies \cup {None}
    /\ th[t].cause # None => Chan(th[t].cause) \in Int
    /\ Back(t) \in Place /\ Back(t).pc \in Processing \cup {"idle"}
    /\ Back(t).pc \in {"test", "idle"}
    /\ Back(t).pc = "test" =>
          /\ Back(t).from = th[t].from /\ Back(t).at = th[t].at - 1
          /\ Back(t).cause = th[t].cause
          /\ Back(t).from <= Back(t).at
          /\ \A c \in cut : ~(Back(t).from <= c /\ c < Back(t).at)
    /\ Back(t).pc = "idle" <=> th[t].at = th[t].from
    /\ pact \in [Records -> BOOLEAN] /\ putf \in [Records -> BOOLEAN]
    /\ rpro \in [Records -> BOOLEAN] /\ onceQ \in Seq(Records) /\ pending \subseteq inst.async
    /\ cause \in [Records -> Notifies \cup {None}] /\ owed \subseteq Records
    /\ \A s \in Records : putf[s] \/ rpro[s] =>
          \/ pact[s] \/ (th[t].pc = "process" /\ s = th[t].at)
          \/ \E u \in Threads : u # t /\ th[u].pc = "process" /\ th[u].at = s

\* They hold of a thread at work, by the invariant.
LEMMA AtWork ==
    ASSUME NotifyInv, NEW t \in Threads, Working(t)
    PROVE  WorkFacts(t)
<1>1. TypeOK /\ Locks /\ Lists /\ Putf /\ th[t].pc \in Processing
  BY DEF NotifyInv, Working
<1>2. \A c \in cut : c \in Int
  BY <1>1, Typed, NotifyAssumption DEF TypeOK
<1>3. \A s \in Records : putf[s] \/ rpro[s] =>
         \/ pact[s] \/ (th[t].pc = "process" /\ s = th[t].at)
         \/ \E u \in Threads : u # t /\ th[u].pc = "process" /\ th[u].at = s
  BY <1>1 DEF Putf
<1>4. th[t].from <= th[t].at /\ \A c \in cut : ~(th[t].from <= c /\ c < th[t].at)
  BY <1>1 DEF Locks
<1>5. /\ th[t].at \in Records /\ th[t].from \in Records
      /\ th[t].at \in Int /\ th[t].from \in Int
      /\ \A s \in Records : s \in Int
      /\ th[t].cause \in Notifies \cup {None} /\ ppn[th[t].at] \in Notifies \cup {None}
      /\ th[t].ppn \in Notifies \cup {None}
      /\ th[t].cause # None => Chan(th[t].cause) \in Int
  BY <1>1, Typed
<1>6. /\ th[t] \in Place
      /\ pact \in [Records -> BOOLEAN] /\ putf \in [Records -> BOOLEAN]
      /\ rpro \in [Records -> BOOLEAN] /\ onceQ \in Seq(Records) /\ pending \subseteq inst.async
      /\ cause \in [Records -> Notifies \cup {None}] /\ owed \subseteq Records
  BY <1>1, TypesThen
<1>7. /\ Back(t) \in Place /\ Back(t).pc \in Processing \cup {"idle"}
      /\ Back(t).pc \in {"test", "idle"}
      /\ Back(t).pc = "test" =>
            /\ Back(t).from = th[t].from /\ Back(t).at = th[t].at - 1
            /\ Back(t).cause = th[t].cause
            /\ Back(t).from <= Back(t).at
            /\ \A c \in cut : ~(Back(t).from <= c /\ c < Back(t).at)
      /\ Back(t).pc = "idle" <=> th[t].at = th[t].from
  BY <1>1, BackPlace DEF Processing
<1>. QED  BY <1>1, <1>2, <1>3, <1>4, <1>5, <1>6, <1>7 DEF WorkFacts

\* EndProcess: the record is free again, and asked for once more if somebody wanted it.
LEMMA EndStep ==
    ASSUME NotifyInv, NEW t \in Threads, EndProcess(t)
    PROVE  NotifyInv'
<1> DEFINE r == th[t].at
<1>0. /\ th[t].pc = "end" /\ Working(t) /\ Again(r)
      /\ rpro' = [rpro EXCEPT ![r] = FALSE] /\ putf' = [putf EXCEPT ![r] = FALSE]
      /\ pact' = [pact EXCEPT ![r] = FALSE] /\ cause' = [cause EXCEPT ![r] = None]
      /\ th' = [th EXCEPT ![t] = Back(t)]
      /\ UNCHANGED <<inst, cut, pending, pvtVars, listVars, cbVars, scans, requests, served, owed>>
  BY DEF EndProcess, Working, Processing, PutIsOver
<1>f. WorkFacts(t)
  BY <1>0, AtWork
<1>1. ppn' = ppn /\ state' = state /\ inst' = inst /\ \A n : Chan(n)' = Chan(n)
  BY <1>0 DEF listVars, Chan
<1>2. r \in Records /\ r \in Int /\ onceQ \in Seq(Records)
  BY <1>0, <1>f DEF WorkFacts
<1>3. onceQ' \in Seq(Records)
  BY <1>0, <1>2 DEF Again
<1>4. /\ pact' \in [Records -> BOOLEAN] /\ putf' \in [Records -> BOOLEAN]
      /\ rpro' \in [Records -> BOOLEAN] /\ onceQ' \in Seq(Records) /\ pending' \subseteq inst.async
      /\ cause' \in [Records -> Notifies \cup {None}] /\ owed' \subseteq Records
  BY <1>0, <1>2, <1>3, <1>f DEF WorkFacts
<1>5. \A s \in Records : putf'[s] \/ rpro'[s] =>
         pact'[s] \/ \E u \in Threads : u # t /\ th[u].pc = "process" /\ th[u].at = s
  BY <1>0, <1>2, <1>f DEF WorkFacts
<1>6. Back(t).pc \in Processing =>
         /\ Back(t).from <= Back(t).at /\ Back(t).from = th[t].from
         /\ \A c \in cut : ~(Back(t).from <= c /\ c < Back(t).at)
         /\ Back(t).pc = "add" => Back(t).at \notin cut /\ Back(t).at + 1 \in Records
         /\ Back(t).pc \in {"notify", "disabled", "add"} => Back(t).ppn # None
  BY <1>0, <1>f DEF Processing, WorkFacts
<1>7. ASSUME AsyncOnly, ChainOf(th[t]), th'[t] = Back(t) PROVE ChainOf(th[t])'
  <2>0. /\ \A s \in Records : pact'[s] = (s # r /\ pact[s])
        /\ \A s \in Records : s # r => cause'[s] = cause[s]
        /\ cause'[r] = None
    BY <1>0, <1>2, <1>f DEF WorkFacts
  <2>1. AtOwner(th[t])'
    BY <1>0, <1>7, <1>f DEF AtOwner, WorkFacts
  <2>2. AtSync(th[t])'
    <3>1. \A s \in Records \ inst.async :
             /\ ppn[s] # None => th[t].from <= s /\ s < r
             /\ pact[s] => th[t].from <= s /\ s <= r
      BY <1>0, <1>2, <1>7, <1>f DEF ChainOf, AtSync, AtBy, WorkFacts
    <3>2. \A s \in Records : th[t].from <= s /\ s < r =>
             Back(t).pc = "test" /\ Back(t).from <= s /\ s <= Back(t).at
      BY <1>0, <1>2, <1>f DEF WorkFacts
    <3>3. \A s \in Records : s # r /\ s <= r => s < r
      BY <1>f DEF WorkFacts
    <3>. HIDE DEF Back, r
    <3>. QED  BY <1>1, <1>7, <2>0, <3>1, <3>2, <3>3 DEF AtSync, AtBy, Processing
  <2>3. AtCauses(th[t])'
    <3>1. \A s \in Records : cause'[s] # None =>
             /\ s # r /\ state[cause'[s]] # "notifyUserCallbackActive" /\ pact'[s]
             /\ s >= Chan(cause'[s])
             /\ ppn[s] = cause'[s] /\ state[cause'[s]] = "notifyProcessInProgress"
      BY <1>7, <2>0 DEF ChainOf, AtCauses
    <3>. QED  BY <1>1, <3>1 DEF AtCauses
  <2>4. AtPath(th[t])'
    <3>1. Back(t).pc \in Processing => Back(t).pc = "test" /\ th[t].at # th[t].from
      BY <1>0, <1>f DEF Processing, WorkFacts
    <3>2. th[t].at # th[t].from /\ th[t].cause # None =>
             /\ th[t].from >= Chan(th[t].cause)
             /\ state[th[t].cause] = "notifyProcessInProgress"
             /\ \A s \in Records : th[t].from <= s /\ s <= th[t].at - 1 => ppn[s] = th[t].cause
      BY <1>0, <1>7, <1>f DEF ChainOf, AtPath, AtPast, WorkFacts
    <3>. QED  BY <1>0, <1>1, <1>7, <3>1, <3>2, <1>f DEF AtPath, AtPast, WorkFacts
  <2>. QED  BY <2>1, <2>2, <2>3, <2>4 DEF ChainOf
<1>8. Back(t) \in Place /\ Back(t).pc \in Processing \cup {"idle"} /\ Working(t)
      /\ th' = [th EXCEPT ![t] = Back(t)]
      /\ UNCHANGED <<inst, cut, pvtVars, listVars, cbVars, requests, scans, served>>
  BY <1>0, <1>f DEF WorkFacts
<1>9. AsyncOnly /\ ChainOf(th[t]) /\ th'[t] = Back(t) => ChainOf(th[t])'
  BY <1>7
<1>. HIDE DEF Back
<1>. QED  BY <1>4, <1>5, <1>6, <1>8, <1>9, GoesOn

\* The record that a put is passed on to is processed.
LEMMA PassOnFacts ==
    ASSUME NEW t \in Threads, NEW s \in Records, WorkFacts(t), PassOn(t, th[t].at, s), UNCHANGED pact
    PROVE  /\ putf' \in [Records -> BOOLEAN] /\ rpro' \in [Records -> BOOLEAN]
           /\ owed' \subseteq Records
           /\ \E e \in Place : /\ th' = [th EXCEPT ![t] = e]
                               /\ e.pc = "process" /\ e.from = th[t].from /\ e.at = s
                               /\ e.cause = th[t].cause /\ e.n = th[t].n
           /\ th[t].pc # "process" => \A q \in Records : putf'[q] \/ rpro'[q] =>
                 \/ pact'[q] \/ q = s
                 \/ \E u \in Threads : u # t /\ th[u].pc = "process" /\ th[u].at = q
<1> DEFINE r == th[t].at
           e == [th[t] EXCEPT !.pc = "process", !.at = s]
<1>1. /\ putf' = [putf EXCEPT ![s] = IF ~pact[s] THEN putf[r] ELSE @ /\ ~putf[r]]
      /\ rpro' = [rpro EXCEPT ![s] = @ \/ (pact[s] /\ putf[r])]
      /\ owed' = IF pact[s] /\ putf[r] THEN owed \cup {s} ELSE owed
      /\ th' = [th EXCEPT ![t].pc = "process", ![t].at = s]
  BY DEF PassOn
<1>2. /\ putf \in [Records -> BOOLEAN] /\ rpro \in [Records -> BOOLEAN] /\ owed \subseteq Records
      /\ pact \in [Records -> BOOLEAN] /\ r \in Records
      /\ th[t] \in Place /\ th \in [Threads -> Place]
  BY TypesThen DEF WorkFacts
<1>3. /\ e \in Place /\ e.pc = "process" /\ e.from = th[t].from /\ e.at = s
      /\ e.cause = th[t].cause /\ e.n = th[t].n
  BY <1>2 DEF Place, Processing
<1>4. th' = [th EXCEPT ![t] = e]
  BY <1>1, <1>2
<1>5. putf' \in [Records -> BOOLEAN] /\ rpro' \in [Records -> BOOLEAN]
  BY <1>1, <1>2
<1>6. /\ owed' \subseteq Records
      /\ \A q \in Records : q # s => putf'[q] = putf[q] /\ rpro'[q] = rpro[q]
  BY <1>1, <1>2
<1>7. th[t].pc # "process" => \A q \in Records : putf'[q] \/ rpro'[q] =>
         \/ pact'[q] \/ q = s
         \/ \E u \in Threads : u # t /\ th[u].pc = "process" /\ th[u].at = q
  BY <1>6 DEF WorkFacts
<1>. HIDE DEF e
<1>. QED  BY <1>3, <1>4, <1>5, <1>6, <1>7

\* What is true of a thread at work whose request is not its record's owner.
LEMMA OwnedPast ==
    ASSUME NEW t \in Threads, WorkFacts(t), ChainOf(th[t]),
           th[t].pc \in {"fwd", "add", "test", "notify"}, th[t].cause # None
    PROVE  ppn[th[t].at] = th[t].cause
BY DEF ChainOf, AtPath, AtPast, WorkFacts, Processing

\* recGblFwdLink: to the next record, through dbNotifyAdd if a request has this one.
LEMMA FwdStep ==
    ASSUME NotifyInv, NEW t \in Threads, recGblFwdLink(t)
    PROVE  NotifyInv'
<1> DEFINE r == th[t].at
           linked == r + 1 \in inst.passive /\ r \notin cut
<1>0. /\ th[t].pc = "fwd" /\ Working(t)
      /\ \/ ~linked /\ Goes(t, "test") /\ UNCHANGED <<putf, rpro, owed>>
         \/ linked /\ ppn[r] = None /\ PassOn(t, r, r + 1)
         \/ /\ linked /\ ppn[r] # None
            /\ th' = [th EXCEPT ![t].pc = "add", ![t].ppn = ppn[r]]
            /\ UNCHANGED <<putf, rpro, owed>>
      /\ UNCHANGED <<inst, cut, pact, pending, pvtVars, listVars, cbVars, workVars, requests,
                     served, cause>>
  BY DEF recGblFwdLink, Working, Processing
<1>f. WorkFacts(t) /\ Working(t)
  BY <1>0, AtWork
<1>1. ppn' = ppn /\ state' = state /\ inst' = inst /\ pact' = pact /\ cause' = cause
      /\ onceQ' = onceQ /\ \A n : Chan(n)' = Chan(n)
  BY <1>0 DEF listVars, workVars, Chan
<1>2. UNCHANGED <<inst, cut, pvtVars, listVars, cbVars, requests, scans, served>>
  BY <1>0 DEF workVars
<1>3. /\ pact' \in [Records -> BOOLEAN] /\ onceQ' \in Seq(Records) /\ pending' \subseteq inst.async
      /\ cause' \in [Records -> Notifies \cup {None}] /\ r \in Records /\ r \in Int
  BY <1>0, <1>1, <1>f DEF WorkFacts
<1>4. linked => r + 1 \in Records
  BY <1>f, Typed DEF WorkFacts
<1>5. CASE UNCHANGED <<putf, rpro, owed>> /\ \E e \in Place :
              /\ th' = [th EXCEPT ![t] = e] /\ e.from = th[t].from /\ e.at = r
              /\ e.cause = th[t].cause
              /\ \/ e.pc = "test"
                 \/ e.pc = "add" /\ linked /\ e.ppn = ppn[r] /\ ppn[r] # None
  <2>1. PICK e \in Place : /\ th' = [th EXCEPT ![t] = e] /\ e.from = th[t].from /\ e.at = r
                           /\ e.cause = th[t].cause
                           /\ \/ e.pc = "test"
                              \/ e.pc = "add" /\ linked /\ e.ppn = ppn[r] /\ ppn[r] # None
    BY <1>5
  <2>2. /\ putf' \in [Records -> BOOLEAN] /\ rpro' \in [Records -> BOOLEAN]
        /\ owed' \subseteq Records
        /\ \A s \in Records : putf'[s] \/ rpro'[s] =>
              pact'[s] \/ \E u \in Threads : u # t /\ th[u].pc = "process" /\ th[u].at = s
    BY <1>0, <1>1, <1>5, <1>f DEF WorkFacts
  <2>3. e.pc \in Processing \cup {"idle"} /\ (e.pc \in Processing =>
           /\ e.from <= e.at /\ e.from = th[t].from
           /\ \A c \in cut : ~(e.from <= c /\ c < e.at)
           /\ e.pc = "add" => e.at \notin cut /\ e.at + 1 \in Records
           /\ e.pc \in {"notify", "disabled", "add"} => e.ppn # None)
    BY <1>4, <1>f, <2>1 DEF Processing, WorkFacts
  <2>4. ASSUME AsyncOnly, ChainOf(th[t]), th'[t] = e PROVE ChainOf(th[t])'
    <3>1. AtOwner(th[t])'
      BY <1>1, <2>1, <2>4 DEF AtOwner
    <3>2. AtSync(th[t])'
      BY <1>0, <1>1, <2>1, <2>4 DEF ChainOf, AtSync, AtBy, Processing
    <3>3. AtCauses(th[t])'
      BY <1>0, <1>1, <2>1, <2>4 DEF ChainOf, AtCauses
    <3>4. AtPath(th[t])'
      BY <1>0, <1>1, <2>1, <2>4 DEF ChainOf, AtPath, AtPast, Processing
    <3>. QED  BY <3>1, <3>2, <3>3, <3>4 DEF ChainOf
  <2>5. AsyncOnly /\ ChainOf(th[t]) /\ th'[t] = e => ChainOf(th[t])'
    BY <2>4
  <2>6. th' = [th EXCEPT ![t] = e] /\ Working(t)
    BY <1>f, <2>1
  <2>. HIDE DEF r, linked
  <2>. QED  BY <1>2, <1>3, <2>2, <2>3, <2>5, <2>6, GoesOn, ZenonT(60)
<1>6. CASE linked /\ ppn[r] = None /\ PassOn(t, r, r + 1)
  <2>1. PICK e \in Place : /\ th' = [th EXCEPT ![t] = e]
                           /\ e.pc = "process" /\ e.from = th[t].from /\ e.at = r + 1
                           /\ e.cause = th[t].cause
    BY <1>1, <1>4, <1>6, <1>f, PassOnFacts
  <2>2. /\ putf' \in [Records -> BOOLEAN] /\ rpro' \in [Records -> BOOLEAN]
        /\ owed' \subseteq Records
        /\ \A s \in Records : putf'[s] \/ rpro'[s] =>
              \/ pact'[s] \/ (e.pc = "process" /\ e.at = s)
              \/ \E u \in Threads : u # t /\ th[u].pc = "process" /\ th[u].at = s
    BY <1>0, <1>1, <1>4, <1>6, <1>f, <2>1, PassOnFacts
  <2>3. e.pc \in Processing \cup {"idle"} /\ (e.pc \in Processing =>
           /\ e.from <= e.at /\ e.from = th[t].from
           /\ \A c \in cut : ~(e.from <= c /\ c < e.at)
           /\ e.pc = "add" => e.at \notin cut /\ e.at + 1 \in Records
           /\ e.pc \in {"notify", "disabled", "add"} => e.ppn # None)
    <3>1. \A c \in cut : c \in Int /\ c # r /\ ~(th[t].from <= c /\ c < r)
      BY <1>6, <1>f DEF WorkFacts
    <3>2. \A c \in cut : ~(th[t].from <= c /\ c < r + 1)
      BY <1>3, <3>1
    <3>3. th[t].from <= r + 1
      BY <1>3, <1>f DEF WorkFacts
    <3>. QED  BY <2>1, <3>2, <3>3 DEF Processing
  <2>4. ASSUME AsyncOnly, ChainOf(th[t]), th'[t] = e PROVE ChainOf(th[t])'
    <3>0. th[t].cause = None
      BY <1>0, <1>6, <1>f, <2>4, OwnedPast DEF WorkFacts
    <3>1. AtOwner(th[t])'
      BY <2>1, <2>4 DEF AtOwner
    <3>2. AtSync(th[t])'
      <4>1. \A s \in Records \ inst.async : (ppn[s] # None \/ pact[s]) =>
               th[t].from <= s /\ s <= r /\ s <= r + 1 /\ s # r + 1
        BY <1>0, <1>f, <2>4 DEF ChainOf, AtSync, AtBy, WorkFacts
      <4>. QED  BY <1>1, <2>1, <2>4, <4>1 DEF AtSync, AtBy, Processing
    <3>3. AtCauses(th[t])'
      BY <1>0, <1>1, <2>1, <2>4 DEF ChainOf, AtCauses
    <3>4. AtPath(th[t])'
      BY <2>1, <2>4, <3>0 DEF AtPath
    <3>. QED  BY <3>1, <3>2, <3>3, <3>4 DEF ChainOf
  <2>5. AsyncOnly /\ ChainOf(th[t]) /\ th'[t] = e => ChainOf(th[t])'
    BY <2>4
  <2>6. th' = [th EXCEPT ![t] = e] /\ Working(t)
    BY <1>f, <2>1
  <2>. HIDE DEF r, linked
  <2>. QED  BY <1>2, <1>3, <2>2, <2>3, <2>5, <2>6, GoesOn
<1>7. CASE ~linked /\ Goes(t, "test") /\ UNCHANGED <<putf, rpro, owed>>
  BY <1>5, <1>7, <1>f, OtherPlace, ZenonT(60) DEF WorkFacts, Processing
<1>8. CASE /\ linked /\ ppn[r] # None
           /\ th' = [th EXCEPT ![t].pc = "add", ![t].ppn = ppn[r]]
           /\ UNCHANGED <<putf, rpro, owed>>
  <2> DEFINE e == [th[t] EXCEPT !.pc = "add", !.ppn = ppn[r]]
  <2>1. th \in [Threads -> Place] /\ th[t] \in Place /\ ppn[r] \in Notifies \cup {None}
    BY <1>f, TypesThen DEF WorkFacts
  <2>2. e \in Place /\ e.pc = "add" /\ e.ppn = ppn[r] /\ e.from = th[t].from /\ e.at = r
        /\ e.cause = th[t].cause
    BY <2>1 DEF Place, Processing
  <2>3. th' = [th EXCEPT ![t] = e]
    BY <1>8, <2>1
  <2>. HIDE DEF e
  <2>. QED  BY <1>5, <1>8, <2>2, <2>3
<1>. QED  BY <1>0, <1>6, <1>7, <1>8

\* TestNotify: a record that no request has is done.
LEMMA TestStep ==
    ASSUME NotifyInv, NEW t \in Threads, TestNotify(t)
    PROVE  NotifyInv'
<1> DEFINE r == th[t].at
           q == IF ppn[r] = None THEN "end" ELSE "notify"
           e == [th[t] EXCEPT !.pc = q, !.ppn = ppn[r]]
<1>0. /\ th[t].pc = "test" /\ Working(t)
      /\ th' = [th EXCEPT ![t].pc = q, ![t].ppn = ppn[r]]
      /\ UNCHANGED <<inst, cut, recVars, pvtVars, listVars, cbVars, workVars, requests, history>>
  BY DEF TestNotify, Working, Processing
<1>f. WorkFacts(t) /\ Working(t)
  BY <1>0, AtWork
<1>1. ppn' = ppn /\ state' = state /\ inst' = inst /\ pact' = pact /\ cause' = cause
      /\ onceQ' = onceQ /\ \A n : Chan(n)' = Chan(n)
      /\ putf' = putf /\ rpro' = rpro /\ pending' = pending /\ owed' = owed
  BY <1>0 DEF listVars, workVars, recVars, history, Chan
<1>2. UNCHANGED <<inst, cut, pvtVars, listVars, cbVars, requests, scans, served>>
  BY <1>0 DEF workVars, history
<1>3. /\ pact' \in [Records -> BOOLEAN] /\ putf' \in [Records -> BOOLEAN]
      /\ rpro' \in [Records -> BOOLEAN] /\ onceQ' \in Seq(Records) /\ pending' \subseteq inst.async
      /\ cause' \in [Records -> Notifies \cup {None}] /\ owed' \subseteq Records
  BY <1>1, <1>f DEF WorkFacts
<1>4. /\ e \in Place /\ e.pc = q /\ e.ppn = ppn[r] /\ e.from = th[t].from /\ e.at = r
      /\ e.cause = th[t].cause /\ th' = [th EXCEPT ![t] = e]
  <2>1. th \in [Threads -> Place] /\ th[t] \in Place /\ ppn[r] \in Notifies \cup {None}
    BY <1>f, TypesThen DEF WorkFacts
  <2>2. e \in Place /\ e.pc = q /\ e.ppn = ppn[r] /\ e.from = th[t].from /\ e.at = r
        /\ e.cause = th[t].cause
    BY <2>1 DEF Place, Processing
  <2>. QED  BY <1>0, <2>1, <2>2
<1>. HIDE DEF e
<1>5. \A s \in Records : putf'[s] \/ rpro'[s] =>
         pact'[s] \/ \E u \in Threads : u # t /\ th[u].pc = "process" /\ th[u].at = s
  BY <1>0, <1>1, <1>f DEF WorkFacts
<1>6. e.pc \in Processing \cup {"idle"} /\ (e.pc \in Processing =>
         /\ e.from <= e.at /\ e.from = th[t].from
         /\ \A c \in cut : ~(e.from <= c /\ c < e.at)
         /\ e.pc = "add" => e.at \notin cut /\ e.at + 1 \in Records
         /\ e.pc \in {"notify", "disabled", "add"} => e.ppn # None)
  BY <1>4, <1>f DEF Processing, WorkFacts
<1>7. ASSUME AsyncOnly, ChainOf(th[t]), th'[t] = e PROVE ChainOf(th[t])'
  <2>0. e.pc = "end" => th[t].cause = None
    BY <1>0, <1>4, <1>7, <1>f, OwnedPast DEF WorkFacts
  <2>1. AtOwner(th[t])'
    BY <1>1, <1>4, <1>7 DEF AtOwner
  <2>2. AtSync(th[t])'
    BY <1>0, <1>1, <1>4, <1>7 DEF ChainOf, AtSync, AtBy, Processing
  <2>3. AtCauses(th[t])'
    BY <1>0, <1>1, <1>4, <1>7 DEF ChainOf, AtCauses
  <2>4. AtPath(th[t])'
    BY <1>0, <1>1, <1>4, <1>7, <2>0 DEF ChainOf, AtPath, AtPast, Processing
  <2>. QED  BY <2>1, <2>2, <2>3, <2>4 DEF ChainOf
<1>8. AsyncOnly /\ ChainOf(th[t]) /\ th'[t] = e => ChainOf(th[t])'
  BY <1>7
<1>9. e \in Place /\ th' = [th EXCEPT ![t] = e] /\ Working(t)
  BY <1>f, <1>4
<1>. QED  BY <1>2, <1>3, <1>5, <1>6, <1>8, <1>9, GoesOn, ZenonT(60)

\* A thread that was idle starts to process a record that nobody has.
LEMMA StartStep ==
    ASSUME NotifyInv, NEW w \in Workers, NEW r \in Records, NEW q \in {"process", "fwd"},
           NEW n \in Notifies \cup {None}, Starts(w, r, q, n),
           n # None => n = cause[r] /\ q = "fwd",
           UNCHANGED <<inst, cut, pvtVars, listVars, cbVars, requests, served, pact, rpro, cause>>,
           putf' = putf \/ (q = "process" /\ putf' = [putf EXCEPT ![r] = TRUE]),
           onceQ' \in Seq(Records), pending' \subseteq inst.async, scans' \in 0 .. inst.scans,
           owed' \subseteq Records
    PROVE  NotifyInv'
<1> DEFINE e == [Idle EXCEPT !.pc = q, !.from = r, !.at = r, !.cause = n]
<1>0. /\ TypeOK /\ Putf /\ w \in Threads /\ r \in Int /\ \A s \in Records : s \in Int
      /\ \A c \in cut : c \in Int
  BY Typed, NotifyAssumption DEF NotifyInv, TypeOK
<1>1. th[w].pc = "idle" /\ ~Locked(r) /\ th' = [th EXCEPT ![w] = e]
  BY DEF Starts
<1>2. e \in Place /\ e.pc = q /\ e.from = r /\ e.at = r /\ e.cause = n
  BY <1>0, Typed DEF Idle, Place, Processing
<1>. HIDE DEF e
<1>3. th'[w] = e /\ \A u \in Threads : u # w => th'[u] = th[u]
  BY <1>0, <1>1, OtherPlace
<1>4. /\ pact' = pact /\ rpro' = rpro /\ cause' = cause /\ inst' = inst /\ ppn' = ppn
      /\ state' = state /\ \A m : Chan(m)' = Chan(m)
  BY DEF listVars, Chan
<1>5. /\ pact' \in [Records -> BOOLEAN] /\ putf' \in [Records -> BOOLEAN]
      /\ rpro' \in [Records -> BOOLEAN] /\ cause' \in [Records -> Notifies \cup {None}]
  BY <1>0, <1>4, TypesThen
<1>6. Putf'
  <2>1. \A s \in Records : putf'[s] = putf[s] \/ (s = r /\ q = "process")
    BY <1>0, TypesThen
  <2>2. \A u \in Threads : th[u].pc = "process" => th'[u] = th[u]
    BY <1>1, <1>3
  <2>3. \A s \in Records : putf[s] \/ rpro[s] =>
           pact[s] \/ \E u \in Threads : th[u].pc = "process" /\ th[u].at = s
    BY <1>0 DEF Putf
  <2>4. \A s \in Records : putf'[s] \/ rpro'[s] =>
           pact'[s] \/ \E u \in Threads : th'[u].pc = "process" /\ th'[u].at = s
    BY <1>0, <1>2, <1>3, <1>4, <2>1, <2>2, <2>3
  <2>. QED  BY <2>4 DEF Putf
<1>7. ASSUME cut = {}, AsyncOnly, ChainOf(th[w]) PROVE ChainOf(th[w])'
  <2>0. \A s \in Records \ inst.async : ppn[s] = None /\ ~pact[s]
    BY <1>1, <1>7 DEF ChainOf, AtSync, AtBy, Processing
  <2>1. AtOwner(th[w])'
    BY <1>2, <1>3 DEF AtOwner
  <2>2. AtSync(th[w])'
    BY <1>4, <2>0 DEF AtSync
  <2>3. \A s \in Records : cause[s] # None =>
           /\ pact[s] /\ s >= Chan(cause[s])
           /\ ppn[s] = cause[s] /\ state[cause[s]] = "notifyProcessInProgress"
    BY <1>1, <1>7 DEF ChainOf, AtCauses
  <2>4. AtCauses(th[w])'
    BY <1>4, <2>3 DEF AtCauses
  <2>5. AtPath(th[w])'
    BY <1>0, <1>2, <1>3, <1>4, <2>3 DEF AtPath, AtPast, Processing
  <2>. QED  BY <2>1, <2>2, <2>4, <2>5 DEF ChainOf
<1>8. e.pc \in Processing /\ e.pc \in Processing \cup {"idle"} /\ th[w].pc \in Processing \cup {"idle"}
      /\ ~Locked(e.from) /\ e.from <= e.at
      /\ \A c \in cut : ~(e.from <= c /\ c < e.at)
      /\ e.pc \notin {"add", "notify", "disabled"}
  BY <1>0, <1>1, <1>2 DEF Processing
<1>. QED  BY <1>0, <1>1, <1>2, <1>5, <1>6, <1>7, <1>8, WorkStep

\* A device completes a record, or it is scanned.
LEMMA ScanSteps ==
    ASSUME NotifyInv, NEW w \in Workers,
           ScanOnce(w) \/ \E r \in Records : Complete(w, r) \/ Scan(w, r)
    PROVE  NotifyInv'
<1>0. /\ TypeOK /\ onceQ \in Seq(Records) /\ pending \subseteq inst.async /\ scans \in 0 .. inst.scans
      /\ owed \subseteq Records /\ inst.scans \in Nat
  <2>1. TypeOK
    BY DEF NotifyInv
  <2>2. inst.scans \in Nat
    BY <2>1, NotifyAssumption DEF TypeOK
  <2>. QED  BY <2>1, <2>2, TypesThen
<1>1. ASSUME NEW r \in Records, Complete(w, r) PROVE NotifyInv'
  <2>1. cause[r] \in Notifies \cup {None}
    BY <1>0, Typed
  <2>2. /\ UNCHANGED <<inst, cut, pvtVars, listVars, cbVars, requests, served, pact, rpro, cause>>
        /\ putf' = putf /\ onceQ' = onceQ /\ scans' = scans /\ owed' = owed
        /\ Starts(w, r, "fwd", cause[r]) /\ pending' = pending \ {r}
    BY <1>1 DEF Complete, workVars, history
  <2>3. pending' \subseteq inst.async
    BY <1>0, <2>2
  <2>. QED  BY <1>0, <2>1, <2>2, <2>3, StartStep
<1>2. ASSUME ScanOnce(w) PROVE NotifyInv'
  <2>1. onceQ # <<>> /\ Head(onceQ) \in Records /\ Tail(onceQ) \in Seq(Records)
    BY <1>0, <1>2 DEF ScanOnce
  <2>2. /\ UNCHANGED <<inst, cut, pvtVars, listVars, cbVars, requests, served, pact, rpro, cause>>
        /\ putf' = putf /\ onceQ' = Tail(onceQ) /\ scans' = scans /\ owed' = owed
        /\ pending' = pending /\ Starts(w, Head(onceQ), "process", None)
    BY <1>2 DEF ScanOnce, recVars, history
  <2>. QED  BY <1>0, <2>1, <2>2, StartStep
<1>3. ASSUME NEW r \in Records, Scan(w, r) PROVE NotifyInv'
  <2>1. /\ UNCHANGED <<inst, cut, pvtVars, listVars, cbVars, requests, served, pact, rpro, cause>>
        /\ putf' = putf /\ onceQ' = onceQ /\ scans' = scans + 1 /\ scans < inst.scans /\ owed' = owed
        /\ pending' = pending /\ Starts(w, r, "process", None)
    BY <1>3 DEF Scan, recVars, history
  <2>2. scans' \in 0 .. inst.scans
    BY <1>0, <2>1
  <2>. QED  BY <1>0, <2>1, <2>2, StartStep
<1>. QED  BY <1>1, <1>2, <1>3

\* dbPutField: a record that is busy is asked for once more.
LEMMA PutStep ==
    ASSUME NotifyInv, NEW w \in Workers, NEW r \in Records, dbPutField(w, r)
    PROVE  NotifyInv'
<1>0. /\ TypeOK /\ Putf /\ w \in Threads /\ onceQ \in Seq(Records) /\ pending \subseteq inst.async
      /\ scans' \in 0 .. inst.scans /\ owed \subseteq Records
  <2>1. TypeOK /\ Putf
    BY DEF NotifyInv
  <2>2. inst.scans \in Nat /\ scans \in 0 .. inst.scans
    BY <2>1, NotifyAssumption, TypesThen DEF TypeOK
  <2>. QED  BY <2>1, <2>2, Typed, TypesThen DEF dbPutField
<1>1. /\ UNCHANGED <<inst, cut, pact, pending, pvtVars, listVars, cbVars, onceQ, requests, served,
                     cause>>
      /\ \/ /\ pact[r] /\ ~Locked(r) /\ th[w].pc = "idle"
            /\ rpro' = [rpro EXCEPT ![r] = TRUE] /\ owed' = owed \cup {r}
            /\ UNCHANGED <<putf, th>>
         \/ /\ ~pact[r] /\ Starts(w, r, "process", None)
            /\ putf' = [putf EXCEPT ![r] = TRUE]
            /\ UNCHANGED <<rpro, owed>>
  BY DEF dbPutField
<1>2. CASE /\ pact[r] /\ ~Locked(r) /\ th[w].pc = "idle"
           /\ rpro' = [rpro EXCEPT ![r] = TRUE] /\ owed' = owed \cup {r}
           /\ UNCHANGED <<putf, th>>
  <2>1. th' = [th EXCEPT ![w] = th[w]] /\ th[w] \in Place /\ th[w].pc \in Processing \cup {"idle"}
        /\ th[w].pc \notin Processing
    BY <1>0, <1>2, TypesThen DEF Processing
  <2>2. /\ pact' \in [Records -> BOOLEAN] /\ putf' \in [Records -> BOOLEAN]
        /\ rpro' \in [Records -> BOOLEAN] /\ cause' \in [Records -> Notifies \cup {None}]
        /\ owed' \subseteq Records /\ onceQ' \in Seq(Records) /\ pending' \subseteq inst.async
    BY <1>0, <1>1, <1>2, TypesThen
  <2>3. Putf'
    <3>1. \A s \in Records : rpro'[s] = (s = r \/ rpro[s])
      BY <1>0, <1>2, TypesThen
    <3>. QED  BY <1>0, <1>1, <1>2, <3>1 DEF Putf
  <2>4. ChainOf(th[w]) => ChainOf(th[w])'
    BY <1>1, <1>2 DEF ChainOf, AtOwner, AtSync, AtBy, AtCauses, AtPath, AtPast, listVars, Chan
  <2>5. UNCHANGED <<inst, cut, pvtVars, listVars, cbVars, requests, served>>
    BY <1>1
  <2>. QED  BY <1>0, <1>2, <2>1, <2>2, <2>3, <2>4, <2>5, WorkStep
<1>3. CASE /\ Starts(w, r, "process", None)
           /\ putf' = [putf EXCEPT ![r] = TRUE]
           /\ UNCHANGED <<rpro, owed>>
  BY <1>0, <1>1, <1>3, StartStep
<1>. QED  BY <1>1, <1>2, <1>3

\* RemoveLink: nobody has the records of the link.
LEMMA RemoveStep ==
    ASSUME NotifyInv, NEW r \in Records, RemoveLink(r)
    PROVE  NotifyInv'
<1>0. /\ TypeOK /\ Places /\ Locks /\ Life /\ Lists /\ PvtsReturned /\ OneCallback /\ Putf
      /\ r \in inst.cuts /\ ~Locked(r) /\ cut' = cut \cup {r}
      /\ UNCHANGED <<inst, recVars, pvtVars, listVars, cbVars, workVars, th, requests, history>>
  BY DEF NotifyInv, RemoveLink
<1>1. UNCHANGED <<inst, pact, putf, rpro, pending, pvt, cancelWait, userCallbackWait, freeList,
                  cancelEvent, userCallbackEvent, ppn, restartList, waitList, state, callbacks,
                  refused, onceQ, scans, th, requests, served, cause, owed>>
  BY <1>0 DEF recVars, pvtVars, listVars, cbVars, workVars, history
<1>2. TypeOK'
  <2>1. cut' \subseteq inst.cuts
    BY <1>0 DEF TypeOK
  <2>. QED  BY <1>0, <1>1, <2>1 DEF TypeOK
<1>3. \A n : Canceled(n)' <=> Canceled(n)
  BY <1>1 DEF Canceled
<1>4. Places' /\ Life' /\ Putf'
  BY <1>0, <1>1, <1>3 DEF Places, CallsFor, Life, LifeOf, Putf
<1>5. Lists'
  BY <1>0, <1>1, <1>3 DEF Lists, OwnersAgree, Chan
<1>6. PvtsReturned'
  <2>1. \A p : Held(p)' = Held(p)
    BY <1>1 DEF Held
  <2>. QED  BY <1>0, <1>1, <2>1 DEF PvtsReturned
<1>7. OneCallback'
  <2>1. \A n : Called(n)' = Called(n)
    BY <1>1 DEF Called
  <2>. QED  BY <1>0, <1>1, <1>3, <2>1 DEF OneCallback
<1>8. Locks'
  <2>1. \A t \in Threads : Working(t) =>
           /\ th[t].at # r /\ ~(th[t].from <= r /\ r < th[t].at)
    <3>1. \A t \in Threads : Working(t) => th[t].from <= th[t].at /\ th[t].at \in Records
                                           /\ th[t].at \in Int /\ r \in Int
      BY <1>0, Typed DEF Locks
    <3>2. \A t \in Threads : Working(t) => ~(th[t].from <= r /\ r <= th[t].at)
      BY <1>0, HasRecords
    <3>. QED  BY <3>1, <3>2
  <2>2. \A a, b : SameSet(a, b)' => SameSet(a, b)
    BY <1>0 DEF SameSet
  <2>3. \A t \in Threads : Working(t)' <=> Working(t)
    BY <1>1 DEF Working
  <2>4. \A t \in Threads : Working(t) =>
          /\ th[t].from <= th[t].at
          /\ \A c \in cut' : ~(th[t].from <= c /\ c < th[t].at)
          /\ th[t].pc = "add" => th[t].at \notin cut' /\ th[t].at + 1 \in Records
          /\ th[t].pc \in {"notify", "disabled", "add"} => th[t].ppn # None
    BY <1>0, <2>1 DEF Locks
  <2>. QED  BY <1>0, <1>1, <2>2, <2>3, <2>4 DEF Locks
<1>9. Chain'
  BY <1>0 DEF Chain
<1>. QED  BY <1>2, <1>4, <1>5, <1>6, <1>7, <1>8, <1>9 DEF NotifyInv

\* dbNotifyAdd: the request comes to own a record that nobody waits for.
LEMMA AddLists ==
    ASSUME TypeOK, Lists, Life, NEW n \in Notifies, NEW s \in Records, Joins(n, s),
           ppn' = [ppn EXCEPT ![s] = n],
           waitList' = [waitList EXCEPT ![n] = Append(@, s)],
           UNCHANGED <<inst, restartList, state>>, \A m : Canceled(m)' <=> Canceled(m)
    PROVE  /\ Lists' /\ waitList' \in [Notifies -> Seq(Records)]
           /\ ppn' \in [Records -> Notifies \cup {None}]
<1>0. /\ OwnersAgree /\ ppn[s] = None /\ state[n] = "notifyProcessInProgress"
      /\ state[n] \in InProgress
  BY DEF Lists, Joins, InProgress
<1>1. /\ ppn \in [Records -> Notifies \cup {None}] /\ \A m \in Notifies : m # None
      /\ waitList \in [Notifies -> Seq(Records)]
      /\ \A q \in Records : restartList[q] \in Seq(Notifies)
      /\ \A m : Chan(m)' = Chan(m)
  BY Typed, TypesThen DEF Chan
<1>2. /\ \A q \in Records : ppn'[q] = IF q = s THEN n ELSE ppn[q]
      /\ ppn' \in [Records -> Notifies \cup {None}]
  BY <1>1
<1>3. /\ \A m \in Notifies : m # n => waitList'[m] = waitList[m]
      /\ waitList'[n] = Append(waitList[n], s) /\ waitList'[n] # <<>>
      /\ waitList' \in [Notifies -> Seq(Records)]
  <2>1. Append(waitList[n], s) \in Seq(Records) /\ Append(waitList[n], s) # <<>>
    <3>1. waitList[n] \in Seq(Records)
      BY <1>1
    <3>. QED  BY <3>1
  <2>. QED  BY <1>1, <2>1
<1>4. /\ \A m \in Notifies, q \in Records :
            /\ Times(waitList[m], q) \in Nat
            /\ IsIn(waitList[m], q) <=> Times(waitList[m], q) > 0
            /\ IsIn(waitList'[m], q) <=> Times(waitList'[m], q) > 0
      /\ \A q \in Records : Times(waitList'[n], q) = Times(waitList[n], q) + (IF s = q THEN 1 ELSE 0)
  <2>1. ASSUME NEW m \in Notifies, NEW q \in Records
        PROVE  /\ Times(waitList[m], q) \in Nat
               /\ IsIn(waitList[m], q) <=> Times(waitList[m], q) > 0
               /\ IsIn(waitList'[m], q) <=> Times(waitList'[m], q) > 0
    <3>1. waitList[m] \in Seq(Records) /\ waitList'[m] \in Seq(Records)
      BY <1>1, <1>3
    <3>2. Times(waitList[m], q) \in Nat /\ (IsIn(waitList[m], q) <=> Times(waitList[m], q) > 0)
      BY <3>1, TimesIn
    <3>3. IsIn(waitList'[m], q) <=> Times(waitList'[m], q) > 0
      BY <3>1, TimesIn
    <3>. QED  BY <3>2, <3>3
  <2>2. ASSUME NEW q \in Records
        PROVE  Times(waitList'[n], q) = Times(waitList[n], q) + (IF s = q THEN 1 ELSE 0)
    <3>1. waitList[n] \in Seq(Records)
      BY <1>1
    <3>2. Times(Append(waitList[n], s), q) = Times(waitList[n], q) + (IF s = q THEN 1 ELSE 0)
      BY <3>1, TimesChange
    <3>. QED  BY <1>3, <3>2
  <2>. QED  BY <2>1, <2>2
<1>5. \A m \in Notifies : ~IsIn(waitList[m], s)
  BY <1>0, <1>1 DEF OwnersAgree
<1>6. \A m \in Notifies, q \in Records :
         /\ IsIn(waitList'[m], q) <=> IsIn(waitList[m], q) \/ (m = n /\ q = s)
         /\ Times(waitList'[m], q) <= 1
  <2>1. ASSUME NEW m \in Notifies, NEW q \in Records, m # n
        PROVE  /\ IsIn(waitList'[m], q) <=> IsIn(waitList[m], q)
               /\ Times(waitList'[m], q) <= 1
    BY <1>3, <2>1 DEF Lists
  <2>2. ASSUME NEW q \in Records, q # s
        PROVE  /\ IsIn(waitList'[n], q) <=> IsIn(waitList[n], q)
               /\ Times(waitList'[n], q) <= 1
    BY <1>4, <2>2 DEF Lists
  <2>3. IsIn(waitList'[n], s) /\ Times(waitList'[n], s) = 1
    <3>1. Times(waitList[n], s) = 0
      BY <1>4, <1>5
    <3>. QED  BY <1>4, <3>1
  <2>. QED  BY <2>1, <2>2, <2>3
<1>7. restartList[s] = <<>>
  BY <1>0 DEF OwnersAgree
<1>8. OwnersAgree'
  <2>1. \A q \in Records, m \in Notifies :
           /\ IsIn(waitList'[m], q) => ppn'[q] = m
           /\ ppn'[q] = m => IF state[m] \in InProgress THEN IsIn(waitList'[m], q)
                             ELSE state[m] = "notifyRestartCallbackRequested" /\ q = Chan(m)
           /\ IsIn(restartList[q], m) = (state[m] = "notifyWaitForRestart" /\ q = Chan(m))
    BY <1>0, <1>2, <1>5, <1>6 DEF OwnersAgree
  <2>2. \A q \in Records :
          /\ restartList[q] # <<>> => ppn'[q] # None /\ ~IsIn(restartList[q], ppn'[q])
          /\ \A i, j \in DOMAIN restartList[q] : restartList[q][i] = restartList[q][j] => i = j
    BY <1>0, <1>2, <1>7 DEF OwnersAgree
  <2>3. \A m \in Notifies :
          /\ state[m] = "notifyRestartCallbackRequested" /\ ~Canceled(m) => ppn'[Chan(m)] = m
          /\ (waitList'[m] # <<>>) = (state[m] \in InProgress)
    <3>1. \A m \in Notifies : state[m] = "notifyRestartCallbackRequested" /\ ~Canceled(m) =>
             ppn[Chan(m)] = m /\ Chan(m) \in Records /\ Chan(m) # s
      BY <1>0, Typed DEF OwnersAgree
    <3>2. \A m \in Notifies : (waitList'[m] # <<>>) = (state[m] \in InProgress)
      BY <1>0, <1>3 DEF OwnersAgree
    <3>. QED  BY <1>2, <3>1, <3>2
  <2>. QED  BY <1>1, <2>1, <2>2, <2>3 DEF OwnersAgree
<1>9. \A m \in Notifies, q \in Records : Times(waitList'[m], q) <= 1
  BY <1>6
<1>10. \A m \in Notifies : state[m] = "notifyRestartInProgress" => waitList'[m] = <<Chan(m)>>
  BY <1>0, <1>3 DEF Lists
<1>11. \A m \in Notifies, q \in Records : Canceled(m) => ppn'[q] # m
  <2>1. ~Canceled(n)
    BY <1>0 DEF Life, LifeOf, CancelWaitsIn, Requested
  <2>. QED  BY <1>2, <2>1 DEF Lists
<1>. QED  BY <1>1, <1>2, <1>3, <1>8, <1>9, <1>10, <1>11 DEF Lists

\* dbNotifyAdd: the next record joins the request, if it may, and is processed.
LEMMA AddStep ==
    ASSUME NotifyInv, NEW t \in Threads, dbNotifyAdd(t)
    PROVE  NotifyInv'
<1> DEFINE r == th[t].at
           s == r + 1
           n == th[t].ppn
<1>0. /\ th[t].pc = "add" /\ Working(t)
      /\ IF Joins(n, s)
         THEN /\ ppn' = [ppn EXCEPT ![s] = n]
              /\ waitList' = [waitList EXCEPT ![n] = Append(@, s)]
         ELSE UNCHANGED <<ppn, waitList>>
      /\ PassOn(t, r, s)
      /\ UNCHANGED <<inst, cut, pact, pending, pvtVars, restartList, state, cbVars, workVars,
                     requests, served, cause>>
  BY DEF dbNotifyAdd, Working, Processing
<1>f. WorkFacts(t) /\ Working(t)
  BY <1>0, AtWork
<1>1. /\ TypeOK /\ Places /\ Locks /\ Life /\ Lists /\ PvtsReturned /\ OneCallback /\ Putf /\ Chain
  BY DEF NotifyInv
<1>2. /\ state' = state /\ inst' = inst /\ pact' = pact /\ cause' = cause /\ cut' = cut
      /\ UNCHANGED <<pvtVars, served, cbVars>> /\ UNCHANGED <<inst, pvtVars, served>>
      /\ UNCHANGED <<state, cbVars>> /\ UNCHANGED refused
      /\ \A m : Chan(m)' = Chan(m)
      /\ \A m : Canceled(m)' <=> Canceled(m)
  BY <1>0 DEF cbVars, pvtVars, Chan, Canceled
<1>3. /\ s \in Records /\ r \in Records /\ r \in Int /\ n \in Notifies /\ r \notin cut
  <2>1. s \in Records /\ n # None /\ r \notin cut
    BY <1>0, <1>1 DEF Locks
  <2>. QED  BY <1>f, <2>1 DEF WorkFacts
<1>4. PICK e \in Place : /\ th' = [th EXCEPT ![t] = e]
                         /\ e.pc = "process" /\ e.from = th[t].from /\ e.at = s
                         /\ e.cause = th[t].cause
  BY <1>0, <1>2, <1>3, <1>f, PassOnFacts
<1>5. /\ putf' \in [Records -> BOOLEAN] /\ rpro' \in [Records -> BOOLEAN]
      /\ owed' \subseteq Records
      /\ \A q \in Records : putf'[q] \/ rpro'[q] =>
            \/ pact'[q] \/ q = s
            \/ \E u \in Threads : u # t /\ th[u].pc = "process" /\ th[u].at = q
  <2>1. UNCHANGED pact /\ th[t].pc # "process"
    BY <1>0
  <2>. QED  BY <1>0, <1>3, <1>f, <2>1, PassOnFacts
<1>6. th'[t] = e /\ \A u \in Threads : u # t => th'[u] = th[u]
  BY <1>1, <1>4, OtherPlace
<1>7. Lists' /\ waitList' \in [Notifies -> Seq(Records)] /\ ppn' \in [Records -> Notifies \cup {None}]
  <2>1. CASE Joins(n, s)
    <3>1. ppn' = [ppn EXCEPT ![s] = n] /\ waitList' = [waitList EXCEPT ![n] = Append(@, s)]
          /\ UNCHANGED <<inst, restartList, state>>
      BY <1>0, <2>1
    <3>. HIDE DEF n, s
    <3>. QED  BY <1>1, <1>2, <1>3, <2>1, <3>1, AddLists
  <2>2. CASE ~Joins(n, s)
    <3>1. UNCHANGED <<ppn, waitList, restartList, state>>
      BY <1>0, <2>2
    <3>. QED  BY <1>1, <1>2, <3>1, TypesThen DEF Lists, OwnersAgree
  <2>. QED  BY <2>1, <2>2
<1>8. TypeOK'
  <2>1. th' \in [Threads -> Place]
    BY <1>1, <1>4, TypesThen
  <2>2. UNCHANGED <<inst, cut, pact, pending, pvt, cancelWait, userCallbackWait, freeList,
                    cancelEvent, userCallbackEvent, restartList, state, callbacks, refused,
                    onceQ, scans, requests, served, cause>>
    BY <1>0 DEF pvtVars, cbVars, workVars
  <2>. QED  BY <1>1, <1>5, <1>7, <2>1, <2>2, TypesThen, TypesKept
<1>9. Places' /\ Life' /\ PvtsReturned' /\ OneCallback'
  <2>1. th[t].pc \in Processing \cup {"idle"} /\ e.pc \in Processing \cup {"idle"}
    BY <1>0, <1>4 DEF Processing
  <2>2. th' = [th EXCEPT ![t] = e]
    BY <1>4
  <2>. QED  BY <1>1, <1>2, <2>1, <2>2, WorkKeeps
<1>10. Locks'
  <2>1. e.from <= e.at /\ \A c \in cut : ~(e.from <= c /\ c < e.at)
    <3>1. \A c \in cut : c \in Int /\ c # r /\ ~(th[t].from <= c /\ c < r)
      BY <1>3, <1>f DEF WorkFacts
    <3>2. th[t].from <= r
      BY <1>f DEF WorkFacts
    <3>3. th[t].from \in Int
      BY <1>f DEF WorkFacts
    <3>. QED  BY <1>3, <1>4, <3>1, <3>2, <3>3
  <2>2. th' = [th EXCEPT ![t] = e] /\ e.pc = "process" /\ e.from = th[t].from /\ UNCHANGED cut
    BY <1>2, <1>4
  <2>. QED  BY <1>1, <1>f, <2>1, <2>2, LocksGo
<1>11. Putf'
  <2>1. \A q \in Records : putf'[q] \/ rpro'[q] =>
           pact'[q] \/ \E u \in Threads : th'[u].pc = "process" /\ th'[u].at = q
    BY <1>4, <1>5, <1>6
  <2>. QED  BY <2>1 DEF Putf
<1>12. ASSUME cut' = {}
       PROVE  (\A u \in Threads : Working(u)' => u = t) /\ AsyncOnly' /\ ChainOf(th[t])'
  <2>0. cut = {}
    BY <1>2, <1>12
  <2>1. \A u \in Threads : Working(u) => u = t
    BY <1>1, <1>f, <2>0, Alone
  <2>2. \A u \in Threads : Working(u)' => u = t
    BY <1>6, <2>1 DEF Working
  <2>3. AsyncOnly /\ ChainOf(th[t])
    BY <1>1, <2>0, <2>1, ChainThen
  <2>4. AsyncOnly'
    BY <1>2, <2>3 DEF AsyncOnly
  <2>5. n = ppn[r]
    BY <1>0, <2>3 DEF ChainOf, AtOwner
  <2>6. \A q \in Records : q # s => ppn'[q] = ppn[q]
    BY <1>0, <1>3, <1>1, TypesThen
  <2>7. ppn[s] # None => ppn'[s] = ppn[s]
    BY <1>0 DEF Joins
  <2>8. \A q \in Records \ inst.async : (ppn[q] # None \/ pact[q]) =>
           th[t].from <= q /\ q <= r /\ q <= s /\ q # s
    BY <1>0, <1>f, <2>3 DEF ChainOf, AtSync, AtBy, WorkFacts
  <2>9. AtOwner(th[t])'
    BY <1>4, <1>6 DEF AtOwner
  <2>10. AtSync(th[t])'
    <3>1. th[t].from <= s
      BY <1>3, <1>f DEF WorkFacts
    <3>2. \A q \in Records \ inst.async :
            /\ ppn'[q] # None => th[t].from <= q /\ q <= s
            /\ pact[q] => th[t].from <= q /\ q <= s /\ q # s
      BY <1>3, <2>6, <2>8, <3>1
    <3>. QED  BY <1>2, <1>4, <1>6, <3>2 DEF AtSync, AtBy, Processing
  <2>11. AtCauses(th[t])'
    <3>1. \A q \in Records : cause[q] # None =>
             /\ state[cause[q]] # "notifyUserCallbackActive" /\ pact[q] /\ q >= Chan(cause[q])
             /\ ppn[q] = cause[q] /\ state[cause[q]] = "notifyProcessInProgress"
      BY <1>0, <2>3 DEF ChainOf, AtCauses
    <3>2. \A q \in Records : cause[q] # None => ppn'[q] = cause[q]
      BY <2>6, <2>7, <3>1
    <3>. QED  BY <1>2, <3>1, <3>2 DEF AtCauses
  <2>12. AtPath(th[t])'
    <3>0. SUFFICES ASSUME th[t].cause # None PROVE AtPath(th[t])'
      BY <1>4, <1>6 DEF AtPath
    <3>1. n = th[t].cause
      BY <1>0, <1>f, <2>3, <2>5, <3>0, OwnedPast
    <3>2. /\ th[t].from >= Chan(n) /\ state[n] = "notifyProcessInProgress"
          /\ \A q \in Records : th[t].from <= q /\ q <= r => ppn[q] = n
      BY <1>0, <2>3, <3>0, <3>1 DEF ChainOf, AtPath, AtPast, Processing
    <3>3. \A q \in Records : th[t].from <= q /\ q <= s - 1 => ppn'[q] = n
      <4>1. \A q \in Records : q \in Int
        BY <1>f DEF WorkFacts
      <4>. QED  BY <1>3, <2>6, <3>2, <4>1
    <3>4. s # Chan(n)
      BY <1>3, <1>f, <3>1, <3>2 DEF WorkFacts
    <3>5. pact[s] \/ ppn'[s] = n \/ (ppn'[s] # None /\ s \in inst.async)
      <4>1. CASE Joins(n, s)
        BY <1>0, <1>3, <4>1, <1>1, TypesThen
      <4>2. CASE ~Joins(n, s)
        <5>1. pact[s] \/ ppn[s] # None
          BY <3>2, <3>4, <4>2 DEF Joins
        <5>2. ppn'[s] = ppn[s]
          BY <1>0, <4>2
        <5>. QED  BY <1>3, <2>8, <5>1, <5>2
      <4>. QED  BY <4>1, <4>2
    <3>. HIDE DEF n, s
    <3>. QED  BY <1>2, <1>4, <1>6, <3>1, <3>2, <3>3, <3>5 DEF AtPath, AtPast
  <2>. QED  BY <2>2, <2>4, <2>9, <2>10, <2>11, <2>12 DEF ChainOf
<1>13. Chain'
  BY <1>12, ChainNext
<1>. QED  BY <1>7, <1>8, <1>9, <1>10, <1>11, <1>13 DEF NotifyInv

-----------------------------------------------------------------------------
(* restartCheck: who waited first for a record is to be restarted.         *)

\* m is the first to wait for a record of rs.
Heir(m, rs) == /\ state[m] = "notifyWaitForRestart" /\ IsIn(rs, Chan(m))
               /\ restartList[Chan(m)] # <<>> /\ Head(restartList[Chan(m)]) = m

\* Each of them is found once.
LEMMA HeirsTimes ==
    ASSUME TypeOK, OwnersAgree, NEW rs \in Seq(Records), \A r \in Records : Times(rs, r) <= 1
    PROVE  /\ Heirs(rs) \in Seq(Notifies)
           /\ \A m \in Notifies : /\ Times(Heirs(rs), m) = IF Heir(m, rs) THEN 1 ELSE 0
                                  /\ IsIn(Heirs(rs), m) <=> Heir(m, rs)
<1> DEFINE W == {r \in Records : restartList[r] # <<>>}
           waited == Those(rs, W)
           h == Heirs(rs)
<1>1. restartList \in [Records -> Seq(Notifies)] /\ \A m \in Notifies : Chan(m) \in Records
  BY Typed, TypesThen
<1>2. waited \in Seq(W) /\ \A x : Times(waited, x) = IF x \in W THEN Times(rs, x) ELSE 0
  <2>1. Records \cap W = W
    OBVIOUS
  <2>. HIDE DEF W
  <2>. QED  BY <2>1, ThoseTimes
<1>3. h = [i \in DOMAIN waited |-> Head(restartList[waited[i]])]
  BY DEF Heirs
<1>4. \A r \in W : /\ restartList[r] # <<>> /\ restartList[r] \in Seq(Notifies) /\ r \in Records
                   /\ Head(restartList[r]) \in Notifies
                   /\ IsIn(restartList[r], Head(restartList[r]))
  <2>1. ASSUME NEW q \in Seq(Notifies), q # <<>> PROVE Head(q) \in Notifies /\ IsIn(q, Head(q))
    <3>1. Head(q) \in Notifies /\ 1 \in DOMAIN q /\ q[1] = Head(q)
      BY <2>1
    <3>. QED  BY <3>1 DEF IsIn
  <2>. QED  BY <1>1, <2>1
<1>. HIDE DEF W, waited, h
<1>5. Len(waited) \in Nat /\ DOMAIN waited = 1 .. Len(waited) /\ \A i \in DOMAIN waited : waited[i] \in W
  BY <1>2
<1>6. /\ h \in Seq(Notifies) /\ DOMAIN h = DOMAIN waited
      /\ \A i \in DOMAIN h : h[i] = Head(restartList[waited[i]])
  BY <1>3, <1>4, <1>5
<1>7. ASSUME NEW i \in DOMAIN h, NEW m \in Notifies, h[i] = m
      PROVE  Heir(m, rs) /\ waited[i] = Chan(m)
  <2>1. waited[i] \in W /\ Head(restartList[waited[i]]) = m
    BY <1>5, <1>6, <1>7
  <2>2. IsIn(restartList[waited[i]], m)
    BY <1>4, <2>1
  <2>3. state[m] = "notifyWaitForRestart" /\ waited[i] = Chan(m)
    <3>1. waited[i] \in Records
      BY <1>4, <2>1
    <3>2. IsIn(restartList[waited[i]], m)
             = (state[m] = "notifyWaitForRestart" /\ waited[i] = Chan(m))
      BY <3>1 DEF OwnersAgree
    <3>. QED  BY <2>2, <3>2
  <2>4. IsIn(waited, waited[i])
    BY <1>6 DEF IsIn
  <2>5. Times(waited, waited[i]) > 0
    BY <1>2, <2>4, TimesIn
  <2>6. IsIn(rs, waited[i])
    <3>1. Times(rs, waited[i]) > 0
      BY <1>2, <2>1, <2>5
    <3>. QED  BY <3>1, TimesIn
  <2>. QED  BY <1>4, <2>1, <2>3, <2>6 DEF Heir
<1>8. ASSUME NEW m \in Notifies, Heir(m, rs) PROVE Times(h, m) = 1 /\ IsIn(h, m)
  <2>1. Chan(m) \in W /\ IsIn(rs, Chan(m)) /\ Head(restartList[Chan(m)]) = m
    BY <1>1, <1>8 DEF Heir, W
  <2>2. {i \in DOMAIN h : h[i] = m} = {i \in DOMAIN waited : waited[i] = Chan(m)}
    BY <1>6, <1>7, <2>1
  <2>3. Times(h, m) = Times(waited, Chan(m))
    BY <2>2 DEF Times
  <2>4. Times(waited, Chan(m)) = Times(rs, Chan(m))
    BY <1>2, <2>1
  <2>5. Times(rs, Chan(m)) \in Nat /\ Times(rs, Chan(m)) > 0
    BY <2>1, TimesIn
  <2>6. Times(h, m) = 1
    BY <1>1, <2>3, <2>4, <2>5
  <2>. QED  BY <1>6, <2>6, TimesIn
<1>9. ASSUME NEW m \in Notifies, ~Heir(m, rs) PROVE Times(h, m) = 0 /\ ~IsIn(h, m)
  <2>1. ~IsIn(h, m)
    BY <1>7, <1>9 DEF IsIn
  <2>2. Times(h, m) \in Nat /\ ~(Times(h, m) > 0)
    BY <1>6, <2>1, TimesIn
  <2>. QED  BY <2>1, <2>2
<1>. QED  BY <1>6, <1>8, <1>9 DEF h

\* A callback is asked for of each request to be restarted and of those of more, or refused.
Asked(rs, more, no) ==
    /\ refused' = refused \cup no
    /\ \A m \in no : Heir(m, rs) \/ IsIn(more, m)
    /\ \A m \in Notifies : Times(callbacks', m) = Times(callbacks, m) +
          (IF m \in no THEN 0
           ELSE (IF Heir(m, rs) THEN 1 ELSE 0) + Times(more, m))

\* What restartCheck leaves.
LEMMA Restarts ==
    ASSUME TypeOK, OwnersAgree, NEW rs \in Seq(Records), \A r \in Records : Times(rs, r) <= 1,
           NEW s \in [Notifies -> States], NEW more \in Seq(Notifies), restartCheck(rs, s, more)
    PROVE  /\ ppn' \in [Records -> Notifies \cup {None}]
           /\ \A r \in Records : ppn'[r] = IF IsIn(rs, r) THEN Owner(r) ELSE ppn[r]
           /\ restartList' \in [Records -> Seq(Notifies)]
           /\ \A r \in Records : restartList'[r] = IF IsIn(rs, r) /\ restartList[r] # <<>>
                                                   THEN Tail(restartList[r]) ELSE restartList[r]
           /\ state' \in [Notifies -> States]
           /\ \A m \in Notifies :
                 state'[m] = IF Heir(m, rs) THEN "notifyRestartCallbackRequested" ELSE s[m]
           /\ callbacks' \in Seq(Notifies) /\ refused' \subseteq Notifies
           /\ \E no \in SUBSET Notifies : Asked(rs, more, no)
<1> DEFINE h == Heirs(rs)
<1>1. /\ h \in Seq(Notifies)
      /\ \A m \in Notifies : /\ Times(h, m) = IF Heir(m, rs) THEN 1 ELSE 0
                             /\ IsIn(h, m) <=> Heir(m, rs)
  BY HeirsTimes
<1>2. /\ ppn' = [r \in Records |-> IF IsIn(rs, r) THEN Owner(r) ELSE ppn[r]]
      /\ restartList' = [r \in Records |-> IF IsIn(rs, r) /\ restartList[r] # <<>>
                                           THEN Tail(restartList[r]) ELSE restartList[r]]
      /\ state' = [n \in Notifies |->
                      IF IsIn(h, n) THEN "notifyRestartCallbackRequested" ELSE s[n]]
      /\ CallbackRequest(h \o more)
  BY DEF restartCheck
<1>3. /\ restartList \in [Records -> Seq(Notifies)] /\ ppn \in [Records -> Notifies \cup {None}]
      /\ callbacks \in Seq(Notifies) /\ refused \subseteq Notifies
  BY TypesThen
<1>4. \A r \in Records : /\ Owner(r) \in Notifies \cup {None}
                         /\ restartList[r] # <<>> => Tail(restartList[r]) \in Seq(Notifies)
  BY <1>3 DEF Owner
<1>. HIDE DEF h
<1>5. h \o more \in Seq(Notifies)
      /\ \A m : Times(h \o more, m) = Times(h, m) + Times(more, m)
  BY <1>1, TimesConcat
<1>6. PICK no \in SUBSET {(h \o more)[i] : i \in DOMAIN (h \o more)} :
         /\ refused' = refused \cup no
         /\ callbacks' = callbacks \o Those(h \o more, Notifies \ no)
  BY <1>2 DEF CallbackRequest
<1>7. \A m \in no : m \in Notifies /\ IsIn(h \o more, m)
  <2>1. \A i \in DOMAIN (h \o more) : (h \o more)[i] \in Notifies
    BY <1>5
  <2>. QED  BY <2>1 DEF IsIn
<1>8. \A m \in Notifies : /\ Times(more, m) \in Nat /\ (IsIn(more, m) <=> Times(more, m) > 0)
                          /\ (IsIn(h \o more, m) <=> Times(h \o more, m) > 0)
  <2>1. \A m \in Notifies : /\ Times(more, m) \in Nat /\ (IsIn(more, m) <=> Times(more, m) > 0)
    BY TimesIn
  <2>2. \A m \in Notifies : (IsIn(h \o more, m) <=> Times(h \o more, m) > 0)
    BY <1>5, TimesIn
  <2>. QED  BY <2>1, <2>2
<1>9. \A m \in no : Heir(m, rs) \/ IsIn(more, m)
  BY <1>1, <1>5, <1>7, <1>8
<1> DEFINE asked == Those(h \o more, Notifies \ no)
<1>10. asked \in Seq(Notifies) /\ \A m \in Notifies :
          Times(asked, m) = IF m \in no THEN 0 ELSE Times(h, m) + Times(more, m)
  <2>1. /\ asked \in Seq(Notifies \cap (Notifies \ no))
        /\ \A m : Times(asked, m) = IF m \in Notifies \ no THEN Times(h \o more, m) ELSE 0
    <3> DEFINE q == h \o more
               S == Notifies \ no
    <3>1. q \in Seq(Notifies)
      BY <1>5
    <3>. HIDE DEF q, S
    <3>2. /\ Those(q, S) \in Seq(Notifies \cap S)
          /\ \A x : Times(Those(q, S), x) = IF x \in S THEN Times(q, x) ELSE 0
      BY <3>1, ThoseTimes
    <3>. QED  BY <3>2 DEF q, S
  <2>2. asked \in Seq(Notifies)
    BY <2>1
  <2>. HIDE DEF asked
  <2>. QED  BY <1>5, <2>1, <2>2
<1>. HIDE DEF asked
<1>11. callbacks' = callbacks \o asked
  BY <1>6 DEF asked
<1>12. /\ callbacks' \in Seq(Notifies)
       /\ \A m : Times(callbacks', m) = Times(callbacks, m) + Times(asked, m)
  BY <1>3, <1>10, <1>11, TimesConcat
<1>13. \A m \in Notifies : Times(callbacks', m) = Times(callbacks, m) +
                       (IF m \in no THEN 0
                        ELSE (IF Heir(m, rs) THEN 1 ELSE 0) + Times(more, m))
  BY <1>1, <1>10, <1>12
<1>14. no \in SUBSET Notifies /\ refused' \subseteq Notifies
  BY <1>3, <1>6, <1>7
<1>15. ppn' \in [Records -> Notifies \cup {None}] /\ restartList' \in [Records -> Seq(Notifies)]
  BY <1>2, <1>3, <1>4
<1>16. /\ state' \in [Notifies -> States]
       /\ \A m \in Notifies :
             state'[m] = IF Heir(m, rs) THEN "notifyRestartCallbackRequested" ELSE s[m]
  BY <1>1, <1>2 DEF States, Requested
<1>17. /\ \A r \in Records : ppn'[r] = IF IsIn(rs, r) THEN Owner(r) ELSE ppn[r]
       /\ \A r \in Records : restartList'[r] = IF IsIn(rs, r) /\ restartList[r] # <<>>
                                                THEN Tail(restartList[r]) ELSE restartList[r]
  BY <1>2
<1>18. Asked(rs, more, no)
  BY <1>6, <1>9, <1>13 DEF Asked
<1>. QED  BY <1>12, <1>14, <1>15, <1>16, <1>17, <1>18

\* The rest of a list in which everything is once.
LEMMA RestOf ==
    ASSUME NEW S, NEW q \in Seq(S), q # <<>>, \A i, j \in DOMAIN q : q[i] = q[j] => i = j
    PROVE  /\ \A x : IsIn(Tail(q), x) <=> IsIn(q, x) /\ x # Head(q)
           /\ \A i, j \in DOMAIN Tail(q) : Tail(q)[i] = Tail(q)[j] => i = j
<1>1. /\ Head(q) = q[1] /\ Len(q) \in Nat \ {0} /\ DOMAIN q = 1 .. Len(q)
      /\ DOMAIN Tail(q) = 1 .. Len(q) - 1 /\ \A i \in 1 .. Len(q) - 1 : Tail(q)[i] = q[i + 1]
  OBVIOUS
<1>2. ASSUME NEW x PROVE IsIn(Tail(q), x) <=> IsIn(q, x) /\ x # Head(q)
  <2>1. ASSUME IsIn(Tail(q), x) PROVE IsIn(q, x) /\ x # Head(q)
    <3>1. PICK i \in 1 .. Len(q) - 1 : q[i + 1] = x
      BY <1>1, <2>1 DEF IsIn
    <3>2. i + 1 \in DOMAIN q /\ 1 \in DOMAIN q /\ i + 1 # 1
      BY <1>1
    <3>. QED  BY <1>1, <3>1, <3>2 DEF IsIn
  <2>2. ASSUME IsIn(q, x), x # Head(q) PROVE IsIn(Tail(q), x)
    <3>1. PICK i \in 1 .. Len(q) : q[i] = x
      BY <1>1, <2>2 DEF IsIn
    <3>2. i # 1
      BY <1>1, <2>2, <3>1
    <3>3. i - 1 \in 1 .. Len(q) - 1 /\ (i - 1) + 1 = i
      BY <1>1, <3>2
    <3>4. Tail(q)[i - 1] = x
      BY <1>1, <3>1, <3>3
    <3>. QED  BY <1>1, <3>3, <3>4 DEF IsIn
  <2>. QED  BY <2>1, <2>2
<1>3. ASSUME NEW i \in DOMAIN Tail(q), NEW j \in DOMAIN Tail(q), Tail(q)[i] = Tail(q)[j] PROVE i = j
  <2>1. i + 1 \in DOMAIN q /\ j + 1 \in DOMAIN q /\ q[i + 1] = q[j + 1]
    BY <1>1, <1>3
  <2>2. i + 1 = j + 1
    BY <2>1
  <2>. QED  BY <1>1, <2>2
<1>. QED  BY <1>2, <1>3

\* n gives back the records rs, and is left in state new with those of w.
GivesBack(n, new, w, rs) ==
    /\ waitList' = [waitList EXCEPT ![n] = w]
    /\ \A r \in Records :
          /\ Times(rs, r) <= 1 /\ Times(w, r) <= 1
          /\ IsIn(rs, r) => ppn[r] = n
          /\ IsIn(w, r) => ppn[r] = n /\ ~IsIn(rs, r)
          /\ ppn[r] = n /\ ~IsIn(rs, r) =>
                IF new \in InProgress THEN IsIn(w, r)
                ELSE new = "notifyRestartCallbackRequested" /\ r = Chan(n)
    /\ (w # <<>>) = (new \in InProgress)
    /\ state[n] # "notifyWaitForRestart" /\ new # "notifyWaitForRestart"
    /\ new = "notifyRestartInProgress" => w = <<Chan(n)>>
    /\ new = "notifyRestartCallbackRequested" /\ ~Canceled(n)' =>
          ppn[Chan(n)] = n /\ ~IsIn(rs, Chan(n))
    /\ Canceled(n)' => \A r \in Records : ppn[r] = n => IsIn(rs, r)
    /\ \A m \in Notifies : m # n => (Canceled(m)' <=> Canceled(m))

\* The lists agree after restartCheck of the records that n gives back.
LEMMA RestartLists ==
    ASSUME TypeOK, Lists, Life, UNCHANGED inst, NEW n \in Notifies, NEW new \in States,
           NEW w \in Seq(Records), NEW rs \in Seq(Records), NEW more \in Seq(Notifies),
           NEW s \in [Notifies -> States], restartCheck(rs, s, more),
           \A m \in Notifies : s[m] = IF m = n THEN new ELSE state[m],
           GivesBack(n, new, w, rs)
    PROVE  Lists' /\ waitList' \in [Notifies -> Seq(Records)]
<1> USE DEF GivesBack
<1>0. OwnersAgree /\ state \in [Notifies -> States] /\ waitList \in [Notifies -> Seq(Records)]
      /\ \A m \in Notifies : m # None /\ Chan(m) \in Records /\ Chan(m)' = Chan(m)
      /\ restartList \in [Records -> Seq(Notifies)]
  BY Typed, TypesThen DEF Lists, Chan
<1>1. /\ \A r \in Records : ppn'[r] = IF IsIn(rs, r) THEN Owner(r) ELSE ppn[r]
      /\ \A r \in Records : restartList'[r] = IF IsIn(rs, r) /\ restartList[r] # <<>>
                                              THEN Tail(restartList[r]) ELSE restartList[r]
      /\ \A m \in Notifies :
            state'[m] = IF Heir(m, rs) THEN "notifyRestartCallbackRequested"
                        ELSE IF m = n THEN new ELSE state[m]
  <2>3. \A r \in Records : Times(rs, r) <= 1
    OBVIOUS
  <2>4. /\ \A r \in Records : ppn'[r] = IF IsIn(rs, r) THEN Owner(r) ELSE ppn[r]
        /\ \A r \in Records : restartList'[r] = IF IsIn(rs, r) /\ restartList[r] # <<>>
                                                THEN Tail(restartList[r]) ELSE restartList[r]
        /\ \A m \in Notifies :
              state'[m] = IF Heir(m, rs) THEN "notifyRestartCallbackRequested" ELSE s[m]
    BY <1>0, <2>3, Restarts
  <2>. QED  BY <2>4
<1>2. /\ \A m \in Notifies : Heir(m, rs) =>
            m # n /\ state[m] = "notifyWaitForRestart" /\ Owner(Chan(m)) = m
      /\ \A r \in Records : restartList[r] # <<>> =>
            /\ Owner(r) \in Notifies /\ Owner(r) = Head(restartList[r])
            /\ state[Owner(r)] = "notifyWaitForRestart" /\ r = Chan(Owner(r))
            /\ IsIn(rs, r) => Heir(Owner(r), rs)
  <2>1. \A m \in Notifies : Heir(m, rs) =>
            m # n /\ state[m] = "notifyWaitForRestart" /\ Owner(Chan(m)) = m
    BY DEF Heir, Owner
  <2>2. ASSUME NEW r \in Records, restartList[r] # <<>>
        PROVE  /\ Owner(r) \in Notifies /\ Owner(r) = Head(restartList[r])
               /\ state[Owner(r)] = "notifyWaitForRestart" /\ r = Chan(Owner(r))
    <3>1. restartList[r] \in Seq(Notifies)
      BY <1>0
    <3>2. Head(restartList[r]) \in Notifies /\ 1 \in DOMAIN restartList[r]
          /\ restartList[r][1] = Head(restartList[r])
      BY <2>2, <3>1
    <3>3. Owner(r) = Head(restartList[r]) /\ IsIn(restartList[r], Owner(r))
      BY <2>2, <3>2 DEF Owner, IsIn
    <3>4. \A m \in Notifies : IsIn(restartList[r], m)
                                  = (state[m] = "notifyWaitForRestart" /\ r = Chan(m))
      BY <1>0 DEF OwnersAgree
    <3>5. Owner(r) \in Notifies
      BY <3>2, <3>3
    <3>6. state[Owner(r)] = "notifyWaitForRestart" /\ r = Chan(Owner(r))
      BY <3>3, <3>4, <3>5
    <3>. QED  BY <3>2, <3>3, <3>5, <3>6
  <2>. QED  BY <2>1, <2>2 DEF Heir
<1>3. /\ \A m \in Notifies : waitList'[m] = IF m = n THEN w ELSE waitList[m]
      /\ waitList' \in [Notifies -> Seq(Records)]
  BY <1>0
<1>4. ASSUME NEW r \in Records, NEW m \in Notifies
      PROVE  /\ IsIn(waitList'[m], r) => ppn'[r] = m
             /\ ppn'[r] = m => IF state'[m] \in InProgress THEN IsIn(waitList'[m], r)
                               ELSE state'[m] = "notifyRestartCallbackRequested" /\ r = Chan(m)
  <2>1. ASSUME IsIn(waitList'[m], r) PROVE ppn'[r] = m
    <3>1. CASE m = n
      <4>1. IsIn(w, r)
        BY <1>3, <2>1, <3>1
      <4>2. ppn[r] = n /\ ~IsIn(rs, r)
        BY <4>1
      <4>. QED  BY <1>1, <3>1, <4>2
    <3>2. CASE m # n
      <4>1. IsIn(waitList[m], r)
        BY <1>3, <2>1, <3>2
      <4>2. ppn[r] = m
        BY <1>0, <4>1 DEF OwnersAgree
      <4>3. ~IsIn(rs, r)
        BY <3>2, <4>2
      <4>. QED  BY <1>1, <4>2, <4>3
    <3>. QED  BY <3>1, <3>2
  <2>2. ASSUME ppn'[r] = m, IsIn(rs, r)
        PROVE  state'[m] = "notifyRestartCallbackRequested" /\ r = Chan(m)
    BY <1>0, <1>1, <1>2, <2>2 DEF Owner
  <2>3. ASSUME ppn'[r] = m, ~IsIn(rs, r), m # n
        PROVE  IF state'[m] \in InProgress THEN IsIn(waitList'[m], r)
               ELSE state'[m] = "notifyRestartCallbackRequested" /\ r = Chan(m)
    <3>1. /\ ppn[r] = m
          /\ IF state[m] \in InProgress THEN IsIn(waitList[m], r)
             ELSE state[m] = "notifyRestartCallbackRequested" /\ r = Chan(m)
      BY <1>0, <1>1, <2>3 DEF OwnersAgree
    <3>2. ~Heir(m, rs)
      BY <1>2, <3>1 DEF InProgress
    <3>. QED  BY <1>1, <1>3, <2>3, <3>1, <3>2
  <2>4. ASSUME ppn'[r] = n, ~IsIn(rs, r)
        PROVE  IF state'[n] \in InProgress THEN IsIn(waitList'[n], r)
               ELSE state'[n] = "notifyRestartCallbackRequested" /\ r = Chan(n)
    BY <1>1, <1>2, <1>3, <2>4
  <2>5. "notifyRestartCallbackRequested" \notin InProgress
    BY DEF InProgress
  <2>. QED  BY <2>1, <2>2, <2>3, <2>4, <2>5
<1>5. ASSUME NEW r \in Records
      PROVE  /\ \A m \in Notifies : IsIn(restartList'[r], m)
                                       = (state'[m] = "notifyWaitForRestart" /\ r = Chan(m))
             /\ restartList'[r] # <<>> => ppn'[r] # None /\ ~IsIn(restartList'[r], ppn'[r])
             /\ \A i, j \in DOMAIN restartList'[r] : restartList'[r][i] = restartList'[r][j] => i = j
  <2> DEFINE q == restartList[r]
  <2>0. /\ \A i, j \in DOMAIN q : q[i] = q[j] => i = j
        /\ q # <<>> => ppn[r] # None /\ ~IsIn(q, ppn[r])
        /\ \A m \in Notifies : IsIn(q, m) = (state[m] = "notifyWaitForRestart" /\ r = Chan(m))
        /\ q \in Seq(Notifies)
    BY <1>0 DEF OwnersAgree
  <2>1. \A m \in Notifies : state'[m] = "notifyWaitForRestart" <=>
           state[m] = "notifyWaitForRestart" /\ ~Heir(m, rs)
    BY <1>1, <1>2
  <2>2. CASE IsIn(rs, r) /\ q # <<>>
    <3>1. /\ restartList'[r] = Tail(q) /\ ppn'[r] = Head(q) /\ Head(q) \in Notifies
      BY <1>1, <1>2, <2>2 DEF Owner
    <3>2. /\ \A x : IsIn(Tail(q), x) <=> IsIn(q, x) /\ x # Head(q)
          /\ \A i, j \in DOMAIN Tail(q) : Tail(q)[i] = Tail(q)[j] => i = j
      <4>. HIDE DEF q
      <4>. QED  BY <2>0, <2>2, RestOf
    <3>3. \A m \in Notifies : state[m] = "notifyWaitForRestart" /\ r = Chan(m) =>
             (Heir(m, rs) <=> m = Head(q))
      BY <2>2 DEF Heir
    <3>4. ASSUME NEW m \in Notifies
          PROVE  IsIn(restartList'[r], m) = (state'[m] = "notifyWaitForRestart" /\ r = Chan(m))
      <4>1. IsIn(restartList'[r], m) <=> IsIn(q, m) /\ m # Head(q)
        BY <3>1, <3>2
      <4>2. IsIn(restartList'[r], m) \in BOOLEAN
        BY DEF IsIn
      <4>. QED  BY <2>0, <2>1, <3>3, <4>1, <4>2
    <3>. HIDE DEF q
    <3>. QED  BY <1>0, <3>1, <3>2, <3>4
  <2>3. CASE ~(IsIn(rs, r) /\ q # <<>>)
    <3>1. restartList'[r] = q /\ (q # <<>> => ppn'[r] = ppn[r])
      BY <1>1, <2>3
    <3>2. \A m \in Notifies : r = Chan(m) => ~Heir(m, rs)
      BY <2>3 DEF Heir
    <3>. QED  BY <2>0, <2>1, <3>1, <3>2
  <2>. QED  BY <2>2, <2>3
<1>6. ASSUME NEW m \in Notifies
      PROVE  /\ state'[m] = "notifyRestartCallbackRequested" /\ ~Canceled(m)' => ppn'[Chan(m)] = m
             /\ (waitList'[m] # <<>>) = (state'[m] \in InProgress)
  <2>1. CASE Heir(m, rs)
    <3>1. waitList[m] = <<>>
      <4>1. (waitList[m] # <<>>) = (state[m] \in InProgress)
        BY <1>0 DEF OwnersAgree
      <4>. QED  BY <1>2, <2>1, <4>1 DEF InProgress
    <3>2. state'[m] = "notifyRestartCallbackRequested" /\ state'[m] \notin InProgress
      BY <1>1, <2>1 DEF InProgress
    <3>3. waitList'[m] = <<>>
      BY <1>2, <1>3, <2>1, <3>1
    <3>4. ppn'[Chan(m)] = m
      BY <1>0, <1>1, <1>2, <2>1 DEF Heir
    <3>. QED  BY <3>2, <3>3, <3>4
  <2>2. CASE ~Heir(m, rs) /\ m # n
    <3>1. /\ state[m] = "notifyRestartCallbackRequested" /\ ~Canceled(m) => ppn[Chan(m)] = m
          /\ (waitList[m] # <<>>) = (state[m] \in InProgress)
      BY <1>0 DEF OwnersAgree
    <3>. QED  BY <1>0, <1>1, <1>3, <2>2, <3>1
  <2>3. CASE m = n
    BY <1>0, <1>1, <1>2, <1>3, <2>3
  <2>. QED  BY <2>1, <2>2, <2>3
<1>7. OwnersAgree'
  BY <1>0, <1>4, <1>5, <1>6 DEF OwnersAgree
<1>8. \A m \in Notifies, r \in Records : Times(waitList'[m], r) <= 1
  BY <1>3 DEF Lists
<1>9. \A m \in Notifies : state'[m] = "notifyRestartInProgress" => waitList'[m] = <<Chan(m)>>
  BY <1>1, <1>2, <1>3 DEF Lists
<1>10. ASSUME NEW m \in Notifies, NEW q \in Records, Canceled(m)' PROVE ppn'[q] # m
  <2>0. ppn'[q] = IF IsIn(rs, q) THEN Owner(q) ELSE ppn[q]
    BY <1>1
  <2>3. Owner(q) # None => state[Owner(q)] = "notifyWaitForRestart"
    BY <1>2 DEF Owner
  <2>4. m # None
    BY <1>0
  <2>1. CASE m = n
    <3>1. ppn[q] = n => IsIn(rs, q)
      BY <1>10, <2>1
    <3>. QED  BY <2>0, <2>1, <2>3, <2>4, <3>1
  <2>2. CASE m # n
    <3>1. Canceled(m) /\ ppn[q] # m /\ state[m] # "notifyWaitForRestart"
      BY <1>10, <2>2 DEF Lists, Life, LifeOf, CancelWaitsIn, Requested
    <3>. QED  BY <2>0, <2>3, <2>4, <3>1
  <2>. QED  BY <2>1, <2>2
<1>. QED  BY <1>0, <1>3, <1>7, <1>8, <1>9, <1>10 DEF Lists

\* A notifyPvt is of one request, or free; a signal in it is for the client of that request.
LEMMA Unshared ==
    ASSUME TypeOK, PvtsReturned
    PROVE  /\ \A m, n \in Notifies : pvt[m] # 0 /\ pvt[m] = pvt[n] => m = n
           /\ \A p \in Pvts, m \in Notifies : pvt[m] = p => ~IsIn(freeList, p)
           /\ \A p \in Pvts : Times(freeList, p) <= 1
           /\ \A m \in Notifies : pvt[m] # 0 /\ (cancelEvent[pvt[m]] \/ userCallbackEvent[pvt[m]])
                                     => th[m].pc \in {"waitCancel", "waitUser"}
           /\ Life => \A m \in Notifies : state[m] \notin CancelWaitsIn =>
                         ~Canceled(m) /\ (pvt[m] # 0 => ~userCallbackEvent[pvt[m]])
<1> DEFINE S(p) == {m \in Notifies : pvt[m] = p}
<1>1. ASSUME NEW p
      PROVE  /\ IsFiniteSet(S(p)) /\ Cardinality(S(p)) \in Nat
             /\ Times(freeList, p) \in Nat /\ (IsIn(freeList, p) <=> Times(freeList, p) > 0)
             /\ Held(p) = Cardinality(S(p)) + Times(freeList, p)
  <2>1. IsFiniteSet(S(p)) /\ Cardinality(S(p)) \in Nat
    BY NotifyAssumption, FS_Subset, FS_CardinalityType
  <2>2. freeList \in Seq(Pvts)
    BY TypesThen
  <2>. QED  BY <2>1, <2>2, TimesIn DEF Held
<1>2. ASSUME NEW p \in Pvts
      PROVE  Cardinality(S(p)) + Times(freeList, p) <= 1 /\ Cardinality(S(p)) <= 1
             /\ Times(freeList, p) <= 1
  <2>1. Held(p) <= 1
    BY DEF PvtsReturned
  <2>2. /\ Cardinality(S(p)) \in Nat /\ Times(freeList, p) \in Nat
        /\ Held(p) = Cardinality(S(p)) + Times(freeList, p)
    BY <1>1
  <2>. HIDE DEF S
  <2>. QED  BY <2>1, <2>2
<1>3. ASSUME NEW m \in Notifies, NEW n \in Notifies, pvt[m] # 0, pvt[m] = pvt[n] PROVE m = n
  <2>1. pvt[m] \in Pvts
    BY <1>3, Typed
  <2>2. m \in S(pvt[m]) /\ n \in S(pvt[m])
    BY <1>3
  <2>3. Cardinality(S(pvt[m])) <= 1
    BY <1>2, <2>1
  <2>. HIDE DEF S
  <2>4. Cardinality(S(pvt[m]) \ {m}) = Cardinality(S(pvt[m])) - 1 /\ IsFiniteSet(S(pvt[m]) \ {m})
    BY <1>1, <2>2, FS_RemoveElement
  <2>5. Cardinality(S(pvt[m]) \ {m}) \in Nat
    BY <2>4, FS_CardinalityType
  <2>6. Cardinality(S(pvt[m]) \ {m}) = 0
    BY <1>1, <2>3, <2>4, <2>5
  <2>7. S(pvt[m]) \ {m} = {}
    BY <2>4, <2>6, FS_EmptySet
  <2>. QED  BY <2>2, <2>7
<1>4. ASSUME NEW p \in Pvts, NEW m \in Notifies, pvt[m] = p PROVE ~IsIn(freeList, p)
  <2>1. m \in S(p)
    BY <1>4
  <2>. HIDE DEF S
  <2>2. Cardinality(S(p)) # 0
    BY <1>1, <2>1, FS_EmptySet
  <2>. QED  BY <1>1, <1>2, <2>2
<1>5. \A p \in Pvts : Times(freeList, p) <= 1
  BY <1>2
<1>6. ASSUME NEW m \in Notifies, pvt[m] # 0, cancelEvent[pvt[m]] \/ userCallbackEvent[pvt[m]]
      PROVE  th[m].pc \in {"waitCancel", "waitUser"}
  <2>1. pvt[m] \in Pvts
    BY <1>6, Typed
  <2>2. PICK n \in Notifies : pvt[n] = pvt[m] /\ th[n].pc \in {"waitCancel", "waitUser"}
    BY <1>6, <2>1 DEF PvtsReturned
  <2>. QED  BY <1>3, <1>6, <2>2
<1>7. ASSUME Life, NEW m \in Notifies, state[m] \notin CancelWaitsIn
      PROVE  ~Canceled(m) /\ (pvt[m] # 0 => ~userCallbackEvent[pvt[m]])
  <2>1. th[m].pc \notin {"waitCancel", "waitUser"}
    BY <1>7 DEF Life, LifeOf, CancelWaitsIn
  <2>. QED  BY <1>6, <2>1 DEF Canceled
<1>. QED  BY <1>3, <1>4, <1>5, <1>6, <1>7

\* The threads in the callback of n.
InCallback(n) == {w \in Workers : th[w].pc = "callback" /\ th[w].n = n}

\* restartCheck asks for one callback of each request to be restarted, and for those of more;
\* a queue that is full refuses some.
LEMMA RestartCalls ==
    ASSUME TypeOK, Lists, Life, PvtsReturned, OneCallback, NEW n \in Notifies, NEW new \in States,
           NEW rs \in Seq(Records), NEW more \in Seq(Notifies),
           NEW s \in [Notifies -> States], restartCheck(rs, s, more),
           \A m \in Notifies : s[m] = IF m = n THEN new ELSE state[m],
           \A r \in Records : Times(rs, r) <= 1,
           state[n] # "notifyWaitForRestart",
           \A m \in Notifies : m # n => /\ Times(more, m) = 0
                                        /\ InCallback(m)' = InCallback(m)
                                        /\ Canceled(m)' <=> Canceled(m)
    PROVE  /\ \A m \in Notifies : m # n =>
                 /\ Called(m)' = IF state'[m] \in Requested /\ m \notin refused' /\ ~Canceled(m)'
                                 THEN 1 ELSE 0
                 /\ m \in refused' => state'[m] \in Requested /\ ~Canceled(m)'
           /\ n \in refused' => n \in refused \/ Times(more, n) > 0
           /\ n \notin refused => Times(callbacks', n) =
                 Times(callbacks, n) + IF n \in refused' THEN 0 ELSE Times(more, n)
           /\ n \in refused => n \in refused'
           /\ \A m \in Notifies : /\ Heir(m, rs) => m # n /\ state[m] = "notifyWaitForRestart"
                                  /\ state'[m] = IF Heir(m, rs) THEN "notifyRestartCallbackRequested"
                                                 ELSE IF m = n THEN new ELSE state[m]
           /\ callbacks' \in Seq(Notifies) /\ refused' \subseteq Notifies
           /\ state' \in [Notifies -> States]
           /\ ppn' \in [Records -> Notifies \cup {None}]
           /\ restartList' \in [Records -> Seq(Notifies)]
           /\ \A r \in Records : ppn'[r] = IF IsIn(rs, r) THEN Owner(r) ELSE ppn[r]
<1>0. /\ OwnersAgree /\ state \in [Notifies -> States] /\ callbacks \in Seq(Notifies)
  BY TypesThen DEF Lists
<1>1. s \in [Notifies -> States] /\ \A m \in Notifies : s[m] = IF m = n THEN new ELSE state[m]
  OBVIOUS
<1>2. restartCheck(rs, s, more)
  OBVIOUS
<1>3. /\ ppn' \in [Records -> Notifies \cup {None}]
      /\ \A r \in Records : ppn'[r] = IF IsIn(rs, r) THEN Owner(r) ELSE ppn[r]
      /\ restartList' \in [Records -> Seq(Notifies)]
      /\ state' \in [Notifies -> States]
      /\ \A m \in Notifies :
            state'[m] = IF Heir(m, rs) THEN "notifyRestartCallbackRequested" ELSE s[m]
      /\ callbacks' \in Seq(Notifies) /\ refused' \subseteq Notifies
      /\ \E no \in SUBSET Notifies : Asked(rs, more, no)
  BY <1>0, <1>1, <1>2, Restarts
<1>4. PICK no \in SUBSET Notifies :
         /\ refused' = refused \cup no
         /\ \A m \in no : Heir(m, rs) \/ IsIn(more, m)
         /\ \A m \in Notifies : Times(callbacks', m) = Times(callbacks, m) +
               (IF m \in no THEN 0
                ELSE (IF Heir(m, rs) THEN 1 ELSE 0) + Times(more, m))
  BY <1>3 DEF Asked
<1>5. \A m \in Notifies : Heir(m, rs) => m # n /\ state[m] = "notifyWaitForRestart"
  BY DEF Heir
<1>6. \A m \in Notifies : state'[m] = IF Heir(m, rs) THEN "notifyRestartCallbackRequested"
                                      ELSE IF m = n THEN new ELSE state[m]
  BY <1>1, <1>3, <1>5
<1>7. \A m \in Notifies : /\ Times(more, m) \in Nat /\ (IsIn(more, m) <=> Times(more, m) > 0)
                          /\ Times(callbacks, m) \in Nat
  BY <1>0, TimesIn
<1>8. \A m \in Notifies : /\ Called(m) = Times(callbacks, m) + Cardinality(InCallback(m))
                          /\ Called(m)' = Times(callbacks', m) + Cardinality(InCallback(m)')
                          /\ Cardinality(InCallback(m)) \in Nat
  <2>1. \A m : IsFiniteSet(InCallback(m))
    BY NotifyAssumption, FS_Subset DEF InCallback
  <2>. QED  BY <2>1, FS_CardinalityType DEF Called, InCallback
<1>9. ASSUME NEW m \in Notifies, m # n
      PROVE  /\ Called(m)' = IF state'[m] \in Requested /\ m \notin refused' /\ ~Canceled(m)'
                             THEN 1 ELSE 0
             /\ m \in refused' => state'[m] \in Requested /\ ~Canceled(m)'
  <2>1. /\ Called(m) = IF state[m] \in Requested /\ m \notin refused /\ ~Canceled(m) THEN 1 ELSE 0
        /\ m \in refused => state[m] \in Requested /\ ~Canceled(m)
    BY DEF OneCallback, Life, LifeOf
  <2>2. CASE Heir(m, rs)
    <3>1. state[m] = "notifyWaitForRestart" /\ state[m] \notin Requested
          /\ state[m] \notin CancelWaitsIn
      BY <1>5, <2>2 DEF Requested, CancelWaitsIn
    <3>2. ~Canceled(m) /\ ~Canceled(m)' /\ Called(m) = 0 /\ m \notin refused
          /\ state'[m] \in Requested
      BY <1>6, <1>9, <2>1, <2>2, <3>1, Unshared DEF Requested
    <3>3. Times(callbacks', m) = Times(callbacks, m) + IF m \in refused' THEN 0 ELSE 1
      BY <1>4, <1>9, <2>2, <3>2
    <3>. QED  BY <1>7, <1>8, <1>9, <3>2, <3>3
  <2>3. CASE ~Heir(m, rs)
    <3>1. state'[m] = state[m] /\ (Canceled(m)' <=> Canceled(m))
      BY <1>6, <1>9, <2>3
    <3>2. ~IsIn(more, m)
      BY <1>7, <1>9
    <3>3. (m \in refused' <=> m \in refused) /\ Times(callbacks', m) = Times(callbacks, m)
      <4>1. m \notin no
        BY <1>4, <2>3, <3>2
      <4>2. Times(callbacks', m) = Times(callbacks, m) + (0 + 0)
        BY <1>4, <1>9, <2>3, <4>1
      <4>. QED  BY <1>4, <1>7, <4>1, <4>2
    <3>. QED  BY <1>8, <1>9, <2>1, <3>1, <3>3
  <2>. QED  BY <2>2, <2>3
<1>10. /\ n \in refused' => n \in refused \/ Times(more, n) > 0
       /\ n \notin refused => Times(callbacks', n) =
             Times(callbacks, n) + IF n \in refused' THEN 0 ELSE Times(more, n)
       /\ n \in refused => n \in refused'
  BY <1>4, <1>5, <1>7
<1>. QED  BY <1>3, <1>5, <1>6, <1>9, <1>10

\* A list in which r is once, without r.
LEMMA WithoutOne ==
    ASSUME NEW S, NEW q \in Seq(S), NEW r \in S, IsIn(q, r), \A x \in S : Times(q, x) <= 1
    PROVE  /\ Those(q, S \ {r}) \in Seq(S)
           /\ \A x \in S : /\ Times(Those(q, S \ {r}), x) <= 1
                           /\ IsIn(Those(q, S \ {r}), x) <=> IsIn(q, x) /\ x # r
           /\ Those(q, S \ {r}) = <<>> <=> q = <<r>>
<1> DEFINE w == Those(q, S \ {r})
<1>1. /\ w \in Seq(S) /\ \A x : Times(w, x) = IF x \in S \ {r} THEN Times(q, x) ELSE 0
  <2> DEFINE R == S \ {r}
  <2>1. w = Those(q, R) /\ S \cap R = R /\ R \subseteq S
    OBVIOUS
  <2>. HIDE DEF R, w
  <2>2. /\ Those(q, R) \in Seq(S \cap R)
        /\ \A x : Times(Those(q, R), x) = IF x \in R THEN Times(q, x) ELSE 0
    BY ThoseTimes
  <2>3. w \in Seq(S) /\ \A x : Times(w, x) = IF x \in R THEN Times(q, x) ELSE 0
    BY <2>1, <2>2
  <2>. QED  BY <2>3 DEF R
<1>. HIDE DEF w
<1>2. \A x : /\ Times(w, x) \in Nat /\ (IsIn(w, x) <=> Times(w, x) > 0) /\ (w = <<>> => Times(w, x) = 0)
             /\ Times(q, x) \in Nat /\ (IsIn(q, x) <=> Times(q, x) > 0)
  <2>1. \A x : Times(w, x) \in Nat /\ (IsIn(w, x) <=> Times(w, x) > 0) /\ (w = <<>> => Times(w, x) = 0)
    BY <1>1, TimesIn
  <2>2. \A x : Times(q, x) \in Nat /\ (IsIn(q, x) <=> Times(q, x) > 0)
    BY TimesIn
  <2>. QED  BY <2>1, <2>2
<1>3. \A x \in S : Times(w, x) <= 1 /\ (IsIn(w, x) <=> IsIn(q, x) /\ x # r)
  BY <1>1, <1>2
<1>4. ASSUME q = <<r>> PROVE w = <<>>
  <2>1. \A i \in DOMAIN q : q[i] = r
    BY <1>4
  <2>2. \A x \in S : ~IsIn(w, x)
    BY <1>3, <2>1 DEF IsIn
  <2>3. w # <<>> => 1 \in DOMAIN w /\ w[1] \in S
    BY <1>1
  <2>. QED  BY <2>2, <2>3 DEF IsIn
<1>5. ASSUME w = <<>> PROVE q = <<r>>
  <2>1. \A i \in DOMAIN q : q[i] = r
    <3>1. \A i \in DOMAIN q : q[i] \in S /\ IsIn(q, q[i])
      BY DEF IsIn
    <3>. QED  BY <1>1, <1>2, <1>5, <3>1
  <2>2. q # <<>>
    BY DEF IsIn
  <2>3. Head(q) = r /\ Tail(q) \in Seq(S) /\ Times(q, r) = Times(Tail(q), r) + 1
    <3>1. /\ Tail(q) \in Seq(S)
          /\ Times(q, r) = Times(Tail(q), r) + (IF Head(q) = r THEN 1 ELSE 0)
      BY <2>2, TimesChange
    <3>2. Head(q) = r
      BY <2>1, <2>2
    <3>. QED  BY <3>1, <3>2
  <2>4. Times(Tail(q), r) = 0 /\ ~IsIn(Tail(q), r)
    <3>1. Times(Tail(q), r) \in Nat /\ (IsIn(Tail(q), r) <=> Times(Tail(q), r) > 0)
      BY <2>3, TimesIn
    <3>. QED  BY <2>3, <3>1
  <2>5. Len(q) \in Nat \ {0} /\ Len(Tail(q)) = Len(q) - 1 /\ DOMAIN q = 1 .. Len(q)
        /\ DOMAIN Tail(q) = 1 .. Len(q) - 1 /\ \A i \in 1 .. Len(q) - 1 : Tail(q)[i] = q[i + 1]
    BY <2>2
  <2>6. ~(Len(q) > 1)
    <3>1. SUFFICES ASSUME Len(q) > 1 PROVE FALSE
      OBVIOUS
    <3>2. 1 \in DOMAIN Tail(q) /\ Tail(q)[1] = r
      BY <2>1, <2>5, <3>1
    <3>. QED  BY <2>4, <3>2 DEF IsIn
  <2>. QED  BY <2>1, <2>5, <2>6
<1>. QED  BY <1>1, <1>3, <1>4, <1>5 DEF w

\* What a step says of the life of a request that it only may restart.
LEMMA OthersLife ==
    ASSUME TypeOK, Life, NEW m \in Notifies,
           \/ state'[m] = state[m]
           \/ state[m] = "notifyWaitForRestart" /\ state'[m] = "notifyRestartCallbackRequested",
           pvt'[m] = pvt[m], served'[m] = served[m], cancelWait'[m] = cancelWait[m],
           userCallbackWait'[m] = userCallbackWait[m],
           pvt[m] # 0 => /\ cancelEvent'[pvt[m]] = cancelEvent[pvt[m]]
                         /\ userCallbackEvent'[pvt[m]] = userCallbackEvent[pvt[m]],
           th[m].pc \in {"waitCancel", "waitUser"} => th'[m].pc = th[m].pc,
           th'[m].pc \in {"waitCancel", "waitUser"} => th'[m].pc = th[m].pc,
           m \in refused' => state'[m] \in Requested /\ ~Canceled(m)'
    PROVE  LifeOf(m)'
<1>1. LifeOf(m)
  BY DEF Life
<1>2. Canceled(m)' <=> Canceled(m)
  BY DEF Canceled
<1>. QED  BY <1>1, <1>2 DEF LifeOf, CancelWaitsIn, Requested

\* A list of one, and one of none.
LEMMA TimesOne ==
    ASSUME NEW a, NEW b
    PROVE  /\ Times(<<a>>, b) = IF a = b THEN 1 ELSE 0
           /\ IsIn(<<a>>, b) <=> a = b
           /\ Times(<<>>, b) = 0 /\ ~IsIn(<<>>, b) /\ <<>> # <<a>>
<1> DEFINE I == {i \in DOMAIN <<a>> : <<a>>[i] = b}
           J == {i \in DOMAIN <<>> : <<>>[i] = b}
<1>1. I = (IF a = b THEN {1} ELSE {}) /\ J = {}
  OBVIOUS
<1>2. (IsIn(<<a>>, b) <=> a = b) /\ ~IsIn(<<>>, b) /\ <<>> # <<a>>
  BY DEF IsIn
<1>3. Times(<<a>>, b) = Cardinality(I) /\ Times(<<>>, b) = Cardinality(J)
  BY DEF Times
<1>. HIDE DEF I, J
<1>4. Cardinality({}) = 0 /\ Cardinality({1}) = 1
  BY FS_EmptySet, FS_Singleton
<1>. QED  BY <1>1, <1>2, <1>3, <1>4

\* What dbNotifyCompletion leaves of the request n, which waits for r no more.
Completes(n, r) ==
    /\ ppn[r] = n
    /\ \A q \in Records : q # r => ppn'[q] = ppn[q]
    /\ \/ ppn'[r] = Owner(r)
       \/ ppn'[r] = n /\ r = Chan(n) /\ state[n] = "notifyRestartInProgress"
    /\ \A m \in Notifies : m # n =>
          \/ state'[m] = state[m]
          \/ /\ state[m] = "notifyWaitForRestart"
             /\ state'[m] = "notifyRestartCallbackRequested"
    /\ \/ state[n] = "notifyProcessInProgress" /\ state'[n] = state[n]
       \/ /\ state[n] = "notifyProcessInProgress" /\ state'[n] = "notifyUserCallbackRequested"
          /\ \A q \in Records : ppn[q] = n => q = r
       \/ /\ state[n] = "notifyRestartInProgress" /\ state'[n] = "notifyRestartCallbackRequested"

\* dbNotifyCompletion of a request under way.
LEMMA CompletionOf ==
    ASSUME NotifyInv, NEW n \in Notifies, NEW r \in Records, NEW t \in Threads, Working(t),
           NEW e \in Place, e.pc \in Processing \cup {"idle"}, th' = [th EXCEPT ![t] = e],
           state[n] \in InProgress, IsIn(waitList[n], r),
           waitList' = [waitList EXCEPT ![n] = Those(@, Records \ {r})],
           \/ ~LastOf(n, r) /\ restartCheck(<<r>>, state, <<>>)
           \/ /\ LastOf(n, r) /\ state[n] = "notifyProcessInProgress"
              /\ restartCheck(<<r>>, [state EXCEPT ![n] = "notifyUserCallbackRequested"], <<n>>)
           \/ /\ LastOf(n, r) /\ state[n] = "notifyRestartInProgress"
              /\ restartCheck(<<>>, [state EXCEPT ![n] = "notifyRestartCallbackRequested"], <<n>>),
           UNCHANGED <<inst, cut, recVars, pvtVars, workVars, requests, history>>
    PROVE  /\ TypeOK' /\ Places' /\ Life' /\ Lists' /\ PvtsReturned' /\ OneCallback'
           /\ Completes(n, r)
<1> DEFINE w == Those(waitList[n], Records \ {r})
<1>0. /\ TypeOK /\ Places /\ Locks /\ Life /\ Lists /\ PvtsReturned /\ OneCallback /\ OwnersAgree
      /\ waitList \in [Notifies -> Seq(Records)] /\ state \in [Notifies -> States]
      /\ th[t].pc \in Processing \cup {"idle"}
  BY TypesThen DEF NotifyInv, Lists, Working
<1>1. /\ UNCHANGED <<inst, cut, pact, putf, rpro, pending, pvt, cancelWait, userCallbackWait, freeList,
                     cancelEvent, userCallbackEvent, onceQ, scans, requests, served, cause, owed>>
      /\ UNCHANGED <<inst, pvtVars, served>>
      /\ \A m : Canceled(m)' <=> Canceled(m)
  BY DEF recVars, pvtVars, workVars, history, Canceled
<1>2. /\ w \in Seq(Records)
      /\ \A x \in Records : Times(w, x) <= 1 /\ (IsIn(w, x) <=> IsIn(waitList[n], x) /\ x # r)
      /\ w = <<>> <=> LastOf(n, r)
  <2> DEFINE q == waitList[n]
  <2>1. q \in Seq(Records) /\ IsIn(q, r) /\ \A x \in Records : Times(q, x) <= 1
    BY <1>0 DEF Lists
  <2>. HIDE DEF q
  <2>2. /\ Those(q, Records \ {r}) \in Seq(Records)
        /\ \A x \in Records : /\ Times(Those(q, Records \ {r}), x) <= 1
                              /\ IsIn(Those(q, Records \ {r}), x) <=> IsIn(q, x) /\ x # r
        /\ Those(q, Records \ {r}) = <<>> <=> q = <<r>>
    BY <2>1, WithoutOne
  <2>. QED  BY <2>2 DEF q, LastOf
<1>3. waitList' = [waitList EXCEPT ![n] = w]
  OBVIOUS
<1>. HIDE DEF w
<1>4. /\ \A q \in Records : IsIn(waitList[n], q) <=> ppn[q] = n
      /\ ppn[r] = n
      /\ state[n] = "notifyRestartInProgress" => r = Chan(n) /\ LastOf(n, r)
      /\ LastOf(n, r) => \A q \in Records : ppn[q] = n => q = r
  <2>1. \A q \in Records : IsIn(waitList[n], q) <=> ppn[q] = n
    BY <1>0 DEF OwnersAgree
  <2>2. \A x : waitList[n] = <<x>> => \A q \in Records : IsIn(waitList[n], q) => q = x
    BY DEF IsIn
  <2>3. state[n] = "notifyRestartInProgress" => waitList[n] = <<Chan(n)>>
    BY <1>0 DEF Lists
  <2>. QED  BY <2>1, <2>2, <2>3 DEF LastOf
<1>5. PICK rs \in Seq(Records), new \in States, more \in Seq(Notifies), s \in [Notifies -> States] :
         /\ restartCheck(rs, s, more) /\ \A m \in Notifies : s[m] = IF m = n THEN new ELSE state[m]
         /\ \/ /\ rs = <<r>> /\ new = state[n] /\ state[n] = "notifyProcessInProgress" /\ more = <<>>
               /\ w # <<>>
            \/ /\ rs = <<r>> /\ new = "notifyUserCallbackRequested" /\ more = <<n>> /\ w = <<>>
               /\ state[n] = "notifyProcessInProgress" /\ LastOf(n, r)
            \/ /\ rs = <<>> /\ new = "notifyRestartCallbackRequested" /\ more = <<n>> /\ w = <<>>
               /\ state[n] = "notifyRestartInProgress" /\ r = Chan(n) /\ LastOf(n, r)
  <2>1. /\ <<r>> \in Seq(Records) /\ <<>> \in Seq(Records)
        /\ <<n>> \in Seq(Notifies) /\ <<>> \in Seq(Notifies)
        /\ state[n] \in States
        /\ \A m \in Notifies : state[m] = IF m = n THEN state[n] ELSE state[m]
    BY <1>0
  <2>2. /\ "notifyUserCallbackRequested" \in States /\ "notifyRestartCallbackRequested" \in States
    BY DEF States, Requested
  <2>2a. \A new \in States : /\ [state EXCEPT ![n] = new] \in [Notifies -> States]
                              /\ \A m \in Notifies : [state EXCEPT ![n] = new][m]
                                    = IF m = n THEN new ELSE state[m]
    BY <1>0
  <2>3. CASE ~LastOf(n, r) /\ restartCheck(<<r>>, state, <<>>)
    <3>1. state[n] = "notifyProcessInProgress" /\ w # <<>>
      BY <1>2, <1>4, <2>3 DEF InProgress
    <3>. QED  BY <1>0, <2>1, <2>3, <3>1
  <2>4. CASE /\ LastOf(n, r) /\ state[n] = "notifyProcessInProgress"
             /\ restartCheck(<<r>>, [state EXCEPT ![n] = "notifyUserCallbackRequested"], <<n>>)
    <3>1. w = <<>>
      BY <1>2, <2>4
    <3>2. PICK s \in [Notifies -> States] :
             /\ s = [state EXCEPT ![n] = "notifyUserCallbackRequested"]
             /\ \A m \in Notifies : s[m] = IF m = n THEN "notifyUserCallbackRequested" ELSE state[m]
      BY ONLY <2>2, <2>2a
    <3>3. restartCheck(<<r>>, s, <<n>>)
      BY ONLY <2>4, <3>2
    <3>. WITNESS <<r>> \in Seq(Records), "notifyUserCallbackRequested" \in States,
                 <<n>> \in Seq(Notifies), s \in [Notifies -> States]
    <3>. QED  BY ONLY <2>4, <3>1, <3>2, <3>3
  <2>5. CASE /\ LastOf(n, r) /\ state[n] = "notifyRestartInProgress"
             /\ restartCheck(<<>>, [state EXCEPT ![n] = "notifyRestartCallbackRequested"], <<n>>)
    <3>1. w = <<>> /\ r = Chan(n)
      BY <1>2, <1>4, <2>5
    <3>2. PICK s \in [Notifies -> States] :
             /\ s = [state EXCEPT ![n] = "notifyRestartCallbackRequested"]
             /\ \A m \in Notifies :
                   s[m] = IF m = n THEN "notifyRestartCallbackRequested" ELSE state[m]
      BY ONLY <2>2, <2>2a
    <3>3. restartCheck(<<>>, s, <<n>>)
      BY ONLY <2>5, <3>2
    <3>. WITNESS <<>> \in Seq(Records), "notifyRestartCallbackRequested" \in States,
                 <<n>> \in Seq(Notifies), s \in [Notifies -> States]
    <3>. QED  BY ONLY <2>5, <3>1, <3>2, <3>3
  <2>. QED  BY <2>3, <2>4, <2>5
<1>6. /\ \A q \in Records : Times(rs, q) <= 1 /\ (IsIn(rs, q) <=> rs = <<r>> /\ q = r)
      /\ \A m \in Notifies : Times(more, m) = IF more = <<n>> /\ m = n THEN 1 ELSE 0
  <2>2. \A q \in Records : /\ Times(<<r>>, q) = IF r = q THEN 1 ELSE 0
                           /\ IsIn(<<r>>, q) <=> r = q
                           /\ Times(<<>>, q) = 0 /\ ~IsIn(<<>>, q)
    BY TimesOne
  <2>3. \A m \in Notifies : /\ Times(<<n>>, m) = IF n = m THEN 1 ELSE 0
                            /\ Times(<<>>, m) = 0
    BY TimesOne
  <2>4. <<>> # <<r>> /\ <<>> # <<n>>
    OBVIOUS
  <2>. QED  BY <1>5, <2>2, <2>3, <2>4
<1>7. Lists' /\ waitList' \in [Notifies -> Seq(Records)]
  <2>1. \A q \in Records :
              /\ Times(rs, q) <= 1 /\ Times(w, q) <= 1
              /\ IsIn(rs, q) => ppn[q] = n
              /\ IsIn(w, q) => ppn[q] = n /\ ~IsIn(rs, q)
              /\ ppn[q] = n /\ ~IsIn(rs, q) =>
                    IF new \in InProgress THEN IsIn(w, q)
                    ELSE new = "notifyRestartCallbackRequested" /\ q = Chan(n)
    BY <1>2, <1>4, <1>5, <1>6 DEF InProgress
  <2>2. /\ (w # <<>>) = (new \in InProgress)
        /\ state[n] # "notifyWaitForRestart" /\ new # "notifyWaitForRestart"
        /\ new # "notifyRestartInProgress"
        /\ new = "notifyRestartCallbackRequested" => ppn[Chan(n)] = n /\ ~IsIn(rs, Chan(n))
    BY <1>4, <1>5, <1>6 DEF InProgress
  <2>0. ~Canceled(n)'
    <3>1. state[n] \notin CancelWaitsIn
      BY <1>5 DEF CancelWaitsIn, Requested
    <3>. QED  BY <1>0, <1>1, <3>1 DEF Life, LifeOf
  <2>3. /\ UNCHANGED inst /\ restartCheck(rs, s, more) /\ TypeOK /\ Lists /\ Life
        /\ w \in Seq(Records) /\ waitList' = [waitList EXCEPT ![n] = w]
        /\ new = "notifyRestartInProgress" => w = <<Chan(n)>>
        /\ new = "notifyRestartCallbackRequested" /\ ~Canceled(n)' =>
              ppn[Chan(n)] = n /\ ~IsIn(rs, Chan(n))
        /\ \A m \in Notifies : m # n => (Canceled(m)' <=> Canceled(m))
    BY <1>0, <1>1, <1>2, <1>3, <1>5, <2>2
  <2>4. /\ rs \in Seq(Records) /\ new \in States /\ more \in Seq(Notifies)
        /\ s \in [Notifies -> States] /\ \A m \in Notifies : s[m] = IF m = n THEN new ELSE state[m]
    BY <1>5
  <2>5. GivesBack(n, new, w, rs)
    BY <2>0, <2>1, <2>2, <2>3 DEF GivesBack
  <2>. QED  BY ONLY n \in Notifies, <2>3, <2>4, <2>5, RestartLists
<1>8. /\ \A m : InCallback(m)' = InCallback(m)
      /\ th'[t] = e /\ \A u \in Threads : u # t => th'[u] = th[u]
      /\ \A q \in {"calling", "returning", "callback", "waitUser", "waitCancel"} :
            \A u \in Threads : (th'[u].pc = q <=> th[u].pc = q) /\ (th[u].pc = q => th'[u] = th[u])
  <2>1. th'[t] = e /\ \A u \in Threads : u # t => th'[u] = th[u]
    BY <1>0, OtherPlace
  <2>2. \A q \in {"calling", "returning", "callback", "waitUser", "waitCancel"} :
            \A u \in Threads : (th'[u].pc = q <=> th[u].pc = q) /\ (th[u].pc = q => th'[u] = th[u])
    BY <1>0, <2>1 DEF Processing
  <2>3. \A w1 \in Workers : w1 \in Threads
    BY <1>0, Typed
  <2>. QED  BY <2>1, <2>2, <2>3 DEF InCallback
<1>9. /\ \A m \in Notifies : m # n =>
            /\ Called(m)' = IF state'[m] \in Requested /\ m \notin refused' /\ ~Canceled(m)'
                            THEN 1 ELSE 0
            /\ m \in refused' => state'[m] \in Requested /\ ~Canceled(m)'
      /\ n \in refused' => n \in refused \/ Times(more, n) > 0
      /\ n \notin refused => Times(callbacks', n) =
            Times(callbacks, n) + IF n \in refused' THEN 0 ELSE Times(more, n)
      /\ \A m \in Notifies : /\ Heir(m, rs) => m # n /\ state[m] = "notifyWaitForRestart"
                             /\ state'[m] = IF Heir(m, rs) THEN "notifyRestartCallbackRequested"
                                            ELSE IF m = n THEN new ELSE state[m]
      /\ callbacks' \in Seq(Notifies) /\ refused' \subseteq Notifies
      /\ state' \in [Notifies -> States]
      /\ ppn' \in [Records -> Notifies \cup {None}]
      /\ restartList' \in [Records -> Seq(Notifies)]
      /\ \A q \in Records : ppn'[q] = IF IsIn(rs, q) THEN Owner(q) ELSE ppn[q]
  <2>1. \A m \in Notifies : m # n => /\ Times(more, m) = 0
                                     /\ InCallback(m)' = InCallback(m)
                                     /\ Canceled(m)' <=> Canceled(m)
    BY <1>1, <1>6, <1>8
  <2>2. /\ \A q \in Records : Times(rs, q) <= 1
        /\ state[n] # "notifyWaitForRestart"
        /\ restartCheck(rs, s, more)
    BY <1>5, <1>6 DEF InProgress
  <2>3. TypeOK /\ Lists /\ Life /\ PvtsReturned /\ OneCallback
    BY <1>0
  <2>. QED  BY <1>5, <2>1, <2>2, <2>3, RestartCalls
<1>10. Completes(n, r)
  <2>1. \A m \in Notifies : m # n =>
          \/ state'[m] = state[m]
          \/ /\ state[m] = "notifyWaitForRestart"
             /\ state'[m] = "notifyRestartCallbackRequested"
    BY <1>9
  <2>2. state'[n] = new
    BY <1>9
  <2>3. /\ \A q \in Records : q # r => ppn'[q] = ppn[q]
        /\ rs = <<r>> => ppn'[r] = Owner(r)
        /\ rs # <<r>> => ppn'[r] = ppn[r]
    BY <1>6, <1>9
  <2>4. <<>> # <<r>>
    OBVIOUS
  <2>. QED  BY <1>4, <1>5, <2>1, <2>2, <2>3, <2>4 DEF Completes
<1>11. TypeOK'
  <2>1. th' \in [Threads -> Place]
    BY <1>0, TypesThen
  <2>. QED  BY <1>0, <1>1, <1>7, <1>9, <2>1, TypesThen, TypesKept
<1>12. n \notin refused /\ ~Canceled(n) /\ Called(n) = 0 /\ pvt[n] # 0 /\ ~served[n]
       /\ th[n].pc \notin {"waitCancel", "waitUser"}
  <2>1. state[n] \notin CancelWaitsIn /\ state[n] \notin Requested /\ state[n] # "notifyNotActive"
        /\ state[n] # "notifyUserCallbackActive"
    BY DEF InProgress, CancelWaitsIn, Requested
  <2>2. LifeOf(n) /\ ~Canceled(n)
    BY <1>0, <2>1, Unshared DEF Life
  <2>3. Called(n) = 0
    BY <1>0, <2>1 DEF OneCallback
  <2>4. served[n] \in BOOLEAN
    BY <1>0, Typed
  <2>. QED  BY <2>1, <2>2, <2>3, <2>4 DEF LifeOf
<1>13. /\ state'[n] = new /\ new # "notifyNotActive" /\ new # "notifyUserCallbackActive"
       /\ n \in refused' => new \in Requested
       /\ Called(n)' = IF new \in Requested /\ n \notin refused' THEN 1 ELSE 0
  <2>1. Called(n)' = Times(callbacks', n) + Cardinality(InCallback(n))
        /\ Called(n) = Times(callbacks, n) + Cardinality(InCallback(n))
    <3>1. Called(n)' = Times(callbacks', n) + Cardinality(InCallback(n)')
          /\ Called(n) = Times(callbacks, n) + Cardinality(InCallback(n))
      BY DEF Called, InCallback
    <3>. QED  BY <1>8, <3>1
  <2>2. Times(callbacks, n) \in Nat /\ Cardinality(InCallback(n)) \in Nat
    <3>1. IsFiniteSet(InCallback(n))
      BY NotifyAssumption, FS_Subset DEF InCallback
    <3>2. callbacks \in Seq(Notifies)
      BY <1>0, TypesThen
    <3>. QED  BY <3>1, <3>2, TimesIn, FS_CardinalityType
  <2>3. Times(callbacks, n) = 0 /\ Cardinality(InCallback(n)) = 0
    BY <1>12, <2>1, <2>2
  <2>4. Called(n)' = IF n \in refused' THEN 0 ELSE Times(more, n)
    <3>1. Times(more, n) \in {0, 1}
      BY <1>6
    <3>2. Times(callbacks', n) = Times(callbacks, n) + IF n \in refused' THEN 0 ELSE Times(more, n)
      BY <1>9, <1>12
    <3>. QED  BY <2>1, <2>3, <3>1, <3>2
  <2>5. <<>> # <<n>>
    OBVIOUS
  <2>6. (new \in Requested) <=> more = <<n>>
    BY <1>5, <2>5 DEF Requested
  <2>7. n \in refused' => more = <<n>>
    BY <1>6, <1>9, <1>12
  <2>8. state'[n] = new
    BY <1>9
  <2>. QED  BY <1>5, <1>6, <2>4, <2>6, <2>7, <2>8
<1>14. OneCallback'
  <2>1. ~Canceled(n)'
    BY <1>1, <1>12
  <2>. QED  BY <1>9, <1>13, <2>1 DEF OneCallback
<1>15. Life'
  <2>1. ASSUME NEW m \in Notifies, m # n PROVE LifeOf(m)'
    <3>1. m \in Threads
      BY <1>0, Typed
    <3>2. /\ pvt'[m] = pvt[m] /\ served'[m] = served[m] /\ cancelWait'[m] = cancelWait[m]
          /\ userCallbackWait'[m] = userCallbackWait[m]
          /\ cancelEvent'[pvt[m]] = cancelEvent[pvt[m]]
          /\ userCallbackEvent'[pvt[m]] = userCallbackEvent[pvt[m]]
          /\ m \in refused' => state'[m] \in Requested /\ ~Canceled(m)'
      BY <1>1, <1>9, <2>1
    <3>3. /\ th[m].pc \in {"waitCancel", "waitUser"} => th'[m].pc = th[m].pc
          /\ th'[m].pc \in {"waitCancel", "waitUser"} => th'[m].pc = th[m].pc
      BY <1>8, <3>1
    <3>4. \/ state'[m] = state[m]
          \/ state[m] = "notifyWaitForRestart" /\ state'[m] = "notifyRestartCallbackRequested"
      BY <1>10, <2>1 DEF Completes
    <3>. QED  BY <1>0, <3>2, <3>3, <3>4, OthersLife
  <2>2. LifeOf(n)'
    <3>1. LifeOf(n) /\ n \in Threads
      BY <1>0, Typed DEF Life
    <3>2. th'[n].pc \notin {"waitCancel", "waitUser"}
      BY <1>8, <1>12, <3>1
    <3>3. ~Canceled(n)'
      BY <1>1, <1>12
    <3>. QED  BY <1>1, <1>12, <1>13, <3>1, <3>2, <3>3 DEF LifeOf
  <2>. QED  BY <2>1, <2>2 DEF Life
<1>16. Places'
  <2>1. \A m \in Notifies : state[m] = "notifyUserCallbackActive" => state'[m] = state[m]
    BY <1>10 DEF Completes
  <2>2. /\ \A u \in Threads : th[u].pc \in {"calling", "returning"} => th'[u] = th[u]
        /\ \A u \in Threads : th'[u].pc \in {"calling", "returning"} <=> th[u].pc \in {"calling", "returning"}
        /\ \A u \in Threads : th'[u].pc \in {"waitUser", "waitCancel"} <=> th[u].pc \in {"waitUser", "waitCancel"}
        /\ \A u \in Threads : th'[u].pc = "callback" <=> th[u].pc = "callback"
        /\ \A u \in Threads : th[u].pc = "callback" => th'[u] = th[u]
    BY <1>8
  <2>. QED  BY <1>0, <1>1, <2>1, <2>2 DEF Places, CallsFor
<1>17. PvtsReturned'
  BY <1>0, <1>1, WorkKeeps
<1>. QED  BY <1>7, <1>10, <1>11, <1>14, <1>15, <1>16, <1>17

\* dbNotifyCompletion: the record is not waited for any more, and who was first to wait for it is to
\* be restarted.
LEMMA CompletionStep ==
    ASSUME NotifyInv, Asserts, NEW t \in Threads, dbNotifyCompletion(t)
    PROVE  NotifyInv'
<1> DEFINE r == th[t].at
           n == th[t].ppn
           e == IF th[t].pc = "disabled" THEN Back(t) ELSE [th[t] EXCEPT !.pc = "end"]
<1>0. /\ th[t].pc \in {"notify", "disabled"} /\ Working(t)
      /\ \/ state[n] \notin InProgress /\ UNCHANGED <<listVars, cbVars>>
         \/ /\ state[n] \in InProgress
            /\ waitList' = [waitList EXCEPT ![n] = Those(@, Records \ {r})]
            /\ \/ ~LastOf(n, r) /\ restartCheck(<<r>>, state, <<>>)
               \/ /\ LastOf(n, r) /\ state[n] = "notifyProcessInProgress"
                  /\ restartCheck(<<r>>, [state EXCEPT ![n] = "notifyUserCallbackRequested"], <<n>>)
               \/ /\ LastOf(n, r) /\ state[n] = "notifyRestartInProgress"
                  /\ restartCheck(<<>>, [state EXCEPT ![n] = "notifyRestartCallbackRequested"], <<n>>)
      /\ UNCHANGED <<inst, cut, recVars, pvtVars, workVars, requests, history>>
  BY DEF dbNotifyCompletion, Working, Processing
<1>f. WorkFacts(t) /\ Working(t)
  BY <1>0, AtWork
<1>1. /\ TypeOK /\ Places /\ Locks /\ Life /\ Lists /\ PvtsReturned /\ OneCallback /\ Putf /\ Chain
      /\ OwnersAgree
  BY DEF NotifyInv, Lists
<1>2. /\ UNCHANGED <<inst, cut, pact, putf, rpro, pending, pvt, onceQ, scans, requests, served,
                     cause, owed>>
      /\ \A m : Chan(m)' = Chan(m)
  BY <1>0 DEF recVars, pvtVars, workVars, history, Chan
<1>3. /\ r \in Records /\ r \in Int /\ n \in Notifies
      /\ state[n] \in InProgress => IsIn(waitList[n], r)
  <2>1. n # None
    BY <1>0, <1>1 DEF Locks
  <2>2. state[n] \in InProgress => IsIn(waitList[n], r)
    BY <1>0 DEF Asserts
  <2>. QED  BY <1>f, <2>1, <2>2 DEF WorkFacts
<1>4. /\ e \in Place /\ e.pc \in Processing \cup {"idle"} /\ e.pc \in {"end", "test", "idle"}
      /\ th[t].pc = "notify" => e.pc = "end"
      /\ th[t].pc = "disabled" => /\ e.pc = "test" <=> r # th[t].from
                                  /\ e.pc = "idle" <=> r = th[t].from
      /\ e.pc # "idle" => e.from = th[t].from /\ e.cause = th[t].cause
      /\ e.pc = "end" => e.at = r
      /\ e.pc = "test" => e.at = r - 1 /\ e.from <= e.at
                          /\ \A c \in cut : ~(e.from <= c /\ c < e.at)
  <2>1. th[t].pc = "disabled" => e = Back(t)
    OBVIOUS
  <2>2. th[t].pc = "notify" => e = [th[t] EXCEPT !.pc = "end"]
    OBVIOUS
  <2>3. CASE th[t].pc = "disabled"
    BY <1>f, <2>1, <2>3 DEF WorkFacts
  <2>4. CASE th[t].pc = "notify"
    BY <1>f, <2>2, <2>4 DEF WorkFacts, Place, Processing
  <2>. QED  BY <1>0, <2>3, <2>4
<1>5. th' = [th EXCEPT ![t] = e]
  BY <1>0, <1>1, TypesThen DEF dbNotifyCompletion
<1>. HIDE DEF e
<1>6. th'[t] = e /\ \A u \in Threads : u # t => th'[u] = th[u]
  BY <1>1, <1>5, OtherPlace
<1>7. e.pc \in Processing =>
         /\ e.from <= e.at /\ e.from = th[t].from
         /\ \A c \in cut : ~(e.from <= c /\ c < e.at)
         /\ e.pc = "add" => e.at \notin cut /\ e.at + 1 \in Records
         /\ e.pc \in {"notify", "disabled", "add"} => e.ppn # None
  BY <1>4, <1>f DEF Processing, WorkFacts
<1>8. \A s \in Records : putf'[s] \/ rpro'[s] =>
         pact'[s] \/ \E u \in Threads : u # t /\ th[u].pc = "process" /\ th[u].at = s
  BY <1>0, <1>2, <1>f DEF WorkFacts
<1>9. cut = {} /\ ChainOf(th[t]) =>
         /\ ppn[r] = n /\ (th[t].pc = "disabled" => ~pact[r])
         /\ \A q \in Records \ inst.async : (ppn[q] # None \/ pact[q]) =>
               th[t].from <= q /\ q <= r
         /\ \A q \in Records : cause[q] # None =>
               /\ pact[q] /\ q >= Chan(cause[q]) /\ ppn[q] = cause[q]
               /\ state[cause[q]] = "notifyProcessInProgress"
  BY <1>0 DEF ChainOf, AtOwner, AtSync, AtBy, AtCauses
<1>10. cut = {} /\ ChainOf(th[t]) /\ th[t].cause # None =>
          /\ th[t].from >= Chan(th[t].cause) /\ state[th[t].cause] = "notifyProcessInProgress"
          /\ \A q \in Records : th[t].from <= q /\ q <= r - 1 => ppn[q] = th[t].cause
          /\ th[t].pc = "notify" => th[t].cause = n
  <2>1. ASSUME ChainOf(th[t]), th[t].cause # None, cut = {}
        PROVE  /\ th[t].from >= Chan(th[t].cause) /\ state[th[t].cause] = "notifyProcessInProgress"
               /\ \A q \in Records : th[t].from <= q /\ q <= r - 1 => ppn[q] = th[t].cause
    <3>1. r - 1 <= AtPast(th[t])
      BY <1>3 DEF AtPast
    <3>2. AtPast(th[t]) \in {r - 1, r}
      BY <1>3 DEF AtPast
    <3>3. \A q \in Records : q \in Int
      BY <1>f DEF WorkFacts
    <3>. QED  BY <1>0, <1>3, <2>1, <3>1, <3>2, <3>3, <1>f DEF ChainOf, AtPath, WorkFacts, Processing
  <2>2. ASSUME ChainOf(th[t]), th[t].cause # None, th[t].pc = "notify", cut = {}
        PROVE  th[t].cause = n
    BY <1>f, <1>9, <2>2, OwnedPast
  <2>. QED  BY <2>1, <2>2
<1>11. CASE state[n] \notin InProgress /\ UNCHANGED <<listVars, cbVars>>
  <2>1. UNCHANGED <<inst, cut, pvtVars, listVars, cbVars, requests, scans, served>>
    BY <1>0, <1>2, <1>11
  <2>2. ppn' = ppn /\ state' = state
    BY <1>11 DEF listVars
  <2>3. ASSUME cut = {}, AsyncOnly, ChainOf(th[t]) PROVE ChainOf(th[t])'
    <3>1. r \in inst.async
      <4>1. state[n] = "notifyRestartCallbackRequested" /\ r = Chan(n)
        BY <1>1, <1>3, <1>9, <1>11, <2>3 DEF OwnersAgree
      <4>. QED  BY <1>3, <2>3, <4>1 DEF AsyncOnly
    <3>2. AtOwner(th[t])'
      BY <1>4, <1>6 DEF AtOwner
    <3>3. AtSync(th[t])'
      <4>1. \A q \in Records \ inst.async : (ppn[q] # None \/ pact[q]) =>
               e.pc \in Processing /\ e.from <= q /\ q <= e.at /\ q # r
        <5>1. \A q \in Records \ inst.async : (ppn[q] # None \/ pact[q]) =>
                 th[t].from <= q /\ q <= r /\ q # r /\ q <= r - 1 /\ th[t].from # r
          <6>1. \A q \in Records : q \in Int /\ th[t].from \in Int
            BY <1>f DEF WorkFacts
          <6>. QED  BY <1>3, <1>9, <2>3, <3>1, <6>1
        <5>. QED  BY <1>0, <1>4, <5>1 DEF Processing
      <4>. QED  BY <1>2, <1>4, <1>6, <2>2, <4>1 DEF AtSync, AtBy
    <3>4. AtCauses(th[t])'
      BY <1>2, <1>9, <2>2, <2>3 DEF AtCauses
    <3>5. AtPath(th[t])'
      <4>0. SUFFICES ASSUME e.pc # "idle", th[t].cause # None PROVE AtPath(th[t])'
        BY <1>4, <1>6 DEF AtPath, Processing
      <4>1. th[t].pc # "notify"
        BY <1>10, <1>11, <2>3, <4>0 DEF InProgress
      <4>2. e.pc = "test" /\ e.at = r - 1
        BY <1>0, <1>4, <4>0, <4>1
      <4>. QED  BY <1>2, <1>4, <1>6, <1>10, <2>2, <2>3, <4>0, <4>2 DEF AtPath, AtPast
    <3>. QED  BY <3>2, <3>3, <3>4, <3>5 DEF ChainOf
  <2>4. /\ pact' \in [Records -> BOOLEAN] /\ putf' \in [Records -> BOOLEAN]
        /\ rpro' \in [Records -> BOOLEAN] /\ onceQ' \in Seq(Records) /\ pending' \subseteq inst.async
        /\ cause' \in [Records -> Notifies \cup {None}] /\ owed' \subseteq Records
        /\ scans' \in 0 .. inst.scans
    BY <1>1, <1>2, TypesThen
  <2>5. Putf'
    BY <1>6, <1>8 DEF Putf
  <2>6. th[t].pc \in Processing \cup {"idle"}
    BY <1>0 DEF Processing
  <2>7. cut = {} /\ AsyncOnly /\ ChainOf(th[t]) => ChainOf(th[t])'
    BY <2>3
  <2>. QED  BY <1>f, <1>4, <1>5, <1>7, <2>1, <2>4, <2>5, <2>6, <2>7, WorkStep
<1>12. CASE /\ state[n] \in InProgress
            /\ waitList' = [waitList EXCEPT ![n] = Those(@, Records \ {r})]
            /\ \/ ~LastOf(n, r) /\ restartCheck(<<r>>, state, <<>>)
               \/ /\ LastOf(n, r) /\ state[n] = "notifyProcessInProgress"
                  /\ restartCheck(<<r>>, [state EXCEPT ![n] = "notifyUserCallbackRequested"], <<n>>)
               \/ /\ LastOf(n, r) /\ state[n] = "notifyRestartInProgress"
                  /\ restartCheck(<<>>, [state EXCEPT ![n] = "notifyRestartCallbackRequested"], <<n>>)
  <2>1. /\ TypeOK' /\ Places' /\ Life' /\ Lists' /\ PvtsReturned' /\ OneCallback'
        /\ Completes(n, r)
    <3>1. UNCHANGED <<inst, cut, recVars, pvtVars, workVars, requests, history>>
      BY <1>0
    <3>. HIDE DEF n, r
    <3>. QED  BY <1>f, <1>3, <1>4, <1>5, <1>12, <3>1, CompletionOf
  <2>2. Locks'
    <3>1. UNCHANGED cut
      BY <1>2
    <3>. QED  BY <1>1, <1>f, <1>4, <1>5, <1>7, <3>1, LocksGo
  <2>3. Putf'
    BY <1>6, <1>8 DEF Putf
  <2>4. ASSUME cut' = {}
        PROVE  (\A u \in Threads : Working(u)' => u = t) /\ AsyncOnly' /\ ChainOf(th[t])'
    <3>0. cut = {}
      BY <1>2, <2>4
    <3>1. \A u \in Threads : Working(u) => u = t
      BY <1>1, <1>f, <3>0, Alone
    <3>2. \A u \in Threads : Working(u)' => u = t
      BY <1>6, <3>1 DEF Working
    <3>3. AsyncOnly /\ ChainOf(th[t])
      BY <1>1, <3>0, <3>1, ChainThen
    <3>4. AsyncOnly'
      <4>1. \A m \in Notifies :
               state'[m] \in {"notifyWaitForRestart", "notifyRestartInProgress",
                              "notifyRestartCallbackRequested"} =>
               state[m] \in {"notifyWaitForRestart", "notifyRestartInProgress",
                             "notifyRestartCallbackRequested"}
        BY <2>1 DEF Completes
      <4>. QED  BY <1>2, <3>3, <4>1 DEF AsyncOnly
    <3>5. AtOwner(th[t])'
      BY <1>4, <1>6 DEF AtOwner
    <3>6. AtSync(th[t])'
      <4>1. r \notin inst.async => ppn'[r] = None
        <5>1. r \notin inst.async => \A m \in Notifies : ~IsIn(restartList[r], m)
          <6>1. \A m \in Notifies : IsIn(restartList[r], m)
                                        = (state[m] = "notifyWaitForRestart" /\ r = Chan(m))
            BY <1>1, <1>3 DEF OwnersAgree
          <6>. QED  BY <3>3, <6>1 DEF AsyncOnly
        <5>2. restartList[r] # <<>> => IsIn(restartList[r], Head(restartList[r]))
                                       /\ Head(restartList[r]) \in Notifies
          <6>1. restartList[r] \in Seq(Notifies)
            BY <1>1, <1>3, Typed
          <6>2. ASSUME NEW q \in Seq(Notifies), q # <<>> PROVE IsIn(q, Head(q)) /\ Head(q) \in Notifies
            <7>1. 1 \in DOMAIN q /\ q[1] = Head(q) /\ Head(q) \in Notifies
              BY <6>2
            <7>. QED  BY <7>1 DEF IsIn
          <6>. QED  BY <6>1, <6>2
        <5>3. r \notin inst.async => Owner(r) = None
          BY <5>1, <5>2 DEF Owner
        <5>4. state[n] = "notifyRestartInProgress" /\ r = Chan(n) => r \in inst.async
          BY <1>3, <3>3 DEF AsyncOnly
        <5>. QED  BY <2>1, <5>3, <5>4 DEF Completes
      <4>2. \A q \in Records : q \in Int /\ th[t].from \in Int
        BY <1>f DEF WorkFacts
      <4>3. ASSUME NEW q \in Records \ inst.async, ppn'[q] # None
            PROVE  e.pc \in Processing /\ e.from <= q /\ q <= e.at /\ (q = e.at => e.pc # "end")
        <5>1. q # r
          BY <4>1, <4>3
        <5>2. ppn[q] # None
          BY <2>1, <4>3, <5>1 DEF Completes
        <5>3. th[t].from <= q /\ q <= r /\ q <= r - 1 /\ th[t].from # r
          BY <1>3, <1>9, <3>0, <3>3, <4>2, <5>1, <5>2
        <5>. QED  BY <1>0, <1>4, <5>1, <5>3 DEF Processing
      <4>4. ASSUME NEW q \in Records \ inst.async, pact[q]
            PROVE  /\ e.pc \in Processing /\ e.from <= q /\ q <= e.at
                   /\ e.pc \notin {"process", "disabled"}
        <5>1. th[t].from <= q /\ q <= r
          BY <1>9, <3>0, <3>3, <4>4
        <5>2. CASE th[t].pc = "notify"
          BY <1>4, <5>1, <5>2 DEF Processing
        <5>3. CASE th[t].pc = "disabled"
          <6>1. q # r
            BY <1>9, <3>0, <3>3, <4>4, <5>3
          <6>2. q <= r - 1 /\ th[t].from # r
            BY <1>3, <4>2, <5>1, <6>1
          <6>. QED  BY <1>4, <5>1, <5>3, <6>2 DEF Processing
        <5>. QED  BY <1>0, <5>2, <5>3
      <4>. QED  BY <1>2, <1>6, <4>3, <4>4 DEF AtSync, AtBy
    <3>7. AtCauses(th[t])'
      <4>1. ASSUME NEW q \in Records, cause[q] # None
            PROVE  /\ state'[cause[q]] # "notifyUserCallbackActive" /\ pact[q] /\ q >= Chan(cause[q])
                   /\ \/ ppn'[q] = cause[q] /\ state'[cause[q]] = "notifyProcessInProgress"
                      \/ e.pc = "end" /\ e.at = q
        <5>1. /\ pact[q] /\ q >= Chan(cause[q]) /\ ppn[q] = cause[q]
              /\ state[cause[q]] = "notifyProcessInProgress"
          BY <1>9, <3>0, <3>3, <4>1
        <5>2. cause[q] \in Notifies
          BY <1>1, <4>1, Typed
        <5>3. state'[cause[q]] # "notifyUserCallbackActive"
          BY <2>1, <5>1, <5>2 DEF Completes
        <5>4. CASE q = r
          BY <1>0, <1>4, <1>9, <3>0, <3>3, <5>1, <5>3, <5>4
        <5>5. CASE q # r
          <6>1. ppn'[q] = cause[q]
            BY <2>1, <5>1, <5>5 DEF Completes
          <6>2. state'[cause[q]] = "notifyProcessInProgress"
            BY <2>1, <5>1, <5>2, <5>5 DEF Completes
          <6>. QED  BY <5>1, <5>3, <6>1, <6>2
        <5>. QED  BY <5>4, <5>5
      <4>. QED  BY <1>2, <1>6, <4>1 DEF AtCauses
    <3>8. AtPath(th[t])'
      <4>0. SUFFICES ASSUME e.pc # "idle", th[t].cause # None PROVE AtPath(th[t])'
        BY <1>4, <1>6 DEF AtPath, Processing
      <4>c. PICK c : c = th[t].cause
        OBVIOUS
      <4>1. /\ th[t].from >= Chan(c) /\ state[c] = "notifyProcessInProgress"
            /\ \A q \in Records : th[t].from <= q /\ q <= r - 1 => ppn[q] = c
            /\ th[t].pc = "notify" => c = n
        BY <1>10, <3>0, <3>3, <4>0, <4>c
      <4>2. c \in Notifies /\ th[t].from \in Records /\ th[t].from \in Int /\ th[t].from <= r
            /\ \A q \in Records : q \in Int
        BY <1>f, <4>0, <4>c DEF WorkFacts
      <4>3. state'[c] # "notifyUserCallbackActive"
        BY <2>1, <4>1, <4>2 DEF Completes
      <4>4. ASSUME th[t].from # r PROVE state'[c] = "notifyProcessInProgress"
        <5>1. ppn[th[t].from] = c
          BY <1>3, <4>1, <4>2, <4>4
        <5>. QED  BY <2>1, <4>1, <4>2, <4>4, <5>1 DEF Completes
      <4>5. \A q \in Records : th[t].from <= q /\ q <= r - 1 => ppn'[q] = c
        <5>1. \A q \in Records : q <= r - 1 => q # r
          BY <1>3, <4>2
        <5>. QED  BY <2>1, <4>1, <5>1 DEF Completes
      <4>6. e.cause = c /\ e.from = th[t].from /\ Chan(c)' = Chan(c)
        BY <1>2, <1>4, <4>0, <4>c
      <4>7. CASE e.pc = "end"
        BY <1>4, <1>6, <4>1, <4>3, <4>4, <4>5, <4>6, <4>7 DEF AtPath, AtPast
      <4>8. CASE e.pc = "test"
        <5>1. th[t].from # r
          BY <1>0, <1>4, <4>8
        <5>. QED  BY <1>4, <1>6, <4>1, <4>3, <4>4, <4>5, <4>6, <4>8, <5>1 DEF AtPath, AtPast
      <4>. QED  BY <1>4, <4>0, <4>7, <4>8
    <3>. QED  BY <3>2, <3>4, <3>5, <3>6, <3>7, <3>8 DEF ChainOf
  <2>5. Chain'
    BY <2>4, ChainNext
  <2>. QED  BY <2>1, <2>2, <2>3, <2>5 DEF NotifyInv
<1>. QED  BY <1>0, <1>11, <1>12

-----------------------------------------------------------------------------
(* A request comes to own its record, to wait for it, or is taken back.    *)

\* What a client's step says of the state of its request alone.
OneState(n, new) ==
    /\ \A m \in Notifies : state'[m] = IF m = n THEN new ELSE state[m]
    /\ \A m \in Notifies : m # n => (Canceled(m)' <=> Canceled(m))

\* Its record is free, or kept for it.
LEMMA OwnLists ==
    ASSUME TypeOK, Lists, UNCHANGED inst, NEW n \in Notifies, NEW new \in InProgress,
           OneState(n, new), ~Canceled(n)', state[n] \notin InProgress \cup {"notifyWaitForRestart"},
           ppn[Chan(n)] \in {None, n}, \A q \in Records : ppn[q] = n => q = Chan(n),
           ppn' = [ppn EXCEPT ![Chan(n)] = n],
           waitList' = [waitList EXCEPT ![n] = Append(@, Chan(n))], UNCHANGED restartList
    PROVE  /\ Lists' /\ waitList' \in [Notifies -> Seq(Records)]
           /\ ppn' \in [Records -> Notifies \cup {None}]
<1>c. PICK r \in Records : r = Chan(n)
  BY Typed
<1>0. /\ OwnersAgree /\ ppn \in [Records -> Notifies \cup {None}] /\ \A m \in Notifies : m # None
      /\ waitList \in [Notifies -> Seq(Records)] /\ \A m \in Notifies : Chan(m) \in Records
      /\ \A m : Chan(m)' = Chan(m)
  BY Typed, TypesThen DEF Lists, Chan
<1>1. /\ \A m \in Notifies : state'[m] = IF m = n THEN new ELSE state[m]
      /\ \A m \in Notifies : m # n => (Canceled(m)' <=> Canceled(m))
      /\ new \notin {"notifyWaitForRestart", "notifyRestartCallbackRequested"}
  BY DEF OneState, InProgress
<1>2. waitList[n] = <<>>
  <2>1. (waitList[n] # <<>>) = (state[n] \in InProgress)
    BY <1>0 DEF OwnersAgree
  <2>. QED  BY <2>1
<1>3. /\ \A q \in Records : ppn'[q] = IF q = r THEN n ELSE ppn[q]
      /\ ppn' \in [Records -> Notifies \cup {None}]
      /\ \A m \in Notifies : waitList'[m] = IF m = n THEN <<r>> ELSE waitList[m]
      /\ waitList' \in [Notifies -> Seq(Records)]
  <2>1. Append(waitList[n], r) = <<r>> /\ <<r>> \in Seq(Records)
    BY <1>2
  <2>. QED  BY <1>0, <1>c, <2>1
<1>4. \A q \in Records : /\ IsIn(<<r>>, q) <=> q = r
                         /\ Times(<<r>>, q) <= 1 /\ <<r>> # <<>>
  <2>1. \A q \in Records : /\ Times(<<r>>, q) = IF r = q THEN 1 ELSE 0
                           /\ IsIn(<<r>>, q) <=> r = q
    BY TimesOne
  <2>. QED  BY <2>1
<1>5. ASSUME NEW q \in Records, NEW m \in Notifies
      PROVE  /\ IsIn(waitList'[m], q) => ppn'[q] = m
             /\ ppn'[q] = m => IF state'[m] \in InProgress THEN IsIn(waitList'[m], q)
                               ELSE state'[m] = "notifyRestartCallbackRequested" /\ q = Chan(m)
             /\ IsIn(restartList[q], m) = (state'[m] = "notifyWaitForRestart" /\ q = Chan(m))
  <2>1. /\ IsIn(waitList[m], q) => ppn[q] = m
        /\ ppn[q] = m => IF state[m] \in InProgress THEN IsIn(waitList[m], q)
                         ELSE state[m] = "notifyRestartCallbackRequested" /\ q = Chan(m)
        /\ IsIn(restartList[q], m) = (state[m] = "notifyWaitForRestart" /\ q = Chan(m))
    BY <1>0 DEF OwnersAgree
  <2>2. CASE m = n
    BY <1>c, <1>1, <1>3, <1>4, <2>1, <2>2
  <2>3. CASE m # n
    <3>1. q = r => ppn[q] # m
      BY <1>0, <1>c, <2>3
    <3>. QED  BY <1>1, <1>3, <2>1, <2>3, <3>1
  <2>. QED  BY <2>2, <2>3
<1>6. ASSUME NEW q \in Records
      PROVE  /\ restartList[q] # <<>> => ppn'[q] # None /\ ~IsIn(restartList[q], ppn'[q])
             /\ \A i, j \in DOMAIN restartList[q] : restartList[q][i] = restartList[q][j] => i = j
  <2>1. /\ restartList[q] # <<>> => ppn[q] # None /\ ~IsIn(restartList[q], ppn[q])
        /\ \A i, j \in DOMAIN restartList[q] : restartList[q][i] = restartList[q][j] => i = j
    BY <1>0 DEF OwnersAgree
  <2>2. ~IsIn(restartList[q], n)
    BY <1>1, <1>5
  <2>. QED  BY <1>0, <1>3, <2>1, <2>2
<1>7. ASSUME NEW m \in Notifies
      PROVE  /\ state'[m] = "notifyRestartCallbackRequested" /\ ~Canceled(m)' => ppn'[Chan(m)] = m
             /\ (waitList'[m] # <<>>) = (state'[m] \in InProgress)
             /\ \A q \in Records : Canceled(m)' => ppn'[q] # m
             /\ state'[m] = "notifyRestartInProgress" => waitList'[m] = <<Chan(m)>>
             /\ \A q \in Records : Times(waitList'[m], q) <= 1
  <2>1. CASE m = n
    BY <1>c, <1>1, <1>3, <1>4, <2>1
  <2>2. CASE m # n
    <3>1. /\ state[m] = "notifyRestartCallbackRequested" /\ ~Canceled(m) => ppn[Chan(m)] = m
          /\ (waitList[m] # <<>>) = (state[m] \in InProgress)
          /\ \A q \in Records : Canceled(m) => ppn[q] # m
          /\ state[m] = "notifyRestartInProgress" => waitList[m] = <<Chan(m)>>
          /\ \A q \in Records : Times(waitList[m], q) <= 1
      BY <1>0 DEF OwnersAgree, Lists
    <3>2. ppn[r] # m
      BY <1>0, <1>c, <2>2
    <3>3. \A q \in Records : ppn'[q] = m <=> ppn[q] = m
      BY <1>3, <2>2, <3>2
    <3>. QED  BY <1>0, <1>1, <1>3, <2>2, <3>1, <3>3
  <2>. QED  BY <2>1, <2>2
<1>. QED  BY <1>0, <1>3, <1>5, <1>6, <1>7 DEF Lists, OwnersAgree

\* Its record has another owner: it waits, at the end of the list.
LEMMA WaitLists ==
    ASSUME TypeOK, Lists, UNCHANGED inst, NEW n \in Notifies,
           OneState(n, "notifyWaitForRestart"), ~Canceled(n)',
           state[n] \notin InProgress \cup {"notifyWaitForRestart"},
           ppn[Chan(n)] # None, \A q \in Records : ppn[q] # n,
           restartList' = [restartList EXCEPT ![Chan(n)] = Append(@, n)], UNCHANGED <<ppn, waitList>>
    PROVE  Lists' /\ restartList' \in [Records -> Seq(Notifies)]
<1>c. PICK r \in Records : r = Chan(n)
  BY Typed
<1>0. /\ OwnersAgree /\ \A q \in Records : restartList[q] \in Seq(Notifies)
      /\ restartList \in [Records -> Seq(Notifies)]
      /\ \A m \in Notifies : Chan(m) \in Records
      /\ \A m : Chan(m)' = Chan(m)
  BY Typed, TypesThen DEF Lists, Chan
<1>1. /\ \A m \in Notifies : state'[m] = IF m = n THEN "notifyWaitForRestart" ELSE state[m]
      /\ \A m \in Notifies : m # n => (Canceled(m)' <=> Canceled(m))
  BY DEF OneState
<1>2. /\ restartList'[r] = Append(restartList[r], n)
      /\ \A q \in Records : q # r => restartList'[q] = restartList[q]
      /\ restartList' \in [Records -> Seq(Notifies)]
  <2>1. Append(restartList[r], n) \in Seq(Notifies)
    BY <1>0
  <2>. QED  BY <1>0, <1>c, <2>1
<1>3. ~IsIn(restartList[r], n)
  <2>1. IsIn(restartList[r], n) = (state[n] = "notifyWaitForRestart" /\ r = Chan(n))
    BY <1>0 DEF OwnersAgree
  <2>. QED  BY <2>1
<1>4. /\ \A x : IsIn(restartList'[r], x) <=> IsIn(restartList[r], x) \/ x = n
      /\ \A i, j \in DOMAIN restartList'[r] : restartList'[r][i] = restartList'[r][j] => i = j
  <2> DEFINE q == restartList[r]
  <2>1. /\ q \in Seq(Notifies) /\ ~IsIn(q, n) /\ \A i, j \in DOMAIN q : q[i] = q[j] => i = j
    BY <1>0, <1>3 DEF OwnersAgree
  <2>. HIDE DEF q
  <2>2. /\ Len(q) \in Nat /\ DOMAIN q = 1 .. Len(q) /\ DOMAIN Append(q, n) = 1 .. Len(q) + 1
        /\ Append(q, n)[Len(q) + 1] = n /\ \A i \in 1 .. Len(q) : Append(q, n)[i] = q[i]
    BY <2>1
  <2>3. ASSUME NEW x PROVE IsIn(Append(q, n), x) <=> IsIn(q, x) \/ x = n
    <3>1. ASSUME IsIn(Append(q, n), x) PROVE IsIn(q, x) \/ x = n
      BY <2>2, <3>1 DEF IsIn
    <3>2. ASSUME IsIn(q, x) PROVE IsIn(Append(q, n), x)
      <4>1. PICK i \in 1 .. Len(q) : q[i] = x
        BY <2>2, <3>2 DEF IsIn
      <4>2. i \in 1 .. Len(q) + 1
        BY <2>2
      <4>. QED  BY <2>2, <4>1, <4>2 DEF IsIn
    <3>3. IsIn(Append(q, n), n)
      <4>1. Len(q) + 1 \in 1 .. Len(q) + 1
        BY <2>2
      <4>. QED  BY <2>2, <4>1 DEF IsIn
    <3>. QED  BY <3>1, <3>2, <3>3
  <2>4. ASSUME NEW i \in DOMAIN Append(q, n), NEW j \in DOMAIN Append(q, n),
               Append(q, n)[i] = Append(q, n)[j]
        PROVE  i = j
    BY <2>1, <2>2, <2>4 DEF IsIn
  <2>. QED  BY <1>2, <2>3, <2>4 DEF q
<1>5. ASSUME NEW q \in Records, NEW m \in Notifies
      PROVE  /\ IsIn(waitList[m], q) => ppn[q] = m
             /\ ppn[q] = m => IF state'[m] \in InProgress THEN IsIn(waitList[m], q)
                              ELSE state'[m] = "notifyRestartCallbackRequested" /\ q = Chan(m)
             /\ IsIn(restartList'[q], m) = (state'[m] = "notifyWaitForRestart" /\ q = Chan(m))
  <2>1. /\ IsIn(waitList[m], q) => ppn[q] = m
        /\ ppn[q] = m => IF state[m] \in InProgress THEN IsIn(waitList[m], q)
                         ELSE state[m] = "notifyRestartCallbackRequested" /\ q = Chan(m)
        /\ IsIn(restartList[q], m) = (state[m] = "notifyWaitForRestart" /\ q = Chan(m))
    BY <1>0 DEF OwnersAgree
  <2>2. IsIn(restartList'[q], m) = (state'[m] = "notifyWaitForRestart" /\ q = Chan(m))
    <3>1. IsIn(restartList'[q], m) <=> IsIn(restartList[q], m) \/ (q = r /\ m = n)
      BY <1>2, <1>4
    <3>2. IsIn(restartList'[q], m) <=> (state'[m] = "notifyWaitForRestart" /\ q = Chan(m))
      BY <1>c, <1>1, <2>1, <3>1
    <3>3. IsIn(restartList'[q], m) \in BOOLEAN
      BY DEF IsIn
    <3>. QED  BY <3>2, <3>3
  <2>3. ppn[q] # n
    OBVIOUS
  <2>. QED  BY <1>1, <2>1, <2>2, <2>3
<1>6. ASSUME NEW q \in Records
      PROVE  /\ restartList'[q] # <<>> => ppn[q] # None /\ ~IsIn(restartList'[q], ppn[q])
             /\ \A i, j \in DOMAIN restartList'[q] : restartList'[q][i] = restartList'[q][j] => i = j
  <2>1. /\ restartList[q] # <<>> => ppn[q] # None /\ ~IsIn(restartList[q], ppn[q])
        /\ \A i, j \in DOMAIN restartList[q] : restartList[q][i] = restartList[q][j] => i = j
    BY <1>0 DEF OwnersAgree
  <2>2. CASE q # r
    BY <1>2, <2>1, <2>2
  <2>3. CASE q = r
    <3>1. ~IsIn(restartList[r], ppn[r])
      <4>1. restartList[r] = <<>> => ~IsIn(restartList[r], ppn[r])
        BY TimesOne
      <4>. QED  BY <2>1, <2>3, <4>1
    <3>. QED  BY <1>c, <1>4, <2>3, <3>1
  <2>. QED  BY <2>2, <2>3
<1>7. ASSUME NEW m \in Notifies
      PROVE  /\ state'[m] = "notifyRestartCallbackRequested" /\ ~Canceled(m)' => ppn[Chan(m)] = m
             /\ (waitList[m] # <<>>) = (state'[m] \in InProgress)
             /\ \A q \in Records : Canceled(m)' => ppn[q] # m
             /\ state'[m] = "notifyRestartInProgress" => waitList[m] = <<Chan(m)>>
             /\ \A q \in Records : Times(waitList[m], q) <= 1
  <2>1. /\ state[m] = "notifyRestartCallbackRequested" /\ ~Canceled(m) => ppn[Chan(m)] = m
        /\ (waitList[m] # <<>>) = (state[m] \in InProgress)
        /\ \A q \in Records : Canceled(m) => ppn[q] # m
        /\ state[m] = "notifyRestartInProgress" => waitList[m] = <<Chan(m)>>
        /\ \A q \in Records : Times(waitList[m], q) <= 1
    BY <1>0 DEF OwnersAgree, Lists
  <2>2. "notifyWaitForRestart" \notin InProgress
    BY DEF InProgress
  <2>. QED  BY <1>1, <2>1, <2>2
<1>. QED  BY <1>0, <1>2, <1>5, <1>6, <1>7 DEF Lists, OwnersAgree

\* Everything in a list is there once, or at most one time.
LEMMA OnceEach ==
    ASSUME NEW S, NEW q \in Seq(S)
    PROVE  (\A i, j \in DOMAIN q : q[i] = q[j] => i = j) <=> \A x \in S : Times(q, x) <= 1
<1> DEFINE I(x) == {i \in DOMAIN q : q[i] = x}
<1>1. \A x : IsFiniteSet(I(x)) /\ Cardinality(I(x)) \in Nat /\ Times(q, x) = Cardinality(I(x))
  <2>1. Len(q) \in Nat /\ DOMAIN q = 1 .. Len(q) /\ \A x : I(x) \in SUBSET (1 .. Len(q))
    OBVIOUS
  <2>2. IsFiniteSet(1 .. Len(q))
    BY <2>1, FS_Interval
  <2>3. \A x : Times(q, x) = Cardinality(I(x))
    BY DEF Times
  <2>. HIDE DEF I
  <2>. QED  BY <2>1, <2>2, <2>3, FS_Subset, FS_CardinalityType
<1>2. ASSUME \A i, j \in DOMAIN q : q[i] = q[j] => i = j, NEW x \in S PROVE Times(q, x) <= 1
  <2>1. CASE I(x) = {}
    <3>. HIDE DEF I
    <3>1. Cardinality(I(x)) = 0
      BY <2>1, FS_EmptySet
    <3>. QED  BY <1>1, <3>1
  <2>2. CASE I(x) # {}
    <3>1. PICK i \in I(x) : TRUE
      BY <2>2
    <3>2. I(x) = {i}
      BY <1>2, <3>1
    <3>. HIDE DEF I
    <3>3. Cardinality(I(x)) = 1
      BY <3>2, FS_Singleton
    <3>. QED  BY <1>1, <3>3
  <2>. QED  BY <2>1, <2>2
<1>3. ASSUME \A x \in S : Times(q, x) <= 1, NEW i \in DOMAIN q, NEW j \in DOMAIN q, q[i] = q[j]
      PROVE  i = j
  <2>1. q[i] \in S
    OBVIOUS
  <2>2. i \in I(q[i]) /\ j \in I(q[i])
    BY <1>3
  <2> DEFINE A == I(q[i])
  <2>3. IsFiniteSet(A) /\ Cardinality(A) \in Nat /\ Cardinality(A) <= 1
    BY <1>1, <1>3, <2>1
  <2>. HIDE DEF I
  <2>4. i \in A /\ j \in A
    BY <2>2
  <2>. HIDE DEF A
  <2>5. Cardinality(A \ {i}) = Cardinality(A) - 1 /\ IsFiniteSet(A \ {i})
    BY <2>3, <2>4, FS_RemoveElement
  <2>6. Cardinality(A \ {i}) \in Nat
    BY <2>5, FS_CardinalityType
  <2>7. Cardinality(A \ {i}) = 0
    BY <2>3, <2>5, <2>6
  <2>8. A \ {i} = {}
    BY <2>5, <2>7, FS_EmptySet
  <2>. QED  BY <2>4, <2>8
<1>. QED  BY <1>2, <1>3

\* It waits for its record no more.
LEMMA LeaveLists ==
    ASSUME TypeOK, Lists, UNCHANGED inst, NEW n \in Notifies,
           OneState(n, "notifyNotActive"), ~Canceled(n)', state[n] = "notifyWaitForRestart",
           restartList' = [restartList EXCEPT ![Chan(n)] = Those(@, Notifies \ {n})],
           UNCHANGED <<ppn, waitList>>
    PROVE  Lists' /\ restartList' \in [Records -> Seq(Notifies)]
<1>c. PICK r \in Records : r = Chan(n)
  BY Typed
<1>0. /\ OwnersAgree /\ \A q \in Records : restartList[q] \in Seq(Notifies)
      /\ restartList \in [Records -> Seq(Notifies)]
      /\ \A m \in Notifies : Chan(m) \in Records
      /\ \A m : Chan(m)' = Chan(m)
  BY Typed, TypesThen DEF Lists, Chan
<1>1. /\ \A m \in Notifies : state'[m] = IF m = n THEN "notifyNotActive" ELSE state[m]
      /\ \A m \in Notifies : m # n => (Canceled(m)' <=> Canceled(m))
  BY DEF OneState
<1> DEFINE w == Those(restartList[r], Notifies \ {n})
<1>2. /\ w \in Seq(Notifies)
      /\ \A x \in Notifies : IsIn(w, x) <=> IsIn(restartList[r], x) /\ x # n
      /\ \A i, j \in DOMAIN w : w[i] = w[j] => i = j
      /\ w # <<>> => restartList[r] # <<>>
  <2> DEFINE q == restartList[r]
             R == Notifies \ {n}
             v == Those(q, R)
  <2>1. q \in Seq(Notifies) /\ \A i, j \in DOMAIN q : q[i] = q[j] => i = j
    BY <1>0 DEF OwnersAgree
  <2>2. R \subseteq Notifies /\ \A x \in Notifies : x \in R <=> x # n
    OBVIOUS
  <2>. HIDE DEF q, R, v
  <2>3. /\ Those(q, R) \in Seq(Notifies \cap R)
        /\ \A x : Times(Those(q, R), x) = IF x \in R THEN Times(q, x) ELSE 0
    BY <2>1, ThoseTimes
  <2>4. v \in Seq(Notifies) /\ \A x : Times(v, x) = IF x \in R THEN Times(q, x) ELSE 0
    BY <2>2, <2>3 DEF v
  <2>5. \A x \in Notifies : Times(q, x) <= 1 /\ Times(q, x) \in Nat /\ (IsIn(q, x) <=> Times(q, x) > 0)
    BY <2>1, OnceEach, TimesIn
  <2>6. \A x \in Notifies : Times(v, x) \in Nat /\ (IsIn(v, x) <=> Times(v, x) > 0)
    BY <2>4, TimesIn
  <2>7. \A x \in Notifies : Times(v, x) <= 1 /\ (IsIn(v, x) <=> IsIn(q, x) /\ x # n)
    BY <2>2, <2>4, <2>5, <2>6
  <2>8. \A i, j \in DOMAIN v : v[i] = v[j] => i = j
    BY <2>4, <2>7, OnceEach
  <2>9. v # <<>> => q # <<>>
    <3>1. v # <<>> => 1 \in DOMAIN v /\ v[1] \in Notifies
      BY <2>4
    <3>2. v # <<>> => IsIn(q, v[1])
      BY <2>7, <3>1 DEF IsIn
    <3>. QED  BY <3>2 DEF IsIn
  <2>. QED  BY <2>4, <2>7, <2>8, <2>9 DEF q, R, v
<1>3. /\ restartList'[r] = w
      /\ \A q \in Records : q # r => restartList'[q] = restartList[q]
      /\ restartList' \in [Records -> Seq(Notifies)]
  BY <1>0, <1>c, <1>2
<1>. HIDE DEF w
<1>4. ASSUME NEW q \in Records, NEW m \in Notifies
      PROVE  /\ IsIn(waitList[m], q) => ppn[q] = m
             /\ ppn[q] = m => IF state'[m] \in InProgress THEN IsIn(waitList[m], q)
                              ELSE state'[m] = "notifyRestartCallbackRequested" /\ q = Chan(m)
             /\ IsIn(restartList'[q], m) = (state'[m] = "notifyWaitForRestart" /\ q = Chan(m))
  <2>1. /\ IsIn(waitList[m], q) => ppn[q] = m
        /\ ppn[q] = m => IF state[m] \in InProgress THEN IsIn(waitList[m], q)
                         ELSE state[m] = "notifyRestartCallbackRequested" /\ q = Chan(m)
        /\ IsIn(restartList[q], m) = (state[m] = "notifyWaitForRestart" /\ q = Chan(m))
    BY <1>0 DEF OwnersAgree
  <2>2. IsIn(restartList'[q], m) = (state'[m] = "notifyWaitForRestart" /\ q = Chan(m))
    <3>1. IsIn(restartList'[q], m) <=> IsIn(restartList[q], m) /\ ~(q = r /\ m = n)
      BY <1>2, <1>3
    <3>2. IsIn(restartList'[q], m) <=> (state'[m] = "notifyWaitForRestart" /\ q = Chan(m))
      BY <1>c, <1>1, <2>1, <3>1
    <3>3. IsIn(restartList'[q], m) \in BOOLEAN
      BY DEF IsIn
    <3>. QED  BY <3>2, <3>3
  <2>3. m = n => ppn[q] # m
    BY <2>1 DEF InProgress
  <2>. QED  BY <1>1, <2>1, <2>2, <2>3
<1>5. ASSUME NEW q \in Records
      PROVE  /\ restartList'[q] # <<>> => ppn[q] # None /\ ~IsIn(restartList'[q], ppn[q])
             /\ \A i, j \in DOMAIN restartList'[q] : restartList'[q][i] = restartList'[q][j] => i = j
  <2>1. /\ restartList[q] # <<>> => ppn[q] # None /\ ~IsIn(restartList[q], ppn[q])
        /\ \A i, j \in DOMAIN restartList[q] : restartList[q][i] = restartList[q][j] => i = j
    BY <1>0 DEF OwnersAgree
  <2>2. CASE q # r
    <3>1. restartList'[q] = restartList[q]
      BY <1>3, <2>2
    <3>. QED  BY <2>1, <3>1
  <2>3. CASE q = r
    <3>1. restartList'[q] = w
      BY <1>3, <2>3
    <3>2. ASSUME w # <<>> PROVE ppn[q] # None /\ ~IsIn(w, ppn[q])
      <4>1. ppn[q] # None /\ ~IsIn(restartList[r], ppn[q])
        BY <1>2, <2>1, <2>3, <3>2
      <4>2. ppn[q] \in Notifies
        BY <4>1, Typed
      <4>. QED  BY <1>2, <4>1, <4>2
    <3>. QED  BY <1>2, <3>1, <3>2, ZenonT(60)
  <2>. QED  BY <2>2, <2>3
<1>6. ASSUME NEW m \in Notifies
      PROVE  /\ state'[m] = "notifyRestartCallbackRequested" /\ ~Canceled(m)' => ppn[Chan(m)] = m
             /\ (waitList[m] # <<>>) = (state'[m] \in InProgress)
             /\ \A q \in Records : Canceled(m)' => ppn[q] # m
             /\ state'[m] = "notifyRestartInProgress" => waitList[m] = <<Chan(m)>>
             /\ \A q \in Records : Times(waitList[m], q) <= 1
  <2>1. /\ state[m] = "notifyRestartCallbackRequested" /\ ~Canceled(m) => ppn[Chan(m)] = m
        /\ (waitList[m] # <<>>) = (state[m] \in InProgress)
        /\ \A q \in Records : Canceled(m) => ppn[q] # m
        /\ state[m] = "notifyRestartInProgress" => waitList[m] = <<Chan(m)>>
        /\ \A q \in Records : Times(waitList[m], q) <= 1
    BY <1>0 DEF OwnersAgree, Lists
  <2>2. "notifyNotActive" \notin InProgress /\ "notifyWaitForRestart" \notin InProgress
    BY DEF InProgress
  <2>3. CASE m = n
    BY <1>1, <2>1, <2>2, <2>3
  <2>4. CASE m # n
    BY <1>0, <1>1, <2>1, <2>4
  <2>. QED  BY <2>3, <2>4
<1>7. UNCHANGED <<ppn, waitList>>
  OBVIOUS
<1>8. OwnersAgree'
  <2>1. \A m : Chan(m)' = Chan(m)
    BY <1>0
  <2>2. \A q \in Records, m \in Notifies :
           /\ IsIn(waitList'[m], q) => ppn'[q] = m
           /\ ppn'[q] = m => IF state'[m] \in InProgress THEN IsIn(waitList'[m], q)
                             ELSE state'[m] = "notifyRestartCallbackRequested" /\ q = Chan(m)'
           /\ IsIn(restartList'[q], m) = (state'[m] = "notifyWaitForRestart" /\ q = Chan(m)')
    BY <1>4, <1>7, <2>1
  <2>3. \A q \in Records :
           /\ restartList'[q] # <<>> => ppn'[q] # None /\ ~IsIn(restartList'[q], ppn'[q])
           /\ \A i, j \in DOMAIN restartList'[q] : restartList'[q][i] = restartList'[q][j] => i = j
    BY <1>5, <1>7
  <2>4. \A m \in Notifies :
           /\ state'[m] = "notifyRestartCallbackRequested" /\ ~Canceled(m)' => ppn'[Chan(m)'] = m
           /\ (waitList'[m] # <<>>) = (state'[m] \in InProgress)
    BY <1>6, <1>7, <2>1
  <2>. QED  BY ONLY <2>2, <2>3, <2>4 DEF OwnersAgree
<1>. QED  BY <1>0, <1>3, <1>6, <1>7, <1>8 DEF Lists

-----------------------------------------------------------------------------
(* Steps of a request that nobody's processing of its record is in the way *)
(* of.                                                                     *)

\* What Chain says while no thread processes records.
Still == /\ AsyncOnly
         /\ \A r \in Records \ inst.async : ppn[r] = None /\ ~pact[r]
         /\ \A r \in Records : cause[r] # None =>
               /\ pact[r] /\ r >= Chan(cause[r]) /\ ppn[r] = cause[r]
               /\ state[cause[r]] = "notifyProcessInProgress"

\* So it is.
LEMMA StillThen ==
    ASSUME cut = {}, Chain, NEW r, ~Locked(r)
    PROVE  Still /\ \A t \in Threads : ~Working(t)
<1>1. \A t \in Threads : ~Working(t)
  BY Alone
<1>. QED  BY <1>1 DEF Chain, Still, SyncFree, CausesOwned, CameBy, Working, Processing

\* And so it stays.
LEMMA StillNext ==
    ASSUME cut' = {} => Still' /\ \A t \in Threads : ~Working(t)'
    PROVE  Chain'
BY DEF Chain, Still, SyncFree, CausesOwned, AsyncOnly, HoldsOwner, PathOwned, Working, Processing

-----------------------------------------------------------------------------
(* The notifyPvts: one of each request that has begun, and those that are  *)
(* free.                                                                   *)
Users(p) == {m \in Notifies : pvt[m] = p}

\* Who has which, in numbers.
LEMMA UsersCount ==
    ASSUME TypeOK
    PROVE  \A p : /\ IsFiniteSet(Users(p)) /\ Cardinality(Users(p)) \in Nat
                  /\ Times(freeList, p) \in Nat
                  /\ Held(p) = Cardinality(Users(p)) + Times(freeList, p)
                  /\ Held(p)' = Cardinality(Users(p)') + Times(freeList', p)
                  /\ Cardinality(Users(p)) = 0 <=> \A m \in Notifies : pvt[m] # p
<1>1. \A p : IsFiniteSet(Users(p)) /\ Cardinality(Users(p)) \in Nat
  BY NotifyAssumption, FS_Subset, FS_CardinalityType DEF Users
<1>2. \A p : Times(freeList, p) \in Nat
  <2>1. freeList \in Seq(Pvts)
    BY TypesThen
  <2>. QED  BY <2>1, TimesIn
<1>3. \A p : Cardinality(Users(p)) = 0 <=> Users(p) = {}
  BY <1>1, FS_EmptySet
<1>4. \A p : Users(p) = {} <=> \A m \in Notifies : pvt[m] # p
  BY DEF Users
<1>. QED  BY <1>1, <1>2, <1>3, <1>4 DEF Held, Users

\* A request is given another one.
LEMMA UsersChange ==
    ASSUME TypeOK, NEW n \in Notifies, NEW a, pvt' = [pvt EXCEPT ![n] = a], NEW p
    PROVE  Cardinality(Users(p)') = Cardinality(Users(p)) - (IF pvt[n] = p THEN 1 ELSE 0)
                                       + (IF a = p THEN 1 ELSE 0)
<1>1. \A m \in Notifies : pvt'[m] = IF m = n THEN a ELSE pvt[m]
  BY TypesThen
<1> DEFINE R == Users(p) \ {n}
<1>2. /\ Users(p)' = IF a = p THEN R \cup {n} ELSE R
      /\ n \in Users(p) <=> pvt[n] = p
      /\ n \notin R
  BY <1>1 DEF Users
<1>3. IsFiniteSet(Users(p)) /\ Cardinality(Users(p)) \in Nat
  BY UsersCount
<1>4. /\ IsFiniteSet(R)
      /\ Cardinality(R) = IF n \in Users(p) THEN Cardinality(Users(p)) - 1 ELSE Cardinality(Users(p))
  BY <1>3, FS_RemoveElement
<1>. HIDE DEF R
<1>5. Cardinality(R \cup {n}) = Cardinality(R) + 1 /\ Cardinality(R) \in Nat
  BY <1>2, <1>4, FS_AddElement, FS_CardinalityType
<1>6. Cardinality(R) = Cardinality(Users(p)) - (IF pvt[n] = p THEN 1 ELSE 0)
  BY <1>2, <1>3, <1>4
<1>7. CASE a = p
  <2>1. Users(p)' = R \cup {n}
    BY <1>2, <1>7
  <2>2. Cardinality(Users(p)') = Cardinality(R) + 1
    BY <1>5, <2>1
  <2>. QED  BY <1>3, <1>6, <1>7, <2>2
<1>8. CASE a # p
  <2>1. Users(p)' = R
    BY <1>2, <1>8
  <2>2. Cardinality(Users(p)') = Cardinality(R)
    BY <2>1
  <2>. QED  BY <1>3, <1>5, <1>6, <1>8, <2>2
<1>. QED  BY <1>7, <1>8

\* What PvtsReturned says of how many have a notifyPvt.
Counted == \A p \in Pvts : Held(p) <= 1 /\ (Held(p) = 0 => \A q \in Pvts : q > p => Held(q) = 0)

\* notifyCleanup gives it back.
LEMMA CleanupCount ==
    ASSUME TypeOK, PvtsReturned, NEW n \in Notifies, pvt[n] # 0, Cleanup(n)
    PROVE  /\ Counted' /\ freeList' \in Seq(Pvts) /\ pvt' \in [Notifies -> {0} \cup Pvts]
           /\ pvt'[n] = 0 /\ \A m \in Notifies : m # n => pvt'[m] = pvt[m]
<1>0. /\ pvt \in [Notifies -> {0} \cup Pvts] /\ freeList \in Seq(Pvts) /\ pvt[n] \in Pvts
      /\ pvt' = [pvt EXCEPT ![n] = 0] /\ freeList' = Append(freeList, pvt[n])
      /\ \A p \in Pvts : p # 0
  BY Typed, TypesThen DEF Cleanup
<1>1. /\ pvt' \in [Notifies -> {0} \cup Pvts] /\ pvt'[n] = 0
      /\ \A m \in Notifies : m # n => pvt'[m] = pvt[m]
      /\ freeList' \in Seq(Pvts)
  BY <1>0
<1>2. ASSUME NEW p \in Pvts PROVE Held(p)' = Held(p)
  <2>1. Times(freeList', p) = Times(freeList, p) + (IF pvt[n] = p THEN 1 ELSE 0)
    BY <1>0, TimesChange
  <2>2. Cardinality(Users(p)') = Cardinality(Users(p)) - (IF pvt[n] = p THEN 1 ELSE 0)
                                       + (IF 0 = p THEN 1 ELSE 0)
    BY <1>0, UsersChange, ZenonT(60)
  <2>3. /\ Cardinality(Users(p)) \in Nat /\ Times(freeList, p) \in Nat
        /\ Held(p) = Cardinality(Users(p)) + Times(freeList, p)
        /\ Held(p)' = Cardinality(Users(p)') + Times(freeList', p)
    BY UsersCount
  <2>. QED  BY <1>0, <2>1, <2>2, <2>3
<1>3. Pvts' = Pvts
  BY DEF Pvts
<1>. QED  BY <1>1, <1>2, <1>3 DEF Counted, PvtsReturned

\* One that is free is given to a request.
LEMMA FreeCount ==
    ASSUME TypeOK, PvtsReturned, NEW n \in Notifies, NEW free \in Seq(Pvts), free # <<>>,
           \A p \in Pvts : Times(free, p) = Times(freeList, p) + (IF pvt[n] = p THEN 1 ELSE 0),
           pvt' = [pvt EXCEPT ![n] = Head(free)], freeList' = Tail(free)
    PROVE  /\ Counted' /\ freeList' \in Seq(Pvts) /\ Head(free) \in Pvts
           /\ \A m \in Notifies : m # n => pvt[m] # Head(free)
<1>0. Pvts' = Pvts /\ \A p \in Pvts : p # 0
  BY Typed DEF Pvts
<1>1. /\ Head(free) \in Pvts /\ Tail(free) \in Seq(Pvts)
      /\ \A p : Times(free, p) = Times(Tail(free), p) + (IF Head(free) = p THEN 1 ELSE 0)
      /\ \A p : Times(Tail(free), p) \in Nat
  <2>1. Head(free) \in Pvts /\ Tail(free) \in Seq(Pvts)
    OBVIOUS
  <2>2. \A p : Times(free, p) = Times(Tail(free), p) + (IF Head(free) = p THEN 1 ELSE 0)
    BY TimesChange
  <2>3. \A p : Times(Tail(free), p) \in Nat
    BY <2>1, TimesIn
  <2>. QED  BY <2>1, <2>2, <2>3
<1>2. ASSUME NEW p \in Pvts PROVE Held(p)' = Held(p)
  <2>1. Times(freeList', p) = Times(freeList, p) + (IF pvt[n] = p THEN 1 ELSE 0)
                                 - (IF Head(free) = p THEN 1 ELSE 0)
    <3>1. Times(free, p) = Times(freeList, p) + (IF pvt[n] = p THEN 1 ELSE 0)
      OBVIOUS
    <3>2. Times(free, p) = Times(freeList', p) + (IF Head(free) = p THEN 1 ELSE 0)
      BY <1>1
    <3>3. Times(freeList', p) \in Nat
      BY <1>1
    <3>4. Times(freeList, p) \in Nat
      BY UsersCount
    <3>. QED  BY ONLY <3>1, <3>2, <3>3, <3>4
  <2>2. Cardinality(Users(p)') = Cardinality(Users(p)) - (IF pvt[n] = p THEN 1 ELSE 0)
                                       + (IF Head(free) = p THEN 1 ELSE 0)
    BY UsersChange, ZenonT(60)
  <2>3. /\ Cardinality(Users(p)) \in Nat /\ Times(freeList, p) \in Nat
        /\ Held(p) = Cardinality(Users(p)) + Times(freeList, p)
        /\ Held(p)' = Cardinality(Users(p)') + Times(freeList', p)
    BY UsersCount
  <2>. QED  BY ONLY <2>1, <2>2, <2>3
<1>3. Counted'
  BY <1>0, <1>2 DEF Counted, PvtsReturned
<1>4. ASSUME NEW m \in Notifies, m # n PROVE pvt[m] # Head(free)
  <2>1. SUFFICES ASSUME pvt[m] = Head(free) PROVE FALSE
    OBVIOUS
  <2>2. ~IsIn(freeList, Head(free))
    BY <1>1, <2>1, Unshared
  <2>3. Times(freeList, Head(free)) = 0
    <3>1. freeList \in Seq(Pvts)
      BY TypesThen
    <3>2. Times(freeList, Head(free)) \in Nat
          /\ (IsIn(freeList, Head(free)) <=> Times(freeList, Head(free)) > 0)
      BY <3>1, TimesIn
    <3>. QED  BY <2>2, <3>2
  <2>4. pvt[n] # Head(free)
    BY <1>0, <1>1, <1>4, <2>1, Unshared
  <2>5. Times(free, Head(free)) = 0 /\ Times(free, Head(free)) = Times(Tail(free), Head(free)) + 1
    BY <1>1, <2>3, <2>4
  <2>. QED  BY <1>1, <2>5
<1>. QED  BY <1>1, <1>3, <1>4

\* None is free: a new one is made, the first that no request has.
LEMMA NewCount ==
    ASSUME TypeOK, PvtsReturned, NEW n \in Notifies, pvt[n] = 0, freeList = <<>>,
           NEW a, a = Cardinality({pvt[m] : m \in Notifies \ {n}} \ {0}) + 1,
           pvt' = [pvt EXCEPT ![n] = a], freeList' = <<>>
    PROVE  /\ Counted' /\ a \in Pvts /\ \A m \in Notifies : pvt[m] # a
<1> DEFINE H == {pvt[m] : m \in Notifies \ {n}} \ {0}
<1>0. /\ Pvts' = Pvts /\ Pvts = 1 .. Cardinality(Notifies) /\ Cardinality(Notifies) \in Nat
      /\ \A m \in Notifies : pvt[m] \in {0} \cup Pvts
  BY Typed DEF Pvts
<1>1. \A p \in Pvts : /\ Held(p) \in Nat /\ Held(p) <= 1 /\ (p \in H <=> Held(p) # 0)
                      /\ Held(p) = Cardinality(Users(p))
                      /\ p \notin H <=> \A m \in Notifies : pvt[m] # p
  <2>1. ASSUME NEW p \in Pvts
        PROVE  /\ Held(p) \in Nat /\ Held(p) <= 1 /\ (p \in H <=> Held(p) # 0)
               /\ Held(p) = Cardinality(Users(p))
               /\ p \notin H <=> \A m \in Notifies : pvt[m] # p
    <3>1. /\ Cardinality(Users(p)) \in Nat /\ Held(p) = Cardinality(Users(p)) + Times(freeList, p)
          /\ Cardinality(Users(p)) = 0 <=> \A m \in Notifies : pvt[m] # p
      BY UsersCount
    <3>2. Times(freeList, p) = 0
      BY TimesOne
    <3>3. p # 0 /\ (p \notin H <=> \A m \in Notifies : pvt[m] # p)
      BY <1>0
    <3>4. Held(p) <= 1
      BY DEF PvtsReturned
    <3>. QED  BY <3>1, <3>2, <3>3, <3>4
  <2>. QED  BY <2>1
<1>2. \A p \in H : p \in Pvts /\ \A q \in Pvts : q < p => q \in H
  <2>1. \A p \in H : p \in Pvts
    BY <1>0
  <2>2. ASSUME NEW p \in H, NEW q \in Pvts, q < p PROVE q \in H
    <3>1. Held(p) # 0 /\ p > q
      BY <1>0, <1>1, <2>1, <2>2
    <3>2. Held(q) = 0 => Held(p) = 0
      BY <2>1, <3>1 DEF PvtsReturned
    <3>. QED  BY <1>1, <3>1, <3>2
  <2>. QED  BY <2>1, <2>2
<1>3. IsFiniteSet(H) /\ Cardinality(H) \in Nat /\ Cardinality(H) < Cardinality(Notifies)
  <2> DEFINE Q == Notifies \ {n}
             f == [p \in H |-> CHOOSE m \in Q : pvt[m] = p]
  <2>1. \A p \in H : f[p] \in Q /\ pvt[f[p]] = p
    OBVIOUS
  <2>2. f \in [H -> Q] /\ \A p, q \in H : f[p] = f[q] => p = q
    BY <2>1
  <2>3. IsFiniteSet(Q) /\ Cardinality(Q) = Cardinality(Notifies) - 1
    BY NotifyAssumption, FS_RemoveElement
  <2>. HIDE DEF H, Q, f
  <2>4. f \in Injection(H, Q)
    BY <2>2, Fun_IsInj
  <2>5. IsFiniteSet(H) /\ Cardinality(H) <= Cardinality(Q)
    BY <2>3, <2>4, FS_Injection
  <2>6. Cardinality(H) \in Nat
    BY <2>5, FS_CardinalityType
  <2>. QED  BY <1>0, <2>3, <2>5, <2>6
<1>4. a = Cardinality(H) + 1
  OBVIOUS
<1>. HIDE DEF H
<1>5. a \in Pvts /\ a \in Nat
  BY <1>0, <1>3, <1>4
<1>6. a \notin H
  <2>1. SUFFICES ASSUME a \in H PROVE FALSE
    OBVIOUS
  <2>2. (1 .. a) \in SUBSET H
    <3>1. \A q \in 1 .. a : q \in Pvts /\ (q < a \/ q = a)
      BY <1>0, <1>5
    <3>. QED  BY <1>2, <2>1, <3>1
  <2>3. Cardinality(1 .. a) = a
    BY <1>0, <1>5, FS_Interval
  <2>4. Cardinality(1 .. a) <= Cardinality(H)
    BY <1>3, <2>2, FS_Subset
  <2>. QED  BY <1>3, <1>4, <2>3, <2>4
<1>7. \A q \in Pvts : q < a => q \in H
  <2>1. SUFFICES ASSUME NEW q \in Pvts, q < a, q \notin H PROVE FALSE
    OBVIOUS
  <2>2. H \in SUBSET (1 .. q - 1) /\ q - 1 \in Nat
    <3>1. q \in Nat /\ q >= 1
      BY <1>0
    <3>2. \A p \in H : p \in Nat /\ p >= 1 /\ ~(q < p) /\ p # q
      BY <1>0, <1>2, <2>1
    <3>. QED  BY <3>1, <3>2
  <2>3. IsFiniteSet(1 .. q - 1) /\ Cardinality(1 .. q - 1) = q - 1
    BY <2>2, FS_Interval
  <2>4. Cardinality(H) <= Cardinality(1 .. q - 1)
    BY <2>2, <2>3, FS_Subset
  <2>. QED  BY <1>0, <1>3, <1>4, <2>1, <2>3, <2>4
<1>8. \A p \in Pvts : Held(p)' = IF p = a THEN 1 ELSE Held(p)
  <2>1. ASSUME NEW p \in Pvts PROVE Held(p)' = IF p = a THEN 1 ELSE Held(p)
    <3>1. Cardinality(Users(p)') = Cardinality(Users(p)) - (IF pvt[n] = p THEN 1 ELSE 0)
                                       + (IF a = p THEN 1 ELSE 0)
      <4>1. TypeOK /\ pvt' = [pvt EXCEPT ![n] = a]
        OBVIOUS
      <4>. QED  BY ONLY n \in Notifies, <4>1, UsersChange, ZenonT(60)
    <3>2. Held(p)' = Cardinality(Users(p)') + Times(freeList', p) /\ Times(freeList', p) = 0
      BY UsersCount, TimesOne
    <3>3. pvt[n] # p /\ Cardinality(Users(p)) \in Nat /\ Held(p) = Cardinality(Users(p))
          /\ (p = a => Held(p) = 0)
      BY <1>0, <1>1, <1>5, <1>6
    <3>. QED  BY ONLY <3>1, <3>2, <3>3
  <2>. QED  BY <2>1
<1>9. Counted'
  <2>1. ASSUME NEW p \in Pvts, Held(p)' = 0, NEW q \in Pvts, q > p PROVE Held(q)' = 0
    <3>1. p # a /\ p \notin H
      BY <1>1, <1>8, <2>1
    <3>2. p > a /\ q # a
      BY <1>0, <1>5, <1>7, <2>1, <3>1
    <3>3. q \notin H
      BY <1>0, <1>2, <2>1, <3>1
    <3>. QED  BY <1>1, <1>8, <3>2, <3>3
  <2>2. \A p \in Pvts : Held(p)' <= 1
    BY <1>1, <1>8
  <2>. QED  BY <1>0, <2>1, <2>2 DEF Counted
<1>. QED  BY <1>1, <1>5, <1>6, <1>9

\* The first that is free, or a new one.
LEMMA AllocateCount ==
    ASSUME TypeOK, PvtsReturned, NEW n \in Notifies, NEW free \in Seq(Pvts),
           \A p \in Pvts : Times(free, p) = Times(freeList, p) + (IF pvt[n] = p THEN 1 ELSE 0),
           free = <<>> => freeList = <<>> /\ pvt[n] = 0,
           pvt' = [pvt EXCEPT ![n] = Allocated(n, free)],
           freeList' = IF free = <<>> THEN <<>> ELSE Tail(free)
    PROVE  /\ Counted' /\ freeList' \in Seq(Pvts) /\ pvt' \in [Notifies -> {0} \cup Pvts]
           /\ pvt'[n] \in Pvts /\ pvt'[n] # 0
           /\ \A m \in Notifies : m # n => pvt'[m] = pvt[m] /\ pvt[m] # pvt'[n]
           /\ free # <<>> => pvt'[n] = Head(free)
           /\ free = <<>> => \A m \in Notifies : pvt[m] # pvt'[n]
<1>a. PICK a : a = Allocated(n, free)
  OBVIOUS
<1>0. pvt \in [Notifies -> {0} \cup Pvts] /\ \A p \in Pvts : p # 0
  BY Typed, TypesThen
<1>1. /\ Counted' /\ freeList' \in Seq(Pvts) /\ a \in Pvts
      /\ \A m \in Notifies : m # n => pvt[m] # a
      /\ free # <<>> => a = Head(free)
      /\ free = <<>> => \A m \in Notifies : pvt[m] # a
  <2>1. CASE free # <<>>
    <3>1. a = Head(free) /\ freeList' = Tail(free) /\ pvt' = [pvt EXCEPT ![n] = Head(free)]
      BY <1>a, <2>1 DEF Allocated
    <3>. QED  BY <2>1, <3>1, FreeCount
  <2>2. CASE free = <<>>
    <3>1. /\ a = Cardinality({pvt[m] : m \in Notifies \ {n}} \ {0}) + 1
          /\ pvt' = [pvt EXCEPT ![n] = a] /\ freeList' = <<>> /\ freeList = <<>> /\ pvt[n] = 0
      BY <1>a, <2>2 DEF Allocated
    <3>2. TypeOK /\ PvtsReturned
      OBVIOUS
    <3>3. Counted' /\ a \in Pvts /\ \A m \in Notifies : pvt[m] # a
      BY ONLY n \in Notifies, <3>1, <3>2, NewCount
    <3>4. freeList' \in Seq(Pvts)
      BY <3>1
    <3>. QED  BY <2>2, <3>3, <3>4
  <2>. QED  BY <2>1, <2>2
<1>2. pvt' = [pvt EXCEPT ![n] = a]
  BY <1>a
<1>. QED  BY <1>0, <1>1, <1>2

-----------------------------------------------------------------------------
(* processNotifyCommon.                                                    *)

\* The request n comes to it, for the first time from its client or again from its callback, in the
\* thread t.
Enters(n, t, first) ==
    /\ first \in BOOLEAN
    /\ state[n] \in {"notifyNotActive", "notifyUserCallbackActive", "notifyRestartCallbackRequested"}
    /\ first <=> state[n] # "notifyRestartCallbackRequested"
    /\ th[t].pc \in {"idle", "waitUser", "callback"}
    /\ th[t].pc = "callback" => th[t].n = n
    /\ th[t].pc = "waitUser" => t = n
    /\ th[n].pc \in {"waitUser", "waitCancel"} => t = n
    /\ \A u \in Threads : ~CallsFor(u, n)
    /\ n \notin refused /\ Times(callbacks, n) = 0 /\ InCallback(n) \subseteq {t}
    /\ first => \A q \in Records : ppn[q] # n
    /\ ~first => ppn[Chan(n)] = n /\ \A q \in Records : ppn[q] = n => q = Chan(n)
\* It has a notifyPvt without signals, and nobody waits for it.
Fresh(n) ==
    /\ pvt'[n] # 0 /\ ~cancelWait'[n] /\ ~userCallbackWait'[n] /\ served'[n] = FALSE
    /\ ~cancelEvent'[pvt'[n]] /\ ~userCallbackEvent'[pvt'[n]]
    /\ \A m \in Notifies : m # n =>
          /\ pvt'[m] = pvt[m] /\ cancelWait'[m] = cancelWait[m] /\ served'[m] = served[m]
          /\ userCallbackWait'[m] = userCallbackWait[m]
          /\ pvt[m] # 0 => /\ cancelEvent'[pvt[m]] = cancelEvent[pvt[m]]
                           /\ userCallbackEvent'[pvt[m]] = userCallbackEvent[pvt[m]]

\* What others have to do with requests stays as it is.
LEMMA FreshThen ==
    ASSUME TypeOK, NEW n \in Notifies, Fresh(n)
    PROVE  ~Canceled(n)' /\ \A m \in Notifies : m # n => (Canceled(m)' <=> Canceled(m))
BY DEF Fresh, Canceled

\* The request goes on in one way, and others are left alone or restarted.
LEMMA EnterKeeps ==
    ASSUME TypeOK, Places, Life, NEW n \in Notifies, NEW t \in Threads, NEW first,
           Enters(n, t, first), Fresh(n),
           NEW e \in Place, th' = [th EXCEPT ![t] = e], e.pc \in {"idle", "process", "calling"},
           e.pc = "calling" => e.n = n /\ state'[n] = "notifyUserCallbackActive",
           state'[n] \in {"notifyWaitForRestart", "notifyUserCallbackActive"} \cup InProgress,
           n \notin refused', Times(callbacks', n) = 0,
           \A m \in Notifies : m # n =>
              /\ \/ state'[m] = state[m]
                 \/ state[m] = "notifyWaitForRestart" /\ state'[m] = "notifyRestartCallbackRequested"
              /\ Called(m)' = IF state'[m] \in Requested /\ m \notin refused' /\ ~Canceled(m)'
                              THEN 1 ELSE 0
              /\ m \in refused' => state'[m] \in Requested /\ ~Canceled(m)'
    PROVE  Places' /\ Life' /\ OneCallback'
<1>0. /\ th'[t] = e /\ \A u \in Threads : u # t => th'[u] = th[u]
      /\ \A m \in Notifies : m \in Threads
      /\ \A w \in Workers : w \in Threads
  <2>1. th'[t] = e /\ \A u \in Threads : u # t => th'[u] = th[u]
    BY ONLY TypeOK, t \in Threads, th' = [th EXCEPT ![t] = e], OtherPlace
  <2>2. /\ \A m \in Notifies : m \in Threads
        /\ \A w \in Workers : w \in Threads
    BY ONLY TypeOK, Typed
  <2>. QED  BY ONLY <2>1, <2>2
<1>1. ~Canceled(n)' /\ \A m \in Notifies : m # n => (Canceled(m)' <=> Canceled(m))
  BY ONLY TypeOK, n \in Notifies, Fresh(n), FreshThen
<1>2. Places'
  <2>1. ASSUME NEW u \in Threads
        PROVE  /\ th'[u].pc \in {"waitUser", "waitCancel"} => u \in Notifies
               /\ th'[u].pc = "callback" => u \in Workers /\ th'[u].n \in Notifies
    BY <1>0 DEF Places
  <2>2. ASSUME NEW u \in Threads, th'[u].pc \in {"calling", "returning"}, u # t, NEW m, m = th'[u].n
        PROVE  /\ m \in Notifies /\ state'[m] = "notifyUserCallbackActive"
               /\ served'[m] = (th'[u].pc = "returning")
               /\ ~Canceled(m)' /\ ~userCallbackEvent'[pvt'[m]]
    <3>1. th'[u] = th[u]
      BY <1>0, <2>2
    <3>2. /\ m \in Notifies /\ state[m] = "notifyUserCallbackActive"
          /\ served[m] = (th'[u].pc = "returning") /\ ~Canceled(m) /\ ~userCallbackEvent[pvt[m]]
      BY <2>2, <3>1 DEF Places
    <3>3. m # n
      BY <2>2, <3>1 DEF Enters, CallsFor
    <3>4. pvt[m] # 0
      BY <3>2 DEF Life, LifeOf
    <3>. QED  BY <1>1, <3>2, <3>3, <3>4 DEF Fresh
  <2>3. ASSUME e.pc = "calling"
        PROVE  /\ state'[n] = "notifyUserCallbackActive" /\ e.n = n
               /\ served'[n] = (e.pc = "returning")
               /\ ~Canceled(n)' /\ ~userCallbackEvent'[pvt'[n]]
    <3>1. served'[n] = FALSE
      BY DEF Fresh
    <3>. QED  BY <1>1, <2>3, <3>1 DEF Fresh
  <2>4. \A u, v \in Threads, m \in Notifies : CallsFor(u, m)' /\ CallsFor(v, m)' => u = v
    <3>1. \A u \in Threads, m \in Notifies : u # t => (CallsFor(u, m)' <=> CallsFor(u, m))
      BY <1>0 DEF CallsFor
    <3>2. \A m \in Notifies : CallsFor(t, m)' => m = n
      BY <1>0 DEF CallsFor
    <3>. QED  BY <3>1, <3>2 DEF Places, Enters
  <2>. QED  BY <1>0, <2>1, <2>2, <2>3, <2>4 DEF Places
<1>3. Life'
  <2>1. ASSUME NEW m \in Notifies, m # n PROVE LifeOf(m)'
    <3>1. /\ th[m].pc \in {"waitCancel", "waitUser"} => th'[m].pc = th[m].pc
          /\ th'[m].pc \in {"waitCancel", "waitUser"} => th'[m].pc = th[m].pc
      BY <1>0, <2>1 DEF Enters, Places
    <3>. QED  BY <2>1, <3>1, OthersLife DEF Fresh
  <2>2. LifeOf(n)'
    <3>1. th'[n].pc \notin {"waitCancel", "waitUser"}
      BY <1>0 DEF Enters
    <3>2. state'[n] # "notifyNotActive"
      BY DEF InProgress
    <3>. QED  BY <1>1, <3>1, <3>2 DEF LifeOf, Fresh
  <2>. QED  BY <2>1, <2>2 DEF Life
<1>4. OneCallback'
  <2>1. InCallback(n)' = {}
    BY <1>0 DEF Enters, InCallback
  <2>2. Called(n)' = 0
    <3>1. Called(n)' = Times(callbacks', n) + Cardinality(InCallback(n)')
      BY DEF Called, InCallback
    <3>. QED  BY <2>1, <3>1, FS_EmptySet
  <2>3. state'[n] \notin Requested
    BY DEF InProgress, Requested
  <2>. QED  BY <2>2, <2>3 DEF OneCallback
<1>. QED  BY <1>2, <1>3, <1>4

\* Callbacks of others go on as they are.
LEMMA OthersCalls ==
    ASSUME TypeOK, NEW n \in Notifies, NEW t \in Threads, th[t].pc = "callback" => th[t].n = n,
           NEW e \in Place, th' = [th EXCEPT ![t] = e], e.pc # "callback"
    PROVE  \A m \in Notifies : m # n => InCallback(m)' = InCallback(m)
<1>1. /\ th'[t] = e /\ \A u \in Threads : u # t => th'[u] = th[u]
      /\ \A w \in Workers : w \in Threads
  BY OtherPlace, Typed
<1>. QED  BY <1>1 DEF InCallback

\* And so they do when no callback is asked for.
LEMMA SameCalls ==
    ASSUME TypeOK, Life, OneCallback, NEW n \in Notifies, NEW t \in Threads, NEW first,
           Enters(n, t, first), Fresh(n),
           NEW e \in Place, th' = [th EXCEPT ![t] = e], e.pc # "callback",
           UNCHANGED cbVars, \A m \in Notifies : m # n => state'[m] = state[m]
    PROVE  /\ n \notin refused' /\ Times(callbacks', n) = 0
           /\ \A m \in Notifies : m # n =>
              /\ Called(m)' = IF state'[m] \in Requested /\ m \notin refused' /\ ~Canceled(m)'
                              THEN 1 ELSE 0
              /\ m \in refused' => state'[m] \in Requested /\ ~Canceled(m)'
<1>1. \A m \in Notifies : m # n => InCallback(m)' = InCallback(m)
  <2>1. th[t].pc = "callback" => th[t].n = n
    BY DEF Enters
  <2>. QED  BY <2>1, OthersCalls
<1>2. \A m \in Notifies : m # n => (Canceled(m)' <=> Canceled(m))
  BY FreshThen
<1>3. callbacks' = callbacks /\ refused' = refused
  BY DEF cbVars
<1>4. ASSUME NEW m \in Notifies, m # n
      PROVE  /\ Called(m)' = IF state'[m] \in Requested /\ m \notin refused' /\ ~Canceled(m)'
                             THEN 1 ELSE 0
             /\ m \in refused' => state'[m] \in Requested /\ ~Canceled(m)'
  <2>1. Called(m)' = Called(m)
    <3>1. /\ Called(m) = Times(callbacks, m) + Cardinality(InCallback(m))
          /\ Called(m)' = Times(callbacks', m) + Cardinality(InCallback(m)')
      BY DEF Called, InCallback
    <3>. QED  BY <1>1, <1>3, <1>4, <3>1
  <2>2. /\ Called(m) = IF state[m] \in Requested /\ m \notin refused /\ ~Canceled(m) THEN 1 ELSE 0
        /\ m \in refused => state[m] \in Requested /\ ~Canceled(m)
    BY DEF OneCallback, Life, LifeOf
  <2>. QED  BY <1>2, <1>3, <1>4, <2>1, <2>2
<1>. QED  BY <1>3, <1>4 DEF Enters

\* What processNotifyCommon and its callers leave alone, and the types of the rest.
Besides ==
    /\ UNCHANGED <<inst, cut, pact, rpro, pending, onceQ, scans, cause, owed>>
    /\ pvt' \in [Notifies -> {0} \cup Pvts] /\ freeList' \in Seq(Pvts)
    /\ cancelWait' \in [Notifies -> BOOLEAN] /\ userCallbackWait' \in [Notifies -> BOOLEAN]
    /\ cancelEvent' \in [Pvts -> BOOLEAN] /\ userCallbackEvent' \in [Pvts -> BOOLEAN]
    /\ requests' \in [Notifies -> 0 .. inst.requests] /\ served' \in [Notifies -> BOOLEAN]
    /\ PvtsReturned'

\* What is known where it begins.
LEMMA EnterThen ==
    ASSUME NotifyInv, NEW n \in Notifies, NEW t \in Threads, NEW first, Enters(n, t, first),
           ~Locked(Chan(n))
    PROVE  /\ TypeOK /\ Places /\ Locks /\ Life /\ Lists /\ PvtsReturned /\ OneCallback
           /\ Putf /\ Chain /\ OwnersAgree
           /\ n \in Threads /\ n # None /\ Chan(n) \in Records
           /\ state[n] \notin InProgress \cup {"notifyWaitForRestart"} /\ waitList[n] = <<>>
           /\ \A q \in Records : ppn[q] = n => q = Chan(n)
           /\ ~Working(t)
           /\ cut = {} => Still /\ \A u \in Threads : ~Working(u)
           /\ cut = {} /\ ~first => Chan(n) \in inst.async
           /\ \A q \in Records : cut = {} /\ cause[q] # None /\ (first => ppn[Chan(n)] = None) =>
                 q # Chan(n) /\ cause[q] # n /\ cause[q] \in Notifies
<1>1. /\ TypeOK /\ Places /\ Locks /\ Life /\ Lists /\ PvtsReturned /\ OneCallback
      /\ Putf /\ Chain /\ OwnersAgree
  BY DEF NotifyInv, Lists
<1>2. n \in Threads /\ n # None /\ Chan(n) \in Records /\ \A q \in Records : cause[q] \in Notifies \cup {None}
  BY <1>1, Typed
<1>3. state[n] \notin InProgress \cup {"notifyWaitForRestart"} /\ waitList[n] = <<>>
  <2>1. state[n] \notin InProgress \cup {"notifyWaitForRestart"}
    BY DEF Enters, InProgress
  <2>2. (waitList[n] # <<>>) = (state[n] \in InProgress)
    BY <1>1 DEF OwnersAgree
  <2>. QED  BY <2>1, <2>2
<1>4. (\A q \in Records : ppn[q] = n => q = Chan(n)) /\ ~Working(t)
  BY DEF Enters, Working, Processing
<1>5. cut = {} => Still /\ \A u \in Threads : ~Working(u)
  BY <1>1, StillThen
<1>6. cut = {} /\ ~first => Chan(n) \in inst.async
  BY <1>5 DEF Still, AsyncOnly, Enters
<1>7. ASSUME NEW q \in Records, cut = {}, cause[q] # None, first => ppn[Chan(n)] = None
      PROVE  q # Chan(n) /\ cause[q] # n /\ cause[q] \in Notifies
  <2>1. ppn[q] = cause[q] /\ state[cause[q]] = "notifyProcessInProgress"
    BY <1>5, <1>7 DEF Still
  <2>2. cause[q] # n
    BY <1>3, <2>1 DEF InProgress
  <2>3. first \in BOOLEAN /\ (~first => ppn[Chan(n)] = n)
    BY DEF Enters
  <2>. QED  BY <1>2, <1>7, <2>1, <2>2, <2>3
<1>. QED  BY <1>1, <1>2, <1>3, <1>4, <1>5, <1>6, <1>7

\* A thread that neither was at work nor is.
LEMMA Apart ==
    ASSUME TypeOK, NEW t \in Threads, ~Working(t), NEW e \in Place, th' = [th EXCEPT ![t] = e],
           e.pc \notin Processing
    PROVE  SameWork /\ \A u \in Threads : Working(u)' <=> Working(u)
<1>1. th'[t] = e /\ \A u \in Threads : u # t => th'[u] = th[u]
  BY OtherPlace
<1>. QED  BY <1>1 DEF SameWork, Working

\* Its record has an owner: the request waits.
LEMMA EnterWaits ==
    ASSUME NotifyInv, NEW n \in Notifies, NEW t \in Threads, Enters(n, t, TRUE), Fresh(n),
           ~Locked(Chan(n)), Besides, ppn[Chan(n)] # None,
           state' = [state EXCEPT ![n] = "notifyWaitForRestart"],
           restartList' = [restartList EXCEPT ![Chan(n)] = Append(@, n)], Rests(t),
           UNCHANGED <<ppn, waitList, putf, cbVars>>
    PROVE  NotifyInv'
<1>0. /\ TypeOK /\ Places /\ Locks /\ Life /\ Lists /\ PvtsReturned /\ OneCallback
      /\ Putf /\ Chain /\ OwnersAgree
      /\ n \in Threads /\ n # None /\ Chan(n) \in Records
      /\ state[n] \notin InProgress \cup {"notifyWaitForRestart"}
      /\ ~Working(t)
      /\ cut = {} => Still /\ \A u \in Threads : ~Working(u)
  BY EnterThen
<1>1. /\ th' = [th EXCEPT ![t] = Idle] /\ Idle \in Place /\ Idle.pc = "idle"
  BY <1>0, OtherPlace DEF Rests
<1>2. /\ \A m \in Notifies : state'[m] = IF m = n THEN "notifyWaitForRestart" ELSE state[m]
      /\ state' \in [Notifies -> States]
  <2>1. "notifyWaitForRestart" \in States /\ state \in [Notifies -> States]
    BY <1>0, TypesThen DEF States
  <2>. QED  BY <2>1
<1>3. ~Canceled(n)' /\ \A m \in Notifies : m # n => (Canceled(m)' <=> Canceled(m))
  BY <1>0, FreshThen
<1>4. Lists' /\ restartList' \in [Records -> Seq(Notifies)]
  <2>1. OneState(n, "notifyWaitForRestart")
    BY <1>2, <1>3 DEF OneState
  <2>2. \A q \in Records : ppn[q] # n
    BY DEF Enters
  <2>3. UNCHANGED inst
    BY DEF Besides
  <2>. QED  BY <1>0, <1>3, <2>1, <2>2, <2>3, WaitLists
<1>5. Places' /\ Life' /\ OneCallback'
  <2>1. /\ Idle.pc \in {"idle", "process", "calling"} /\ Idle.pc # "calling" /\ Idle.pc # "callback"
        /\ state'[n] \in {"notifyWaitForRestart", "notifyUserCallbackActive"} \cup InProgress
        /\ \A m \in Notifies : m # n => state'[m] = state[m]
    BY <1>1, <1>2
  <2>2. /\ n \notin refused' /\ Times(callbacks', n) = 0
        /\ \A m \in Notifies : m # n =>
              /\ Called(m)' = IF state'[m] \in Requested /\ m \notin refused' /\ ~Canceled(m)'
                              THEN 1 ELSE 0
              /\ m \in refused' => state'[m] \in Requested /\ ~Canceled(m)'
    BY <1>0, <1>1, <2>1, SameCalls
  <2>. QED  BY <1>0, <1>1, <2>1, <2>2, EnterKeeps
<1>6. SameWork /\ \A u \in Threads : Working(u)' <=> Working(u)
  <2>1. Idle.pc \notin Processing
    BY <1>1 DEF Processing
  <2>. QED  BY <1>0, <1>1, <2>1, Apart
<1>7. /\ UNCHANGED <<inst, cut, pact, rpro, pending, onceQ, scans, cause, owed>> /\ PvtsReturned'
      /\ \A m : Chan(m)' = Chan(m)
  BY DEF Besides, Chan
<1>8. Locks' /\ Putf'
  BY <1>0, <1>6, <1>7, RestKeeps
<1>9. Chain'
  <2>1. ASSUME cut' = {} PROVE Still'
    <3>1. Still
      BY <1>0, <1>7, <2>1
    <3>2. AsyncOnly'
      <4>1. Chan(n) \in inst.async
        BY <1>0, <3>1 DEF Still
      <4>. QED  BY <1>2, <1>7, <3>1, <4>1 DEF AsyncOnly, Still
    <3>3. \A q \in Records : cause[q] # None =>
             /\ pact[q] /\ q >= Chan(cause[q]) /\ ppn[q] = cause[q]
             /\ state'[cause[q]] = "notifyProcessInProgress"
      <4>1. \A q \in Records : cause[q] # None => cause[q] \in Notifies /\ cause[q] # n
        BY <1>0, <3>1, Typed DEF Still, InProgress
      <4>. QED  BY <1>2, <3>1, <4>1 DEF Still
    <3>. QED  BY <1>7, <3>1, <3>2, <3>3 DEF Still
  <2>2. cut' = {} => \A u \in Threads : ~Working(u)'
    BY <1>0, <1>6, <1>7
  <2>. QED  BY <2>1, <2>2, StillNext
<1>10. TypeOK'
  <2>1. /\ th' \in [Threads -> Place] /\ ppn' = ppn /\ waitList' = waitList /\ putf' = putf
        /\ callbacks' = callbacks /\ refused' = refused
    BY <1>0, <1>1, TypesThen DEF cbVars
  <2>. QED  BY <1>0, <1>2, <1>4, <1>7, <2>1, TypesThen, TypesKept DEF Besides
<1>. QED  BY <1>4, <1>5, <1>7, <1>8, <1>9, <1>10 DEF NotifyInv

\* Its record is busy: the request owns it, to be restarted.
LEMMA EnterBusy ==
    ASSUME NotifyInv, NEW n \in Notifies, NEW t \in Threads, NEW first, Enters(n, t, first), Fresh(n),
           ~Locked(Chan(n)), Besides, first => ppn[Chan(n)] = None, pact[Chan(n)],
           state' = [state EXCEPT ![n] = "notifyRestartInProgress"],
           ppn' = [ppn EXCEPT ![Chan(n)] = n],
           waitList' = [waitList EXCEPT ![n] = Append(@, Chan(n))], Rests(t),
           UNCHANGED <<restartList, putf, cbVars>>
    PROVE  NotifyInv'
<1>0. /\ TypeOK /\ Places /\ Locks /\ Life /\ Lists /\ PvtsReturned /\ OneCallback
      /\ Putf /\ Chain /\ OwnersAgree
      /\ n \in Threads /\ n # None /\ Chan(n) \in Records
      /\ state[n] \notin InProgress \cup {"notifyWaitForRestart"}
      /\ \A q \in Records : ppn[q] = n => q = Chan(n)
      /\ ~Working(t)
      /\ cut = {} => Still /\ \A u \in Threads : ~Working(u)
      /\ \A q \in Records : cut = {} /\ cause[q] # None =>
            q # Chan(n) /\ cause[q] # n /\ cause[q] \in Notifies
  BY EnterThen
<1>1. /\ th' = [th EXCEPT ![t] = Idle] /\ Idle \in Place /\ Idle.pc = "idle"
  BY <1>0, OtherPlace DEF Rests
<1>2. /\ \A m \in Notifies : state'[m] = IF m = n THEN "notifyRestartInProgress" ELSE state[m]
      /\ state' \in [Notifies -> States] /\ "notifyRestartInProgress" \in InProgress
  <2>1. "notifyRestartInProgress" \in States /\ state \in [Notifies -> States]
    BY <1>0, TypesThen DEF States, InProgress
  <2>. QED  BY <2>1 DEF InProgress
<1>3. ~Canceled(n)' /\ \A m \in Notifies : m # n => (Canceled(m)' <=> Canceled(m))
  BY <1>0, FreshThen
<1>4. /\ Lists' /\ waitList' \in [Notifies -> Seq(Records)]
      /\ ppn' \in [Records -> Notifies \cup {None}]
  <2>1. OneState(n, "notifyRestartInProgress")
    BY <1>2, <1>3 DEF OneState
  <2>2. ppn[Chan(n)] \in {None, n}
    BY DEF Enters
  <2>3. UNCHANGED inst /\ UNCHANGED restartList
    BY DEF Besides
  <2>. QED  BY <1>0, <1>2, <1>3, <2>1, <2>2, <2>3, OwnLists
<1>5. Places' /\ Life' /\ OneCallback'
  <2>1. /\ Idle.pc \in {"idle", "process", "calling"} /\ Idle.pc # "calling" /\ Idle.pc # "callback"
        /\ state'[n] \in {"notifyWaitForRestart", "notifyUserCallbackActive"} \cup InProgress
        /\ \A m \in Notifies : m # n => state'[m] = state[m]
    BY <1>1, <1>2
  <2>2. /\ n \notin refused' /\ Times(callbacks', n) = 0
        /\ \A m \in Notifies : m # n =>
              /\ Called(m)' = IF state'[m] \in Requested /\ m \notin refused' /\ ~Canceled(m)'
                              THEN 1 ELSE 0
              /\ m \in refused' => state'[m] \in Requested /\ ~Canceled(m)'
    BY <1>0, <1>1, <2>1, SameCalls
  <2>. QED  BY <1>0, <1>1, <2>1, <2>2, EnterKeeps
<1>6. SameWork /\ \A u \in Threads : Working(u)' <=> Working(u)
  <2>1. Idle.pc \notin Processing
    BY <1>1 DEF Processing
  <2>. QED  BY <1>0, <1>1, <2>1, Apart
<1>7. /\ UNCHANGED <<inst, cut, pact, rpro, pending, onceQ, scans, cause, owed>> /\ PvtsReturned'
      /\ \A m : Chan(m)' = Chan(m)
  BY DEF Besides, Chan
<1>8. Locks' /\ Putf'
  BY <1>0, <1>6, <1>7, RestKeeps
<1>9. Chain'
  <2>1. ASSUME cut' = {} PROVE Still'
    <3>1. Still
      BY <1>0, <1>7, <2>1
    <3>2. AsyncOnly' /\ Chan(n) \in inst.async
      <4>1. Chan(n) \in inst.async
        BY <1>0, <3>1 DEF Still
      <4>. QED  BY <1>2, <1>7, <3>1, <4>1 DEF AsyncOnly, Still
    <3>3. \A q \in Records : q # Chan(n) => ppn'[q] = ppn[q]
      BY <1>0, TypesThen
    <3>4. \A q \in Records : cause[q] # None =>
             /\ pact[q] /\ q >= Chan(cause[q]) /\ ppn'[q] = cause[q]
             /\ state'[cause[q]] = "notifyProcessInProgress"
      BY <1>0, <1>2, <1>7, <2>1, <3>1, <3>3 DEF Still
    <3>5. \A q \in Records \ inst.async : ppn'[q] = None /\ ~pact[q]
      BY <3>1, <3>2, <3>3 DEF Still
    <3>. QED  BY <1>7, <3>2, <3>4, <3>5 DEF Still
  <2>2. cut' = {} => \A u \in Threads : ~Working(u)'
    BY <1>0, <1>6, <1>7
  <2>. QED  BY <2>1, <2>2, StillNext
<1>10. TypeOK'
  <2>1. /\ th' \in [Threads -> Place] /\ putf' = putf /\ restartList' = restartList
        /\ callbacks' = callbacks /\ refused' = refused
    BY <1>0, <1>1, TypesThen DEF cbVars
  <2>. QED  BY <1>0, <1>2, <1>4, <1>7, <2>1, TypesThen, TypesKept, SMTT(60), ZenonT(60) DEF Besides
<1>. QED  BY <1>4, <1>5, <1>7, <1>8, <1>9, <1>10 DEF NotifyInv

\* Its record is processed for it.
LEMMA EnterProcess ==
    ASSUME NotifyInv, NEW n \in Notifies, NEW t \in Threads, NEW first, Enters(n, t, first), Fresh(n),
           ~Locked(Chan(n)), Besides, first => ppn[Chan(n)] = None, ~pact[Chan(n)],
           state' = [state EXCEPT ![n] = "notifyProcessInProgress"],
           putf' = [putf EXCEPT ![Chan(n)] = @ \/ first],
           ppn' = [ppn EXCEPT ![Chan(n)] = n],
           waitList' = [waitList EXCEPT ![n] = Append(@, Chan(n))],
           th' = [th EXCEPT ![t] = [Idle EXCEPT !.pc = "process", !.from = Chan(n), !.at = Chan(n),
                                                !.cause = n]],
           UNCHANGED <<restartList, cbVars>>
    PROVE  NotifyInv'
<1>0. /\ TypeOK /\ Places /\ Locks /\ Life /\ Lists /\ PvtsReturned /\ OneCallback
      /\ Putf /\ Chain /\ OwnersAgree
      /\ n \in Threads /\ n # None /\ Chan(n) \in Records
      /\ state[n] \notin InProgress \cup {"notifyWaitForRestart"}
      /\ \A q \in Records : ppn[q] = n => q = Chan(n)
      /\ ~Working(t)
      /\ cut = {} => Still /\ \A u \in Threads : ~Working(u)
      /\ \A q \in Records : cut = {} /\ cause[q] # None =>
            q # Chan(n) /\ cause[q] # n /\ cause[q] \in Notifies
  BY EnterThen
<1>r. PICK r \in Records : r = Chan(n)
  BY <1>0
<1>e. PICK e : e = [Idle EXCEPT !.pc = "process", !.from = r, !.at = r, !.cause = n]
  OBVIOUS
<1>1. /\ th' = [th EXCEPT ![t] = e] /\ e \in Place /\ e.pc = "process" /\ e.from = r /\ e.at = r
      /\ e.cause = n /\ r \in Int
  <2>1. e \in Place
    BY <1>0, <1>e, OtherPlace DEF Place, Processing
  <2>2. e.pc = "process" /\ e.from = r /\ e.at = r /\ e.cause = n
    BY <1>e DEF Idle
  <2>. QED  BY <1>0, <1>e, <1>r, <2>1, <2>2, Typed
<1>a. th'[t] = e /\ \A u \in Threads : u # t => th'[u] = th[u]
  <2>1. th \in [Threads -> Place]
    BY <1>0, TypesThen
  <2>. QED  BY ONLY t \in Threads, <1>1, <2>1
<1>2. /\ \A m \in Notifies : state'[m] = IF m = n THEN "notifyProcessInProgress" ELSE state[m]
      /\ state' \in [Notifies -> States] /\ "notifyProcessInProgress" \in InProgress
  <2>1. "notifyProcessInProgress" \in States /\ state \in [Notifies -> States]
    BY <1>0, TypesThen DEF States, InProgress
  <2>. QED  BY <2>1 DEF InProgress
<1>3. ~Canceled(n)' /\ \A m \in Notifies : m # n => (Canceled(m)' <=> Canceled(m))
  BY <1>0, FreshThen
<1>4. /\ Lists' /\ waitList' \in [Notifies -> Seq(Records)]
      /\ ppn' \in [Records -> Notifies \cup {None}]
  <2>1. OneState(n, "notifyProcessInProgress")
    BY <1>2, <1>3 DEF OneState
  <2>2. ppn[Chan(n)] \in {None, n}
    BY DEF Enters
  <2>3. UNCHANGED inst /\ UNCHANGED restartList
    BY DEF Besides
  <2>. QED  BY <1>0, <1>2, <1>3, <2>1, <2>2, <2>3, OwnLists
<1>5. Places' /\ Life' /\ OneCallback'
  <2>1. /\ e.pc \in {"idle", "process", "calling"} /\ e.pc # "calling" /\ e.pc # "callback"
        /\ state'[n] \in {"notifyWaitForRestart", "notifyUserCallbackActive"} \cup InProgress
        /\ \A m \in Notifies : m # n => state'[m] = state[m]
    BY <1>1, <1>2
  <2>2. /\ n \notin refused' /\ Times(callbacks', n) = 0
        /\ \A m \in Notifies : m # n =>
              /\ Called(m)' = IF state'[m] \in Requested /\ m \notin refused' /\ ~Canceled(m)'
                              THEN 1 ELSE 0
              /\ m \in refused' => state'[m] \in Requested /\ ~Canceled(m)'
    BY <1>0, <1>1, <2>1, SameCalls, ZenonT(60)
  <2>3. /\ \A m \in Notifies : m # n =>
              \/ state'[m] = state[m]
              \/ state[m] = "notifyWaitForRestart" /\ state'[m] = "notifyRestartCallbackRequested"
        /\ Enters(n, t, first) /\ Fresh(n)
        /\ e.pc = "calling" => e.n = n /\ state'[n] = "notifyUserCallbackActive"
    BY <2>1
  <2>. QED  BY ONLY n \in Notifies, t \in Threads, <1>0, <1>1, <2>1, <2>2, <2>3, EnterKeeps
<1>7. /\ UNCHANGED <<inst, cut, pact, rpro, pending, onceQ, scans, cause, owed>> /\ PvtsReturned'
      /\ \A m : Chan(m)' = Chan(m)
  BY DEF Besides, Chan
<1>6. Locks'
  <2>1. e.pc \in Processing =>
              /\ e.from <= e.at
              /\ \A c \in cut : ~(e.from <= c /\ c < e.at)
              /\ e.pc = "add" => e.at \notin cut /\ e.at + 1 \in Records
              /\ e.pc \in {"notify", "disabled", "add"} => e.ppn # None
              /\ \/ Working(t) /\ e.from = th[t].from
                 \/ ~Locked(e.from)
    <3>1. \A c \in cut : c \in Int
      BY <1>0, Typed, NotifyAssumption DEF TypeOK
    <3>2. \A c \in cut : ~(e.from <= c /\ c < e.at)
      BY <1>1, <3>1
    <3>. QED  BY <1>1, <1>r, <3>2
  <2>. QED  BY <1>0, <1>1, <1>7, <2>1, LocksGo
<1>8. Putf'
  <2>1. \A q \in Records : q # r => putf'[q] = putf[q]
    BY <1>0, <1>r, TypesThen
  <2>2. ASSUME NEW q \in Records, putf'[q] \/ rpro'[q]
        PROVE  pact'[q] \/ \E u \in Threads : th'[u].pc = "process" /\ th'[u].at = q
    <3>1. CASE q = r
      BY <1>1, <1>a, <3>1
    <3>2. CASE q # r
      <4>1. pact[q] \/ \E u \in Threads : th[u].pc = "process" /\ th[u].at = q
        BY <1>0, <1>7, <2>1, <2>2, <3>2 DEF Putf
      <4>2. th[t].pc # "process"
        BY DEF Enters
      <4>. QED  BY <1>7, <1>a, <4>1, <4>2
    <3>. QED  BY <3>1, <3>2
  <2>. QED  BY <2>2 DEF Putf
<1>9. Chain'
  <2>1. ASSUME cut' = {}
        PROVE  (\A u \in Threads : Working(u)' => u = t) /\ AsyncOnly' /\ ChainOf(th[t])'
    <3>1. cut = {} /\ Still /\ \A u \in Threads : ~Working(u)
      BY <1>0, <1>7, <2>1
    <3>2. \A u \in Threads : Working(u)' => u = t
      BY <1>a, <3>1 DEF Working
    <3>3. AsyncOnly'
      BY <1>2, <1>7, <3>1 DEF AsyncOnly, Still
    <3>4. \A q \in Records : ppn'[q] = IF q = r THEN n ELSE ppn[q]
      BY <1>0, <1>r, TypesThen
    <3>5. AtOwner(th[t])'
      BY <1>1, <1>a DEF AtOwner
    <3>6. AtSync(th[t])'
      <4>1. \A q \in Records \ inst.async : (ppn'[q] # None => q = r) /\ ~pact[q]
        BY <3>1, <3>4 DEF Still
      <4>2. \A q \in Records \ inst'.async :
               /\ ppn'[q] # None => /\ th'[t].pc = "process" /\ th'[t].from <= q /\ q <= th'[t].at
               /\ ~pact'[q]
        <5>1. inst' = inst /\ pact' = pact
          BY <1>7
        <5>2. th'[t].pc = "process" /\ th'[t].from = r /\ th'[t].at = r
          BY <1>1, <1>a
        <5>3. r <= r
          BY <1>1
        <5>. QED  BY ONLY <4>1, <5>1, <5>2, <5>3
      <4>. QED  BY ONLY <4>2 DEF AtSync, AtBy, Processing
    <3>7. AtCauses(th[t])'
      <4>1. ASSUME NEW q \in Records, cause[q] # None
            PROVE  /\ pact[q] /\ q >= Chan(cause[q]) /\ ppn'[q] = cause[q]
                   /\ state'[cause[q]] = "notifyProcessInProgress"
        <5>1. /\ pact[q] /\ q >= Chan(cause[q]) /\ ppn[q] = cause[q]
              /\ state[cause[q]] = "notifyProcessInProgress"
          BY <3>1, <4>1 DEF Still
        <5>2. q # r /\ cause[q] # n /\ cause[q] \in Notifies
          BY <1>0, <1>r, <3>1, <4>1
        <5>. QED  BY <1>2, <3>4, <5>1, <5>2
      <4>2. \A q \in Records : cause'[q] # None =>
              /\ state'[cause'[q]] # "notifyUserCallbackActive" /\ pact'[q]
              /\ q >= inst'.chan[cause'[q]]
              /\ ppn'[q] = cause'[q] /\ state'[cause'[q]] = "notifyProcessInProgress"
        BY <1>7, <4>1 DEF Chan
      <4>. QED  BY ONLY <4>2 DEF AtCauses, Chan
    <3>8. AtPath(th[t])'
      <4>1. /\ e.from >= Chan(n)' /\ state'[n] = "notifyProcessInProgress" /\ ppn'[r] = n
            /\ \A q \in Records : ~(r <= q /\ q <= r - 1)
        <5>1. \A q \in Records : q \in Int
          BY <1>0, Typed
        <5>. QED  BY <1>1, <1>2, <1>7, <1>r, <3>4, <5>1
      <4>. QED  BY <1>1, <1>a, <4>1 DEF AtPath, AtPast
    <3>. QED  BY <3>2, <3>3, <3>5, <3>6, <3>7, <3>8 DEF ChainOf
  <2>. QED  BY <2>1, ChainNext
<1>10. TypeOK'
  <2>1. /\ th' \in [Threads -> Place] /\ restartList' = restartList
        /\ callbacks' = callbacks /\ refused' = refused
    BY <1>0, <1>1, TypesThen DEF cbVars
  <2>2. putf' \in [Records -> BOOLEAN]
    <3>1. first \in BOOLEAN /\ putf \in [Records -> BOOLEAN]
      BY <1>0, TypesThen DEF Enters
    <3>. QED  BY <1>0, <3>1
  <2>. QED  BY <1>0, <1>2, <1>4, <1>7, <2>1, <2>2, TypesThen, TypesKept DEF Besides
<1>. QED  BY <1>4, <1>5, <1>6, <1>7, <1>8, <1>9, <1>10 DEF NotifyInv

\* The request n gives back rs, is in state new, and no record is busy for it.
GivenBack(n, new, rs) ==
    /\ new \in {"notifyWaitForRestart", "notifyRestartInProgress",
               "notifyRestartCallbackRequested"} => new = state[n]
    /\ \A q \in Records : IsIn(rs, q) => ppn[q] = n
    /\ \A q \in Records : ppn'[q] = IF IsIn(rs, q) THEN Owner(q) ELSE ppn[q]
    /\ \A q \in Records : cause'[q] # None => cause'[q] = cause[q] /\ cause[q] # n
    /\ \A m \in Notifies : /\ Heir(m, rs) => m # n /\ state[m] = "notifyWaitForRestart"
                           /\ state'[m] = IF Heir(m, rs) THEN "notifyRestartCallbackRequested"
                                          ELSE IF m = n THEN new ELSE state[m]

\* Who is to be restarted waited for a record that completes later.
LEMMA GivenStill ==
    ASSUME TypeOK, Still, UNCHANGED <<inst, pact>>, NEW n \in Notifies, NEW new, NEW rs,
           GivenBack(n, new, rs)
    PROVE  Still'
<1> USE DEF GivenBack
<1>1. /\ AsyncOnly /\ \A m : Chan(m)' = Chan(m)
      /\ \A r \in Records \ inst.async : ppn[r] = None /\ ~pact[r]
      /\ \A r \in Records : cause[r] # None =>
            /\ pact[r] /\ r >= Chan(cause[r]) /\ ppn[r] = cause[r]
            /\ state[cause[r]] = "notifyProcessInProgress" /\ cause[r] \in Notifies
      /\ n # None
  BY Typed DEF Still, Chan
<1>2. AsyncOnly'
  <2>1. ASSUME NEW m \in Notifies,
               state'[m] \in {"notifyWaitForRestart", "notifyRestartInProgress",
                              "notifyRestartCallbackRequested"}
        PROVE  Chan(m) \in inst.async
    <3>1. state[m] \in {"notifyWaitForRestart", "notifyRestartInProgress",
                        "notifyRestartCallbackRequested"}
      BY <2>1
    <3>. QED  BY <1>1, <3>1 DEF AsyncOnly
  <2>. QED  BY <1>1, <2>1 DEF AsyncOnly
<1>3. \A r \in Records \ inst.async : ppn'[r] = None /\ ~pact'[r]
  <2>1. \A r \in Records \ inst.async : ~IsIn(rs, r)
    BY <1>1
  <2>. QED  BY <1>1, <2>1
<1>4. ASSUME NEW r \in Records, cause'[r] # None, NEW c, c = cause'[r]
      PROVE  /\ pact'[r] /\ r >= Chan(c) /\ ppn'[r] = c /\ state'[c] = "notifyProcessInProgress"
  <2>1. /\ pact[r] /\ r >= Chan(c) /\ ppn[r] = c /\ c # n
        /\ state[c] = "notifyProcessInProgress" /\ c \in Notifies
    BY <1>1, <1>4
  <2>2. ~IsIn(rs, r)
    BY <2>1
  <2>3. ~Heir(c, rs)
    BY <2>1
  <2>. QED  BY <2>1, <2>2, <2>3
<1>5. \A r \in Records : cause'[r] # None =>
            /\ pact'[r] /\ r >= inst'.chan[cause'[r]] /\ ppn'[r] = cause'[r]
            /\ state'[cause'[r]] = "notifyProcessInProgress"
  BY <1>4 DEF Chan
<1>6. \A r \in Records \ inst'.async : ppn'[r] = None /\ ~pact'[r]
  BY <1>3
<1>. QED  BY ONLY <1>2, <1>5, <1>6 DEF Still, Chan

\* doneCallback is to be called, and what the request owned is given back.
LEMMA EnterCalls ==
    ASSUME NotifyInv, NEW n \in Notifies, NEW t \in Threads, NEW first, Enters(n, t, first), Fresh(n),
           ~Locked(Chan(n)), Besides, first => ppn[Chan(n)] = None,
           restartCheck(IF first THEN <<>> ELSE <<Chan(n)>>,
                        [state EXCEPT ![n] = "notifyUserCallbackActive"], <<>>),
           th' = [th EXCEPT ![t] = [Idle EXCEPT !.pc = "calling", !.n = n]],
           UNCHANGED <<waitList, putf>>
    PROVE  NotifyInv'
<1>0. /\ TypeOK /\ Places /\ Locks /\ Life /\ Lists /\ PvtsReturned /\ OneCallback
      /\ Putf /\ Chain /\ OwnersAgree
      /\ n \in Threads /\ n # None /\ Chan(n) \in Records
      /\ state[n] \notin InProgress \cup {"notifyWaitForRestart"} /\ waitList[n] = <<>>
      /\ \A q \in Records : ppn[q] = n => q = Chan(n)
      /\ ~Working(t)
      /\ cut = {} => Still /\ \A u \in Threads : ~Working(u)
      /\ \A q \in Records : cut = {} /\ cause[q] # None =>
            q # Chan(n) /\ cause[q] # n /\ cause[q] \in Notifies
  BY EnterThen
<1>e. PICK e : e = [Idle EXCEPT !.pc = "calling", !.n = n]
  OBVIOUS
<1>1. /\ th' = [th EXCEPT ![t] = e] /\ e \in Place /\ e.pc = "calling" /\ e.n = n
  <2>1. e \in Place
    BY <1>0, <1>e, OtherPlace DEF Place
  <2>2. e.pc = "calling" /\ e.n = n
    BY <1>e DEF Idle
  <2>. QED  BY <1>e, <2>1, <2>2
<1> DEFINE new == "notifyUserCallbackActive"
<1>s. PICK rs \in Seq(Records), s \in [Notifies -> States], more \in Seq(Notifies), w \in Seq(Records) :
         /\ restartCheck(rs, s, more) /\ \A m \in Notifies : s[m] = IF m = n THEN new ELSE state[m]
         /\ rs = (IF first THEN <<>> ELSE <<Chan(n)>>) /\ more = <<>> /\ w = <<>>
  <2>1. /\ [state EXCEPT ![n] = new] \in [Notifies -> States]
        /\ \A m \in Notifies : [state EXCEPT ![n] = new][m] = IF m = n THEN new ELSE state[m]
    <3>1. state \in [Notifies -> States] /\ new \in States
      BY <1>0, TypesThen DEF States
    <3>. QED  BY <3>1
  <2>2. (IF first THEN <<>> ELSE <<Chan(n)>>) \in Seq(Records) /\ <<>> \in Seq(Notifies)
        /\ <<>> \in Seq(Records)
    BY <1>0
  <2>. QED  BY <2>1, <2>2
<1>2. /\ new \in States /\ new \notin InProgress /\ new \notin Requested
      /\ new \notin {"notifyWaitForRestart", "notifyRestartInProgress", "notifyRestartCallbackRequested"}
  BY DEF States, InProgress, Requested
<1>3. ~Canceled(n)' /\ \A m \in Notifies : m # n => (Canceled(m)' <=> Canceled(m))
  BY <1>0, FreshThen
<1>4. /\ \A q \in Records : /\ Times(rs, q) <= 1 /\ (IsIn(rs, q) <=> ~first /\ q = Chan(n))
                            /\ Times(w, q) = 0 /\ ~IsIn(w, q)
      /\ \A m \in Notifies : Times(more, m) = 0
      /\ \A q \in Records : IsIn(rs, q) <=> ppn[q] = n
  <2>1. \A q \in Records : /\ Times(<<Chan(n)>>, q) = IF Chan(n) = q THEN 1 ELSE 0
                           /\ IsIn(<<Chan(n)>>, q) <=> Chan(n) = q
                           /\ Times(<<>>, q) = 0 /\ ~IsIn(<<>>, q)
    BY TimesOne
  <2>2. \A m \in Notifies : Times(<<>>, m) = 0
    BY TimesOne
  <2>3. \A q \in Records : Times(rs, q) <= 1 /\ (IsIn(rs, q) <=> ~first /\ q = Chan(n))
    BY <1>s, <2>1 DEF Enters
  <2>4. first \in BOOLEAN /\ (first => \A q \in Records : ppn[q] # n) /\ (~first => ppn[Chan(n)] = n)
    BY DEF Enters
  <2>. QED  BY <1>0, <1>s, <2>1, <2>2, <2>3, <2>4
<1>5. Lists' /\ waitList' \in [Notifies -> Seq(Records)]
  <2>1. GivesBack(n, new, w, rs)
    <3>1. waitList' = [waitList EXCEPT ![n] = w]
      <4>1. waitList \in [Notifies -> Seq(Records)] /\ w = waitList[n] /\ waitList' = waitList
        BY <1>0, <1>s, TypesThen
      <4>. QED  BY <4>1
    <3>2. (w # <<>>) = (new \in InProgress)
      BY <1>2, <1>s
    <3>3. \A q \in Records :
          /\ Times(rs, q) <= 1 /\ Times(w, q) <= 1
          /\ IsIn(rs, q) => ppn[q] = n
          /\ IsIn(w, q) => ppn[q] = n /\ ~IsIn(rs, q)
          /\ ppn[q] = n => IsIn(rs, q)
      BY <1>4
    <3>. QED  BY <1>0, <1>2, <1>3, <3>1, <3>2, <3>3 DEF GivesBack
  <2>2. UNCHANGED inst
    BY DEF Besides
  <2>3. TypeOK /\ Lists /\ Life /\ restartCheck(rs, s, more)
        /\ \A m \in Notifies : s[m] = IF m = n THEN new ELSE state[m]
    BY <1>0, <1>s
  <2>4. new \in States
    BY <1>2
  <2>. HIDE DEF new
  <2>. QED  BY ONLY n \in Notifies, w \in Seq(Records), rs \in Seq(Records), more \in Seq(Notifies),
               s \in [Notifies -> States], <2>1, <2>2, <2>3, <2>4, RestartLists
<1>6. /\ \A m \in Notifies : m # n =>
            /\ Called(m)' = IF state'[m] \in Requested /\ m \notin refused' /\ ~Canceled(m)'
                            THEN 1 ELSE 0
            /\ m \in refused' => state'[m] \in Requested /\ ~Canceled(m)'
      /\ n \in refused' => n \in refused \/ Times(more, n) > 0
      /\ n \notin refused => Times(callbacks', n) =
            Times(callbacks, n) + IF n \in refused' THEN 0 ELSE Times(more, n)
      /\ \A m \in Notifies : /\ Heir(m, rs) => m # n /\ state[m] = "notifyWaitForRestart"
                             /\ state'[m] = IF Heir(m, rs) THEN "notifyRestartCallbackRequested"
                                            ELSE IF m = n THEN new ELSE state[m]
      /\ callbacks' \in Seq(Notifies) /\ refused' \subseteq Notifies
      /\ state' \in [Notifies -> States]
      /\ ppn' \in [Records -> Notifies \cup {None}]
      /\ restartList' \in [Records -> Seq(Notifies)]
      /\ \A q \in Records : ppn'[q] = IF IsIn(rs, q) THEN Owner(q) ELSE ppn[q]
  <2>1. \A m \in Notifies : m # n => InCallback(m)' = InCallback(m)
    <3>1. th[t].pc = "callback" => th[t].n = n
      BY DEF Enters
    <3>. QED  BY <1>0, <1>1, <3>1, OthersCalls
  <2>2. \A m \in Notifies : m # n => /\ Times(more, m) = 0
                                     /\ InCallback(m)' = InCallback(m)
                                     /\ Canceled(m)' <=> Canceled(m)
    BY <1>3, <1>4, <2>1
  <2>3. /\ TypeOK /\ Lists /\ Life /\ PvtsReturned /\ OneCallback /\ restartCheck(rs, s, more)
        /\ \A m \in Notifies : s[m] = IF m = n THEN new ELSE state[m]
        /\ \A q \in Records : Times(rs, q) <= 1
        /\ state[n] # "notifyWaitForRestart" /\ new \in States
    BY <1>0, <1>2, <1>4, <1>s
  <2>. HIDE DEF new
  <2>. QED  BY ONLY n \in Notifies, rs \in Seq(Records), more \in Seq(Notifies),
               s \in [Notifies -> States], <2>2, <2>3, RestartCalls
<1>7. Places' /\ Life' /\ OneCallback'
  <2>1. n \notin refused' /\ Times(callbacks', n) = 0
    <3>1. n \notin refused /\ Times(callbacks, n) = 0 /\ Times(more, n) = 0
      BY <1>4 DEF Enters
    <3>. QED  BY <1>6, <3>1
  <2>2. /\ state'[n] = "notifyUserCallbackActive"
        /\ \A m \in Notifies : m # n =>
              \/ state'[m] = state[m]
              \/ state[m] = "notifyWaitForRestart" /\ state'[m] = "notifyRestartCallbackRequested"
    BY <1>6
  <2>3. Enters(n, t, first) /\ Fresh(n)
    OBVIOUS
  <2>. QED  BY ONLY n \in Notifies, t \in Threads, <1>0, <1>1, <1>6, <2>1, <2>2, <2>3, EnterKeeps
<1>8. SameWork /\ \A u \in Threads : Working(u)' <=> Working(u)
  <2>1. e.pc \notin Processing
    BY <1>1 DEF Processing
  <2>2. TypeOK /\ ~Working(t) /\ th' = [th EXCEPT ![t] = e] /\ e \in Place
    BY <1>0, <1>1
  <2>. QED  BY ONLY t \in Threads, <2>1, <2>2, Apart
<1>9. /\ UNCHANGED <<inst, cut, pact, rpro, pending, onceQ, scans, cause, owed>> /\ PvtsReturned'
  BY DEF Besides
<1>10. Locks' /\ Putf'
  BY <1>0, <1>8, <1>9, RestKeeps
<1>11. Chain'
  <2>1. ASSUME cut' = {} PROVE Still'
    <3>1. TypeOK /\ Still /\ UNCHANGED <<inst, pact>>
      BY <1>0, <1>9, <2>1
    <3>2. \A q \in Records : cause'[q] # None => cause'[q] = cause[q] /\ cause[q] # n
      BY <1>0, <1>9, <2>1
    <3>3. GivenBack(n, new, rs)
      BY <1>2, <1>4, <1>6, <3>2 DEF GivenBack
    <3>. QED  BY <3>1, <3>3, GivenStill
  <2>2. cut' = {} => \A u \in Threads : ~Working(u)'
    BY <1>0, <1>8, <1>9
  <2>. QED  BY <2>1, <2>2, StillNext
<1>12. TypeOK'
  <2>1. /\ th' \in [Threads -> Place] /\ putf' = putf
    BY <1>0, <1>1, TypesThen
  <2>. QED  BY <1>0, <1>5, <1>6, <1>9, <2>1, TypesThen, TypesKept DEF Besides
<1>. QED  BY <1>5, <1>7, <1>9, <1>10, <1>11, <1>12 DEF NotifyInv

\* processNotifyCommon, in each of the ways a request goes on.
LEMMA CommonStep ==
    ASSUME NotifyInv, NEW n \in Notifies, NEW t \in Threads, NEW first, Enters(n, t, first), Fresh(n),
           ~Locked(Chan(n)), Besides, processNotifyCommon(n, t, first)
    PROVE  NotifyInv'
<1> DEFINE r == Chan(n)
<1>0. NotifyInv /\ Enters(n, t, first) /\ Fresh(n) /\ ~Locked(Chan(n)) /\ Besides
  OBVIOUS
<1>1. CASE /\ first /\ ppn[r] # None
           /\ state' = [state EXCEPT ![n] = "notifyWaitForRestart"]
           /\ restartList' = [restartList EXCEPT ![r] = Append(@, n)]
           /\ Rests(t)
           /\ UNCHANGED <<ppn, waitList, putf, cbVars>>
  <2>1. first = TRUE
    BY <1>1 DEF Enters
  <2>2. Enters(n, t, TRUE)
    BY <1>0, <2>1
  <2>. QED  BY ONLY n \in Notifies, t \in Threads, <1>0, <1>1, <2>2, EnterWaits
<1>2. CASE /\ first => ppn[r] = None
           /\ pact[r]
           /\ state' = [state EXCEPT ![n] = "notifyRestartInProgress"]
           /\ ppn' = [ppn EXCEPT ![r] = n] /\ waitList' = [waitList EXCEPT ![n] = Append(@, r)]
           /\ Rests(t)
           /\ UNCHANGED <<restartList, putf, cbVars>>
  BY ONLY n \in Notifies, t \in Threads, <1>0, <1>2, EnterBusy
<1>3. CASE /\ first => ppn[r] = None
           /\ ~pact[r]
           /\ state' = [state EXCEPT ![n] = "notifyProcessInProgress"]
           /\ putf' = [putf EXCEPT ![r] = @ \/ first]
           /\ ppn' = [ppn EXCEPT ![r] = n] /\ waitList' = [waitList EXCEPT ![n] = Append(@, r)]
           /\ th' = [th EXCEPT ![t] = [Idle EXCEPT !.pc = "process", !.from = r, !.at = r,
                                                   !.cause = n]]
           /\ UNCHANGED <<restartList, cbVars>>
  BY ONLY n \in Notifies, t \in Threads, <1>0, <1>3, EnterProcess
<1>4. CASE /\ first => ppn[r] = None
           /\ restartCheck(IF first THEN <<>> ELSE <<r>>,
                           [state EXCEPT ![n] = "notifyUserCallbackActive"], <<>>)
           /\ th' = [th EXCEPT ![t] = [Idle EXCEPT !.pc = "calling", !.n = n]]
           /\ UNCHANGED <<waitList, putf>>
  BY ONLY n \in Notifies, t \in Threads, <1>0, <1>4, EnterCalls
<1>. QED  BY <1>1, <1>2, <1>3, <1>4 DEF processNotifyCommon

\* One callback, in the queue or in a thread.
LEMMA CalledOnce ==
    ASSUME TypeOK, Life, OneCallback, NEW n \in Notifies
    PROVE  /\ Called(n) = Times(callbacks, n) + Cardinality(InCallback(n))
           /\ Times(callbacks, n) \in Nat /\ IsFiniteSet(InCallback(n))
           /\ Cardinality(InCallback(n)) \in Nat
           /\ Called(n) = 0 <=> Times(callbacks, n) = 0 /\ InCallback(n) = {}
           /\ state[n] \notin Requested => Times(callbacks, n) = 0 /\ InCallback(n) = {} /\ n \notin refused
           /\ \A w \in InCallback(n) : /\ state[n] \in Requested /\ n \notin refused /\ ~Canceled(n)
                                       /\ Times(callbacks, n) = 0 /\ InCallback(n) = {w}
           /\ IsIn(callbacks, n) => /\ state[n] \in Requested /\ n \notin refused /\ ~Canceled(n)
                                    /\ Times(callbacks, n) = 1 /\ InCallback(n) = {}
<1>1. Called(n) = Times(callbacks, n) + Cardinality(InCallback(n))
  BY DEF Called, InCallback
<1>2. /\ IsFiniteSet(InCallback(n)) /\ Cardinality(InCallback(n)) \in Nat
  BY NotifyAssumption, FS_Subset, FS_CardinalityType DEF InCallback
<1>3. /\ Times(callbacks, n) \in Nat /\ (IsIn(callbacks, n) <=> Times(callbacks, n) > 0)
  <2>1. callbacks \in Seq(Notifies)
    BY TypesThen
  <2>. QED  BY <2>1, TimesIn
<1>4. InCallback(n) = {} <=> Cardinality(InCallback(n)) = 0
  BY <1>2, FS_EmptySet
<1>5. Called(n) = IF state[n] \in Requested /\ n \notin refused /\ ~Canceled(n) THEN 1 ELSE 0
  BY DEF OneCallback
<1>6. n \in refused => state[n] \in Requested
  BY DEF Life, LifeOf
<1>7. ASSUME NEW w \in InCallback(n)
      PROVE  /\ state[n] \in Requested /\ n \notin refused /\ ~Canceled(n)
             /\ Times(callbacks, n) = 0 /\ InCallback(n) = {w}
  <2>1. Called(n) = 1 /\ Cardinality(InCallback(n)) = 1 /\ Times(callbacks, n) = 0
    BY <1>1, <1>2, <1>3, <1>4, <1>5, <1>7
  <2>2. Cardinality(InCallback(n) \ {w}) = 0 /\ IsFiniteSet(InCallback(n) \ {w})
    BY <1>2, <1>7, <2>1, FS_RemoveElement
  <2>3. InCallback(n) \ {w} = {}
    BY <2>2, FS_EmptySet
  <2>. QED  BY <1>5, <1>7, <2>1, <2>3
<1>8. ASSUME IsIn(callbacks, n)
      PROVE  /\ state[n] \in Requested /\ n \notin refused /\ ~Canceled(n)
             /\ Times(callbacks, n) = 1 /\ InCallback(n) = {}
  BY <1>1, <1>2, <1>3, <1>4, <1>5, <1>8
<1>9. Called(n) = 0 <=> Times(callbacks, n) = 0 /\ InCallback(n) = {}
  BY <1>1, <1>2, <1>3, <1>4
<1>. QED  BY <1>1, <1>2, <1>3, <1>5, <1>6, <1>7, <1>8, <1>9

\* Only the place of t changes in it.
LEMMA CommonPlace ==
    ASSUME TypeOK, NEW n \in Notifies, NEW t \in Threads, NEW first, processNotifyCommon(n, t, first)
    PROVE  \A u \in Threads : u # t => th'[u] = th[u]
<1>1. th \in [Threads -> Place]
  BY TypesThen
<1>. QED  BY <1>1 DEF processNotifyCommon, Rests

\* A signal left in a notifyPvt is not for the request n.
OthersSignals(n) ==
    /\ cancelEvent' \in [Pvts -> BOOLEAN] /\ userCallbackEvent' \in [Pvts -> BOOLEAN]
    /\ \A p \in Pvts : p # pvt[n] => /\ cancelEvent'[p] = cancelEvent[p]
                                     /\ userCallbackEvent'[p] = userCallbackEvent[p]
    /\ \A p \in Pvts : p = pvt[n] => ~cancelEvent'[p] /\ ~userCallbackEvent'[p]

\* dbProcessNotify of a request that is not under way and whose callback, if any, is over.
LEMMA BeginStep ==
    ASSUME NotifyInv, NEW n \in Notifies, NEW free \in Seq(Pvts), Begin(n, free),
           \A p \in Pvts : Times(free, p) = Times(freeList, p) + (IF pvt[n] = p THEN 1 ELSE 0),
           free = <<>> => freeList = <<>> /\ pvt[n] = 0,
           OthersSignals(n), ~Locked(Chan(n)), th[n].pc \in {"idle", "waitUser"},
           state[n] \in {"notifyNotActive", "notifyUserCallbackActive"},
           \A u \in Threads : ~CallsFor(u, n),
           UNCHANGED <<inst, cut, pact, rpro, pending, onceQ, scans, cause, owed>>,
           requests' \in [Notifies -> 0 .. inst.requests]
    PROVE  NotifyInv'
<1>0. /\ TypeOK /\ Places /\ Life /\ Lists /\ PvtsReturned /\ OneCallback /\ OwnersAgree
      /\ n \in Threads
  BY Typed DEF NotifyInv, Lists
<1>1. /\ pvt' = [pvt EXCEPT ![n] = Allocated(n, free)]
      /\ freeList' = IF free = <<>> THEN <<>> ELSE Tail(free)
      /\ cancelWait' = [cancelWait EXCEPT ![n] = FALSE]
      /\ userCallbackWait' = [userCallbackWait EXCEPT ![n] = FALSE]
      /\ served' = [served EXCEPT ![n] = FALSE]
      /\ processNotifyCommon(n, n, TRUE)
  BY DEF Begin
<1>2. /\ Counted' /\ freeList' \in Seq(Pvts) /\ pvt' \in [Notifies -> {0} \cup Pvts]
      /\ pvt'[n] \in Pvts /\ pvt'[n] # 0
      /\ \A m \in Notifies : m # n => pvt'[m] = pvt[m] /\ pvt[m] # pvt'[n]
  <2>1. /\ TypeOK /\ PvtsReturned
        /\ \A p \in Pvts : Times(free, p) = Times(freeList, p) + (IF pvt[n] = p THEN 1 ELSE 0)
        /\ free = <<>> => freeList = <<>> /\ pvt[n] = 0
    BY <1>0
  <2>. QED  BY ONLY n \in Notifies, free \in Seq(Pvts), <1>1, <2>1, AllocateCount
<1>3. \A u \in Threads : u # n => th'[u] = th[u]
  BY <1>0, <1>1, CommonPlace
<1>4. /\ cancelWait' \in [Notifies -> BOOLEAN] /\ userCallbackWait' \in [Notifies -> BOOLEAN]
      /\ served' \in [Notifies -> BOOLEAN]
      /\ cancelWait'[n] = FALSE /\ userCallbackWait'[n] = FALSE /\ served'[n] = FALSE
      /\ \A m \in Notifies : m # n => /\ cancelWait'[m] = cancelWait[m] /\ served'[m] = served[m]
                                      /\ userCallbackWait'[m] = userCallbackWait[m]
  <2>1. /\ cancelWait \in [Notifies -> BOOLEAN] /\ userCallbackWait \in [Notifies -> BOOLEAN]
        /\ served \in [Notifies -> BOOLEAN]
    BY <1>0, TypesThen
  <2>. QED  BY ONLY n \in Notifies, <1>1, <2>1
<1>5. ASSUME NEW p \in Pvts, cancelEvent'[p] \/ userCallbackEvent'[p]
      PROVE  \E m \in Notifies : m # n /\ pvt'[m] = p /\ th'[m].pc \in {"waitCancel", "waitUser"}
  <2>1. p # pvt[n] /\ (cancelEvent[p] \/ userCallbackEvent[p])
    BY <1>5 DEF OthersSignals
  <2>2. PICK m \in Notifies : pvt[m] = p /\ th[m].pc \in {"waitCancel", "waitUser"}
    BY <1>0, <2>1 DEF PvtsReturned
  <2>3. m # n /\ m \in Threads
    BY <1>0, <2>1, <2>2, Typed
  <2>. QED  BY <1>2, <1>3, <2>2, <2>3
<1>6. PvtsReturned'
  <2>1. Pvts' = Pvts
    BY DEF Pvts
  <2>. QED  BY <1>2, <1>5, <2>1 DEF PvtsReturned, Counted
<1>7. Fresh(n)
  <2>1. ~cancelEvent'[pvt'[n]] /\ ~userCallbackEvent'[pvt'[n]]
    BY ONLY <1>2, <1>5
  <2>2. ASSUME NEW m \in Notifies, m # n, pvt[m] # 0
        PROVE  /\ cancelEvent'[pvt[m]] = cancelEvent[pvt[m]]
               /\ userCallbackEvent'[pvt[m]] = userCallbackEvent[pvt[m]]
    <3>1. pvt[m] \in Pvts /\ pvt[m] # pvt[n]
      BY <1>0, <2>2, Typed, Unshared
    <3>. QED  BY <3>1 DEF OthersSignals
  <2>. QED  BY <1>2, <1>4, <2>1, <2>2 DEF Fresh
<1>8. Besides
  BY <1>2, <1>4, <1>6 DEF Besides, OthersSignals
<1>9. Enters(n, n, TRUE)
  <2>1. state[n] \notin Requested /\ state[n] \notin InProgress
        /\ state[n] # "notifyRestartCallbackRequested"
    BY DEF Requested, InProgress
  <2>2. Times(callbacks, n) = 0 /\ InCallback(n) = {} /\ n \notin refused
    BY <1>0, <2>1, CalledOnce
  <2>3. \A q \in Records : ppn[q] # n
    BY <1>0, <2>1 DEF OwnersAgree
  <2>. QED  BY <2>1, <2>2, <2>3 DEF Enters
<1>. QED  BY <1>0, <1>1, <1>7, <1>8, <1>9, CommonStep

-----------------------------------------------------------------------------
(* The client of a request.                                                *)

\* A thread that begins to wait, or waits no more, takes no part in processing.
LEMMA WaitPlace ==
    ASSUME TypeOK, NEW n \in Notifies, th[n].pc \notin Processing,
           NEW q \in {"waitUser", "waitCancel"}, Goes(n, q)
    PROVE  /\ th'[n].pc = q /\ \A u \in Threads : u # n => th'[u] = th[u]
           /\ th' \in [Threads -> Place] /\ SameWork
<1>1. n \in Threads /\ th \in [Threads -> Place] /\ q \notin Processing
  BY Typed, TypesThen DEF Processing
<1>2. th' = [th EXCEPT ![n].pc = q]
  BY DEF Goes
<1>3. th'[n] = [th[n] EXCEPT !.pc = q] /\ \A u \in Threads : u # n => th'[u] = th[u]
  BY <1>1, <1>2
<1>4. [th[n] EXCEPT !.pc = q] \in Place /\ [th[n] EXCEPT !.pc = q].pc = q
  BY <1>1 DEF Place
<1>5. th' \in [Threads -> Place]
  BY <1>1, <1>2, <1>4
<1>6. SameWork
  BY <1>1, <1>3, <1>4 DEF SameWork, Working
<1>. QED  BY <1>3, <1>4, <1>5, <1>6

\* A client that waits for a callback changes what it waits with alone.
LEMMA ClientWaits ==
    ASSUME NotifyInv, NEW n \in Notifies, th[n].pc = "idle",
           NEW q \in {"waitUser", "waitCancel"}, Goes(n, q),
           UNCHANGED <<inst, cut, recVars, pvt, freeList, cancelEvent, userCallbackEvent, listVars,
                       cbVars, workVars, history>>,
           requests' \in [Notifies -> 0 .. inst.requests],
           cancelWait' \in [Notifies -> BOOLEAN], userCallbackWait' \in [Notifies -> BOOLEAN],
           \A m \in Notifies : m # n => /\ cancelWait'[m] = cancelWait[m]
                                        /\ userCallbackWait'[m] = userCallbackWait[m],
           LifeOf(n)'
    PROVE  NotifyInv'
<1>0. TypeOK /\ Places /\ Locks /\ Life /\ Lists /\ PvtsReturned /\ OneCallback /\ Putf /\ Chain
  BY DEF NotifyInv
<1>1. /\ UNCHANGED <<inst, cut, pact, putf, rpro, pending, pvt, freeList, cancelEvent>>
      /\ UNCHANGED <<userCallbackEvent, ppn, restartList, waitList, state, callbacks, refused>>
      /\ UNCHANGED <<onceQ, scans, served, cause, owed>>
  BY DEF recVars, listVars, cbVars, workVars, history
<1>2. /\ th'[n].pc = q /\ \A u \in Threads : u # n => th'[u] = th[u]
      /\ th' \in [Threads -> Place] /\ SameWork
  <2>1. th[n].pc \notin Processing
    BY DEF Processing
  <2>. QED  BY <1>0, <2>1, WaitPlace
<1>3. /\ \A m : Canceled(m)' <=> Canceled(m)
      /\ \A m \in Notifies : m \in Threads
      /\ \A w \in Workers : w \in Threads /\ w # n
  BY <1>0, <1>1, Typed DEF Canceled
<1>4. TypeOK'
  <2>1. /\ cut \subseteq inst.cuts /\ pact \in [Records -> BOOLEAN]
        /\ putf \in [Records -> BOOLEAN] /\ rpro \in [Records -> BOOLEAN]
        /\ ppn \in [Records -> Notifies \cup {None}]
        /\ restartList \in [Records -> Seq(Notifies)] /\ waitList \in [Notifies -> Seq(Records)]
        /\ pvt \in [Notifies -> {0} \cup Pvts] /\ state \in [Notifies -> States]
        /\ freeList \in Seq(Pvts) /\ callbacks \in Seq(Notifies) /\ refused \subseteq Notifies
        /\ cancelEvent \in [Pvts -> BOOLEAN] /\ userCallbackEvent \in [Pvts -> BOOLEAN]
        /\ onceQ \in Seq(Records) /\ pending \subseteq inst.async /\ scans \in 0 .. inst.scans
        /\ served \in [Notifies -> BOOLEAN]
        /\ cause \in [Records -> Notifies \cup {None}] /\ owed \subseteq Records
    BY <1>0, TypesThen
  <2>. QED  BY <1>0, <1>1, <1>2, <2>1, TypesKept
<1>5. Places'
  <2>1. \A u \in Threads : \A m : CallsFor(u, m)' <=> CallsFor(u, m)
    BY <1>2, <1>3 DEF CallsFor
  <2>2. ASSUME NEW u \in Threads
        PROVE  /\ th'[u].pc \in {"waitUser", "waitCancel"} => u \in Notifies
               /\ th'[u].pc = "callback" => u \in Workers /\ th'[u].n \in Notifies
               /\ th'[u].pc \in {"calling", "returning"} => \A m : m = th'[u].n =>
                     /\ m \in Notifies /\ state'[m] = "notifyUserCallbackActive"
                     /\ served'[m] = (th'[u].pc = "returning")
                     /\ ~Canceled(m)' /\ ~userCallbackEvent'[pvt'[m]]
    <3>1. CASE u = n
      BY <1>2, <3>1
    <3>2. CASE u # n
      <4>1. th'[u] = th[u]
        BY <1>2, <3>2
      <4>2. ASSUME th[u].pc \in {"calling", "returning"}, NEW m, m = th[u].n
            PROVE  /\ m \in Notifies /\ state'[m] = "notifyUserCallbackActive"
                   /\ served'[m] = (th[u].pc = "returning")
                   /\ ~Canceled(m)' /\ ~userCallbackEvent'[pvt'[m]]
        BY <1>0, <1>1, <1>3, <4>2 DEF Places
      <4>3. /\ th[u].pc \in {"waitUser", "waitCancel"} => u \in Notifies
            /\ th[u].pc = "callback" => u \in Workers /\ th[u].n \in Notifies
        BY <1>0 DEF Places
      <4>. QED  BY <4>1, <4>2, <4>3
    <3>. QED  BY <3>1, <3>2
  <2>3. \A u, v \in Threads, m \in Notifies : CallsFor(u, m)' /\ CallsFor(v, m)' => u = v
    BY <1>0, <2>1 DEF Places
  <2>. QED  BY <2>2, <2>3 DEF Places, Canceled
<1>6. Locks' /\ Putf' /\ Chain'
  BY <1>0, <1>1, <1>2, RestKeeps
<1>7. Life'
  <2>1. ASSUME NEW m \in Notifies, m # n PROVE LifeOf(m)'
    <3>1. m \in refused' => state'[m] \in Requested /\ ~Canceled(m)'
      BY <1>0, <1>1, <1>3 DEF Life, LifeOf
    <3>. QED  BY <1>0, <1>1, <1>2, <1>3, <2>1, <3>1, OthersLife
  <2>. QED  BY <2>1 DEF Life
<1>8. Lists'
  BY <1>0, <1>1, <1>3 DEF Lists, OwnersAgree, Chan
<1>9. PvtsReturned'
  <2>1. \A p : Held(p)' = Held(p)
    BY <1>1 DEF Held
  <2>2. ASSUME NEW m \in Notifies, th[m].pc \in {"waitCancel", "waitUser"}
        PROVE  th'[m].pc \in {"waitCancel", "waitUser"}
    BY <1>2, <1>3, <2>2
  <2>. QED  BY <1>0, <1>1, <2>1, <2>2 DEF PvtsReturned, Pvts
<1>10. OneCallback'
  <2>1. \A m : Called(m)' = Called(m)
    BY <1>1, <1>2, <1>3 DEF Called
  <2>. QED  BY <1>0, <1>1, <1>3, <2>1 DEF OneCallback
<1>. QED  BY <1>4, <1>5, <1>6, <1>7, <1>8, <1>9, <1>10 DEF NotifyInv

\* A client makes a request.
LEMMA AskStep ==
    ASSUME NotifyInv, NEW n \in Notifies, dbProcessNotify(n)
    PROVE  NotifyInv'
<1>0. /\ TypeOK /\ Places /\ Life /\ PvtsReturned /\ LifeOf(n)
      /\ th[n].pc = "idle" /\ served[n] /\ ~Locked(Chan(n))
      /\ UNCHANGED <<inst, cut, pact, rpro, pending, onceQ, scans, cause, owed>>
      /\ n \in Threads
  BY Typed DEF NotifyInv, dbProcessNotify, workVars, Life
<1>1. requests' \in [Notifies -> 0 .. inst.requests]
  <2>1. /\ requests \in [Notifies -> 0 .. inst.requests] /\ requests[n] < inst.requests
        /\ requests' = [requests EXCEPT ![n] = @ + 1]
        /\ inst.requests \in Nat
    BY <1>0, TypesThen, NotifyAssumption DEF dbProcessNotify, TypeOK
  <2>. QED  BY <2>1
<1>2. CASE pvt[n] = 0 /\ Begin(n, freeList) /\ UNCHANGED <<cancelEvent, userCallbackEvent>>
  <2>1. /\ freeList \in Seq(Pvts) /\ \A p \in Pvts : p # 0
        /\ cancelEvent \in [Pvts -> BOOLEAN] /\ userCallbackEvent \in [Pvts -> BOOLEAN]
    BY <1>0, TypesThen, Typed
  <2>2. \A p \in Pvts : Times(freeList, p) = Times(freeList, p) + (IF pvt[n] = p THEN 1 ELSE 0)
    BY <1>0, <1>2, <2>1, UsersCount
  <2>3. OthersSignals(n)
    BY <1>2, <2>1 DEF OthersSignals
  <2>4. state[n] = "notifyNotActive"
    BY <1>0, <1>2 DEF LifeOf
  <2>5. \A u \in Threads : ~CallsFor(u, n)
    BY <1>0, <2>4 DEF Places, CallsFor
  <2>6. /\ NotifyInv /\ Begin(n, freeList) /\ ~Locked(Chan(n)) /\ th[n].pc \in {"idle", "waitUser"}
        /\ freeList = <<>> => freeList = <<>> /\ pvt[n] = 0
        /\ state[n] \in {"notifyNotActive", "notifyUserCallbackActive"}
    BY <1>0, <1>2, <2>4
  <2>. QED  BY ONLY n \in Notifies, <1>0, <1>1, <2>1, <2>2, <2>3, <2>5, <2>6, BeginStep
<1>3. CASE /\ pvt[n] # 0
           /\ userCallbackWait' = [userCallbackWait EXCEPT ![n] = TRUE] /\ Goes(n, "waitUser")
           /\ UNCHANGED <<pvt, cancelWait, freeList, cancelEvent, userCallbackEvent,
                          listVars, cbVars, putf, served>>
  <2>1. /\ userCallbackWait \in [Notifies -> BOOLEAN] /\ cancelWait \in [Notifies -> BOOLEAN]
    BY <1>0, TypesThen
  <2>2. /\ userCallbackWait' \in [Notifies -> BOOLEAN] /\ cancelWait' \in [Notifies -> BOOLEAN]
        /\ userCallbackWait'[n] = TRUE
        /\ \A m \in Notifies : m # n => /\ cancelWait'[m] = cancelWait[m]
                                        /\ userCallbackWait'[m] = userCallbackWait[m]
    BY <1>3, <2>1
  <2>3. th'[n].pc = "waitUser"
    <3>1. th[n].pc \notin Processing
      BY <1>0 DEF Processing
    <3>. QED  BY <1>0, <1>3, <3>1, WaitPlace
  <2>4. /\ state[n] = "notifyUserCallbackActive" /\ ~Canceled(n) /\ ~userCallbackEvent[pvt[n]]
        /\ ~cancelWait[n] /\ n \notin refused
    BY <1>0, <1>3 DEF LifeOf, Requested
  <2>5. UNCHANGED <<pvt, state, served, cancelWait, cancelEvent, userCallbackEvent, refused>>
    BY <1>3 DEF listVars, cbVars
  <2>6. LifeOf(n)'
    BY <1>0, <1>3, <2>2, <2>3, <2>4, <2>5 DEF LifeOf, Canceled, CancelWaitsIn
  <2>7. UNCHANGED <<inst, cut, recVars, pvt, freeList, cancelEvent, userCallbackEvent, listVars,
                    cbVars, workVars, history>>
    BY <1>0, <1>3 DEF recVars, workVars, history
  <2>8. NotifyInv /\ Goes(n, "waitUser") /\ "waitUser" \in {"waitUser", "waitCancel"}
    BY <1>3
  <2>. QED  BY ONLY n \in Notifies, <1>0, <1>1, <2>2, <2>6, <2>7, <2>8, ClientWaits
<1>. QED  BY <1>2, <1>3 DEF dbProcessNotify

\* A client that has waited for its last callback makes its request.
LEMMA UserOverStep ==
    ASSUME NotifyInv, NEW n \in Notifies, UserCallbackOver(n)
    PROVE  NotifyInv'
<1>0. /\ TypeOK /\ Places /\ Life /\ PvtsReturned /\ LifeOf(n) /\ n \in Threads
      /\ th[n].pc = "waitUser" /\ userCallbackEvent[pvt[n]] /\ ~Locked(Chan(n))
      /\ userCallbackEvent' = [userCallbackEvent EXCEPT ![pvt[n]] = FALSE]
      /\ Begin(n, Append(freeList, pvt[n]))
      /\ UNCHANGED <<inst, cut, pact, rpro, pending, cancelEvent, onceQ, scans, requests, cause, owed>>
  BY Typed DEF NotifyInv, UserCallbackOver, workVars, Life
<1>1. /\ freeList \in Seq(Pvts) /\ requests \in [Notifies -> 0 .. inst.requests]
      /\ cancelEvent \in [Pvts -> BOOLEAN] /\ userCallbackEvent \in [Pvts -> BOOLEAN]
  BY <1>0, TypesThen
<1>2. /\ state[n] = "notifyUserCallbackActive" /\ pvt[n] # 0 /\ ~Canceled(n)
  BY <1>0 DEF LifeOf
<1>3. pvt[n] \in Pvts
  BY <1>0, <1>2, Typed
<1>4. PICK free : free = Append(freeList, pvt[n])
  OBVIOUS
<1>5. /\ free \in Seq(Pvts) /\ free # <<>> /\ Begin(n, free)
      /\ \A p \in Pvts : Times(free, p) = Times(freeList, p) + (IF pvt[n] = p THEN 1 ELSE 0)
  BY <1>0, <1>1, <1>3, <1>4, TimesChange
<1>6. OthersSignals(n)
  BY <1>0, <1>1, <1>2, <1>3 DEF OthersSignals, Canceled
<1>7. \A u \in Threads : ~CallsFor(u, n)
  BY <1>0 DEF Places, CallsFor
<1>8. /\ requests' \in [Notifies -> 0 .. inst.requests] /\ NotifyInv
      /\ free = <<>> => freeList = <<>> /\ pvt[n] = 0
      /\ th[n].pc \in {"idle", "waitUser"}
      /\ state[n] \in {"notifyNotActive", "notifyUserCallbackActive"}
  BY <1>0, <1>1, <1>2, <1>5
<1>. QED  BY ONLY n \in Notifies, <1>0, <1>5, <1>6, <1>7, <1>8, BeginStep

-----------------------------------------------------------------------------
(* The end of a request: its callback, its cancel, and the signals.        *)

\* What others have to do with requests stays as it is, unless they are restarted.
Along(n) == \A m \in Notifies : m # n =>
    /\ \/ state'[m] = state[m]
       \/ state[m] = "notifyWaitForRestart" /\ state'[m] = "notifyRestartCallbackRequested"
    /\ pvt'[m] = pvt[m] /\ served'[m] = served[m]
    /\ cancelWait'[m] = cancelWait[m] /\ userCallbackWait'[m] = userCallbackWait[m]
    /\ pvt[m] # 0 => /\ cancelEvent'[pvt[m]] = cancelEvent[pvt[m]]
                     /\ userCallbackEvent'[pvt[m]] = userCallbackEvent[pvt[m]]
    /\ Called(m)' = IF state'[m] \in Requested /\ m \notin refused' /\ ~Canceled(m)' THEN 1 ELSE 0
    /\ m \in refused' => state'[m] \in Requested /\ ~Canceled(m)'

\* A thread ends what it does for the request n, whose callback is called by no other.
EndsFor(n, t) ==
    /\ th[t].pc \in {"idle", "waitCancel", "callback", "returning"}
    /\ th[t].pc \in {"callback", "returning"} => th[t].n = n
    /\ th[t].pc = "waitCancel" => t = n
    /\ \A u \in Threads : u # t => ~CallsFor(u, n)
    /\ Times(callbacks', n) = 0 /\ InCallback(n) \subseteq {t}
    /\ state'[n] \in Requested => Canceled(n)'

\* It leaves what the others do.
LEMMA EndsKeeps ==
    ASSUME TypeOK, Places, Life, NEW n \in Notifies, NEW t \in Threads, EndsFor(n, t), Along(n),
           NEW e \in Place, th' = [th EXCEPT ![t] = e], e.pc = "idle", LifeOf(n)'
    PROVE  Places' /\ Life' /\ OneCallback'
<1>0. /\ th'[t] = e /\ \A u \in Threads : u # t => th'[u] = th[u]
      /\ \A m \in Notifies : m \in Threads
      /\ \A w \in Workers : w \in Threads
  BY OtherPlace, Typed
<1>1. \A m \in Notifies : m # n => (Canceled(m)' <=> Canceled(m))
  BY DEF Along, Canceled
<1>2. Places'
  <2>1. ASSUME NEW u \in Threads
        PROVE  /\ th'[u].pc \in {"waitUser", "waitCancel"} => u \in Notifies
               /\ th'[u].pc = "callback" => u \in Workers /\ th'[u].n \in Notifies
    BY <1>0 DEF Places
  <2>2. ASSUME NEW u \in Threads, th'[u].pc \in {"calling", "returning"}, NEW m, m = th'[u].n
        PROVE  /\ m \in Notifies /\ state'[m] = "notifyUserCallbackActive"
               /\ served'[m] = (th'[u].pc = "returning")
               /\ ~Canceled(m)' /\ ~userCallbackEvent'[pvt'[m]]
    <3>1. th'[u] = th[u] /\ u # t
      BY <1>0, <2>2
    <3>2. /\ m \in Notifies /\ state[m] = "notifyUserCallbackActive"
          /\ served[m] = (th'[u].pc = "returning") /\ ~Canceled(m) /\ ~userCallbackEvent[pvt[m]]
      BY <2>2, <3>1 DEF Places
    <3>3. m # n
      BY <2>2, <3>1 DEF EndsFor, CallsFor
    <3>4. pvt[m] # 0
      BY <3>2 DEF Life, LifeOf
    <3>. QED  BY <1>1, <3>2, <3>3, <3>4 DEF Along
  <2>3. \A u, v \in Threads, m \in Notifies : CallsFor(u, m)' /\ CallsFor(v, m)' => u = v
    <3>1. \A u \in Threads, m \in Notifies : CallsFor(u, m)' => CallsFor(u, m)
      BY <1>0 DEF CallsFor
    <3>. QED  BY <3>1 DEF Places
  <2>. QED  BY <2>1, <2>2, <2>3 DEF Places
<1>3. Life'
  <2>1. ASSUME NEW m \in Notifies, m # n PROVE LifeOf(m)'
    <3>1. /\ th[m].pc \in {"waitCancel", "waitUser"} => th'[m].pc = th[m].pc
          /\ th'[m].pc \in {"waitCancel", "waitUser"} => th'[m].pc = th[m].pc
      BY <1>0, <2>1 DEF EndsFor, Places
    <3>. QED  BY <2>1, <3>1, OthersLife DEF Along
  <2>. QED  BY <2>1 DEF Life
<1>4. OneCallback'
  <2>1. InCallback(n)' = {}
    BY <1>0 DEF EndsFor, InCallback
  <2>2. Called(n)' = 0
    <3>1. Called(n)' = Times(callbacks', n) + Cardinality(InCallback(n)')
      BY DEF Called, InCallback
    <3>. QED  BY <2>1, <3>1, FS_EmptySet DEF EndsFor
  <2>. QED  BY <2>2 DEF OneCallback, EndsFor, Along
<1>. QED  BY <1>2, <1>3, <1>4

\* notifyCleanup, of a request that nobody waits for any more.
Gone(n) ==
    /\ pvt[n] # 0 /\ Cleanup(n) /\ state'[n] = "notifyNotActive" /\ served'[n] = TRUE
    /\ userCallbackWait'[n] = FALSE /\ n \notin refused' /\ OthersSignals(n)
    /\ th'[n].pc \notin {"waitCancel", "waitUser"}
    /\ \A m \in Notifies : m # n /\ th[m].pc \in {"waitCancel", "waitUser"} =>
          th'[m].pc \in {"waitCancel", "waitUser"}

\* The request is over, and what it had is free.
LEMMA GoneKeeps ==
    ASSUME TypeOK, PvtsReturned, NEW n \in Notifies, Gone(n)
    PROVE  /\ LifeOf(n)' /\ ~Canceled(n)' /\ PvtsReturned'
           /\ freeList' \in Seq(Pvts) /\ pvt' \in [Notifies -> {0} \cup Pvts]
           /\ \A m \in Notifies : m # n =>
                 /\ pvt'[m] = pvt[m] /\ (Canceled(m)' <=> Canceled(m))
                 /\ pvt[m] # 0 => /\ cancelEvent'[pvt[m]] = cancelEvent[pvt[m]]
                                  /\ userCallbackEvent'[pvt[m]] = userCallbackEvent[pvt[m]]
<1>1. /\ Counted' /\ freeList' \in Seq(Pvts) /\ pvt' \in [Notifies -> {0} \cup Pvts]
      /\ pvt'[n] = 0 /\ \A m \in Notifies : m # n => pvt'[m] = pvt[m]
  BY CleanupCount DEF Gone
<1>2. LifeOf(n)' /\ ~Canceled(n)'
  BY <1>1 DEF Gone, LifeOf, Canceled
<1>3. ASSUME NEW m \in Notifies, m # n, pvt[m] # 0
      PROVE  /\ cancelEvent'[pvt[m]] = cancelEvent[pvt[m]]
             /\ userCallbackEvent'[pvt[m]] = userCallbackEvent[pvt[m]]
  <2>1. pvt[m] \in Pvts /\ pvt[m] # pvt[n]
    BY <1>3, Typed, Unshared
  <2>. QED  BY <2>1 DEF Gone, OthersSignals
<1>4. ASSUME NEW p \in Pvts, cancelEvent'[p] \/ userCallbackEvent'[p]
      PROVE  \E m \in Notifies : pvt'[m] = p /\ th'[m].pc \in {"waitCancel", "waitUser"}
  <2>1. p # pvt[n] /\ (cancelEvent[p] \/ userCallbackEvent[p])
    BY <1>4 DEF Gone, OthersSignals
  <2>2. PICK m \in Notifies : pvt[m] = p /\ th[m].pc \in {"waitCancel", "waitUser"}
    BY <2>1 DEF PvtsReturned
  <2>3. m # n
    BY <2>1, <2>2
  <2>. QED  BY <1>1, <2>2, <2>3 DEF Gone
<1>5. PvtsReturned'
  <2>1. Pvts' = Pvts
    BY DEF Pvts
  <2>. QED  BY <1>1, <1>4, <2>1 DEF PvtsReturned, Counted
<1>6. \A m \in Notifies : m # n => (Canceled(m)' <=> Canceled(m))
  BY <1>1, <1>3 DEF Canceled
<1>. QED  BY <1>1, <1>2, <1>3, <1>5, <1>6

\* No list is left to change.
LEMMA EndLists ==
    ASSUME TypeOK, Lists, UNCHANGED inst, NEW n \in Notifies,
           NEW new \in {"notifyUserCallbackActive", "notifyNotActive"}, OneState(n, new),
           state[n] \in CancelWaitsIn, \A r \in Records : ppn[r] # n,
           UNCHANGED <<ppn, restartList, waitList>>
    PROVE  Lists'
<1>0. /\ OwnersAgree /\ \A m : Chan(m)' = Chan(m)
      /\ new \notin InProgress \cup {"notifyWaitForRestart"}
      /\ state[n] \notin InProgress \cup {"notifyWaitForRestart"}
  BY DEF Lists, Chan, CancelWaitsIn, InProgress, Requested
<1>1. /\ \A m \in Notifies : state'[m] = IF m = n THEN new ELSE state[m]
      /\ \A m \in Notifies : m # n => (Canceled(m)' <=> Canceled(m))
  BY DEF OneState
<1>2. OwnersAgree'
  <2>1. ASSUME NEW r \in Records, NEW m \in Notifies
        PROVE  /\ IsIn(waitList[m], r) => ppn[r] = m
               /\ ppn[r] = m => IF state'[m] \in InProgress THEN IsIn(waitList[m], r)
                                ELSE state'[m] = "notifyRestartCallbackRequested" /\ r = Chan(m)
               /\ IsIn(restartList[r], m) = (state'[m] = "notifyWaitForRestart" /\ r = Chan(m))
    <3>1. CASE m # n
      BY <1>0, <1>1, <3>1 DEF OwnersAgree
    <3>2. CASE m = n
      BY <1>0, <1>1, <3>2 DEF OwnersAgree
    <3>. QED  BY <3>1, <3>2
  <2>2. ASSUME NEW m \in Notifies
        PROVE  /\ state'[m] = "notifyRestartCallbackRequested" /\ ~Canceled(m)' => ppn[Chan(m)] = m
               /\ (waitList[m] # <<>>) = (state'[m] \in InProgress)
    <3>1. CASE m # n
      BY <1>0, <1>1, <3>1 DEF OwnersAgree
    <3>2. CASE m = n
      BY <1>0, <1>1, <3>2 DEF OwnersAgree
    <3>. QED  BY <3>1, <3>2
  <2>3. \A r \in Records :
          /\ restartList[r] # <<>> => ppn[r] # None /\ ~IsIn(restartList[r], ppn[r])
          /\ \A i, j \in DOMAIN restartList[r] : restartList[r][i] = restartList[r][j] => i = j
    BY <1>0 DEF OwnersAgree
  <2>. QED  BY <1>0, <2>1, <2>2, <2>3 DEF OwnersAgree
<1>3. \A m \in Notifies : state'[m] = "notifyRestartInProgress" => waitList'[m] = <<Chan(m)'>>
  <2>1. new # "notifyRestartInProgress"
    BY <1>0 DEF InProgress
  <2>. QED  BY <1>0, <1>1, <2>1 DEF Lists
<1>4. \A m \in Notifies, r \in Records : Canceled(m)' => ppn'[r] # m
  BY <1>1 DEF Lists
<1>5. \A m \in Notifies, r \in Records : Times(waitList'[m], r) <= 1
  BY DEF Lists
<1>. QED  BY <1>2, <1>3, <1>4, <1>5 DEF Lists

\* dbNotifyCancel returns when the callback has seen that it is canceled.
LEMMA CancelReturnsStep ==
    ASSUME NotifyInv, NEW n \in Notifies, CancelReturns(n)
    PROVE  NotifyInv'
<1>0. /\ TypeOK /\ Places /\ Locks /\ Life /\ Lists /\ PvtsReturned /\ OneCallback /\ Putf /\ Chain
      /\ LifeOf(n) /\ n \in Threads
      /\ th[n].pc = "waitCancel" /\ cancelEvent[pvt[n]] /\ Cleanup(n)
      /\ cancelEvent' = [cancelEvent EXCEPT ![pvt[n]] = FALSE]
      /\ state' = [state EXCEPT ![n] = "notifyNotActive"] /\ served' = [served EXCEPT ![n] = TRUE]
      /\ th' = [th EXCEPT ![n] = Idle]
      /\ UNCHANGED <<inst, cut, pact, putf, rpro, pending, cancelWait, userCallbackWait>>
      /\ UNCHANGED <<userCallbackEvent, ppn, restartList, waitList, callbacks, refused>>
      /\ UNCHANGED <<onceQ, scans, requests, cause, owed>>
  BY Typed DEF NotifyInv, CancelReturns, workVars, recVars, cbVars, Rests, Life
<1>1. /\ state \in [Notifies -> States] /\ served \in [Notifies -> BOOLEAN]
      /\ cancelEvent \in [Pvts -> BOOLEAN] /\ userCallbackEvent \in [Pvts -> BOOLEAN]
      /\ requests \in [Notifies -> 0 .. inst.requests]
  BY <1>0, TypesThen
<1>2. /\ state[n] \in CancelWaitsIn /\ pvt[n] # 0 /\ Canceled(n)
      /\ n \notin refused /\ ~userCallbackEvent[pvt[n]] /\ ~userCallbackWait[n]
  BY <1>0 DEF LifeOf, CancelWaitsIn, Requested, Canceled
<1>3. /\ \A m \in Notifies : state'[m] = IF m = n THEN "notifyNotActive" ELSE state[m]
      /\ \A m \in Notifies : served'[m] = IF m = n THEN TRUE ELSE served[m]
      /\ state' \in [Notifies -> States] /\ served' \in [Notifies -> BOOLEAN]
  BY <1>0, <1>1 DEF States
<1>4. pvt[n] \in Pvts
  BY <1>0, <1>2, Typed
<1>5. OthersSignals(n)
  BY <1>0, <1>1, <1>2, <1>4 DEF OthersSignals
<1>6. /\ th'[n] = Idle /\ Idle.pc = "idle" /\ Idle \in Place
      /\ \A u \in Threads : u # n => th'[u] = th[u]
      /\ \A m \in Notifies : m \in Threads
  <2>1. Idle.pc = "idle" /\ Idle \in Place
    BY <1>0, OtherPlace
  <2>2. th'[n] = Idle /\ \A u \in Threads : u # n => th'[u] = th[u]
    BY <1>0, OtherPlace
  <2>. QED  BY <1>0, <2>1, <2>2, Typed
<1>7. Gone(n)
  BY <1>0, <1>2, <1>3, <1>5, <1>6 DEF Gone
<1>8. /\ LifeOf(n)' /\ ~Canceled(n)' /\ PvtsReturned'
      /\ freeList' \in Seq(Pvts) /\ pvt' \in [Notifies -> {0} \cup Pvts]
      /\ \A m \in Notifies : m # n =>
            /\ pvt'[m] = pvt[m] /\ (Canceled(m)' <=> Canceled(m))
            /\ pvt[m] # 0 => /\ cancelEvent'[pvt[m]] = cancelEvent[pvt[m]]
                             /\ userCallbackEvent'[pvt[m]] = userCallbackEvent[pvt[m]]
  BY ONLY n \in Notifies, <1>0, <1>7, GoneKeeps
<1>9. Times(callbacks, n) = 0 /\ InCallback(n) = {}
  <2>1. Called(n) = 0
    BY <1>0, <1>2 DEF OneCallback
  <2>. QED  BY <1>0, <2>1, CalledOnce
<1>10. Along(n)
  <2>1. \A m \in Notifies : m # n => InCallback(m)' = InCallback(m)
    BY <1>0, <1>6, OthersCalls
  <2>2. ASSUME NEW m \in Notifies, m # n
        PROVE  /\ Called(m)' = IF state'[m] \in Requested /\ m \notin refused' /\ ~Canceled(m)'
                               THEN 1 ELSE 0
               /\ m \in refused' => state'[m] \in Requested /\ ~Canceled(m)'
    <3>1. Called(m)' = Called(m)
      <4>1. /\ Called(m) = Times(callbacks, m) + Cardinality(InCallback(m))
            /\ Called(m)' = Times(callbacks', m) + Cardinality(InCallback(m)')
        BY DEF Called, InCallback
      <4>. QED  BY <1>0, <2>1, <2>2, <4>1
    <3>2. /\ Called(m) = IF state[m] \in Requested /\ m \notin refused /\ ~Canceled(m) THEN 1 ELSE 0
          /\ m \in refused => state[m] \in Requested /\ ~Canceled(m)
      BY <1>0 DEF OneCallback, Life, LifeOf
    <3>. QED  BY <1>0, <1>3, <1>8, <2>2, <3>1, <3>2
  <2>. QED  BY <1>0, <1>3, <1>8, <2>2, ZenonT(60) DEF Along
<1>11. EndsFor(n, n)
  <2>1. \A u \in Threads : u # n => ~CallsFor(u, n)
    BY <1>0, <1>2 DEF Places, CallsFor
  <2>2. state'[n] \notin Requested
    BY <1>3 DEF Requested
  <2>. QED  BY <1>0, <1>9, <2>1, <2>2 DEF EndsFor
<1>12. Places' /\ Life' /\ OneCallback'
  <2>1. PICK e \in Place : th' = [th EXCEPT ![n] = e] /\ e.pc = "idle"
    BY <1>0, <1>6
  <2>. QED  BY ONLY n \in Notifies, e \in Place, <1>0, <1>8, <1>10, <1>11, <2>1, EndsKeeps
<1>13. Lists'
  <2>1. \A r \in Records : ppn[r] # n
    BY <1>0, <1>2 DEF Lists
  <2>2. OneState(n, "notifyNotActive")
    BY <1>3, <1>8 DEF OneState
  <2>. QED  BY <1>0, <1>2, <2>1, <2>2, EndLists
<1>14. SameWork
  <2>1. ~Working(n) /\ Idle.pc \notin Processing
    BY <1>0, <1>6 DEF Working, Processing
  <2>. QED  BY <1>0, <1>6, <2>1, Apart
<1>15. Locks' /\ Putf' /\ Chain'
  BY <1>0, <1>2, <1>3, <1>14, RestKeeps
<1>16. TypeOK'
  <2>1. th' \in [Threads -> Place] /\ cancelEvent' \in [Pvts -> BOOLEAN]
    BY <1>0, <1>1, <1>6, TypesThen
  <2>2. /\ cut' \subseteq inst.cuts /\ pact' \in [Records -> BOOLEAN]
        /\ putf' \in [Records -> BOOLEAN] /\ rpro' \in [Records -> BOOLEAN]
        /\ ppn' \in [Records -> Notifies \cup {None}]
        /\ restartList' \in [Records -> Seq(Notifies)] /\ waitList' \in [Notifies -> Seq(Records)]
        /\ cancelWait' \in [Notifies -> BOOLEAN] /\ userCallbackWait' \in [Notifies -> BOOLEAN]
        /\ callbacks' \in Seq(Notifies) /\ refused' \subseteq Notifies
        /\ userCallbackEvent' \in [Pvts -> BOOLEAN]
        /\ onceQ' \in Seq(Records) /\ pending' \subseteq inst.async /\ scans' \in 0 .. inst.scans
        /\ requests' \in [Notifies -> 0 .. inst.requests]
        /\ cause' \in [Records -> Notifies \cup {None}] /\ owed' \subseteq Records
    BY <1>0, TypesThen
  <2>. QED  BY <1>0, <1>3, <1>8, <2>1, <2>2, TypesKept
<1>. QED  BY <1>8, <1>12, <1>13, <1>15, <1>16 DEF NotifyInv

\* What dbNotifyCancel does when it waits for no callback.
Takes(n) ==
    /\ th[n].pc = "idle" /\ pvt[n] # 0 /\ ~Locked(Chan(n)) /\ state[n] \notin CancelWaitsIn
    /\ Cleanup(n) /\ served' = [served EXCEPT ![n] = TRUE]
    /\ cause' = [r \in Records |-> IF cause[r] = n THEN None ELSE cause[r]]
    /\ UNCHANGED <<inst, cut, pact, putf, rpro, pending, cancelWait, userCallbackWait, cancelEvent>>
    /\ UNCHANGED <<userCallbackEvent, onceQ, scans, requests, owed, th>>

\* The request has no part in a callback, and is gone.
LEMMA TakesKeeps ==
    ASSUME NotifyInv, NEW n \in Notifies, Takes(n), state'[n] = "notifyNotActive",
           n \notin refused', Times(callbacks', n) = Times(callbacks, n),
           \A m \in Notifies : m # n =>
              \/ state'[m] = state[m]
              \/ state[m] = "notifyWaitForRestart" /\ state'[m] = "notifyRestartCallbackRequested",
           \A m \in Notifies : m # n =>
              /\ Called(m)' = IF state'[m] \in Requested /\ m \notin refused' /\ ~Canceled(m)'
                              THEN 1 ELSE 0
              /\ m \in refused' => state'[m] \in Requested /\ ~Canceled(m)',
           ppn' \in [Records -> Notifies \cup {None}], state' \in [Notifies -> States],
           restartList' \in [Records -> Seq(Notifies)], waitList' \in [Notifies -> Seq(Records)],
           callbacks' \in Seq(Notifies), refused' \subseteq Notifies, Lists',
           cut = {} => Still'
    PROVE  NotifyInv'
<1>0. /\ TypeOK /\ Places /\ Locks /\ Life /\ Lists /\ PvtsReturned /\ OneCallback /\ Putf /\ Chain
      /\ LifeOf(n) /\ n \in Threads
      /\ th[n].pc = "idle" /\ pvt[n] # 0 /\ ~Locked(Chan(n)) /\ state[n] \notin CancelWaitsIn
      /\ Cleanup(n) /\ served' = [served EXCEPT ![n] = TRUE]
      /\ cause' = [r \in Records |-> IF cause[r] = n THEN None ELSE cause[r]]
      /\ UNCHANGED <<inst, cut, pact, putf, rpro, pending, cancelWait, userCallbackWait, cancelEvent>>
      /\ UNCHANGED <<userCallbackEvent, onceQ, scans, requests, owed, th>>
  BY Typed DEF NotifyInv, Takes, Life
<1>1. /\ served \in [Notifies -> BOOLEAN] /\ cause \in [Records -> Notifies \cup {None}]
      /\ cancelEvent \in [Pvts -> BOOLEAN] /\ userCallbackEvent \in [Pvts -> BOOLEAN]
      /\ \A m \in Notifies : m \in Threads
  BY <1>0, TypesThen, Typed
<1>2. /\ served' \in [Notifies -> BOOLEAN] /\ cause' \in [Records -> Notifies \cup {None}]
      /\ \A m \in Notifies : served'[m] = IF m = n THEN TRUE ELSE served[m]
  BY <1>0, <1>1
<1>3. ~Canceled(n) /\ ~userCallbackEvent[pvt[n]] /\ ~userCallbackWait[n] /\ pvt[n] \in Pvts
  BY <1>0, Unshared, Typed DEF LifeOf
<1>4. Gone(n)
  <2>1. OthersSignals(n)
    BY <1>0, <1>1, <1>3 DEF OthersSignals, Canceled
  <2>. QED  BY <1>0, <1>2, <1>3, <2>1 DEF Gone
<1>5. /\ LifeOf(n)' /\ ~Canceled(n)' /\ PvtsReturned'
      /\ freeList' \in Seq(Pvts) /\ pvt' \in [Notifies -> {0} \cup Pvts]
      /\ \A m \in Notifies : m # n =>
            /\ pvt'[m] = pvt[m] /\ (Canceled(m)' <=> Canceled(m))
            /\ pvt[m] # 0 => /\ cancelEvent'[pvt[m]] = cancelEvent[pvt[m]]
                             /\ userCallbackEvent'[pvt[m]] = userCallbackEvent[pvt[m]]
  BY ONLY n \in Notifies, <1>0, <1>4, GoneKeeps
<1>6. Along(n)
  BY <1>0, <1>2, <1>5 DEF Along
<1>7. EndsFor(n, n)
  <2>1. state[n] \notin Requested /\ state[n] # "notifyUserCallbackActive"
    BY <1>0 DEF CancelWaitsIn
  <2>2. Times(callbacks, n) = 0 /\ InCallback(n) = {}
    BY <1>0, <2>1, CalledOnce
  <2>3. \A u \in Threads : ~CallsFor(u, n)
    BY <1>0, <2>1 DEF Places, CallsFor
  <2>4. state'[n] \notin Requested
    BY DEF Requested
  <2>. QED  BY <1>0, <2>2, <2>3, <2>4 DEF EndsFor
<1>8. Places' /\ Life' /\ OneCallback'
  <2>1. PICK e \in Place : e = th[n]
    BY <1>0, OtherPlace
  <2>2. th' = [th EXCEPT ![n] = e] /\ e.pc = "idle"
    <3>1. th \in [Threads -> Place]
      BY <1>0, TypesThen
    <3>. QED  BY <1>0, <2>1, <3>1
  <2>. QED  BY ONLY n \in Notifies, e \in Place, <1>0, <1>5, <1>6, <1>7, <2>2, EndsKeeps
<1>9. SameWork
  BY <1>0 DEF SameWork, Working
<1>10. Locks' /\ Putf'
  BY <1>0, <1>9, RestKeeps
<1>11. Chain'
  <2>1. cut' = {} => \A u \in Threads : ~Working(u)'
    <3>1. cut = {} => \A u \in Threads : ~Working(u)
      BY <1>0, StillThen
    <3>. QED  BY <1>0, <3>1 DEF Working
  <2>. QED  BY <1>0, <2>1, StillNext
<1>12. TypeOK'
  <2>1. /\ cut' \subseteq inst.cuts /\ pact' \in [Records -> BOOLEAN]
        /\ putf' \in [Records -> BOOLEAN] /\ rpro' \in [Records -> BOOLEAN]
        /\ cancelWait' \in [Notifies -> BOOLEAN] /\ userCallbackWait' \in [Notifies -> BOOLEAN]
        /\ cancelEvent' \in [Pvts -> BOOLEAN] /\ userCallbackEvent' \in [Pvts -> BOOLEAN]
        /\ onceQ' \in Seq(Records) /\ pending' \subseteq inst.async /\ scans' \in 0 .. inst.scans
        /\ requests' \in [Notifies -> 0 .. inst.requests] /\ owed' \subseteq Records
        /\ th' \in [Threads -> Place]
    BY <1>0, TypesThen
  <2>. QED  BY <1>0, <1>2, <1>5, <2>1, TypesKept
<1>. QED  BY <1>5, <1>8, <1>10, <1>11, <1>12 DEF NotifyInv

\* One that waits for a record leaves its list.
LEMMA TakenWaiting ==
    ASSUME NotifyInv, NEW n \in Notifies, Takes(n), state[n] = "notifyWaitForRestart",
           restartList' = [restartList EXCEPT ![Chan(n)] = Those(@, Notifies \ {n})],
           state' = [state EXCEPT ![n] = "notifyNotActive"],
           UNCHANGED <<ppn, waitList, cbVars>>
    PROVE  NotifyInv'
<1>0. /\ TypeOK /\ Life /\ Lists /\ PvtsReturned /\ OneCallback /\ Chain /\ LifeOf(n)
      /\ n \in Threads /\ ~Locked(Chan(n)) /\ n # None
      /\ pvt[n] # 0 /\ Cleanup(n)
      /\ UNCHANGED <<inst, pact, cancelEvent, th>>
      /\ cause' = [r \in Records |-> IF cause[r] = n THEN None ELSE cause[r]]
      /\ UNCHANGED <<callbacks, refused>>
  BY Typed DEF NotifyInv, Life, Takes, cbVars
<1>1. /\ state \in [Notifies -> States] /\ ppn \in [Records -> Notifies \cup {None}]
      /\ waitList \in [Notifies -> Seq(Records)]
      /\ callbacks \in Seq(Notifies) /\ refused \subseteq Notifies
      /\ \A r \in Records : cause[r] \in Notifies \cup {None}
  BY <1>0, TypesThen, Typed
<1>2. /\ state' \in [Notifies -> States]
      /\ \A m \in Notifies : state'[m] = IF m = n THEN "notifyNotActive" ELSE state[m]
  BY <1>1 DEF States
<1>3. n \notin refused
  BY <1>0 DEF LifeOf, Requested
<1>4. /\ pvt'[n] = 0 /\ \A m \in Notifies : m # n => pvt'[m] = pvt[m]
  BY <1>0, CleanupCount
<1>5. ~Canceled(n)' /\ \A m \in Notifies : m # n => (Canceled(m)' <=> Canceled(m))
  BY <1>0, <1>4 DEF Canceled
<1>6. ASSUME NEW m \in Notifies, m # n
      PROVE  /\ Called(m)' = IF state'[m] \in Requested /\ m \notin refused' /\ ~Canceled(m)'
                             THEN 1 ELSE 0
             /\ m \in refused' => state'[m] \in Requested /\ ~Canceled(m)'
  <2>1. Called(m)' = Called(m)
    BY <1>0 DEF Called
  <2>2. /\ Called(m) = IF state[m] \in Requested /\ m \notin refused /\ ~Canceled(m) THEN 1 ELSE 0
        /\ m \in refused => state[m] \in Requested /\ ~Canceled(m)
    BY <1>0 DEF OneCallback, Life, LifeOf
  <2>. QED  BY <1>0, <1>2, <1>5, <1>6, <2>1, <2>2
<1>7. Lists' /\ restartList' \in [Records -> Seq(Notifies)]
  <2>1. OneState(n, "notifyNotActive")
    BY <1>2, <1>5 DEF OneState
  <2>. QED  BY <1>0, <1>5, <2>1, LeaveLists
<1>8. ASSUME cut = {} PROVE Still'
  <2>1. Still
    BY <1>0, <1>8, StillThen
  <2>2. AsyncOnly'
    BY <1>0, <1>2, <2>1 DEF Still, AsyncOnly, Chan
  <2>3. ASSUME NEW r \in Records, cause'[r] # None, NEW c, c = cause'[r]
        PROVE  /\ pact'[r] /\ r >= Chan(c) /\ ppn'[r] = c /\ state'[c] = "notifyProcessInProgress"
    <3>1. c = cause[r] /\ c # n /\ c \in Notifies
      BY <1>0, <1>1, <2>3
    <3>. QED  BY <1>0, <1>2, <2>1, <2>3, <3>1 DEF Still
  <2>4. \A r \in Records : cause'[r] # None =>
            /\ pact'[r] /\ r >= inst'.chan[cause'[r]] /\ ppn'[r] = cause'[r]
            /\ state'[cause'[r]] = "notifyProcessInProgress"
    BY <1>0, <2>3 DEF Chan
  <2>5. \A r \in Records \ inst'.async : ppn'[r] = None /\ ~pact'[r]
    BY <1>0, <2>1 DEF Still
  <2>. QED  BY ONLY <2>2, <2>4, <2>5 DEF Still, Chan
<1>9. /\ n \notin refused' /\ Times(callbacks', n) = Times(callbacks, n)
      /\ state'[n] = "notifyNotActive"
      /\ ppn' \in [Records -> Notifies \cup {None}] /\ waitList' \in [Notifies -> Seq(Records)]
      /\ callbacks' \in Seq(Notifies) /\ refused' \subseteq Notifies
      /\ NotifyInv /\ Takes(n)
      /\ \A m \in Notifies : m # n => state'[m] = state[m]
  BY <1>0, <1>1, <1>2, <1>3
<1>. QED  BY ONLY n \in Notifies, <1>2, <1>6, <1>7, <1>8, <1>9, TakesKeeps

\* One that owns records gives them back.
LEMMA TakenOwned ==
    ASSUME NotifyInv, NEW n \in Notifies, Takes(n), state[n] \in InProgress,
           waitList' = [waitList EXCEPT ![n] = <<>>],
           restartCheck(waitList[n] \o (IF ppn[Chan(n)] = n /\ ~IsIn(waitList[n], Chan(n))
                                        THEN <<Chan(n)>> ELSE <<>>),
                        [state EXCEPT ![n] = "notifyNotActive"], <<>>)
    PROVE  NotifyInv'
<1> DEFINE new == "notifyNotActive"
<1>0. /\ TypeOK /\ Life /\ Lists /\ PvtsReturned /\ OneCallback /\ Chain /\ LifeOf(n) /\ OwnersAgree
      /\ n \in Threads /\ ~Locked(Chan(n)) /\ n # None /\ Chan(n) \in Records
      /\ pvt[n] # 0 /\ Cleanup(n)
      /\ UNCHANGED <<inst, pact, cancelEvent, th>>
      /\ cause' = [r \in Records |-> IF cause[r] = n THEN None ELSE cause[r]]
  BY Typed DEF NotifyInv, Life, Lists, Takes
<1>1. /\ \A m \in Notifies : waitList[m] \in Seq(Records)
      /\ \A r \in Records : cause[r] \in Notifies \cup {None}
  BY <1>0, Typed
<1>s. PICK rs \in Seq(Records), s \in [Notifies -> States], more \in Seq(Notifies), w \in Seq(Records) :
         /\ restartCheck(rs, s, more) /\ \A m \in Notifies : s[m] = IF m = n THEN new ELSE state[m]
         /\ rs = waitList[n] /\ more = <<>> /\ w = <<>>
  <2>1. /\ [state EXCEPT ![n] = new] \in [Notifies -> States]
        /\ \A m \in Notifies : [state EXCEPT ![n] = new][m] = IF m = n THEN new ELSE state[m]
    <3>1. state \in [Notifies -> States] /\ new \in States
      BY <1>0, TypesThen DEF States
    <3>. QED  BY <3>1
  <2>2. <<>> \in Seq(Notifies) /\ <<>> \in Seq(Records)
    OBVIOUS
  <2>3. ~(ppn[Chan(n)] = n /\ ~IsIn(waitList[n], Chan(n)))
    BY <1>0 DEF OwnersAgree
  <2>4. waitList[n] \o <<>> = waitList[n]
    BY <1>1
  <2>5. restartCheck(waitList[n], [state EXCEPT ![n] = new], <<>>)
    BY <2>3, <2>4
  <2>. QED  BY <1>1, <2>1, <2>2, <2>5
<1>2. /\ new \in States /\ new \notin InProgress /\ new \notin Requested
      /\ new \notin {"notifyWaitForRestart", "notifyRestartInProgress", "notifyRestartCallbackRequested"}
      /\ state[n] # "notifyWaitForRestart" /\ n \notin refused /\ state[n] \notin Requested
  BY <1>0 DEF States, InProgress, Requested, LifeOf
<1>3. /\ pvt'[n] = 0 /\ \A m \in Notifies : m # n => pvt'[m] = pvt[m]
  BY <1>0, CleanupCount
<1>4. ~Canceled(n)' /\ \A m \in Notifies : m # n => (Canceled(m)' <=> Canceled(m))
  BY <1>0, <1>3 DEF Canceled
<1>5. /\ \A q \in Records : /\ Times(rs, q) <= 1 /\ (IsIn(rs, q) <=> ppn[q] = n)
                            /\ Times(w, q) = 0 /\ ~IsIn(w, q)
      /\ \A m \in Notifies : Times(more, m) = 0
  <2>1. \A q \in Records : Times(<<>>, q) = 0 /\ ~IsIn(<<>>, q)
    BY TimesOne
  <2>2. \A m \in Notifies : Times(<<>>, m) = 0
    BY TimesOne
  <2>3. \A q \in Records : Times(waitList[n], q) <= 1 /\ (IsIn(waitList[n], q) <=> ppn[q] = n)
    BY <1>0 DEF Lists, OwnersAgree
  <2>. QED  BY <1>s, <2>1, <2>2, <2>3
<1>6. Lists' /\ waitList' \in [Notifies -> Seq(Records)]
  <2>1. GivesBack(n, new, w, rs)
    <3>1. waitList' = [waitList EXCEPT ![n] = w]
      BY <1>s
    <3>2. (w # <<>>) = (new \in InProgress)
      BY <1>2, <1>s
    <3>3. \A q \in Records :
          /\ Times(rs, q) <= 1 /\ Times(w, q) <= 1
          /\ IsIn(rs, q) => ppn[q] = n
          /\ IsIn(w, q) => ppn[q] = n /\ ~IsIn(rs, q)
          /\ ppn[q] = n => IsIn(rs, q)
      BY <1>5
    <3>. QED  BY <1>2, <1>4, <3>1, <3>2, <3>3 DEF GivesBack
  <2>2. TypeOK /\ Lists /\ Life /\ restartCheck(rs, s, more) /\ UNCHANGED inst
        /\ \A m \in Notifies : s[m] = IF m = n THEN new ELSE state[m]
    BY <1>0, <1>s
  <2>3. new \in States
    BY <1>2
  <2>. HIDE DEF new
  <2>. QED  BY ONLY n \in Notifies, w \in Seq(Records), rs \in Seq(Records), more \in Seq(Notifies),
               s \in [Notifies -> States], <2>1, <2>2, <2>3, RestartLists
<1>7. /\ \A m \in Notifies : m # n =>
            /\ Called(m)' = IF state'[m] \in Requested /\ m \notin refused' /\ ~Canceled(m)'
                            THEN 1 ELSE 0
            /\ m \in refused' => state'[m] \in Requested /\ ~Canceled(m)'
      /\ n \in refused' => n \in refused \/ Times(more, n) > 0
      /\ n \notin refused => Times(callbacks', n) =
            Times(callbacks, n) + IF n \in refused' THEN 0 ELSE Times(more, n)
      /\ \A m \in Notifies : /\ Heir(m, rs) => m # n /\ state[m] = "notifyWaitForRestart"
                             /\ state'[m] = IF Heir(m, rs) THEN "notifyRestartCallbackRequested"
                                            ELSE IF m = n THEN new ELSE state[m]
      /\ callbacks' \in Seq(Notifies) /\ refused' \subseteq Notifies
      /\ state' \in [Notifies -> States]
      /\ ppn' \in [Records -> Notifies \cup {None}]
      /\ restartList' \in [Records -> Seq(Notifies)]
      /\ \A q \in Records : ppn'[q] = IF IsIn(rs, q) THEN Owner(q) ELSE ppn[q]
  <2>1. \A m \in Notifies : m # n => /\ Times(more, m) = 0
                                     /\ InCallback(m)' = InCallback(m)
                                     /\ Canceled(m)' <=> Canceled(m)
    BY <1>0, <1>4, <1>5 DEF InCallback
  <2>2. /\ TypeOK /\ Lists /\ Life /\ PvtsReturned /\ OneCallback /\ restartCheck(rs, s, more)
        /\ \A m \in Notifies : s[m] = IF m = n THEN new ELSE state[m]
        /\ \A q \in Records : Times(rs, q) <= 1
        /\ state[n] # "notifyWaitForRestart" /\ new \in States
    BY <1>0, <1>2, <1>5, <1>s
  <2>. HIDE DEF new
  <2>. QED  BY ONLY n \in Notifies, rs \in Seq(Records), more \in Seq(Notifies),
               s \in [Notifies -> States], <2>1, <2>2, RestartCalls
<1>8. ASSUME cut = {} PROVE Still'
  <2>1. TypeOK /\ Still /\ UNCHANGED <<inst, pact>>
    BY <1>0, <1>8, StillThen
  <2>2. \A q \in Records : cause'[q] # None => cause'[q] = cause[q] /\ cause[q] # n
    BY <1>0, <1>1
  <2>3. GivenBack(n, new, rs)
    BY <1>2, <1>5, <1>7, <2>2 DEF GivenBack
  <2>. QED  BY <2>1, <2>3, GivenStill
<1>9. /\ n \notin refused' /\ Times(callbacks', n) = Times(callbacks, n)
      /\ state'[n] = "notifyNotActive"
      /\ NotifyInv /\ Takes(n)
      /\ \A m \in Notifies : m # n =>
            \/ state'[m] = state[m]
            \/ state[m] = "notifyWaitForRestart" /\ state'[m] = "notifyRestartCallbackRequested"
  <2>1. n \notin refused'
    BY <1>2, <1>5, <1>7
  <2>2. Times(callbacks', n) = Times(callbacks, n)
    <3>1. Times(callbacks, n) \in Nat
      BY <1>0, CalledOnce
    <3>. QED  BY <1>2, <1>5, <1>7, <3>1
  <2>. QED  BY <1>7, <2>1, <2>2
<1>. QED  BY ONLY n \in Notifies, <1>6, <1>7, <1>8, <1>9, TakesKeeps

\* dbNotifyCancel.
LEMMA CancelStep ==
    ASSUME NotifyInv, NEW n \in Notifies, dbNotifyCancel(n)
    PROVE  NotifyInv'
<1>0. /\ TypeOK /\ Life /\ LifeOf(n) /\ th[n].pc = "idle" /\ pvt[n] # 0 /\ ~Locked(Chan(n))
      /\ UNCHANGED <<inst, cut, recVars, userCallbackWait, cancelEvent, userCallbackEvent,
                     workVars, requests, owed>>
  BY DEF NotifyInv, Life, dbNotifyCancel
<1>1. CASE /\ state[n] \in CancelWaitsIn
           /\ cancelWait' = [cancelWait EXCEPT ![n] = TRUE] /\ Goes(n, "waitCancel")
           /\ UNCHANGED <<pvt, freeList, listVars, cbVars, served, cause>>
  <2>1. /\ userCallbackWait \in [Notifies -> BOOLEAN] /\ cancelWait \in [Notifies -> BOOLEAN]
        /\ requests \in [Notifies -> 0 .. inst.requests]
    BY <1>0, TypesThen
  <2>2. /\ userCallbackWait' \in [Notifies -> BOOLEAN] /\ cancelWait' \in [Notifies -> BOOLEAN]
        /\ requests' \in [Notifies -> 0 .. inst.requests]
        /\ cancelWait'[n] = TRUE
        /\ \A m \in Notifies : m # n => /\ cancelWait'[m] = cancelWait[m]
                                        /\ userCallbackWait'[m] = userCallbackWait[m]
    BY <1>0, <1>1, <2>1
  <2>3. th'[n].pc = "waitCancel"
    <3>1. th[n].pc \notin Processing
      BY <1>0 DEF Processing
    <3>. QED  BY <1>0, <1>1, <3>1, WaitPlace
  <2>4. UNCHANGED <<pvt, state, served, userCallbackWait, cancelEvent, userCallbackEvent, refused>>
    BY <1>0, <1>1 DEF listVars, cbVars
  <2>5. LifeOf(n)'
    BY <1>0, <1>1, <2>2, <2>3, <2>4 DEF LifeOf, Canceled
  <2>6. UNCHANGED <<inst, cut, recVars, pvt, freeList, cancelEvent, userCallbackEvent, listVars,
                    cbVars, workVars, history>>
    BY <1>0, <1>1 DEF history
  <2>7. NotifyInv /\ Goes(n, "waitCancel") /\ "waitCancel" \in {"waitUser", "waitCancel"}
    BY <1>1
  <2>. QED  BY ONLY n \in Notifies, <1>0, <2>2, <2>5, <2>6, <2>7, ClientWaits
<1>2. CASE /\ state[n] \notin CancelWaitsIn
           /\ TakenBack(n) /\ Cleanup(n)
           /\ served' = [served EXCEPT ![n] = TRUE]
           /\ cause' = [r \in Records |-> IF cause[r] = n THEN None ELSE cause[r]]
           /\ UNCHANGED <<cancelWait, th>>
  <2>1. Takes(n)
    BY <1>0, <1>2 DEF Takes, recVars, workVars
  <2>2. CASE /\ state[n] = "notifyWaitForRestart"
             /\ restartList' = [restartList EXCEPT ![Chan(n)] = Those(@, Notifies \ {n})]
             /\ state' = [state EXCEPT ![n] = "notifyNotActive"]
             /\ UNCHANGED <<ppn, waitList, cbVars>>
    BY <2>1, <2>2, TakenWaiting
  <2>3. CASE /\ state[n] \in InProgress
             /\ waitList' = [waitList EXCEPT ![n] = <<>>]
             /\ restartCheck(waitList[n] \o (IF ppn[Chan(n)] = n /\ ~IsIn(waitList[n], Chan(n))
                                             THEN <<Chan(n)>> ELSE <<>>),
                             [state EXCEPT ![n] = "notifyNotActive"], <<>>)
    BY <2>1, <2>3, TakenOwned
  <2>. QED  BY <1>2, <2>2, <2>3 DEF TakenBack
<1>. QED  BY <1>1, <1>2 DEF dbNotifyCancel

\* doneCallback is called: the request has been answered.
LEMMA DoneStep ==
    ASSUME NotifyInv, NEW t \in Threads, doneCallback(t)
    PROVE  NotifyInv'
<1>n. PICK n : n = th[t].n
  OBVIOUS
<1>0. /\ TypeOK /\ Places /\ Locks /\ Life /\ Lists /\ PvtsReturned /\ OneCallback /\ Putf /\ Chain
      /\ th[t].pc = "calling" /\ served' = [served EXCEPT ![n] = TRUE] /\ Goes(t, "returning")
      /\ UNCHANGED <<inst, cut, pact, putf, rpro, pending, pvt, cancelWait, userCallbackWait>>
      /\ UNCHANGED <<freeList, cancelEvent, userCallbackEvent, ppn, restartList, waitList, state>>
      /\ UNCHANGED <<callbacks, refused, onceQ, scans, requests, cause, owed>>
  BY <1>n DEF NotifyInv, doneCallback, recVars, pvtVars, listVars, cbVars, workVars
<1>1. /\ th \in [Threads -> Place] /\ th[t] \in Place /\ served \in [Notifies -> BOOLEAN]
      /\ \A m \in Notifies : m \in Threads
      /\ \A w \in Workers : w \in Threads
  BY <1>0, TypesThen, Typed
<1>e. PICK e : e = [th[t] EXCEPT !.pc = "returning"]
  OBVIOUS
<1>2. e \in Place /\ e.pc = "returning" /\ e.n = n
  BY <1>1, <1>e, <1>n DEF Place
<1>3. /\ th' = [th EXCEPT ![t] = e] /\ th'[t] = e
      /\ \A u \in Threads : u # t => th'[u] = th[u]
  BY <1>0, <1>1, <1>e DEF Goes
<1>4. /\ n \in Notifies /\ state[n] = "notifyUserCallbackActive" /\ ~Canceled(n)
      /\ ~userCallbackEvent[pvt[n]]
  BY <1>0, <1>n DEF Places
<1>5. /\ \A m \in Notifies : served'[m] = IF m = n THEN TRUE ELSE served[m]
      /\ served' \in [Notifies -> BOOLEAN]
      /\ \A m : Canceled(m)' <=> Canceled(m)
  BY <1>0, <1>1 DEF Canceled
<1>6. \A u \in Threads : \A m : CallsFor(u, m)' <=> CallsFor(u, m)
  BY <1>0, <1>2, <1>3, <1>n DEF CallsFor
<1>7. Places'
  <2>1. ASSUME NEW u \in Threads
        PROVE  /\ th'[u].pc \in {"waitUser", "waitCancel"} => u \in Notifies
               /\ th'[u].pc = "callback" => u \in Workers /\ th'[u].n \in Notifies
    BY <1>0, <1>2, <1>3 DEF Places
  <2>2. ASSUME NEW u \in Threads, th'[u].pc \in {"calling", "returning"}, NEW m, m = th'[u].n
        PROVE  /\ m \in Notifies /\ state'[m] = "notifyUserCallbackActive"
               /\ served'[m] = (th'[u].pc = "returning")
               /\ ~Canceled(m)' /\ ~userCallbackEvent'[pvt'[m]]
    <3>1. CASE u = t
      BY <1>0, <1>2, <1>3, <1>4, <1>5, <2>2, <3>1
    <3>2. CASE u # t
      <4>1. th'[u] = th[u] /\ m # n
        <5>1. CallsFor(t, n)
          BY <1>0, <1>n DEF CallsFor
        <5>2. CallsFor(u, m)
          BY <1>3, <2>2, <3>2 DEF CallsFor
        <5>. QED  BY <1>0, <1>3, <1>4, <3>2, <5>1, <5>2 DEF Places
      <4>2. /\ m \in Notifies /\ state[m] = "notifyUserCallbackActive"
            /\ served[m] = (th[u].pc = "returning") /\ ~Canceled(m) /\ ~userCallbackEvent[pvt[m]]
        BY <1>0, <2>2, <4>1 DEF Places
      <4>. QED  BY <1>0, <1>5, <4>1, <4>2
    <3>. QED  BY <3>1, <3>2
  <2>3. \A u, v \in Threads, m \in Notifies : CallsFor(u, m)' /\ CallsFor(v, m)' => u = v
    BY <1>0, <1>6 DEF Places
  <2>. QED  BY <2>1, <2>2, <2>3 DEF Places
<1>8. Life'
  <2>1. ASSUME NEW m \in Notifies PROVE LifeOf(m)'
    <3>1. /\ LifeOf(m)
          /\ th'[m].pc = "waitCancel" <=> th[m].pc = "waitCancel"
          /\ th'[m].pc = "waitUser" <=> th[m].pc = "waitUser"
      BY <1>0, <1>1, <1>2, <1>3 DEF Life
    <3>2. CASE m # n
      BY <1>0, <1>5, <3>1, <3>2 DEF LifeOf
    <3>3. CASE m = n
      BY <1>0, <1>4, <1>5, <3>1, <3>3 DEF LifeOf
    <3>. QED  BY <3>2, <3>3
  <2>. QED  BY <2>1 DEF Life
<1>9. Lists'
  BY <1>0, <1>5 DEF Lists, OwnersAgree, Chan
<1>10. PvtsReturned'
  <2>1. \A p : Held(p)' = Held(p)
    BY <1>0 DEF Held
  <2>2. \A m \in Notifies : th[m].pc \in {"waitCancel", "waitUser"}
                               => th'[m].pc \in {"waitCancel", "waitUser"}
    BY <1>0, <1>1, <1>3
  <2>. QED  BY <1>0, <2>1, <2>2 DEF PvtsReturned, Pvts
<1>11. OneCallback'
  <2>1. \A m : InCallback(m)' = InCallback(m)
    BY <1>0, <1>1, <1>2, <1>3 DEF InCallback
  <2>2. \A m : /\ Called(m) = Times(callbacks, m) + Cardinality(InCallback(m))
               /\ Called(m)' = Times(callbacks', m) + Cardinality(InCallback(m)')
    BY DEF Called, InCallback
  <2>3. \A m : Called(m)' = Called(m)
    BY <1>0, <2>1, <2>2
  <2>. QED  BY <1>0, <1>5, <2>3 DEF OneCallback
<1>12. SameWork
  <2>1. ~Working(t) /\ e.pc \notin Processing
    BY <1>0, <1>2 DEF Working, Processing
  <2>. QED  BY ONLY t \in Threads, <1>0, <1>2, <1>3, <2>1, Apart
<1>13. Locks' /\ Putf' /\ Chain'
  BY <1>0, <1>12, RestKeeps
<1>14. TypeOK'
  <2>1. /\ cut' \subseteq inst.cuts /\ pact' \in [Records -> BOOLEAN]
        /\ putf' \in [Records -> BOOLEAN] /\ rpro' \in [Records -> BOOLEAN]
        /\ ppn' \in [Records -> Notifies \cup {None}]
        /\ restartList' \in [Records -> Seq(Notifies)] /\ waitList' \in [Notifies -> Seq(Records)]
        /\ pvt' \in [Notifies -> {0} \cup Pvts] /\ state' \in [Notifies -> States]
        /\ cancelWait' \in [Notifies -> BOOLEAN] /\ userCallbackWait' \in [Notifies -> BOOLEAN]
        /\ freeList' \in Seq(Pvts) /\ callbacks' \in Seq(Notifies) /\ refused' \subseteq Notifies
        /\ cancelEvent' \in [Pvts -> BOOLEAN] /\ userCallbackEvent' \in [Pvts -> BOOLEAN]
        /\ onceQ' \in Seq(Records) /\ pending' \subseteq inst.async /\ scans' \in 0 .. inst.scans
        /\ requests' \in [Notifies -> 0 .. inst.requests]
        /\ cause' \in [Records -> Notifies \cup {None}] /\ owed' \subseteq Records
    BY <1>0, TypesThen
  <2>2. th' \in [Threads -> Place]
    BY <1>1, <1>2, <1>3
  <2>. QED  BY <1>0, <1>5, <2>1, <2>2, TypesKept
<1>. QED  BY <1>7, <1>8, <1>9, <1>10, <1>11, <1>13, <1>14 DEF NotifyInv

\* A callback thread takes the next of its queue.
LEMMA TakeStep ==
    ASSUME NotifyInv, NEW w \in Workers, TakeCallback(w)
    PROVE  NotifyInv'
<1>n. PICK n : n = Head(callbacks)
  OBVIOUS
<1>e. PICK e : e = [Idle EXCEPT !.pc = "callback", !.n = n]
  OBVIOUS
<1>0. /\ TypeOK /\ Places /\ Locks /\ Life /\ Lists /\ PvtsReturned /\ OneCallback /\ Putf /\ Chain
      /\ th[w].pc = "idle" /\ callbacks # <<>> /\ callbacks' = Tail(callbacks)
      /\ th' = [th EXCEPT ![w] = e]
      /\ UNCHANGED <<inst, cut, pact, putf, rpro, pending, pvt, cancelWait, userCallbackWait>>
      /\ UNCHANGED <<freeList, cancelEvent, userCallbackEvent, ppn, restartList, waitList, state>>
      /\ UNCHANGED <<refused, onceQ, scans, requests, served, cause, owed>>
  BY <1>n, <1>e DEF NotifyInv, TakeCallback, recVars, pvtVars, listVars, workVars, history
<1>1. /\ th \in [Threads -> Place] /\ callbacks \in Seq(Notifies) /\ w \in Threads /\ w \notin Notifies
      /\ \A m \in Notifies : m \in Threads
      /\ \A v \in Workers : v \in Threads
  BY <1>0, TypesThen, Typed
<1>2. /\ n \in Notifies /\ callbacks' \in Seq(Notifies)
      /\ \A m : Times(callbacks, m) = Times(callbacks', m) + (IF n = m THEN 1 ELSE 0)
      /\ \A m : Times(callbacks', m) \in Nat
  <2>1. n \in Notifies /\ callbacks' \in Seq(Notifies)
    BY <1>0, <1>1, <1>n
  <2>2. \A m : Times(callbacks, m) = Times(callbacks', m) + (IF n = m THEN 1 ELSE 0)
    BY <1>0, <1>1, <1>n, TimesChange
  <2>3. \A m : Times(callbacks', m) \in Nat
    BY <2>1, TimesIn
  <2>. QED  BY <2>1, <2>2, <2>3
<1>3. /\ e \in Place /\ e.pc = "callback" /\ e.n = n
      /\ th'[w] = e /\ \A u \in Threads : u # w => th'[u] = th[u]
  <2>1. Idle \in Place
    BY <1>0, <1>1, OtherPlace
  <2>2. e \in Place /\ e.pc = "callback" /\ e.n = n
    BY <1>2, <1>e, <2>1 DEF Place
  <2>. QED  BY <1>0, <1>1, <2>2
<1>4. \A m : Canceled(m)' <=> Canceled(m)
  BY <1>0 DEF Canceled
<1>5. Places'
  <2>1. ASSUME NEW u \in Threads
        PROVE  /\ th'[u].pc \in {"waitUser", "waitCancel"} => u \in Notifies
               /\ th'[u].pc = "callback" => u \in Workers /\ th'[u].n \in Notifies
    BY <1>0, <1>2, <1>3 DEF Places
  <2>2. ASSUME NEW u \in Threads, th'[u].pc \in {"calling", "returning"}, NEW m, m = th'[u].n
        PROVE  /\ m \in Notifies /\ state'[m] = "notifyUserCallbackActive"
               /\ served'[m] = (th'[u].pc = "returning")
               /\ ~Canceled(m)' /\ ~userCallbackEvent'[pvt'[m]]
    <3>1. th'[u] = th[u]
      BY <1>3, <2>2
    <3>2. /\ m \in Notifies /\ state[m] = "notifyUserCallbackActive"
          /\ served[m] = (th[u].pc = "returning") /\ ~Canceled(m) /\ ~userCallbackEvent[pvt[m]]
      BY <1>0, <2>2, <3>1 DEF Places
    <3>. QED  BY <1>0, <1>4, <3>1, <3>2
  <2>3. \A u, v \in Threads, m \in Notifies : CallsFor(u, m)' /\ CallsFor(v, m)' => u = v
    <3>1. \A u \in Threads : \A m : CallsFor(u, m)' <=> CallsFor(u, m)
      BY <1>0, <1>3 DEF CallsFor
    <3>. QED  BY <1>0, <3>1 DEF Places
  <2>. QED  BY <2>1, <2>2, <2>3 DEF Places
<1>6. Life'
  <2>1. ASSUME NEW m \in Notifies PROVE LifeOf(m)'
    <3>1. LifeOf(m) /\ th'[m] = th[m]
      BY <1>0, <1>1, <1>3 DEF Life
    <3>. QED  BY <1>0, <1>4, <3>1 DEF LifeOf
  <2>. QED  BY <2>1 DEF Life
<1>7. Lists'
  BY <1>0, <1>4 DEF Lists, OwnersAgree, Chan
<1>8. PvtsReturned'
  <2>1. \A p : Held(p)' = Held(p)
    BY <1>0 DEF Held
  <2>2. \A m \in Notifies : th'[m] = th[m]
    BY <1>1, <1>3
  <2>. QED  BY <1>0, <2>1, <2>2 DEF PvtsReturned, Pvts
<1>9. OneCallback'
  <2>1. ASSUME NEW m \in Notifies PROVE Called(m)' = Called(m)
    <3>1. /\ Called(m) = Times(callbacks, m) + Cardinality(InCallback(m))
          /\ Called(m)' = Times(callbacks', m) + Cardinality(InCallback(m)')
          /\ IsFiniteSet(InCallback(m)) /\ Cardinality(InCallback(m)) \in Nat
      <4>1. Called(m)' = Times(callbacks', m) + Cardinality(InCallback(m)')
        BY DEF Called, InCallback
      <4>. QED  BY <1>0, <4>1, CalledOnce
    <3>2. CASE m # n
      <4>1. InCallback(m)' = InCallback(m)
        BY <1>0, <1>1, <1>3, <3>2 DEF InCallback
      <4>2. Times(callbacks, m) = Times(callbacks', m)
        BY <1>2, <3>2
      <4>. QED  BY <3>1, <4>1, <4>2
    <3>3. CASE m = n
      <4>1. InCallback(n)' = InCallback(n) \cup {w} /\ w \notin InCallback(n)
        BY <1>0, <1>1, <1>3 DEF InCallback
      <4>2. Cardinality(InCallback(n)') = Cardinality(InCallback(n)) + 1
        BY <3>1, <3>3, <4>1, FS_AddElement
      <4>3. Times(callbacks, n) = Times(callbacks', n) + 1 /\ Times(callbacks', n) \in Nat
        BY <1>2
      <4>. QED  BY <3>1, <3>3, <4>2, <4>3
    <3>. QED  BY <3>2, <3>3
  <2>. QED  BY <1>0, <1>4, <2>1 DEF OneCallback
<1>10. SameWork
  <2>1. ~Working(w) /\ e.pc \notin Processing
    BY <1>0, <1>3 DEF Working, Processing
  <2>. QED  BY ONLY <1>0, <1>1, <1>3, <2>1, Apart
<1>11. Locks' /\ Putf' /\ Chain'
  BY <1>0, <1>10, RestKeeps
<1>12. TypeOK'
  <2>1. /\ cut' \subseteq inst.cuts /\ pact' \in [Records -> BOOLEAN]
        /\ putf' \in [Records -> BOOLEAN] /\ rpro' \in [Records -> BOOLEAN]
        /\ ppn' \in [Records -> Notifies \cup {None}]
        /\ restartList' \in [Records -> Seq(Notifies)] /\ waitList' \in [Notifies -> Seq(Records)]
        /\ pvt' \in [Notifies -> {0} \cup Pvts] /\ state' \in [Notifies -> States]
        /\ cancelWait' \in [Notifies -> BOOLEAN] /\ userCallbackWait' \in [Notifies -> BOOLEAN]
        /\ freeList' \in Seq(Pvts) /\ refused' \subseteq Notifies
        /\ cancelEvent' \in [Pvts -> BOOLEAN] /\ userCallbackEvent' \in [Pvts -> BOOLEAN]
        /\ onceQ' \in Seq(Records) /\ pending' \subseteq inst.async /\ scans' \in 0 .. inst.scans
        /\ requests' \in [Notifies -> 0 .. inst.requests] /\ served' \in [Notifies -> BOOLEAN]
        /\ cause' \in [Records -> Notifies \cup {None}] /\ owed' \subseteq Records
    BY <1>0, TypesThen
  <2>2. th' \in [Threads -> Place]
    BY <1>0, <1>1, <1>3
  <2>. QED  BY <1>0, <1>2, <2>1, <2>2, TypesKept
<1>. QED  BY <1>5, <1>6, <1>7, <1>8, <1>9, <1>11, <1>12 DEF NotifyInv

\* A thread signals the client that waits with the notifyPvt of its request.
Signaled(n, t) ==
    /\ UNCHANGED <<pvt, freeList, served>>
    /\ pvt[n] # 0 /\ th[n].pc \in {"waitCancel", "waitUser"}
    /\ th[t].pc \in {"callback", "returning"} /\ th[t].n = n
    /\ th' = [th EXCEPT ![t] = Idle]
    /\ cancelEvent' \in [Pvts -> BOOLEAN] /\ userCallbackEvent' \in [Pvts -> BOOLEAN]
    /\ \A p \in Pvts : p # pvt[n] => /\ cancelEvent'[p] = cancelEvent[p]
                                     /\ userCallbackEvent'[p] = userCallbackEvent[p]

\* The signal is for that client alone.
LEMMA SignalKeeps ==
    ASSUME TypeOK, PvtsReturned, NEW n \in Notifies, NEW t \in Threads, Signaled(n, t)
    PROVE  /\ PvtsReturned' /\ t # n /\ th'[n] = th[n]
           /\ \A u \in Threads : u # t => th'[u] = th[u]
           /\ \A m \in Notifies : m # n =>
                 /\ Canceled(m)' <=> Canceled(m)
                 /\ pvt[m] # 0 => /\ cancelEvent'[pvt[m]] = cancelEvent[pvt[m]]
                                  /\ userCallbackEvent'[pvt[m]] = userCallbackEvent[pvt[m]]
<1>0. /\ UNCHANGED <<pvt, freeList>>
      /\ pvt[n] # 0 /\ th[n].pc \in {"waitCancel", "waitUser"}
      /\ th[t].pc \in {"callback", "returning"} /\ th' = [th EXCEPT ![t] = Idle]
      /\ \A p \in Pvts : p # pvt[n] => /\ cancelEvent'[p] = cancelEvent[p]
                                       /\ userCallbackEvent'[p] = userCallbackEvent[p]
      /\ n \in Threads
  BY Typed DEF Signaled
<1>1. t # n
  BY <1>0
<1>2. \A u \in Threads : u # t => th'[u] = th[u]
  BY <1>0, OtherPlace
<1>3. ASSUME NEW m \in Notifies, m # n, pvt[m] # 0
      PROVE  /\ cancelEvent'[pvt[m]] = cancelEvent[pvt[m]]
             /\ userCallbackEvent'[pvt[m]] = userCallbackEvent[pvt[m]]
  <2>1. pvt[m] \in Pvts /\ pvt[m] # pvt[n]
    BY <1>3, Typed, Unshared
  <2>. QED  BY <1>0, <2>1
<1>4. \A m \in Notifies : m # n => (Canceled(m)' <=> Canceled(m))
  BY <1>0, <1>3 DEF Canceled
<1>5. ASSUME NEW p \in Pvts, cancelEvent'[p] \/ userCallbackEvent'[p]
      PROVE  \E m \in Notifies : pvt'[m] = p /\ th'[m].pc \in {"waitCancel", "waitUser"}
  <2>1. CASE p = pvt[n]
    BY <1>0, <1>1, <1>2, <2>1
  <2>2. CASE p # pvt[n]
    <3>1. PICK m \in Notifies : pvt[m] = p /\ th[m].pc \in {"waitCancel", "waitUser"}
      BY <1>0, <1>5, <2>2 DEF PvtsReturned
    <3>2. m # t /\ m \in Threads
      BY <1>0, <3>1, Typed
    <3>. QED  BY <1>0, <1>2, <3>1, <3>2
  <2>. QED  BY <2>1, <2>2
<1>6. PvtsReturned'
  <2>1. Pvts' = Pvts /\ \A p : Held(p)' = Held(p)
    BY <1>0 DEF Pvts, Held
  <2>. QED  BY <1>5, <2>1 DEF PvtsReturned
<1>. QED  BY <1>0, <1>1, <1>2, <1>3, <1>4, <1>6

\* callDone, after doneCallback has returned.
LEMMA CallDoneStep ==
    ASSUME NotifyInv, NEW t \in Threads, callDone(t)
    PROVE  NotifyInv'
<1>n. PICK n : n = th[t].n
  OBVIOUS
<1>0. /\ TypeOK /\ Places /\ Locks /\ Life /\ Lists /\ PvtsReturned /\ OneCallback /\ Putf /\ Chain
      /\ OwnersAgree
      /\ th[t].pc = "returning" /\ th' = [th EXCEPT ![t] = Idle]
      /\ cancelWait' = [cancelWait EXCEPT ![n] = FALSE]
      /\ userCallbackWait' = [userCallbackWait EXCEPT ![n] = FALSE]
      /\ UNCHANGED <<inst, cut, pact, putf, rpro, pending, ppn, restartList, waitList>>
      /\ UNCHANGED <<callbacks, refused, onceQ, scans, requests, served, cause, owed>>
  BY <1>n DEF NotifyInv, Lists, callDone, Rests, recVars, cbVars, workVars, history
<1>1. /\ n \in Notifies /\ state[n] = "notifyUserCallbackActive" /\ served[n] = TRUE
      /\ ~Canceled(n) /\ ~userCallbackEvent[pvt[n]]
  BY <1>0, <1>n DEF Places
<1>2. /\ LifeOf(n) /\ pvt[n] # 0 /\ n \notin refused /\ pvt[n] \in Pvts
      /\ th[n].pc \in {"waitCancel", "waitUser"} => cancelWait[n] \/ userCallbackWait[n]
  <2>1. LifeOf(n) /\ pvt[n] # 0 /\ n \notin refused
    BY <1>0, <1>1 DEF Life, LifeOf, Requested
  <2>. QED  BY <1>0, <1>1, <2>1, Typed DEF LifeOf, Canceled
<1>3. /\ cancelWait \in [Notifies -> BOOLEAN] /\ userCallbackWait \in [Notifies -> BOOLEAN]
      /\ cancelEvent \in [Pvts -> BOOLEAN] /\ userCallbackEvent \in [Pvts -> BOOLEAN]
      /\ state \in [Notifies -> States] /\ served \in [Notifies -> BOOLEAN]
      /\ \A m \in Notifies : m \in Threads
      /\ \A w \in Workers : w \in Threads
  BY <1>0, TypesThen, Typed
<1>4. /\ cancelWait' \in [Notifies -> BOOLEAN] /\ userCallbackWait' \in [Notifies -> BOOLEAN]
      /\ cancelWait'[n] = FALSE /\ userCallbackWait'[n] = FALSE
      /\ \A m \in Notifies : m # n => /\ cancelWait'[m] = cancelWait[m]
                                      /\ userCallbackWait'[m] = userCallbackWait[m]
  BY <1>0, <1>1, <1>3
<1>e. PICK e \in Place : e = Idle /\ e.pc = "idle"
  BY <1>0, OtherPlace
<1>5. /\ th' = [th EXCEPT ![t] = e] /\ th'[t] = e /\ \A u \in Threads : u # t => th'[u] = th[u]
  BY <1>0, <1>e, OtherPlace
<1>6. SameWork
  <2>1. ~Working(t) /\ e.pc \notin Processing
    BY <1>0, <1>e DEF Working, Processing
  <2>. QED  BY ONLY t \in Threads, e \in Place, <1>0, <1>5, <2>1, Apart
<1>7. Times(callbacks, n) = 0 /\ InCallback(n) = {} /\ \A q \in Records : ppn[q] # n
  <2>1. state[n] \notin Requested /\ state[n] \notin InProgress
        /\ state[n] # "notifyRestartCallbackRequested"
    BY <1>1 DEF Requested, InProgress
  <2>. QED  BY <1>0, <1>1, <2>1, CalledOnce DEF OwnersAgree
<1>8. \A u \in Threads : u # t => ~CallsFor(u, n)
  <2>1. CallsFor(t, n)
    BY <1>0, <1>n DEF CallsFor
  <2>. QED  BY <1>0, <1>1, <2>1 DEF Places
<1>9. \A m \in Notifies : m # n => Called(m)' = Called(m)
  <2>1. \A m \in Notifies : m # n => InCallback(m)' = InCallback(m)
    BY <1>0, <1>e, <1>3, <1>5 DEF InCallback
  <2>2. \A m : /\ Called(m) = Times(callbacks, m) + Cardinality(InCallback(m))
               /\ Called(m)' = Times(callbacks', m) + Cardinality(InCallback(m)')
    BY DEF Called, InCallback
  <2>. QED  BY <1>0, <2>1, <2>2
\* what is left to show, for the end of the request and for a signal
<1>10. ASSUME NEW new \in {"notifyUserCallbackActive", "notifyNotActive"},
              \A m \in Notifies : state'[m] = IF m = n THEN new ELSE state[m],
              state' \in [Notifies -> States], LifeOf(n)', PvtsReturned',
              freeList' \in Seq(Pvts), pvt' \in [Notifies -> {0} \cup Pvts],
              cancelEvent' \in [Pvts -> BOOLEAN], userCallbackEvent' \in [Pvts -> BOOLEAN],
              \A m \in Notifies : m # n =>
                 /\ pvt'[m] = pvt[m] /\ (Canceled(m)' <=> Canceled(m))
                 /\ pvt[m] # 0 => /\ cancelEvent'[pvt[m]] = cancelEvent[pvt[m]]
                                  /\ userCallbackEvent'[pvt[m]] = userCallbackEvent[pvt[m]]
       PROVE  NotifyInv'
  <2>1. Along(n)
    <3>1. \A m \in Notifies : m # n =>
             /\ Called(m) = IF state[m] \in Requested /\ m \notin refused /\ ~Canceled(m) THEN 1 ELSE 0
             /\ m \in refused => state[m] \in Requested /\ ~Canceled(m)
      BY <1>0 DEF OneCallback, Life, LifeOf
    <3>. QED  BY <1>0, <1>4, <1>9, <1>10, <3>1 DEF Along
  <2>2. EndsFor(n, t)
    <3>1. state'[n] \notin Requested
      BY <1>1, <1>10 DEF Requested
    <3>. QED  BY <1>0, <1>7, <1>8, <1>n, <3>1 DEF EndsFor
  <2>3. Places' /\ Life' /\ OneCallback'
    BY ONLY t \in Threads, e \in Place, <1>e, <1>0, <1>1, <1>5, <1>10, <2>1, <2>2, EndsKeeps
  <2>4. Lists'
    <3>1. OneState(n, new) /\ state[n] \in CancelWaitsIn
      BY <1>1, <1>10 DEF OneState, CancelWaitsIn
    <3>. QED  BY ONLY new \in {"notifyUserCallbackActive", "notifyNotActive"},
                 <1>0, <1>1, <1>7, <3>1, EndLists
  <2>5. Locks' /\ Putf' /\ Chain'
    <3>1. \A m \in Notifies : \/ state'[m] = state[m]
                              \/ state'[m] = "notifyNotActive" /\ state[m] \in CancelWaitsIn
      BY <1>1, <1>10 DEF CancelWaitsIn
    <3>. QED  BY <1>0, <1>6, <3>1, RestKeeps
  <2>6. TypeOK'
    <3>1. /\ cut' \subseteq inst.cuts /\ pact' \in [Records -> BOOLEAN]
          /\ putf' \in [Records -> BOOLEAN] /\ rpro' \in [Records -> BOOLEAN]
          /\ ppn' \in [Records -> Notifies \cup {None}]
          /\ restartList' \in [Records -> Seq(Notifies)] /\ waitList' \in [Notifies -> Seq(Records)]
          /\ callbacks' \in Seq(Notifies) /\ refused' \subseteq Notifies
          /\ onceQ' \in Seq(Records) /\ pending' \subseteq inst.async /\ scans' \in 0 .. inst.scans
          /\ requests' \in [Notifies -> 0 .. inst.requests] /\ served' \in [Notifies -> BOOLEAN]
          /\ cause' \in [Records -> Notifies \cup {None}] /\ owed' \subseteq Records
      BY <1>0, TypesThen
    <3>2. th' \in [Threads -> Place]
      <4>1. th \in [Threads -> Place]
        BY <1>0, TypesThen
      <4>. QED  BY <1>5, <4>1
    <3>. QED  BY <1>0, <1>4, <1>10, <3>1, <3>2, TypesKept
  <2>. QED  BY <1>10, <2>3, <2>4, <2>5, <2>6 DEF NotifyInv
<1>11. CASE /\ ~cancelWait[n] /\ ~userCallbackWait[n]
            /\ Cleanup(n) /\ state' = [state EXCEPT ![n] = "notifyNotActive"]
            /\ UNCHANGED <<cancelEvent, userCallbackEvent>>
  <2>1. /\ \A m \in Notifies : state'[m] = IF m = n THEN "notifyNotActive" ELSE state[m]
        /\ state' \in [Notifies -> States]
    BY <1>1, <1>3, <1>11 DEF States
  <2>2. Gone(n)
    <3>1. OthersSignals(n)
      BY <1>1, <1>2, <1>3, <1>11 DEF OthersSignals, Canceled
    <3>2. th'[n].pc \notin {"waitCancel", "waitUser"}
      <4>1. CASE n = t
        BY <1>5, <1>e, <4>1
      <4>2. CASE n # t
        BY <1>1, <1>2, <1>3, <1>5, <1>11, <4>2 DEF LifeOf, Canceled
      <4>. QED  BY <4>1, <4>2
    <3>3. \A m \in Notifies : m # n /\ th[m].pc \in {"waitCancel", "waitUser"} =>
             th'[m].pc \in {"waitCancel", "waitUser"}
      BY <1>0, <1>3, <1>5
    <3>. QED  BY <1>0, <1>1, <1>2, <1>4, <1>11, <2>1, <3>1, <3>2, <3>3 DEF Gone
  <2>3. /\ LifeOf(n)' /\ ~Canceled(n)' /\ PvtsReturned'
        /\ freeList' \in Seq(Pvts) /\ pvt' \in [Notifies -> {0} \cup Pvts]
        /\ \A m \in Notifies : m # n =>
              /\ pvt'[m] = pvt[m] /\ (Canceled(m)' <=> Canceled(m))
              /\ pvt[m] # 0 => /\ cancelEvent'[pvt[m]] = cancelEvent[pvt[m]]
                               /\ userCallbackEvent'[pvt[m]] = userCallbackEvent[pvt[m]]
    BY ONLY <1>0, <1>1, <2>2, GoneKeeps
  <2>4. cancelEvent' \in [Pvts -> BOOLEAN] /\ userCallbackEvent' \in [Pvts -> BOOLEAN]
    BY <1>3, <1>11
  <2>. QED  BY ONLY <2>1, <2>3, <2>4, <1>10
<1>12. ASSUME th[n].pc \in {"waitCancel", "waitUser"}, UNCHANGED <<pvt, freeList, state>>, LifeOf(n)',
              cancelEvent' \in [Pvts -> BOOLEAN], userCallbackEvent' \in [Pvts -> BOOLEAN],
              \A p \in Pvts : p # pvt[n] => /\ cancelEvent'[p] = cancelEvent[p]
                                            /\ userCallbackEvent'[p] = userCallbackEvent[p]
       PROVE  NotifyInv'
  <2>1. Signaled(n, t)
    BY <1>0, <1>2, <1>12, <1>n DEF Signaled
  <2>2. PICK new \in {"notifyUserCallbackActive", "notifyNotActive"} : new = "notifyUserCallbackActive"
    OBVIOUS
  <2>3. /\ PvtsReturned'
        /\ \A m \in Notifies : m # n =>
              /\ Canceled(m)' <=> Canceled(m)
              /\ pvt[m] # 0 => /\ cancelEvent'[pvt[m]] = cancelEvent[pvt[m]]
                               /\ userCallbackEvent'[pvt[m]] = userCallbackEvent[pvt[m]]
    BY ONLY t \in Threads, <1>0, <1>1, <2>1, SignalKeeps
  <2>4. /\ freeList' \in Seq(Pvts) /\ pvt' \in [Notifies -> {0} \cup Pvts]
        /\ state' \in [Notifies -> States]
        /\ \A m \in Notifies : state'[m] = IF m = n THEN new ELSE state[m]
        /\ \A m \in Notifies : pvt'[m] = pvt[m]
    BY <1>0, <1>1, <1>12, <2>2, TypesThen
  <2>. QED  BY <1>10, <1>12, <2>3, <2>4
<1>13. CASE cancelWait[n] /\ ~userCallbackWait[n] /\ SignalCancel(n) /\ UNCHANGED state
  <2>1. /\ cancelEvent' = [cancelEvent EXCEPT ![pvt[n]] = TRUE]
        /\ UNCHANGED <<pvt, freeList, userCallbackEvent, state>>
    BY <1>13 DEF SignalCancel
  <2>2. th[n].pc = "waitCancel"
    BY <1>2, <1>13 DEF LifeOf
  <2>3. /\ cancelEvent' \in [Pvts -> BOOLEAN] /\ userCallbackEvent' \in [Pvts -> BOOLEAN]
        /\ cancelEvent'[pvt[n]] /\ ~userCallbackEvent'[pvt[n]]
        /\ \A p \in Pvts : p # pvt[n] => /\ cancelEvent'[p] = cancelEvent[p]
                                         /\ userCallbackEvent'[p] = userCallbackEvent[p]
    BY <1>1, <1>2, <1>3, <2>1
  <2>4. th'[n] = th[n]
    BY <1>0, <1>1, <1>3, <1>5, <2>2
  <2>5. LifeOf(n)'
    BY <1>0, <1>1, <1>2, <1>4, <2>1, <2>2, <2>3, <2>4 DEF LifeOf, CancelWaitsIn
  <2>. QED  BY <1>12, <2>1, <2>2, <2>3, <2>5
<1>14. CASE ~cancelWait[n] /\ userCallbackWait[n] /\ SignalUser(n) /\ UNCHANGED state
  <2>1. /\ userCallbackEvent' = [userCallbackEvent EXCEPT ![pvt[n]] = TRUE]
        /\ UNCHANGED <<pvt, freeList, cancelEvent, state>>
    BY <1>14 DEF SignalUser
  <2>2. th[n].pc = "waitUser"
    BY <1>2, <1>14 DEF LifeOf
  <2>3. /\ cancelEvent' \in [Pvts -> BOOLEAN] /\ userCallbackEvent' \in [Pvts -> BOOLEAN]
        /\ userCallbackEvent'[pvt[n]] /\ ~cancelEvent'[pvt[n]]
        /\ \A p \in Pvts : p # pvt[n] => /\ cancelEvent'[p] = cancelEvent[p]
                                         /\ userCallbackEvent'[p] = userCallbackEvent[p]
    BY <1>1, <1>2, <1>3, <2>1 DEF Canceled
  <2>4. th'[n] = th[n]
    BY <1>0, <1>1, <1>3, <1>5, <2>2
  <2>5. LifeOf(n)'
    BY <1>0, <1>1, <1>2, <1>4, <2>1, <2>2, <2>3, <2>4 DEF LifeOf, Canceled
  <2>. QED  BY <1>12, <2>1, <2>2, <2>3, <2>5
<1>. QED  BY <1>11, <1>13, <1>14, <1>n DEF callDone

\* What is known of a request whose callback a thread has taken.
Taken(n, w) ==
    /\ TypeOK /\ Places /\ Locks /\ Life /\ Lists /\ PvtsReturned /\ OneCallback
    /\ Putf /\ Chain /\ OwnersAgree /\ LifeOf(n)
    /\ w \in Threads /\ w \notin Notifies /\ n \in Notifies /\ n \in Threads
    /\ state[n] \in Requested /\ n \notin refused /\ ~Canceled(n)
    /\ Times(callbacks, n) = 0 /\ InCallback(n) = {w}
    /\ pvt[n] \in Pvts /\ pvt[n] # 0 /\ served[n] = FALSE /\ waitList[n] = <<>>
    /\ ~cancelEvent[pvt[n]] /\ ~userCallbackEvent[pvt[n]] /\ ~userCallbackWait[n]
    /\ th[n].pc # "waitUser" /\ (th[n].pc = "waitCancel" => cancelWait[n])
    /\ \A u \in Threads : ~CallsFor(u, n)
    /\ \A r \in Records : ppn[r] = n <=>
                             state[n] = "notifyRestartCallbackRequested" /\ r = Chan(n)
    /\ Chan(n) \in Records

\* So it is.
LEMMA CallbackThen ==
    ASSUME NotifyInv, NEW w \in Workers, th[w].pc = "callback", NEW n, n = th[w].n
    PROVE  Taken(n, w)
<1>1. /\ TypeOK /\ Places /\ Locks /\ Life /\ Lists /\ PvtsReturned /\ OneCallback
      /\ Putf /\ Chain /\ OwnersAgree
  BY DEF NotifyInv, Lists
<1>2. w \in Threads /\ w \notin Notifies /\ n \in Notifies /\ n \in Threads /\ Chan(n) \in Records
  BY <1>1, Typed DEF Places
<1>3. w \in InCallback(n)
  BY DEF InCallback
<1>4. /\ state[n] \in Requested /\ n \notin refused /\ ~Canceled(n)
      /\ Times(callbacks, n) = 0 /\ InCallback(n) = {w}
  BY <1>1, <1>2, <1>3, CalledOnce
<1>5. LifeOf(n)
  BY <1>1, <1>2 DEF Life
<1>6. /\ pvt[n] # 0 /\ served[n] = FALSE /\ ~cancelEvent[pvt[n]] /\ ~userCallbackEvent[pvt[n]]
      /\ ~userCallbackWait[n] /\ th[n].pc # "waitUser" /\ (th[n].pc = "waitCancel" => cancelWait[n])
  <2>1. state[n] # "notifyNotActive" /\ state[n] # "notifyUserCallbackActive" /\ served[n] \in BOOLEAN
    BY <1>1, <1>2, <1>4, Typed DEF Requested
  <2>. QED  BY <1>4, <1>5, <2>1 DEF LifeOf, Canceled
<1>7. pvt[n] \in Pvts
  BY <1>1, <1>2, <1>6, Typed
<1>8. \A u \in Threads : ~CallsFor(u, n)
  BY <1>1, <1>4 DEF Places, CallsFor, Requested
<1>9. waitList[n] = <<>> /\ \A r \in Records :
         ppn[r] = n <=> state[n] = "notifyRestartCallbackRequested" /\ r = Chan(n)
  <2>1. state[n] \notin InProgress
    BY <1>4 DEF Requested, InProgress
  <2>2. state[n] = "notifyRestartCallbackRequested" => ppn[Chan(n)] = n
    BY <1>1, <1>2, <1>4 DEF OwnersAgree
  <2>3. waitList[n] = <<>>
    BY <1>1, <1>2, <2>1 DEF OwnersAgree
  <2>4. \A r \in Records :
           ppn[r] = n => state[n] = "notifyRestartCallbackRequested" /\ r = Chan(n)
    BY <1>1, <1>2, <2>1 DEF OwnersAgree
  <2>. QED  BY <2>2, <2>3, <2>4
<1>. QED  BY ONLY <1>1, <1>2, <1>4, <1>5, <1>6, <1>7, <1>8, <1>9 DEF Taken

\* The request has been canceled: the callback gives back its record and says so.
LEMMA CallbackCanceled ==
    ASSUME NotifyInv, NEW w \in Workers, th[w].pc = "callback", NEW n, n = th[w].n,
           ~Locked(Chan(n)), cancelWait[n], restartCheck(Releases(n), state, <<>>),
           cancelEvent' = [cancelEvent EXCEPT ![pvt[n]] = TRUE], Rests(w),
           UNCHANGED <<waitList, putf>>,
           UNCHANGED <<inst, cut, pact, rpro, pending, pvt, cancelWait, userCallbackWait, freeList>>,
           UNCHANGED <<userCallbackEvent, onceQ, scans, requests, served, cause, owed>>
    PROVE  NotifyInv'
<1>0. /\ TypeOK /\ Places /\ Locks /\ Life /\ Lists /\ PvtsReturned /\ OneCallback
      /\ Putf /\ Chain /\ OwnersAgree /\ LifeOf(n)
      /\ w \in Threads /\ w \notin Notifies /\ n \in Notifies /\ n \in Threads
      /\ state[n] \in Requested /\ n \notin refused /\ ~Canceled(n)
      /\ Times(callbacks, n) = 0 /\ InCallback(n) = {w}
      /\ pvt[n] \in Pvts /\ pvt[n] # 0 /\ served[n] = FALSE /\ waitList[n] = <<>>
      /\ ~cancelEvent[pvt[n]] /\ ~userCallbackEvent[pvt[n]] /\ ~userCallbackWait[n]
      /\ th[n].pc # "waitUser" /\ (th[n].pc = "waitCancel" => cancelWait[n])
      /\ \A u \in Threads : ~CallsFor(u, n)
      /\ \A r \in Records : ppn[r] = n <=>
                               state[n] = "notifyRestartCallbackRequested" /\ r = Chan(n)
      /\ Chan(n) \in Records
  <2>1. NotifyInv /\ th[w].pc = "callback" /\ n = th[w].n
    OBVIOUS
  <2>2. Taken(n, w)
    BY ONLY w \in Workers, <2>1, CallbackThen
  <2>. QED  BY ONLY <2>2 DEF Taken
<1>1. th[n].pc = "waitCancel"
  BY <1>0 DEF LifeOf
<1>2. /\ state \in [Notifies -> States] /\ waitList \in [Notifies -> Seq(Records)]
      /\ cancelEvent \in [Pvts -> BOOLEAN] /\ userCallbackEvent \in [Pvts -> BOOLEAN]
  BY <1>0, TypesThen
<1>3. /\ cancelEvent' \in [Pvts -> BOOLEAN] /\ cancelEvent'[pvt[n]]
      /\ \A p \in Pvts : p # pvt[n] => cancelEvent'[p] = cancelEvent[p]
  BY <1>0, <1>2
<1>s. PICK rs \in Seq(Records), s \in [Notifies -> States], more \in Seq(Notifies),
           wl \in Seq(Records), new \in States :
         /\ restartCheck(rs, s, more) /\ \A m \in Notifies : s[m] = IF m = n THEN new ELSE state[m]
         /\ rs = Releases(n) /\ more = <<>> /\ wl = <<>> /\ new = state[n]
  <2>1. Releases(n) \in Seq(Records)
    BY <1>0 DEF Releases
  <2>2. <<>> \in Seq(Notifies) /\ <<>> \in Seq(Records) /\ state[n] \in States
    BY <1>0, <1>2
  <2>3. \A m \in Notifies : state[m] = IF m = n THEN state[n] ELSE state[m]
    OBVIOUS
  <2>. QED  BY <1>2, <2>1, <2>2, <2>3
<1>4. /\ \A q \in Records : /\ Times(rs, q) <= 1 /\ (IsIn(rs, q) <=> ppn[q] = n)
                            /\ Times(wl, q) = 0 /\ ~IsIn(wl, q)
      /\ \A m \in Notifies : Times(more, m) = 0
  <2>1. \A q \in Records : /\ Times(<<Chan(n)>>, q) = IF Chan(n) = q THEN 1 ELSE 0
                           /\ IsIn(<<Chan(n)>>, q) <=> Chan(n) = q
                           /\ Times(<<>>, q) = 0 /\ ~IsIn(<<>>, q)
    BY TimesOne
  <2>2. \A m \in Notifies : Times(<<>>, m) = 0
    BY TimesOne
  <2>3. \A q \in Records : Times(rs, q) <= 1 /\ (IsIn(rs, q) <=> ppn[q] = n)
    BY <1>0, <1>s, <2>1 DEF Releases
  <2>. QED  BY <1>s, <2>1, <2>2, <2>3
<1>5. Signaled(n, w)
  BY <1>0, <1>1, <1>2, <1>3 DEF Signaled, Rests
<1>6. /\ PvtsReturned' /\ w # n /\ th'[n] = th[n]
      /\ \A u \in Threads : u # w => th'[u] = th[u]
      /\ \A m \in Notifies : m # n =>
            /\ Canceled(m)' <=> Canceled(m)
            /\ pvt[m] # 0 => /\ cancelEvent'[pvt[m]] = cancelEvent[pvt[m]]
                             /\ userCallbackEvent'[pvt[m]] = userCallbackEvent[pvt[m]]
  BY ONLY <1>0, <1>5, SignalKeeps
<1>7. Canceled(n)'
  BY <1>0, <1>3 DEF Canceled
<1>8. Lists' /\ waitList' \in [Notifies -> Seq(Records)]
  <2>1. GivesBack(n, new, wl, rs)
    <3>1. waitList' = [waitList EXCEPT ![n] = wl]
      BY <1>0, <1>2, <1>s
    <3>2. wl = <<>> /\ new \notin InProgress /\ new # "notifyWaitForRestart"
          /\ new # "notifyRestartInProgress" /\ state[n] # "notifyWaitForRestart"
      BY <1>0, <1>s DEF Requested, InProgress
    <3>3. \A q \in Records :
          /\ Times(rs, q) <= 1 /\ Times(wl, q) <= 1
          /\ IsIn(rs, q) => ppn[q] = n
          /\ IsIn(wl, q) => ppn[q] = n /\ ~IsIn(rs, q)
          /\ ppn[q] = n => IsIn(rs, q)
      BY <1>4
    <3>4. /\ state[n] # "notifyWaitForRestart" /\ new # "notifyWaitForRestart"
          /\ (wl # <<>>) = (new \in InProgress)
          /\ new = "notifyRestartInProgress" => wl = <<Chan(n)>>
          /\ new = "notifyRestartCallbackRequested" /\ ~Canceled(n)' =>
                ppn[Chan(n)] = n /\ ~IsIn(rs, Chan(n))
      BY <1>7, <3>2
    <3>5. \A m \in Notifies : m # n => (Canceled(m)' <=> Canceled(m))
      BY <1>6
    <3>. QED  BY ONLY <3>1, <3>3, <3>4, <3>5 DEF GivesBack
  <2>2. TypeOK /\ Lists /\ Life /\ restartCheck(rs, s, more) /\ UNCHANGED inst
        /\ \A m \in Notifies : s[m] = IF m = n THEN new ELSE state[m]
    BY <1>0, <1>s
  <2>. QED  BY ONLY <1>0, new \in States, wl \in Seq(Records), rs \in Seq(Records), more \in Seq(Notifies),
               s \in [Notifies -> States], <2>1, <2>2, RestartLists
<1>e. PICK e \in Place : e = Idle /\ e.pc = "idle"
  BY <1>0, OtherPlace
<1>9. /\ th' = [th EXCEPT ![w] = e] /\ th'[w] = e
  <2>1. th' = [th EXCEPT ![w] = e]
    BY <1>e DEF Rests
  <2>2. th \in [Threads -> Place]
    BY <1>0, TypesThen
  <2>. QED  BY <1>0, <2>1, <2>2
<1>10. /\ \A m \in Notifies : m # n =>
             /\ Called(m)' = IF state'[m] \in Requested /\ m \notin refused' /\ ~Canceled(m)'
                             THEN 1 ELSE 0
             /\ m \in refused' => state'[m] \in Requested /\ ~Canceled(m)'
       /\ n \in refused' => n \in refused \/ Times(more, n) > 0
       /\ n \notin refused => Times(callbacks', n) =
             Times(callbacks, n) + IF n \in refused' THEN 0 ELSE Times(more, n)
       /\ \A m \in Notifies : /\ Heir(m, rs) => m # n /\ state[m] = "notifyWaitForRestart"
                              /\ state'[m] = IF Heir(m, rs) THEN "notifyRestartCallbackRequested"
                                             ELSE IF m = n THEN new ELSE state[m]
       /\ callbacks' \in Seq(Notifies) /\ refused' \subseteq Notifies
       /\ state' \in [Notifies -> States]
       /\ ppn' \in [Records -> Notifies \cup {None}]
       /\ restartList' \in [Records -> Seq(Notifies)]
       /\ \A q \in Records : ppn'[q] = IF IsIn(rs, q) THEN Owner(q) ELSE ppn[q]
  <2>1. \A m \in Notifies : m # n => InCallback(m)' = InCallback(m)
    <3>1. \A u \in Workers : u \in Threads
      BY <1>0, Typed
    <3>. QED  BY <1>0, <1>6, <1>9, <1>e, <3>1 DEF InCallback
  <2>2. \A m \in Notifies : m # n => /\ Times(more, m) = 0
                                     /\ InCallback(m)' = InCallback(m)
                                     /\ Canceled(m)' <=> Canceled(m)
    BY <1>4, <1>6, <2>1
  <2>3. /\ TypeOK /\ Lists /\ Life /\ PvtsReturned /\ OneCallback /\ restartCheck(rs, s, more)
        /\ \A m \in Notifies : s[m] = IF m = n THEN new ELSE state[m]
        /\ \A q \in Records : Times(rs, q) <= 1
        /\ state[n] # "notifyWaitForRestart"
    BY <1>0, <1>4, <1>s DEF Requested
  <2>. QED  BY ONLY <1>0, new \in States, rs \in Seq(Records), more \in Seq(Notifies),
               s \in [Notifies -> States], <2>2, <2>3, RestartCalls, SMTT(60), ZenonT(60)
<1>11. state'[n] = state[n] /\ n \notin refused' /\ Times(callbacks', n) = 0
  BY <1>0, <1>4, <1>10, <1>s
<1>12. LifeOf(n)'
  BY <1>0, <1>1, <1>3, <1>6, <1>11 DEF LifeOf, CancelWaitsIn
<1>13. Along(n)
  BY <1>6, <1>10 DEF Along
<1>14. EndsFor(n, w)
  BY <1>0, <1>7, <1>11 DEF EndsFor
<1>15. Places' /\ Life' /\ OneCallback'
  BY ONLY e \in Place, <1>e, <1>0, <1>9, <1>12, <1>13, <1>14, EndsKeeps
<1>16. SameWork
  <2>1. ~Working(w) /\ e.pc \notin Processing
    BY <1>e DEF Working, Processing
  <2>. QED  BY ONLY e \in Place, <1>0, <1>9, <2>1, Apart
<1>17. Locks' /\ Putf'
  BY <1>0, <1>16, RestKeeps
<1>18. Chain'
  <2>1. ASSUME cut' = {} PROVE Still' /\ \A u \in Threads : ~Working(u)'
    <3>1. TypeOK /\ Still /\ UNCHANGED <<inst, pact>> /\ \A u \in Threads : ~Working(u)
      BY <1>0, <2>1, StillThen
    <3>2. \A q \in Records : cause'[q] # None => cause'[q] = cause[q] /\ cause[q] # n
      BY <1>0, <3>1 DEF Still, Requested
    <3>3. GivenBack(n, new, rs)
      BY <1>s, <1>4, <1>10, <3>2 DEF GivenBack
    <3>4. \A u \in Threads : ~Working(u)'
      BY <1>16, <3>1 DEF SameWork
    <3>. QED  BY <1>0, <3>1, <3>3, <3>4, GivenStill
  <2>. QED  BY <2>1, StillNext
<1>19. TypeOK'
  <2>1. /\ cut' \subseteq inst.cuts /\ pact' \in [Records -> BOOLEAN]
        /\ putf' \in [Records -> BOOLEAN] /\ rpro' \in [Records -> BOOLEAN]
        /\ pvt' \in [Notifies -> {0} \cup Pvts] /\ freeList' \in Seq(Pvts)
        /\ cancelWait' \in [Notifies -> BOOLEAN] /\ userCallbackWait' \in [Notifies -> BOOLEAN]
        /\ userCallbackEvent' \in [Pvts -> BOOLEAN]
        /\ onceQ' \in Seq(Records) /\ pending' \subseteq inst.async /\ scans' \in 0 .. inst.scans
        /\ requests' \in [Notifies -> 0 .. inst.requests] /\ served' \in [Notifies -> BOOLEAN]
        /\ cause' \in [Records -> Notifies \cup {None}] /\ owed' \subseteq Records
    BY <1>0, TypesThen
  <2>2. th' \in [Threads -> Place]
    <3>1. th \in [Threads -> Place]
      BY <1>0, TypesThen
    <3>. QED  BY <1>9, <3>1
  <2>. QED  BY <1>0, <1>3, <1>8, <1>10, <2>1, <2>2, TypesKept
<1>. QED  BY <1>6, <1>8, <1>15, <1>17, <1>18, <1>19 DEF NotifyInv

\* The request is restarted: it goes on with the record that is kept for it.
LEMMA CallbackRestarts ==
    ASSUME NotifyInv, NEW w \in Workers, th[w].pc = "callback", NEW n, n = th[w].n,
           ~Locked(Chan(n)), ~cancelWait[n], state[n] = "notifyRestartCallbackRequested",
           processNotifyCommon(n, w, FALSE),
           UNCHANGED <<inst, cut, pact, rpro, pending, pvt, cancelWait, userCallbackWait, freeList>>,
           UNCHANGED <<cancelEvent, userCallbackEvent, onceQ, scans, requests, served, cause, owed>>
    PROVE  NotifyInv'
<1>t. Taken(n, w)
  BY CallbackThen
<1>0. /\ TypeOK /\ Places /\ Life /\ PvtsReturned
      /\ w \in Threads /\ w \notin Notifies /\ n \in Notifies /\ n \in Threads
      /\ n \notin refused /\ Times(callbacks, n) = 0 /\ InCallback(n) = {w}
      /\ pvt[n] \in Pvts /\ pvt[n] # 0 /\ served[n] = FALSE
      /\ ~cancelEvent[pvt[n]] /\ ~userCallbackEvent[pvt[n]] /\ ~userCallbackWait[n]
      /\ th[n].pc # "waitUser" /\ th[n].pc # "waitCancel"
      /\ \A u \in Threads : ~CallsFor(u, n)
      /\ \A r \in Records : ppn[r] = n <=> r = Chan(n)
      /\ Chan(n) \in Records
  BY <1>t DEF Taken
<1>1. \A u \in Threads : u # w => th'[u] = th[u]
  BY ONLY <1>0, processNotifyCommon(n, w, FALSE), CommonPlace
<1>2. Enters(n, w, FALSE)
  BY <1>0 DEF Enters
<1>3. Fresh(n)
  BY <1>0 DEF Fresh
<1>4. PvtsReturned'
  <2>1. Pvts' = Pvts /\ \A p : Held(p)' = Held(p)
    BY DEF Pvts, Held
  <2>2. \A m \in Notifies : th'[m] = th[m]
    BY <1>0, <1>1, Typed
  <2>. QED  BY <1>0, <2>1, <2>2 DEF PvtsReturned
<1>5. Besides
  BY <1>0, <1>4, TypesThen DEF Besides
<1>6. NotifyInv /\ ~Locked(Chan(n)) /\ processNotifyCommon(n, w, FALSE)
  OBVIOUS
<1>. QED  BY ONLY <1>0, <1>2, <1>3, <1>5, <1>6, CommonStep

\* The request has been processed: its doneCallback is to be called.
LEMMA CallbackCalls ==
    ASSUME NotifyInv, NEW w \in Workers, th[w].pc = "callback", NEW n, n = th[w].n,
           ~Locked(Chan(n)), ~cancelWait[n], state[n] # "notifyRestartCallbackRequested",
           state' = [state EXCEPT ![n] = "notifyUserCallbackActive"], Goes(w, "calling"),
           UNCHANGED <<ppn, restartList, waitList, putf, callbacks, refused, cancelEvent>>,
           UNCHANGED <<inst, cut, pact, rpro, pending, pvt, cancelWait, userCallbackWait, freeList>>,
           UNCHANGED <<userCallbackEvent, onceQ, scans, requests, served, cause, owed>>
    PROVE  NotifyInv'
<1>t. Taken(n, w)
  BY CallbackThen
<1>0. /\ TypeOK /\ Places /\ Locks /\ Life /\ Lists /\ PvtsReturned /\ OneCallback
      /\ Putf /\ Chain /\ LifeOf(n)
      /\ w \in Threads /\ w \notin Notifies /\ n \in Notifies /\ n \in Threads
      /\ state[n] = "notifyUserCallbackRequested" /\ n \notin refused /\ ~Canceled(n)
      /\ Times(callbacks, n) = 0 /\ InCallback(n) = {w}
      /\ pvt[n] \in Pvts /\ pvt[n] # 0 /\ served[n] = FALSE
      /\ ~cancelEvent[pvt[n]] /\ ~userCallbackEvent[pvt[n]] /\ ~userCallbackWait[n]
      /\ th[n].pc # "waitUser" /\ th[n].pc # "waitCancel"
      /\ \A u \in Threads : ~CallsFor(u, n)
      /\ \A r \in Records : ppn[r] # n
  BY <1>t DEF Taken, Requested
<1>1. /\ th \in [Threads -> Place] /\ th[w] \in Place /\ state \in [Notifies -> States]
      /\ \A m \in Notifies : m \in Threads
      /\ \A v \in Workers : v \in Threads
  BY <1>0, TypesThen, Typed
<1>e. PICK e : e = [th[w] EXCEPT !.pc = "calling"]
  OBVIOUS
<1>2. e \in Place /\ e.pc = "calling" /\ e.n = n
  BY <1>1, <1>e DEF Place
<1>3. /\ th' = [th EXCEPT ![w] = e] /\ th'[w] = e
      /\ \A u \in Threads : u # w => th'[u] = th[u]
  BY <1>0, <1>1, <1>e DEF Goes
<1>4. /\ \A m \in Notifies : state'[m] = IF m = n THEN "notifyUserCallbackActive" ELSE state[m]
      /\ state' \in [Notifies -> States]
      /\ \A m : Canceled(m)' <=> Canceled(m)
  BY <1>0, <1>1 DEF Canceled, States
<1>5. Places'
  <2>1. ASSUME NEW u \in Threads
        PROVE  /\ th'[u].pc \in {"waitUser", "waitCancel"} => u \in Notifies
               /\ th'[u].pc = "callback" => u \in Workers /\ th'[u].n \in Notifies
    BY <1>0, <1>2, <1>3 DEF Places
  <2>2. ASSUME NEW u \in Threads, th'[u].pc \in {"calling", "returning"}, NEW m, m = th'[u].n
        PROVE  /\ m \in Notifies /\ state'[m] = "notifyUserCallbackActive"
               /\ served'[m] = (th'[u].pc = "returning")
               /\ ~Canceled(m)' /\ ~userCallbackEvent'[pvt'[m]]
    <3>1. CASE u = w
      <4>1. m = n /\ th'[u].pc = "calling"
        BY ONLY <1>2, <1>3, <2>2, <3>1
      <4>2. /\ n \in Notifies /\ served'[n] = FALSE /\ ~Canceled(n)'
            /\ state'[n] = "notifyUserCallbackActive" /\ ~userCallbackEvent'[pvt'[n]]
        BY <1>0, <1>4
      <4>. QED  BY ONLY <4>1, <4>2
    <3>2. CASE u # w
      <4>1. th'[u] = th[u] /\ m # n
        BY <1>0, <1>3, <2>2, <3>2 DEF CallsFor
      <4>2. /\ m \in Notifies /\ state[m] = "notifyUserCallbackActive"
            /\ served[m] = (th[u].pc = "returning") /\ ~Canceled(m) /\ ~userCallbackEvent[pvt[m]]
        BY <1>0, <2>2, <4>1 DEF Places
      <4>. QED  BY <1>0, <1>4, <4>1, <4>2
    <3>. QED  BY <3>1, <3>2
  <2>3. \A u, v \in Threads, m \in Notifies : CallsFor(u, m)' /\ CallsFor(v, m)' => u = v
    <3>1. \A u \in Threads, m \in Notifies : u # w => (CallsFor(u, m)' <=> CallsFor(u, m))
      BY <1>3 DEF CallsFor
    <3>2. \A m \in Notifies : CallsFor(w, m)' => m = n
      BY <1>2, <1>3 DEF CallsFor
    <3>. QED  BY <1>0, <3>1, <3>2 DEF Places
  <2>. QED  BY <2>1, <2>2, <2>3 DEF Places
<1>6. \A m \in Notifies : Called(m)' = IF m = n THEN 0 ELSE Called(m)
  <2>1. \A m : /\ Called(m) = Times(callbacks, m) + Cardinality(InCallback(m))
               /\ Called(m)' = Times(callbacks', m) + Cardinality(InCallback(m)')
    BY DEF Called, InCallback
  <2>2. \A m \in Notifies : m # n => InCallback(m)' = InCallback(m)
    BY <1>0, <1>1, <1>2, <1>3 DEF InCallback
  <2>3. InCallback(n)' = {}
    <3>1. \A v \in Workers : v # w => v \notin InCallback(n)
      BY <1>0
    <3>2. \A v \in Workers : v \in InCallback(n)' => v # w /\ v \in InCallback(n)
      BY <1>1, <1>2, <1>3 DEF InCallback
    <3>3. InCallback(n)' \subseteq Workers
      BY DEF InCallback
    <3>. QED  BY <3>1, <3>2, <3>3
  <2>4. Called(n)' = 0
    <3>1. Called(n)' = Times(callbacks', n) + Cardinality(InCallback(n)')
      BY DEF Called, InCallback
    <3>2. Times(callbacks', n) = 0
      BY <1>0
    <3>. QED  BY <2>3, <3>1, <3>2, FS_EmptySet
  <2>. QED  BY <2>1, <2>2, <2>4
<1>7. OneCallback'
  BY <1>0, <1>4, <1>6 DEF OneCallback, Requested
<1>8. Life'
  <2>1. ASSUME NEW m \in Notifies PROVE LifeOf(m)'
    <3>1. LifeOf(m) /\ th'[m] = th[m]
      BY <1>0, <1>1, <1>3 DEF Life
    <3>2. CASE m # n
      BY <1>4, <3>1, <3>2 DEF LifeOf
    <3>3. CASE m = n
      BY <1>0, <1>4, <3>1, <3>3 DEF LifeOf, Canceled
    <3>. QED  BY <3>2, <3>3
  <2>. QED  BY <2>1 DEF Life
<1>9. Lists'
  <2>1. PICK new \in {"notifyUserCallbackActive", "notifyNotActive"} : new = "notifyUserCallbackActive"
    OBVIOUS
  <2>2. OneState(n, new) /\ state[n] \in CancelWaitsIn
    BY <1>0, <1>4, <2>1 DEF OneState, CancelWaitsIn, Requested
  <2>3. UNCHANGED inst /\ UNCHANGED <<ppn, restartList, waitList>>
    OBVIOUS
  <2>. QED  BY ONLY new \in {"notifyUserCallbackActive", "notifyNotActive"}, <1>0, <2>2, <2>3, EndLists
<1>10. PvtsReturned'
  <2>1. Pvts' = Pvts /\ \A p : Held(p)' = Held(p)
    BY DEF Pvts, Held
  <2>2. \A m \in Notifies : th'[m] = th[m]
    BY <1>0, <1>1, <1>3
  <2>. QED  BY <1>0, <2>1, <2>2 DEF PvtsReturned
<1>11. SameWork
  <2>1. ~Working(w) /\ e.pc \notin Processing
    BY <1>2 DEF Working, Processing
  <2>. QED  BY ONLY <1>0, <1>2, <1>3, <2>1, Apart
<1>12. Locks' /\ Putf'
  BY <1>0, <1>11, RestKeeps
<1>13. Chain'
  <2>1. ASSUME cut' = {} PROVE Still' /\ \A u \in Threads : ~Working(u)'
    <3>1. Still /\ \A u \in Threads : ~Working(u)
      BY <1>0, <2>1, StillThen
    <3>2. AsyncOnly'
      BY <1>4, <3>1 DEF Still, AsyncOnly, Chan
    <3>3. \A r \in Records : cause[r] # None =>
            /\ pact[r] /\ r >= Chan(cause[r]) /\ ppn[r] = cause[r]
            /\ state'[cause[r]] = "notifyProcessInProgress"
      BY <1>0, <1>1, <1>4, <3>1, Typed DEF Still
    <3>4. Still'
      BY <3>1, <3>2, <3>3 DEF Still, Chan
    <3>. QED  BY <1>11, <3>1, <3>4 DEF SameWork
  <2>. QED  BY <2>1, StillNext
<1>14. TypeOK'
  <2>1. /\ cut' \subseteq inst.cuts /\ pact' \in [Records -> BOOLEAN]
        /\ putf' \in [Records -> BOOLEAN] /\ rpro' \in [Records -> BOOLEAN]
        /\ ppn' \in [Records -> Notifies \cup {None}]
        /\ restartList' \in [Records -> Seq(Notifies)] /\ waitList' \in [Notifies -> Seq(Records)]
        /\ pvt' \in [Notifies -> {0} \cup Pvts] /\ freeList' \in Seq(Pvts)
        /\ cancelWait' \in [Notifies -> BOOLEAN] /\ userCallbackWait' \in [Notifies -> BOOLEAN]
        /\ callbacks' \in Seq(Notifies) /\ refused' \subseteq Notifies
        /\ cancelEvent' \in [Pvts -> BOOLEAN] /\ userCallbackEvent' \in [Pvts -> BOOLEAN]
        /\ onceQ' \in Seq(Records) /\ pending' \subseteq inst.async /\ scans' \in 0 .. inst.scans
        /\ requests' \in [Notifies -> 0 .. inst.requests] /\ served' \in [Notifies -> BOOLEAN]
        /\ cause' \in [Records -> Notifies \cup {None}] /\ owed' \subseteq Records
    BY <1>0, TypesThen
  <2>2. th' \in [Threads -> Place]
    BY <1>1, <1>2, <1>3
  <2>. QED  BY <1>0, <1>4, <2>1, <2>2, TypesKept
<1>. QED  BY <1>5, <1>7, <1>8, <1>9, <1>10, <1>12, <1>13, <1>14 DEF NotifyInv

\* notifyCallback.
LEMMA CallbackStep ==
    ASSUME NotifyInv, NEW w \in Workers, notifyCallback(w)
    PROVE  NotifyInv'
<1>n. PICK n : n = th[w].n
  OBVIOUS
<1>0. /\ NotifyInv /\ th[w].pc = "callback" /\ n = th[w].n /\ ~Locked(Chan(n))
      /\ UNCHANGED <<inst, cut, pact, rpro, pending, pvt, cancelWait, userCallbackWait, freeList>>
      /\ UNCHANGED <<userCallbackEvent, onceQ, scans, requests, served, cause, owed>>
  BY <1>n DEF notifyCallback, workVars, history
<1>1. CASE /\ cancelWait[n]
           /\ restartCheck(Releases(n), state, <<>>)
           /\ cancelEvent' = [cancelEvent EXCEPT ![pvt[n]] = TRUE]
           /\ Rests(w)
           /\ UNCHANGED <<waitList, putf>>
  BY ONLY w \in Workers, <1>0, <1>1, CallbackCanceled
<1>2. CASE /\ ~cancelWait[n] /\ state[n] = "notifyRestartCallbackRequested"
           /\ processNotifyCommon(n, w, FALSE)
           /\ UNCHANGED cancelEvent
  <2>1. UNCHANGED <<cancelEvent, userCallbackEvent, onceQ, scans, requests, served, cause, owed>>
    BY <1>0, <1>2
  <2>. QED  BY ONLY w \in Workers, <1>0, <1>2, <2>1, CallbackRestarts
<1>3. CASE /\ ~cancelWait[n] /\ state[n] # "notifyRestartCallbackRequested"
           /\ state' = [state EXCEPT ![n] = "notifyUserCallbackActive"]
           /\ Goes(w, "calling")
           /\ UNCHANGED <<ppn, restartList, waitList, putf, cbVars, cancelEvent>>
  <2>1. UNCHANGED <<ppn, restartList, waitList, putf, callbacks, refused, cancelEvent>>
    BY <1>3 DEF cbVars
  <2>. QED  BY ONLY w \in Workers, <1>0, <1>3, <2>1, CallbackCalls
<1>. QED  BY <1>1, <1>2, <1>3, <1>n DEF notifyCallback

-----------------------------------------------------------------------------
(* The invariant of every behaviour, and what it says.                     *)

\* It holds before the first request.
LEMMA StartsOver ==
    ASSUME Init
    PROVE  NotifyInv
<1>0. /\ inst \in Instances /\ cut = {}
      /\ pact = [r \in Records |-> FALSE] /\ putf = pact /\ rpro = pact
      /\ ppn = [r \in Records |-> None] /\ restartList = [r \in Records |-> <<>>]
      /\ pvt = [n \in Notifies |-> 0] /\ state = [n \in Notifies |-> "notifyNotActive"]
      /\ waitList = [n \in Notifies |-> <<>>]
      /\ cancelWait = [n \in Notifies |-> FALSE] /\ userCallbackWait = cancelWait
      /\ freeList = <<>> /\ callbacks = <<>> /\ refused = {}
      /\ cancelEvent = [p \in Pvts |-> FALSE] /\ userCallbackEvent = cancelEvent
      /\ onceQ = <<>> /\ pending = {} /\ scans = 0
      /\ th = [t \in Threads |-> Idle]
      /\ requests = [n \in Notifies |-> 0] /\ served = [n \in Notifies |-> TRUE]
      /\ cause = [r \in Records |-> None] /\ owed = {}
  BY DEF Init
<1>1. /\ inst.scans \in Nat /\ inst.requests \in Nat /\ 1 \in Records
      /\ \A n \in Notifies : n \in Threads /\ n # None
      /\ \A n \in Notifies : Chan(n) \in Records
  BY <1>0, NotifyAssumption DEF Threads, None, Chan
<1>2. TypeOK
  <2>1. /\ inst \in Instances /\ cut \subseteq inst.cuts
        /\ pact \in [Records -> BOOLEAN] /\ putf \in [Records -> BOOLEAN]
        /\ rpro \in [Records -> BOOLEAN] /\ ppn \in [Records -> Notifies \cup {None}]
        /\ restartList \in [Records -> Seq(Notifies)]
        /\ pvt \in [Notifies -> {0} \cup Pvts] /\ state \in [Notifies -> States]
        /\ waitList \in [Notifies -> Seq(Records)]
    BY <1>0 DEF States
  <2>2. /\ cancelWait \in [Notifies -> BOOLEAN] /\ userCallbackWait \in [Notifies -> BOOLEAN]
        /\ freeList \in Seq(Pvts) /\ callbacks \in Seq(Notifies) /\ refused \subseteq Notifies
        /\ cancelEvent \in [Pvts -> BOOLEAN] /\ userCallbackEvent \in [Pvts -> BOOLEAN]
        /\ onceQ \in Seq(Records) /\ pending \subseteq inst.async /\ scans \in 0 .. inst.scans
    BY <1>0, <1>1
  <2>3. Idle \in Place
    BY <1>1 DEF Idle, Place
  <2>4. /\ th \in [Threads -> Place]
        /\ requests \in [Notifies -> 0 .. inst.requests] /\ served \in [Notifies -> BOOLEAN]
        /\ cause \in [Records -> Notifies \cup {None}] /\ owed \subseteq Records
    BY <1>0, <1>1, <2>3
  <2>. QED  BY <2>1, <2>2, <2>4 DEF TypeOK, Place
<1>3. \A t \in Threads : th[t].pc = "idle" /\ ~Working(t)
  BY <1>0 DEF Idle, Working, Processing
<1>4. \A n \in Notifies : /\ state[n] = "notifyNotActive" /\ pvt[n] = 0 /\ served[n] = TRUE
                          /\ ~cancelWait[n] /\ ~userCallbackWait[n] /\ waitList[n] = <<>>
                          /\ ~Canceled(n)
  BY <1>0 DEF Canceled
<1>5. /\ \A r \in Records : /\ ppn[r] = None /\ restartList[r] = <<>> /\ cause[r] = None
                            /\ ~pact[r] /\ ~putf[r] /\ ~rpro[r]
      /\ \A p \in Pvts : ~cancelEvent[p] /\ ~userCallbackEvent[p]
      /\ \A x, y : Times(<<>>, y) = 0 /\ ~IsIn(<<>>, y)
  BY <1>0, TimesOne
<1>6. Places
  BY <1>3 DEF Places, CallsFor
<1>7. Locks
  BY <1>3 DEF Locks
<1>8. Life
  BY <1>0, <1>1, <1>3, <1>4 DEF Life, LifeOf
<1>9. Lists
  <2>1. OwnersAgree
    <3>1. \A r \in Records, n \in Notifies :
            /\ IsIn(waitList[n], r) => ppn[r] = n
            /\ ppn[r] = n => IF state[n] \in InProgress THEN IsIn(waitList[n], r)
                             ELSE state[n] = "notifyRestartCallbackRequested" /\ r = Chan(n)
            /\ IsIn(restartList[r], n) = (state[n] = "notifyWaitForRestart" /\ r = Chan(n))
      <4>1. ASSUME NEW r \in Records, NEW n \in Notifies
            PROVE  /\ ~IsIn(waitList[n], r) /\ ppn[r] # n
                   /\ IsIn(restartList[r], n) = FALSE /\ state[n] # "notifyWaitForRestart"
        <5>1. /\ waitList[n] = <<>> /\ state[n] = "notifyNotActive" /\ n # None
              /\ restartList[r] = <<>> /\ ppn[r] = None
          BY <1>1, <1>4, <1>5
        <5>2. ~IsIn(<<>>, r) /\ ~IsIn(<<>>, n)
          BY DEF IsIn
        <5>. QED  BY <5>1, <5>2 DEF IsIn
      <4>. QED  BY <4>1
    <3>2. \A r \in Records : restartList[r] = <<>> /\ DOMAIN restartList[r] = {}
      BY <1>5
    <3>3. \A n \in Notifies : waitList[n] = <<>> /\ state[n] = "notifyNotActive"
      BY <1>4
    <3>. QED  BY <3>1, <3>2, <3>3 DEF OwnersAgree, InProgress
  <2>. QED  BY <1>4, <1>5, <2>1 DEF Lists
<1>10. PvtsReturned
  <2>1. ASSUME NEW p \in Pvts PROVE Held(p) = 0
    <3>1. {n \in Notifies : pvt[n] = p} = {}
      BY <1>2, <1>4, Typed
    <3>2. Times(freeList, p) = 0 /\ Cardinality({}) = 0
      BY <1>0, <1>5, FS_EmptySet
    <3>3. Held(p) = Cardinality({n \in Notifies : pvt[n] = p}) + Times(freeList, p)
      BY DEF Held
    <3>. QED  BY ONLY <3>1, <3>2, <3>3
  <2>. QED  BY <1>5, <2>1 DEF PvtsReturned
<1>11. OneCallback
  <2>1. ASSUME NEW n \in Notifies PROVE Called(n) = 0
    <3>1. {w \in Workers : th[w].pc = "callback" /\ th[w].n = n} = {}
      BY <1>3 DEF Threads
    <3>2. Times(callbacks, n) = 0 /\ Cardinality({}) = 0
      BY <1>0, <1>5, FS_EmptySet
    <3>3. Called(n) = Times(callbacks, n)
                        + Cardinality({w \in Workers : th[w].pc = "callback" /\ th[w].n = n})
      BY DEF Called
    <3>. QED  BY ONLY <3>1, <3>2, <3>3
  <2>. QED  BY <1>4, <2>1 DEF OneCallback, Requested
<1>12. Putf
  BY <1>5 DEF Putf
<1>13. Chain
  BY <1>1, <1>3, <1>4, <1>5 DEF Chain, HoldsOwner, SyncFree, AsyncOnly, CausesOwned, PathOwned, Working
<1>. QED  BY <1>2, <1>6, <1>7, <1>8, <1>9, <1>10, <1>11, <1>12, <1>13 DEF NotifyInv

\* Every step keeps it.
LEMMA EveryStep ==
    ASSUME NotifyInv, Next
    PROVE  NotifyInv'
<1>0. Asserts
  BY DEF Next
<1>1. ASSUME NEW n \in Notifies, Client(n) PROVE NotifyInv'
  BY <1>1, AskStep, UserOverStep, CancelStep, CancelReturnsStep DEF Client
<1>2. ASSUME NEW t \in Threads, Serve(t) PROVE NotifyInv'
  BY <1>0, <1>2, DoneStep, CallDoneStep, ProcessStep, FwdStep, AddStep, TestStep, CompletionStep,
     EndStep DEF Serve
<1>3. ASSUME NEW w \in Workers, Work(w) PROVE NotifyInv'
  BY <1>3, TakeStep, CallbackStep, ScanSteps DEF Work
<1>4. ASSUME NEW w \in Workers, Elsewhere(w) PROVE NotifyInv'
  BY <1>4, ScanSteps, PutStep DEF Elsewhere
<1>5. ASSUME NEW r \in Records, RemoveLink(r) PROVE NotifyInv'
  BY <1>5, RemoveStep
<1>. QED  BY <1>1, <1>2, <1>3, <1>4, <1>5 DEF Next

\* And so does none.
LEMMA NoStep ==
    ASSUME NotifyInv, UNCHANGED vars
    PROVE  NotifyInv'
<1>0. /\ TypeOK /\ Places /\ Locks /\ Life /\ Lists /\ PvtsReturned /\ OneCallback /\ Putf /\ Chain
      /\ UNCHANGED <<inst, cut, pact, putf, rpro, pending, pvt, cancelWait, userCallbackWait>>
      /\ UNCHANGED <<freeList, cancelEvent, userCallbackEvent, ppn, restartList, waitList, state>>
      /\ UNCHANGED <<callbacks, refused, onceQ, scans, th, requests, served, cause, owed>>
  BY DEF NotifyInv, vars, recVars, pvtVars, listVars, cbVars, workVars, history
<1>1. SameWork
  BY <1>0 DEF SameWork, Working
<1>2. Locks' /\ Putf' /\ Chain'
  BY <1>0, <1>1, RestKeeps
<1>3. \A m : Canceled(m)' <=> Canceled(m)
  BY <1>0 DEF Canceled
<1>4. TypeOK'
  BY <1>0 DEF TypeOK
<1>5. Places'
  BY <1>0, <1>3 DEF Places, CallsFor, Canceled
<1>6. Life'
  BY <1>0, <1>3 DEF Life, LifeOf
<1>7. Lists'
  BY <1>0, <1>3 DEF Lists, OwnersAgree, Chan
<1>8. PvtsReturned'
  <2>1. \A p : Held(p)' = Held(p)
    BY <1>0 DEF Held
  <2>. QED  BY <1>0, <2>1 DEF PvtsReturned
<1>9. OneCallback'
  <2>1. \A m : Called(m)' = Called(m)
    BY <1>0 DEF Called
  <2>. QED  BY <1>0, <1>3, <2>1 DEF OneCallback
<1>. QED  BY <1>2, <1>4, <1>5, <1>6, <1>7, <1>8, <1>9 DEF NotifyInv

\* The code's assert()s hold as long as the records of a request are locked together, and the
\* flags of a record that nobody processes are those of a busy one.
LEMMA InvConsistent ==
    ASSUME NotifyInv
    PROVE  Consistent /\ DoneMeansDone
<1>0. /\ TypeOK /\ Places /\ Locks /\ Life /\ Lists /\ PvtsReturned /\ OneCallback /\ Putf /\ Chain
      /\ OwnersAgree
  BY DEF NotifyInv, Lists
<1>1. AssertsHold
  <2>1. SUFFICES ASSUME cut = {} PROVE Asserts
    BY DEF AssertsHold
  <2>2. HoldsOwner
    BY <1>0, <2>1 DEF Chain
  <2>3. ASSUME NEW t \in Threads, th[t].pc \in {"notify", "disabled", "add"}, NEW n, n = th[t].ppn
        PROVE  /\ pvt[n] # 0
               /\ state[n] \in InProgress => IsIn(waitList[n], th[t].at)
    <3>1. n \in Notifies /\ ppn[th[t].at] = n /\ th[t].at \in Records
      BY <1>0, <2>2, <2>3, Typed DEF HoldsOwner, Locks, Working, Processing
    <3>2. /\ state[n] \in InProgress => IsIn(waitList[n], th[t].at)
          /\ state[n] \in InProgress \/ state[n] = "notifyRestartCallbackRequested"
      BY <1>0, <3>1 DEF OwnersAgree
    <3>3. state[n] # "notifyNotActive"
      BY <3>2 DEF InProgress
    <3>. QED  BY <1>0, <3>1, <3>2, <3>3 DEF Life, LifeOf
  <2>4. ASSUME NEW t \in Threads, th[t].pc = "callback", NEW n, n = th[t].n
        PROVE  pvt[n] # 0 /\ state[n] \in Requested /\ waitList[n] = <<>>
    <3>1. t \in Workers
      BY <1>0, <2>4 DEF Places
    <3>2. Taken(n, t)
      BY <2>4, <3>1, CallbackThen
    <3>. QED  BY <3>2 DEF Taken
  <2>5. \A n \in Notifies :
          /\ th[n].pc = "idle" /\ served[n] /\ pvt[n] # 0 => state[n] = "notifyUserCallbackActive"
          /\ state[n] = "notifyUserCallbackActive" => ppn[Chan(n)] # n
    BY <1>0, Typed DEF Life, LifeOf, OwnersAgree, InProgress
  <2>. QED  BY <2>3, <2>4, <2>5 DEF Asserts
<1>2. PutfEnds
  <2>1. ASSUME NEW t \in Threads, th[t].pc = "process" PROVE Locked(th[t].at)
    <3>1. Working(t)
      BY <2>1 DEF Working, Processing
    <3>2. th[t].from <= th[t].at /\ th[t].at <= th[t].at /\ th[t].at \in Records
      BY <1>0, <3>1, Typed, NotifyAssumption DEF Locks
    <3>. QED  BY <1>0, <3>1, <3>2, HasRecords
  <2>. QED  BY <1>0, <2>1 DEF PutfEnds, Putf
<1>3. DoneMeansDone
  <2>1. ASSUME cut = {}, NEW t \in Threads, th[t].pc \in {"calling", "returning"}, NEW r \in Records,
               NEW n, n = th[t].n
        PROVE  cause[r] # n
    <3>1. n \in Notifies /\ state[n] = "notifyUserCallbackActive"
      BY <1>0, <2>1 DEF Places
    <3>2. n # None /\ CausesOwned
      BY <1>0, <2>1, <3>1, Typed DEF Chain
    <3>. QED  BY <3>1, <3>2 DEF CausesOwned
  <2>. QED  BY <2>1 DEF DoneMeansDone
<1>. QED  BY <1>0, <1>1, <1>2, <1>3 DEF Consistent

-----------------------------------------------------------------------------
(* What dbNotify.h promises its clients.                                   *)

PhaseOf(n) == IF Calling(n) THEN "calling" ELSE IF pvt[n] # 0 /\ ~served[n] THEN "asked" ELSE "idle"
Outside == {"returning", "waitCancel"}
\* No doneCallback begins or ends, and no cancel that waits.
Quiet == /\ \A m : Calling(m)' <=> Calling(m)
         /\ \A m \in Notifies : (th'[m].pc = "waitCancel") = (th[m].pc = "waitCancel")
Moves(t) == /\ th[t].pc \notin Outside
            /\ \E e : e.pc \notin Outside /\ th' = [th EXCEPT ![t] = e]

\* A thread that does something else.
LEMMA MovesQuiet ==
    ASSUME TypeOK, NEW t \in Threads, Moves(t)
    PROVE  Quiet
<1>1. PICK e : e.pc \notin Outside /\ th' = [th EXCEPT ![t] = e]
  BY DEF Moves
<1>2. th \in [Threads -> Place] /\ \A m \in Notifies : m \in Threads
  BY TypesThen, Typed
<1>3. th'[t] = e /\ \A u \in Threads : u # t => th'[u] = th[u]
  BY <1>1, <1>2
<1>4. ASSUME NEW u \in Threads
      PROVE  /\ th'[u].pc = "returning" => th'[u] = th[u]
             /\ th[u].pc = "returning" => th'[u] = th[u]
             /\ (th'[u].pc = "waitCancel") = (th[u].pc = "waitCancel")
  BY <1>1, <1>3 DEF Moves, Outside
<1>. QED  BY <1>2, <1>4 DEF Quiet, Calling

\* A request that is not answered is one that has its notifyPvt.
LEMMA PhaseThen ==
    ASSUME Life, Life', NEW m \in Notifies
    PROVE  /\ PhaseOf(m) = IF Calling(m) THEN "calling" ELSE IF ~served[m] THEN "asked" ELSE "idle"
           /\ PhaseOf(m)' = IF Calling(m)' THEN "calling" ELSE IF ~served'[m] THEN "asked" ELSE "idle"
<1>1. ~served[m] => pvt[m] # 0
  BY DEF Life, LifeOf
<1>2. ~served'[m] => pvt'[m] # 0
  BY DEF Life, LifeOf
<1>. QED  BY <1>1, <1>2 DEF PhaseOf

\* What the promise says of one request that changes.
LEMMA PhaseChange ==
    ASSUME NEW n \in Notifies, \A m \in Notifies : m # n =>
               /\ PhaseOf(m)' = PhaseOf(m)
               /\ (th'[m].pc = "waitCancel") = (th[m].pc = "waitCancel")
    PROVE  /\ PhaseOf(n) = "idle" /\ th[n].pc # "waitCancel" /\ PhaseOf(n)' = "asked"
              /\ th'[n].pc # "waitCancel" => Promise!Ask(n)
           /\ PhaseOf(n) = "asked" /\ PhaseOf(n)' = "calling"
              /\ (th'[n].pc = "waitCancel") = (th[n].pc = "waitCancel") => Promise!Done(n)
           /\ PhaseOf(n) = "calling" /\ PhaseOf(n)' = "idle"
              /\ (th'[n].pc = "waitCancel") = (th[n].pc = "waitCancel") => Promise!DoneReturns(n)
           /\ PhaseOf(n) = "asked" /\ th[n].pc # "waitCancel" /\ PhaseOf(n)' = "idle"
              /\ th'[n].pc # "waitCancel" => Promise!CancelAtOnce(n)
           /\ th[n].pc # "waitCancel" /\ PhaseOf(n)' = PhaseOf(n)
              /\ th'[n].pc = "waitCancel" => Promise!CancelWaits(n)
           /\ th[n].pc = "waitCancel" /\ PhaseOf(n) # "calling" /\ PhaseOf(n)' = "idle"
              /\ th'[n].pc # "waitCancel" => Promise!CancelReturns(n)
           /\ PhaseOf(n)' = PhaseOf(n) /\ (th'[n].pc = "waitCancel") = (th[n].pc = "waitCancel")
              => UNCHANGED Promise!vars
<1> DEFINE phase == [m \in Notifies |-> PhaseOf(m)]
           canceling == [m \in Notifies |-> th[m].pc = "waitCancel"]
<1>1. /\ phase' = [phase EXCEPT ![n] = PhaseOf(n)']
      /\ canceling' = [canceling EXCEPT ![n] = (th'[n].pc = "waitCancel")]
      /\ phase[n] = PhaseOf(n) /\ canceling[n] = (th[n].pc = "waitCancel")
  OBVIOUS
<1>2. /\ PhaseOf(n)' = PhaseOf(n) => UNCHANGED phase
      /\ (th'[n].pc = "waitCancel") = (th[n].pc = "waitCancel") => UNCHANGED canceling
  OBVIOUS
<1>3. /\ phase = [m \in Notifies |-> IF Calling(m) THEN "calling"
                                     ELSE IF pvt[m] # 0 /\ ~served[m] THEN "asked" ELSE "idle"]
      /\ phase' = [m \in Notifies |-> IF Calling(m)' THEN "calling"
                                     ELSE IF pvt'[m] # 0 /\ ~served'[m] THEN "asked" ELSE "idle"]
  BY DEF PhaseOf
<1>. HIDE DEF phase
<1>4. PhaseOf(n) = "idle" /\ th[n].pc # "waitCancel" /\ PhaseOf(n)' = "asked"
              /\ th'[n].pc # "waitCancel" => Promise!Ask(n)
  BY <1>1, <1>2, <1>3 DEF Promise!Ask
<1>5. PhaseOf(n) = "asked" /\ PhaseOf(n)' = "calling"
              /\ (th'[n].pc = "waitCancel") = (th[n].pc = "waitCancel") => Promise!Done(n)
  BY <1>1, <1>2, <1>3 DEF Promise!Done
<1>6. PhaseOf(n) = "calling" /\ PhaseOf(n)' = "idle"
              /\ (th'[n].pc = "waitCancel") = (th[n].pc = "waitCancel") => Promise!DoneReturns(n)
  BY <1>1, <1>2, <1>3 DEF Promise!DoneReturns
<1>7. PhaseOf(n) = "asked" /\ th[n].pc # "waitCancel" /\ PhaseOf(n)' = "idle"
              /\ th'[n].pc # "waitCancel" => Promise!CancelAtOnce(n)
  BY <1>1, <1>2, <1>3 DEF Promise!CancelAtOnce
<1>8. th[n].pc # "waitCancel" /\ PhaseOf(n)' = PhaseOf(n)
              /\ th'[n].pc = "waitCancel" => Promise!CancelWaits(n)
  BY <1>1, <1>2, <1>3 DEF Promise!CancelWaits
<1>9. th[n].pc = "waitCancel" /\ PhaseOf(n) # "calling" /\ PhaseOf(n)' = "idle"
              /\ th'[n].pc # "waitCancel" => Promise!CancelReturns(n)
  BY <1>1, <1>2, <1>3 DEF Promise!CancelReturns
<1>10. PhaseOf(n)' = PhaseOf(n) /\ (th'[n].pc = "waitCancel") = (th[n].pc = "waitCancel")
              => UNCHANGED Promise!vars
  BY <1>1, <1>2, <1>3 DEF Promise!vars
<1>. QED  BY <1>4, <1>5, <1>6, <1>7, <1>8, <1>9, <1>10

\* A request is begun, or goes on: processNotifyCommon calls no callback yet.
LEMMA CommonMoves ==
    ASSUME NEW n, NEW t, NEW first, processNotifyCommon(n, t, first), th[t].pc \notin Outside
    PROVE  Moves(t)
<1>1. PICK r : r = Chan(n)
  OBVIOUS
<1>2. \/ Rests(t)
      \/ th' = [th EXCEPT ![t] = [Idle EXCEPT !.pc = "process", !.from = r, !.at = r, !.cause = n]]
      \/ th' = [th EXCEPT ![t] = [Idle EXCEPT !.pc = "calling", !.n = n]]
  BY <1>1 DEF processNotifyCommon
<1>3. /\ Idle.pc \notin Outside
      /\ [Idle EXCEPT !.pc = "process", !.from = r, !.at = r, !.cause = n].pc \notin Outside
      /\ [Idle EXCEPT !.pc = "calling", !.n = n].pc \notin Outside
  BY DEF Idle, Outside
<1>. QED  BY <1>2, <1>3 DEF Moves, Rests

\* So is a step of a thread at work, and what starts one.
LEMMA WorkMoves ==
    ASSUME TypeOK, NEW t \in Threads,
           \/ dbProcess(t) \/ recGblFwdLink(t) \/ dbNotifyAdd(t) \/ TestNotify(t)
           \/ dbNotifyCompletion(t) \/ EndProcess(t)
    PROVE  Moves(t) /\ UNCHANGED served
<1>1. th \in [Threads -> Place] /\ th[t] \in Place
  BY TypesThen
<1>2. /\ \A q \in Processing : [th[t] EXCEPT !.pc = q].pc = q /\ q \notin Outside
      /\ \A q, p : [th[t] EXCEPT !.pc = q, !.ppn = p].pc = q
      /\ \A q, s : [th[t] EXCEPT !.pc = q, !.at = s].pc = q
      /\ Idle.pc = "idle" /\ \A s : [th[t] EXCEPT !.at = s, !.pc = "test"].pc = "test"
      /\ {"process", "fwd", "add", "test", "notify", "disabled", "end"} = Processing
      /\ "idle" \notin Outside
  BY <1>1 DEF Place, Processing, Outside, Idle
<1>3. Back(t).pc \notin Outside
  BY <1>2 DEF Back
<1>4. th[t].pc \in Processing => th[t].pc \notin Outside
  BY DEF Processing, Outside
<1>5. CASE dbProcess(t)
  <2>1. /\ th[t].pc = "process" /\ UNCHANGED served
        /\ \/ th' = [th EXCEPT ![t] = Back(t)]
           \/ th' = [th EXCEPT ![t] = IF ppn[th[t].at] = None THEN Back(t)
                                      ELSE [@ EXCEPT !.pc = "disabled", !.ppn = ppn[th[t].at]]]
           \/ Goes(t, "fwd")
    BY <1>5 DEF dbProcess
  <2>2. PICK a, b, c : /\ a = Back(t) /\ c = [th[t] EXCEPT !.pc = "fwd"]
                       /\ b = [th[t] EXCEPT !.pc = "disabled", !.ppn = ppn[th[t].at]]
    OBVIOUS
  <2>3. /\ a.pc \notin Outside /\ b.pc \notin Outside /\ c.pc \notin Outside
        /\ \E e \in {a, b, c} : th' = [th EXCEPT ![t] = e]
    BY <1>2, <1>3, <2>1, <2>2 DEF Goes
  <2>. QED  BY <1>2, <1>4, <2>1, <2>3 DEF Moves
<1>6. CASE recGblFwdLink(t) \/ dbNotifyAdd(t)
  <2>1. PICK r, p, s : r = th[t].at /\ p = ppn[r] /\ s = r + 1
    OBVIOUS
  <2>2. /\ th[t].pc \in {"fwd", "add"} /\ UNCHANGED served
        /\ \/ Goes(t, "test") \/ PassOn(t, r, s)
           \/ th' = [th EXCEPT ![t].pc = "add", ![t].ppn = p]
    BY <1>6, <2>1 DEF recGblFwdLink, dbNotifyAdd
  <2>3. PICK a, b, c : /\ a = [th[t] EXCEPT !.pc = "test"]
                       /\ b = [th[t] EXCEPT !.pc = "process", !.at = s]
                       /\ c = [th[t] EXCEPT !.pc = "add", !.ppn = p]
    OBVIOUS
  <2>4. /\ a.pc \notin Outside /\ b.pc \notin Outside /\ c.pc \notin Outside
        /\ \E e \in {a, b, c} : th' = [th EXCEPT ![t] = e]
    <3>1. /\ [th EXCEPT ![t].pc = "test"] = [th EXCEPT ![t] = a]
          /\ [th EXCEPT ![t].pc = "process", ![t].at = s] = [th EXCEPT ![t] = b]
          /\ [th EXCEPT ![t].pc = "add", ![t].ppn = p] = [th EXCEPT ![t] = c]
      BY ONLY t \in Threads, <1>1, <2>3
    <3>2. a.pc \notin Outside /\ b.pc \notin Outside /\ c.pc \notin Outside
      BY <1>2, <2>3 DEF Outside
    <3>3. th' \in {[th EXCEPT ![t] = a], [th EXCEPT ![t] = b], [th EXCEPT ![t] = c]}
      BY <2>2, <3>1 DEF Goes, PassOn
    <3>. QED  BY <3>2, <3>3
  <2>. QED  BY <1>2, <1>4, <2>2, <2>4 DEF Moves
<1>7. CASE TestNotify(t)
  <2>1. PICK p, q : p = ppn[th[t].at] /\ q = IF p = None THEN "end" ELSE "notify"
    OBVIOUS
  <2>2. /\ th[t].pc = "test" /\ UNCHANGED served
        /\ th' = [th EXCEPT ![t].pc = q, ![t].ppn = p]
    BY <1>7, <2>1 DEF TestNotify, history
  <2>3. PICK e : e = [th[t] EXCEPT !.pc = q, !.ppn = p]
    OBVIOUS
  <2>4. e.pc \notin Outside /\ th' = [th EXCEPT ![t] = e]
    <3>1. [th EXCEPT ![t].pc = q, ![t].ppn = p] = [th EXCEPT ![t] = e]
      BY ONLY t \in Threads, <1>1, <2>3
    <3>. QED  BY <1>2, <2>1, <2>2, <2>3, <3>1 DEF Outside
  <2>. QED  BY <1>2, <1>4, <2>2, <2>4 DEF Moves
<1>8. CASE dbNotifyCompletion(t)
  <2>1. PICK a, b : a = Back(t) /\ b = [th[t] EXCEPT !.pc = "end"]
    OBVIOUS
  <2>2. /\ th[t].pc \in {"notify", "disabled"} /\ UNCHANGED served
        /\ th' = [th EXCEPT ![t] = IF @.pc = "disabled" THEN Back(t) ELSE [@ EXCEPT !.pc = "end"]]
    BY <1>8 DEF dbNotifyCompletion, history
  <2>3. /\ a.pc \notin Outside /\ b.pc \notin Outside
        /\ \E e \in {a, b} : th' = [th EXCEPT ![t] = e]
    BY <1>1, <1>2, <1>3, <2>1, <2>2
  <2>. QED  BY <1>2, <1>4, <2>2, <2>3 DEF Moves
<1>9. CASE EndProcess(t)
  <2>1. th[t].pc = "end" /\ UNCHANGED served /\ th' = [th EXCEPT ![t] = Back(t)]
    BY <1>9 DEF EndProcess
  <2>. QED  BY <1>2, <1>3, <1>4, <2>1 DEF Moves
<1>. QED  BY <1>5, <1>6, <1>7, <1>8, <1>9

\* A thread that is idle starts processing.
LEMMA StartMoves ==
    ASSUME NEW w, NEW r, NEW q \in {"process", "fwd"}, NEW n, Starts(w, r, q, n)
    PROVE  Moves(w)
<1>1. PICK e : e = [Idle EXCEPT !.pc = q, !.from = r, !.at = r, !.cause = n]
  OBVIOUS
<1>2. e.pc \notin Outside /\ th' = [th EXCEPT ![w] = e] /\ th[w].pc \notin Outside
  BY <1>1 DEF Starts, Idle, Outside
<1>. QED  BY <1>2 DEF Moves

\* Callback and scan threads, and those of devices, call nobody.
LEMMA WorkerQuiet ==
    ASSUME TypeOK, NEW w \in Workers, Work(w) \/ Elsewhere(w)
    PROVE  Quiet /\ UNCHANGED served
<1>0. w \in Threads /\ th[w] \in Place
  BY TypesThen, Typed
<1>1. CASE TakeCallback(w)
  <2>1. PICK e : e = [Idle EXCEPT !.pc = "callback", !.n = Head(callbacks)]
    OBVIOUS
  <2>2. e.pc \notin Outside /\ th' = [th EXCEPT ![w] = e] /\ th[w].pc \notin Outside
    BY <1>1, <2>1 DEF TakeCallback, Idle, Outside
  <2>3. Moves(w)
    BY <2>2 DEF Moves
  <2>. QED  BY <1>0, <1>1, <2>3, MovesQuiet DEF TakeCallback, history
<1>2. CASE notifyCallback(w)
  <2>1. PICK n : n = th[w].n
    OBVIOUS
  <2>2. /\ th[w].pc = "callback" /\ UNCHANGED served
        /\ Rests(w) \/ processNotifyCommon(n, w, FALSE) \/ Goes(w, "calling")
    BY <1>2, <2>1 DEF notifyCallback, history
  <2>3. PICK a, b : a = Idle /\ b = [th[w] EXCEPT !.pc = "calling"]
    OBVIOUS
  <2>4. a.pc \notin Outside /\ b.pc \notin Outside /\ th[w].pc \notin Outside
    BY <1>0, <2>2, <2>3 DEF Idle, Place, Outside
  <2>5. CASE processNotifyCommon(n, w, FALSE)
    BY <1>0, <2>2, <2>4, <2>5, CommonMoves, MovesQuiet
  <2>6. CASE Rests(w) \/ Goes(w, "calling")
    <3>1. \E e \in {a, b} : th' = [th EXCEPT ![w] = e]
      BY <2>3, <2>6 DEF Rests, Goes
    <3>2. Moves(w)
      BY <2>4, <3>1 DEF Moves
    <3>. QED  BY <1>0, <2>2, <3>2, MovesQuiet
  <2>. QED  BY <2>2, <2>5, <2>6
<1>3. CASE ScanOnce(w)
  <2>1. PICK r : r = Head(onceQ)
    OBVIOUS
  <2>2. Starts(w, r, "process", None) /\ UNCHANGED served
    BY <1>3, <2>1 DEF ScanOnce, history
  <2>. QED  BY <1>0, <2>2, StartMoves, MovesQuiet
<1>4. ASSUME NEW r \in Records, Complete(w, r) PROVE Quiet /\ UNCHANGED served
  <2>1. PICK n : n = cause[r]
    OBVIOUS
  <2>2. Starts(w, r, "fwd", n) /\ UNCHANGED served
    BY <1>4, <2>1 DEF Complete, history
  <2>. QED  BY <1>0, <2>2, StartMoves, MovesQuiet
<1>5. ASSUME NEW r \in Records, Scan(w, r) PROVE Quiet /\ UNCHANGED served
  <2>1. Starts(w, r, "process", None) /\ UNCHANGED served
    BY <1>5 DEF Scan, history
  <2>. QED  BY <1>0, <2>1, StartMoves, MovesQuiet
<1>6. ASSUME NEW r \in Records, dbPutField(w, r) PROVE Quiet /\ UNCHANGED served
  <2>1. UNCHANGED served /\ (UNCHANGED th \/ Starts(w, r, "process", None))
    BY <1>6 DEF dbPutField
  <2>2. UNCHANGED th => Quiet
    BY DEF Quiet, Calling
  <2>. QED  BY <1>0, <2>1, <2>2, StartMoves, MovesQuiet
<1>. QED  BY <1>1, <1>2, <1>3, <1>4, <1>5, <1>6 DEF Work, Elsewhere

\* A step that is quiet, and leaves every request answered or not, changes nothing a client sees.
LEMMA QuietStutters ==
    ASSUME TypeOK, Life, Life', Quiet, UNCHANGED served
    PROVE  UNCHANGED Promise!vars
<1>1. \A m \in Notifies : PhaseOf(m)' = PhaseOf(m)
                          /\ (th'[m].pc = "waitCancel") = (th[m].pc = "waitCancel")
  BY PhaseThen DEF Quiet
<1>2. CASE Notifies = {}
  BY <1>2 DEF Promise!vars
<1>3. ASSUME NEW n \in Notifies PROVE UNCHANGED Promise!vars
  BY <1>1, PhaseChange
<1>. QED  BY <1>2, <1>3

\* A request is made: nothing was asked, and doneCallback does not run any more.
LEMMA BeginAsks ==
    ASSUME NotifyInv, NotifyInv', NEW n \in Notifies, th[n].pc \in {"idle", "waitUser"},
           served[n], pvt[n] = 0 \/ userCallbackEvent[pvt[n]], NEW free, Begin(n, free)
    PROVE  Promise!Ask(n)
<1>0. TypeOK /\ Places /\ Life /\ Life' /\ n \in Threads
  BY Typed DEF NotifyInv
<1>1. /\ served' = [served EXCEPT ![n] = FALSE] /\ processNotifyCommon(n, n, TRUE)
      /\ served \in [Notifies -> BOOLEAN] /\ th[n].pc \notin Outside
  BY <1>0, TypesThen DEF Begin, Outside
<1>2. Quiet
  BY <1>0, <1>1, CommonMoves, MovesQuiet
<1>3. ~Calling(n)
  <2>1. ASSUME NEW t \in Threads, th[t].pc = "returning", th[t].n = n PROVE FALSE
    <3>1. state[n] = "notifyUserCallbackActive" /\ ~userCallbackEvent[pvt[n]]
      BY <1>0, <2>1 DEF Places
    <3>. QED  BY <1>0, <3>1 DEF Life, LifeOf
  <2>. QED  BY <2>1 DEF Calling
<1>4. ~Calling(n)' /\ ~served'[n] /\ th[n].pc # "waitCancel" /\ th'[n].pc # "waitCancel"
  BY <1>1, <1>2, <1>3 DEF Quiet, Outside
<1>5. PhaseOf(n) = "idle" /\ PhaseOf(n)' = "asked"
  BY <1>0, <1>3, <1>4, PhaseThen
<1>6. \A m \in Notifies : m # n => /\ PhaseOf(m)' = PhaseOf(m)
                                   /\ (th'[m].pc = "waitCancel") = (th[m].pc = "waitCancel")
  BY <1>0, <1>1, <1>2, PhaseThen DEF Quiet
<1>. QED  BY <1>4, <1>5, <1>6, PhaseChange

\* What a client does is what the promise lets it do.
LEMMA ClientKeeps ==
    ASSUME NotifyInv, NotifyInv', NEW n \in Notifies, Client(n)
    PROVE  Promise!Next \/ UNCHANGED Promise!vars
<1>0. /\ TypeOK /\ Places /\ Life /\ Life' /\ n \in Threads /\ \A m \in Notifies : m \in Threads
      /\ th \in [Threads -> Place] /\ served \in [Notifies -> BOOLEAN] /\ th[n] \in Place
  BY Typed, TypesThen DEF NotifyInv
<1>1. ASSUME NEW u \in Threads, th[u].pc = "returning", th[u].n = n
      PROVE  state[n] = "notifyUserCallbackActive" /\ ~Canceled(n) /\ served[n]
  BY <1>0, <1>1 DEF Places
<1>2. CASE dbProcessNotify(n)
  <2>2. CASE pvt[n] = 0 /\ Begin(n, freeList)
    <3>1. th[n].pc = "idle" /\ served[n]
      BY <1>2 DEF dbProcessNotify
    <3>2. Promise!Ask(n)
      BY <2>2, <3>1, BeginAsks
    <3>. QED  BY <3>2 DEF Promise!Next
  <2>3. CASE Goes(n, "waitUser") /\ UNCHANGED served
    <3>1. th[n].pc = "idle"
      BY <1>2 DEF dbProcessNotify
    <3>2. PICK e : e = [th[n] EXCEPT !.pc = "waitUser"]
      OBVIOUS
    <3>3. e.pc \notin Outside /\ th' = [th EXCEPT ![n] = e] /\ th[n].pc \notin Outside
      BY <1>0, <2>3, <3>1, <3>2 DEF Goes, Outside, Place
    <3>4. Moves(n)
      BY <3>3 DEF Moves
    <3>. QED  BY <1>0, <2>3, <3>4, MovesQuiet, QuietStutters
  <2>. QED  BY <1>2, <2>2, <2>3 DEF dbProcessNotify, history
<1>3. CASE UserCallbackOver(n)
  <2>1. PICK free : free = Append(freeList, pvt[n])
    OBVIOUS
  <2>2. th[n].pc = "waitUser" /\ userCallbackEvent[pvt[n]] /\ Begin(n, free)
    BY <1>3, <2>1 DEF UserCallbackOver
  <2>3. served[n]
    BY <1>0, <2>2 DEF Life, LifeOf
  <2>4. Promise!Ask(n)
    BY <2>2, <2>3, BeginAsks
  <2>. QED  BY <2>4 DEF Promise!Next
<1>4. CASE dbNotifyCancel(n) /\ state[n] \in CancelWaitsIn
  <2>1. th[n].pc = "idle" /\ Goes(n, "waitCancel") /\ UNCHANGED served
    BY <1>4 DEF dbNotifyCancel
  <2>2. /\ th'[n] = [th[n] EXCEPT !.pc = "waitCancel"]
        /\ \A u \in Threads : u # n => th'[u] = th[u]
    BY <1>0, <2>1 DEF Goes
  <2>3. th'[n].pc = "waitCancel"
    BY <1>0, <2>2 DEF Place
  <2>4. \A m : Calling(m)' <=> Calling(m)
    BY <2>1, <2>2, <2>3 DEF Calling
  <2>5. \A m \in Notifies : /\ PhaseOf(m)' = PhaseOf(m)
                            /\ m # n => (th'[m].pc = "waitCancel") = (th[m].pc = "waitCancel")
    BY <1>0, <2>1, <2>2, <2>4, PhaseThen
  <2>6. Promise!CancelWaits(n)
    BY <2>1, <2>3, <2>5, PhaseChange
  <2>. QED  BY <2>6 DEF Promise!Next
<1>5. CASE dbNotifyCancel(n) /\ state[n] \notin CancelWaitsIn
  <2>1. /\ th[n].pc = "idle" /\ UNCHANGED th /\ served' = [served EXCEPT ![n] = TRUE] /\ pvt[n] # 0
    BY <1>5 DEF dbNotifyCancel
  <2>2. ~Calling(n) /\ ~served[n]
    BY <1>0, <1>1, <1>5, <2>1 DEF Calling, CancelWaitsIn, Life, LifeOf
  <2>3. \A m : Calling(m)' <=> Calling(m)
    BY <2>1 DEF Calling
  <2>4. PhaseOf(n) = "asked" /\ PhaseOf(n)' = "idle"
    BY <1>0, <2>1, <2>2, <2>3, PhaseThen
  <2>5. \A m \in Notifies : m # n => /\ PhaseOf(m)' = PhaseOf(m)
                                     /\ (th'[m].pc = "waitCancel") = (th[m].pc = "waitCancel")
    BY <1>0, <2>1, <2>3, PhaseThen
  <2>6. Promise!CancelAtOnce(n)
    BY <2>1, <2>4, <2>5, PhaseChange
  <2>. QED  BY <2>6 DEF Promise!Next
<1>6. CASE CancelReturns(n)
  <2>1. /\ th[n].pc = "waitCancel" /\ cancelEvent[pvt[n]] /\ Rests(n)
        /\ served' = [served EXCEPT ![n] = TRUE]
    BY <1>6 DEF CancelReturns
  <2>2. Canceled(n)
    <3>1. state[n] \in CancelWaitsIn
      BY <1>0, <2>1 DEF Life, LifeOf
    <3>2. pvt[n] # 0
      BY <1>0, <3>1 DEF Life, LifeOf, CancelWaitsIn, Requested
    <3>. QED  BY <2>1, <3>2 DEF Canceled
  <2>3. th'[n] = Idle /\ (\A u \in Threads : u # n => th'[u] = th[u]) /\ Idle.pc = "idle"
    BY <1>0, <2>1 DEF Rests, Idle
  <2>4. \A m : Calling(m)' <=> Calling(m)
    BY <2>1, <2>3 DEF Calling
  <2>5. ~Calling(n)
    BY <1>1, <2>2 DEF Calling
  <2>6. PhaseOf(n) # "calling" /\ PhaseOf(n)' = "idle"
    BY <1>0, <2>1, <2>4, <2>5, PhaseThen
  <2>7. \A m \in Notifies : m # n => /\ PhaseOf(m)' = PhaseOf(m)
                                     /\ (th'[m].pc = "waitCancel") = (th[m].pc = "waitCancel")
    BY <1>0, <2>1, <2>3, <2>4, PhaseThen
  <2>8. Promise!CancelReturns(n)
    BY <2>1, <2>3, <2>6, <2>7, PhaseChange
  <2>. QED  BY <2>8 DEF Promise!Next
<1>. QED  BY <1>2, <1>3, <1>4, <1>5, <1>6 DEF Client

\* doneCallback is called of a request that is asked, and returns before the next one is made.
LEMMA ServeKeeps ==
    ASSUME NotifyInv, NotifyInv', NEW t \in Threads, Serve(t)
    PROVE  Promise!Next \/ UNCHANGED Promise!vars
<1>0. /\ TypeOK /\ Places /\ Life /\ Life' /\ \A m \in Notifies : m \in Threads
      /\ th \in [Threads -> Place] /\ served \in [Notifies -> BOOLEAN] /\ th[t] \in Place
  BY Typed, TypesThen DEF NotifyInv
<1>n. PICK n : n = th[t].n
  OBVIOUS
<1>1. ASSUME doneCallback(t) \/ callDone(t)
      PROVE  /\ n \in Notifies /\ served[n] = (th[t].pc = "returning")
             /\ \A u \in Threads : CallsFor(u, n) => u = t
  <2>1. th[t].pc \in {"calling", "returning"}
    BY <1>1 DEF doneCallback, callDone
  <2>2. n \in Notifies /\ served[n] = (th[t].pc = "returning")
    BY <1>0, <1>n, <2>1 DEF Places
  <2>3. CallsFor(t, n)
    BY <1>n, <2>1 DEF CallsFor
  <2>. QED  BY <1>0, <2>2, <2>3 DEF Places
<1>2. CASE doneCallback(t)
  <2>1. /\ th[t].pc = "calling" /\ Goes(t, "returning") /\ served' = [served EXCEPT ![n] = TRUE]
    BY <1>2, <1>n DEF doneCallback
  <2>2. /\ th'[t] = [th[t] EXCEPT !.pc = "returning"]
        /\ \A u \in Threads : u # t => th'[u] = th[u]
    BY <1>0, <2>1 DEF Goes
  <2>3. th'[t].pc = "returning" /\ th'[t].n = n
    BY <1>0, <1>n, <2>2 DEF Place
  <2>4. /\ ~Calling(n) /\ Calling(n)' /\ ~served[n] /\ n \in Notifies
        /\ \A m : m # n => (Calling(m)' <=> Calling(m))
    BY <1>1, <1>2, <1>n, <2>1, <2>2, <2>3 DEF Calling, CallsFor
  <2>5. PhaseOf(n) = "asked" /\ PhaseOf(n)' = "calling"
    BY <1>0, <2>4, PhaseThen
  <2>6. \A m \in Notifies : (th'[m].pc = "waitCancel") = (th[m].pc = "waitCancel")
    BY <1>0, <2>1, <2>2, <2>3
  <2>7. \A m \in Notifies : m # n => PhaseOf(m)' = PhaseOf(m)
    BY <1>0, <2>1, <2>4, PhaseThen
  <2>8. Promise!Done(n)
    BY <2>4, <2>5, <2>6, <2>7, PhaseChange
  <2>. QED  BY <2>4, <2>8 DEF Promise!Next
<1>3. CASE callDone(t)
  <2>1. th[t].pc = "returning" /\ Rests(t) /\ UNCHANGED served
    BY <1>3 DEF callDone, history
  <2>2. th'[t] = Idle /\ (\A u \in Threads : u # t => th'[u] = th[u]) /\ Idle.pc = "idle"
    BY <1>0, <2>1 DEF Rests, Idle
  <2>3. /\ Calling(n) /\ ~Calling(n)' /\ served[n] /\ n \in Notifies
        /\ \A m : m # n => (Calling(m)' <=> Calling(m))
    BY <1>1, <1>3, <1>n, <2>1, <2>2 DEF Calling, CallsFor
  <2>4. PhaseOf(n) = "calling" /\ PhaseOf(n)' = "idle"
    BY <1>0, <2>1, <2>3, PhaseThen
  <2>5. \A m \in Notifies : (th'[m].pc = "waitCancel") = (th[m].pc = "waitCancel")
    BY <1>0, <2>1, <2>2
  <2>6. \A m \in Notifies : m # n => PhaseOf(m)' = PhaseOf(m)
    BY <1>0, <2>1, <2>3, PhaseThen
  <2>7. Promise!DoneReturns(n)
    BY <2>3, <2>4, <2>5, <2>6, PhaseChange
  <2>. QED  BY <2>3, <2>7 DEF Promise!Next
<1>4. ASSUME \/ dbProcess(t) \/ recGblFwdLink(t) \/ dbNotifyAdd(t) \/ TestNotify(t)
             \/ dbNotifyCompletion(t) \/ EndProcess(t)
      PROVE  UNCHANGED Promise!vars
  BY <1>0, <1>4, WorkMoves, MovesQuiet, QuietStutters
<1>. QED  BY <1>2, <1>3, <1>4 DEF Serve

\* Every step is one the promise allows, or none of its own.
LEMMA PromiseStep ==
    ASSUME NotifyInv, [Next]_vars
    PROVE  [Promise!Next]_(Promise!vars)
<1>0. NotifyInv'
  BY EveryStep, NoStep
<1>1. TypeOK /\ Life /\ Life'
  BY <1>0 DEF NotifyInv
<1>2. CASE UNCHANGED vars
  <2>1. UNCHANGED <<th, served>>
    BY <1>2 DEF vars, history
  <2>2. Quiet
    BY <2>1 DEF Quiet, Calling
  <2>. QED  BY <1>1, <2>1, <2>2, QuietStutters
<1>3. ASSUME NEW n \in Notifies, Client(n) PROVE Promise!Next \/ UNCHANGED Promise!vars
  BY <1>0, <1>3, ClientKeeps
<1>4. ASSUME NEW t \in Threads, Serve(t) PROVE Promise!Next \/ UNCHANGED Promise!vars
  BY <1>0, <1>4, ServeKeeps
<1>5. ASSUME NEW w \in Workers, Work(w) \/ Elsewhere(w) PROVE UNCHANGED Promise!vars
  BY <1>1, <1>5, WorkerQuiet, QuietStutters
<1>6. ASSUME NEW r \in Records, RemoveLink(r) PROVE UNCHANGED Promise!vars
  <2>1. UNCHANGED <<th, served>>
    BY <1>6 DEF RemoveLink, history
  <2>2. Quiet
    BY <2>1 DEF Quiet, Calling
  <2>. QED  BY <1>1, <2>1, <2>2, QuietStutters
<1>. QED  BY <1>2, <1>3, <1>4, <1>5, <1>6 DEF Next

-----------------------------------------------------------------------------
(* The theorems.                                                           *)

\* The invariant of every behaviour.
LEMMA InvHolds == Spec => []NotifyInv
<1>1. Init => NotifyInv
  BY StartsOver
<1>2. NotifyInv /\ [Next]_vars => NotifyInv'
  BY EveryStep, NoStep
<1>. QED  BY <1>1, <1>2, PTL DEF Spec

\* For any number of clients and threads and every chain of records, across restart, completion,
\* cancel and reuse: records and requests agree on who has what, a request has one callback under
\* way or none, every notifyPvt is returned once, a record's PUTF ends with its processing, and,
\* unless a link between the records of a request is removed under way, no assert() of dbNotify.c
\* fails.
THEOREM RequestsConsistent == Spec => []Consistent
<1>1. NotifyInv => Consistent
  BY InvConsistent
<1>. QED  BY <1>1, InvHolds, PTL

\* doneCallback is called of a request when no record is busy any more that was processed for it.
THEOREM DoneHolds == Spec => []DoneMeansDone
<1>1. NotifyInv => DoneMeansDone
  BY InvConsistent
<1>. QED  BY <1>1, InvHolds, PTL

\* Process notify keeps what dbNotify.h promises: a request is answered once or canceled, and a
\* cancel does not return while doneCallback runs or may still be called.
THEOREM RequestsPromised == Spec => ImplementsNotify
<1>1. ASSUME Init PROVE Promise!Init
  <2>1. \A n \in Notifies : ~Calling(n) /\ pvt[n] = 0 /\ n \in Threads
    BY <1>1 DEF Init, Calling, Idle, Threads
  <2>2. \A n \in Notifies : th[n].pc # "waitCancel"
    BY <1>1, <2>1 DEF Init, Idle
  <2>. QED  BY <2>1, <2>2 DEF Promise!Init
<1>2. NotifyInv /\ [Next]_vars => [Promise!Next]_(Promise!vars)
  BY PromiseStep
<1>. QED  BY <1>1, <1>2, InvHolds, PTL DEF Spec, ImplementsNotify, Promise!Spec
=============================================================================
