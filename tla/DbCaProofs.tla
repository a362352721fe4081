----------------------------- MODULE DbCaProofs -----------------------------
(***************************************************************************)
(* Theorems about DbCa, for every number of structures, every limit of     *)
(* scans and every set of types a channel may come back with.              *)
(***************************************************************************)
EXTENDS DbCa, SequenceTheorems, FunctionTheorems, FiniteSetTheorems, TLAPS

Monitors == {Monitor[k] : k \in Kinds}
Channels == [state : {"none", "created", "conn", "disc", "cleared"}, shape : Shapes \cup {"none"},
             access : SUBSET {"read", "write"},
             subs : SUBSET [kind : Kinds, id : Nat, shape : Shapes \cup {"none"}],
             puts : Nat, gets : Nat]
Acting == {"act", "do"} \cup Monitors
TaskPlaces == {"wait", "work", "ctl", "shutdown", "dec", "free", "call"} \cup Acting

\* The variables have their types; what has not been allocated is as Init leaves it.
Types ==
    /\ inst \in Instances /\ last \in 0 .. inst.links
    /\ link \in [pvt : 0 .. last, pvlMask : SUBSET Kinds]
    /\ ca \in [Links -> CaLinks] /\ chan \in [Links -> Channels]
    /\ \A p \in Links : IsFiniteSet(chan[p].subs)
    /\ freed \subseteq 1 .. last /\ refused \subseteq 1 .. last
    /\ unsubscribed \subseteq 1 .. last /\ paused \subseteq 1 .. last
    /\ workList \in Seq(0 .. last) /\ onceQ \in Seq(1 .. last)
    /\ workListEvent \in BOOLEAN /\ dbCaCtl \in {"ctlRun", "ctlPause", "ctlExit"}
    /\ removesOutstanding \in Nat /\ lost \in 0 .. inst.lost
    /\ task \in [pc : TaskPlaces, p : 0 .. last, todo : SUBSET LinkBits]
    /\ cb \in [pc : {"idle", "notify", "call", "callThenNotify"}, p : 0 .. last]
    /\ scan \in [pc : {"idle", "process", "complete", "dec", "free", "call"}, p : 0 .. last]
    /\ user \in [pc : {"idle", "removing", "pausing", "syncing", "joining"}, p : 0 .. last,
                 callAdd : BOOLEAN]
    /\ pact \in BOOLEAN /\ stale \in BOOLEAN
Unused == \A p \in Links : p > last => ca[p] = NewLink /\ chan[p] = NoChannel

Clears(p) == "CA_CLEAR_CHANNEL" \in ca[p].link_action
\* somebody has still to hand the structure to dbCaTask for the last time, or just did
Owned(p) == ca[p].plink \/ Clears(p) \/ user.p = p
\* The link refers to the structure whose plink is set; one that is removed gets no action but
\* the last one, and a thread that pauses in addAction knows what it read.
Linked ==
    /\ \A p \in 1 .. last :
          /\ ca[p].plink <=> link.pvt = p
          /\ ca[p].link_action # {} => Owned(p)
          /\ Clears(p) => ~ca[p].plink /\ user.p # p
          /\ p \in freed => ~Owned(p)
    /\ user.p # NoLink <=> user.pc \in {"removing", "pausing"}
    /\ user.p # NoLink => ~ca[user.p].plink
    /\ user.pc = "pausing" => /\ user.p \in paused
                              /\ user.callAdd => ca[user.p].link_action = {}

\* The work list holds no structure without an action, and a templink for who waits for it.
Listed ==
    /\ \A p \in 1 .. last :
          /\ Occurrences(workList, p) \in {0, 1}
          /\ ca[p].link_action = {} => Occurrences(workList, p) = 0
          /\ p \notin paused /\ ca[p].link_action # {} => Occurrences(workList, p) = 1
    /\ Occurrences(workList, TempLink) = IF user.pc = "syncing" THEN 1 ELSE 0

\* Removals that dbCaTask has not taken, and the one that pauses.
Clearing == {p \in 1 .. last : Clears(p)}
Removes == removesOutstanding = Cardinality(Clearing) + (IF user.pc = "pausing" THEN 1 ELSE 0)

\* What dbCaTask and the scan thread have in hand is theirs.
InHand ==
    /\ task.pc \in {"wait", "work", "ctl", "shutdown"} => task.p = NoLink
    /\ task.pc \notin {"wait", "work", "ctl", "shutdown"} => task.p # NoLink
    /\ task.pc \in Acting => Owned(task.p)
    /\ task.pc \in {"dec", "free"} => ~Owned(task.p) /\ task.p \notin freed
    /\ task.pc = "free" => ca[task.p].refcount = 0
    /\ scan.pc = "idle" <=> scan.p = NoLink
    /\ scan.pc = "free" => ca[scan.p].refcount = 0 /\ scan.p \notin freed
    /\ task.pc = "free" /\ scan.pc = "free" => task.p # scan.p
    /\ \A p \in freed : Holding(p) = 0
    /\ \A k \in Kinds : task.pc = Monitor[k] => Monitor[k] \in task.todo
    /\ task.pc \in Acting \ {"act"} => "CA_CONNECT" \notin task.todo

Connects(p) == \/ "CA_CONNECT" \in ca[p].link_action
               \/ task.pc = "act" /\ task.p = p /\ "CA_CONNECT" \in task.todo
\* A channel is created once, and called back for while it exists.
Channeled ==
    /\ cb.pc = "idle" <=> cb.p = NoLink
    /\ cb.p # NoLink => chan[cb.p].state \in {"conn", "disc"}
    /\ cb.pc = "callThenNotify" => chan[cb.p].state = "disc"
    /\ \A p \in 1 .. last :
          /\ chan[p].state = "cleared" <=> p \in freed
          /\ Connects(p) => chan[p].state = "none"
          /\ chan[p].puts > 0 \/ chan[p].subs # {} => chan[p].state \in {"conn", "disc"}
          /\ chan[p].state \in {"conn", "disc"} => chan[p].shape \in inst.shapes
          /\ chan[p].state = "conn" => chan[p].access \in inst.rights
          /\ chan[p].state = "disc" => lost > 0
          /\ ca[p].gotFirstConnection =>
                /\ ca[p].shape \in inst.shapes /\ chan[p].state \in {"conn", "disc"}
                /\ lost = 0 => ~(cb.p = p /\ cb.pc = "notify")
          /\ ca[p].isConnected => ca[p].gotFirstConnection
    /\ task.pc = "act" /\ "CA_CONNECT" \in task.todo =>
          "CA_CONNECT" \notin ca[task.p].link_action
    /\ task.pc \in Acting \ {"act"} => chan[task.p].state \in {"conn", "disc"}

\* the action is to be done for p
Asked(p, a) == a \in ca[p].link_action \/ (task.pc \in Acting /\ task.p = p /\ a \in task.todo)
OneShape == Cardinality(inst.shapes) = 1
\* As long as no channel comes back with another type the buffers are there.
Buffered ==
    /\ OneShape \/ lost = 0 => \A p \in 1 .. last, k \in Kinds :
          Asked(p, Write[k]) => k \in ca[p].pput /\ ca[p].gotFirstConnection
    /\ OneShape => \A p \in 1 .. last :
          /\ \A s \in chan[p].subs :
                s.kind \in ca[p].pget /\ (s.kind = "string" => inst.shapes \subseteq EnumShapes)
          /\ Asked(p, Monitor["string"]) => inst.shapes \subseteq EnumShapes
          /\ \A k \in Kinds : task.pc = Monitor[k] /\ task.p = p => k \in ca[p].pget
    /\ OneShape /\ "string" \in link.pvlMask => inst.shapes \subseteq EnumShapes

CallsBack(t) == \/ t = "cb" /\ cb.pc \in {"call", "callThenNotify"}
                \/ t = "task" /\ task.pc = "call"
                \/ t = "scan" /\ scan.pc = "call"
\* One callback is kept or being called while the record waits.
Answering ==
    /\ \A p \in Links : ca[p].putCallback =>
          /\ pact /\ ca[p].putType = "CA_PUT_CALLBACK"
          /\ \A t \in {"cb", "task", "scan"} : ~CallsBack(t)
          /\ \A q \in Links : ca[q].putCallback => q = p
    /\ \A t \in {"cb", "task", "scan"} : CallsBack(t) =>
          pact /\ \A u \in {"cb", "task", "scan"} : CallsBack(u) => u = t
    /\ pact => /\ inst.use \notin Inputs
               /\ \/ \E p \in Links : ca[p].putCallback
                  \/ \E t \in {"cb", "task", "scan"} : CallsBack(t)

\* A link that counts no scan has no request.
Scans == \A p \in (1 .. last) \ freed :
    ca[p].plink /\ ca[p].scanningOnce = 0 => Requests(p) = 0

\* News of a CP link are for a link that there is.
Stale == stale => link.pvt # NoLink /\ inst.use = "cp"

\* the channel is connected and dbCa knows it
Known(p) == chan[p].state = "conn" /\ ~(cb.p = p /\ cb.pc = "notify")
Subscribed(p, k) == \E s \in chan[p].subs : s.kind = k
\* A link that reads has its subscriptions, or its flags will have them made when it connects.
Monitored ==
    LET p == link.pvt IN
    p # NoLink /\ p \notin unsubscribed => \A k \in Kinds :
        /\ k \in ca[p].pget => Subscribed(p, k) \/ (task.p = p /\ task.pc = Monitor[k])
        /\ k \in link.pvlMask /\ task.p = p /\ task.pc = Monitor[k] =>
              k \in ca[p].pget \/ Monitor[k] \in ca[p].link_action
        /\ Known(p) /\ k \in link.pvlMask =>
              Asked(p, Monitor[k]) \/ (k \in ca[p].pget /\ Subscribed(p, k))

CaInv == /\ Types /\ Unused /\ Linked /\ Listed /\ Removes /\ InHand /\ Channeled /\ Buffered
         /\ Answering /\ Stale /\ Monitored
         /\ RefsCounted /\ NoLostWakeup /\ OneScan /\ Scans /\ InputBuffered /\ PutKept
               /\ NoLostScan
         /\ AssertsHold
-----------------------------------------------------------------------------
(* Sequences and the structures that occur in them.                        *)

\* How often p occurs in a queue that something enters or leaves.
LEMMA Occurs ==
    ASSUME NEW S, NEW q \in Seq(S), NEW p
    PROVE  /\ Occurrences(q, p) \in Nat
           /\ p \notin S => Occurrences(q, p) = 0
           /\ \A x \in S : Occurrences(Append(q, x), p) = Occurrences(q, p) +
                 (IF x = p THEN 1 ELSE 0)
           /\ q # <<>> => /\ Head(q) \in S /\ Tail(q) \in Seq(S)
                          /\ Occurrences(q, p) = Occurrences(Tail(q), p) +
                                (IF Head(q) = p THEN 1 ELSE 0)
<1> DEFINE I(r) == {i \in DOMAIN r : r[i] = p}
<1>1. ASSUME NEW r \in Seq(S) PROVE IsFiniteSet(I(r)) /\ Cardinality(I(r)) \in Nat
  <2>1. Len(r) \in Nat /\ I(r) \in SUBSET (1 .. Len(r))
    OBVIOUS
  <2>2. IsFiniteSet(1 .. Len(r))
    BY <2>1, FS_Interval
  <2>. QED  BY <2>1, <2>2, FS_Subset, FS_CardinalityType
<1>2. p \notin S => I(q) = {}
  OBVIOUS
<1>3. ASSUME NEW x \in S
      PROVE Cardinality(I(Append(q, x))) = Cardinality(I(q)) + (IF x = p THEN 1 ELSE 0)
  <2>1. CASE x = p
    <3>1. I(Append(q, x)) = I(q) \cup {Len(q) + 1} /\ Len(q) + 1 \notin I(q)
      BY <2>1
    <3>. HIDE DEF I
    <3>. QED  BY <1>1, <2>1, <3>1, FS_AddElement
  <2>2. CASE x # p
    <3>1. I(Append(q, x)) = I(q)
      BY <2>2
    <3>. HIDE DEF I
    <3>. QED  BY <1>1, <2>2, <3>1
  <2>. QED  BY <2>1, <2>2
<1>4. ASSUME q # <<>>
      PROVE  /\ Head(q) \in S /\ Tail(q) \in Seq(S)
             /\ Cardinality(I(q)) = Cardinality(I(Tail(q))) + (IF Head(q) = p THEN 1 ELSE 0)
  <2>1. /\ Head(q) \in S /\ Head(q) = q[1] /\ Tail(q) \in Seq(S) /\ Len(q) \in Nat \ {0}
        /\ Len(Tail(q)) = Len(q) - 1 /\ \A i \in 1 .. Len(q) - 1 : Tail(q)[i] = q[i + 1]
    BY <1>4
  <2> DEFINE J == I(q) \ {1}
             f == [i \in I(Tail(q)) |-> i + 1]
  <2>2. f \in [I(Tail(q)) -> J]
    BY <2>1
  <2>3. \A a, b \in I(Tail(q)) : f[a] = f[b] => a = b
    BY <2>1
  <2>4. \A t \in J : \E s \in I(Tail(q)) : f[s] = t
    <3>1. ASSUME NEW t \in J PROVE t - 1 \in I(Tail(q)) /\ f[t - 1] = t
      BY <2>1
    <3>. QED  BY <3>1
  <2>5. f \in Bijection(I(Tail(q)), J)
    BY <2>2, <2>3, <2>4, Fun_IsBij
  <2>6. 1 \in I(q) <=> Head(q) = p
    BY <2>1
  <2>. HIDE DEF I, f
  <2>7. Cardinality(J) = Cardinality(I(Tail(q)))
    BY <1>1, <2>1, <2>5, FS_Bijection DEF ExistsBijection
  <2>8. Cardinality(J) = IF 1 \in I(q) THEN Cardinality(I(q)) - 1 ELSE Cardinality(I(q))
    BY <1>1, FS_RemoveElement
  <2>. HIDE DEF J
  <2>. QED  BY <1>1, <2>1, <2>6, <2>7, <2>8
<1>5. /\ Occurrences(q, p) = Cardinality(I(q))
      /\ \A x \in S : Occurrences(Append(q, x), p) = Cardinality(I(Append(q, x)))
      /\ Occurrences(Tail(q), p) = Cardinality(I(Tail(q)))
  BY DEF Occurrences
<1>. HIDE DEF I
<1>. QED  BY <1>1, <1>2, <1>3, <1>4, <1>5, FS_EmptySet

\* The same of the two queues.
LEMMA ListOccurs ==
    ASSUME NEW n \in Nat, NEW q \in Seq(0 .. n)
    PROVE  /\ \A p : Occurrences(q, p) \in Nat
           /\ \A p : p \notin 0 .. n => Occurrences(q, p) = 0
           /\ \A x \in 0 .. n : \A p :
                 Occurrences(Append(q, x), p) = Occurrences(q, p) + (IF p = x THEN 1 ELSE 0)
           /\ q # <<>> =>
                 /\ Head(q) \in 0 .. n /\ Tail(q) \in Seq(0 .. n)
                 /\ \A p : Occurrences(q, p) = Occurrences(Tail(q), p) +
                       (IF p = Head(q) THEN 1 ELSE 0)
<1> DEFINE S == 0 .. n
<1>1. q \in Seq(S)
  OBVIOUS
<1>. HIDE DEF S
<1>2. ASSUME NEW p
      PROVE  /\ Occurrences(q, p) \in Nat /\ (p \notin S => Occurrences(q, p) = 0)
             /\ \A x \in S : Occurrences(Append(q, x), p) = Occurrences(q, p) +
                   (IF p = x THEN 1 ELSE 0)
             /\ q # <<>> => /\ Head(q) \in S /\ Tail(q) \in Seq(S)
                            /\ Occurrences(q, p) = Occurrences(Tail(q), p) +
                                  (IF p = Head(q) THEN 1 ELSE 0)
  BY <1>1, Occurs
<1>. QED  BY <1>2 DEF S

\* The same of the requests, which hold no templink.
LEMMA OnceOccurs ==
    ASSUME NEW n \in Nat, NEW q \in Seq(1 .. n)
    PROVE  /\ \A p : Occurrences(q, p) \in Nat
           /\ \A p : p \notin 1 .. n => Occurrences(q, p) = 0
           /\ \A x \in 1 .. n : \A p :
                 Occurrences(Append(q, x), p) = Occurrences(q, p) + (IF p = x THEN 1 ELSE 0)
           /\ q # <<>> =>
                 /\ Head(q) \in 1 .. n /\ Tail(q) \in Seq(1 .. n)
                 /\ \A p : Occurrences(q, p) = Occurrences(Tail(q), p) +
                       (IF p = Head(q) THEN 1 ELSE 0)
<1> DEFINE S == 1 .. n
<1>1. q \in Seq(S)
  OBVIOUS
<1>. HIDE DEF S
<1>2. ASSUME NEW p
      PROVE  /\ Occurrences(q, p) \in Nat /\ (p \notin S => Occurrences(q, p) = 0)
             /\ \A x \in S : Occurrences(Append(q, x), p) = Occurrences(q, p) +
                   (IF p = x THEN 1 ELSE 0)
             /\ q # <<>> => /\ Head(q) \in S /\ Tail(q) \in Seq(S)
                            /\ Occurrences(q, p) = Occurrences(Tail(q), p) +
                                  (IF p = Head(q) THEN 1 ELSE 0)
  BY <1>1, Occurs
<1>. QED  BY <1>2 DEF S

\* A sequence of structures that were allocated stays one.
LEMMA SeqGrows ==
    ASSUME NEW m \in Nat, NEW n \in Nat, m <= n
    PROVE  Seq(0 .. m) \subseteq Seq(0 .. n) /\ Seq(1 .. m) \subseteq Seq(1 .. n)
<1>1. 0 .. m \subseteq 0 .. n /\ 1 .. m \subseteq 1 .. n
  OBVIOUS
<1>. QED  BY <1>1
-----------------------------------------------------------------------------
(* What a part of the invariant reads: a step that leaves it as it is      *)
(* keeps that part.                                                        *)

\* What the types say of the structures and of the instance.
LEMMA Typed ==
    ASSUME Types
    PROVE  /\ inst.links \in Nat /\ last \in Nat /\ last <= inst.links /\ Links = 1 .. inst.links
           /\ 1 .. last \subseteq Links /\ NoLink \notin Links /\ NoLink \notin 1 .. last
           /\ \A p \in Links : ca[p] \in CaLinks /\ chan[p] \in Channels
           /\ inst.use \in {"in", "cp", "out", "async", "mixed"} /\ inst.lost \in Nat
           /\ inst.shapes \subseteq Shapes /\ inst.rights \subseteq SUBSET {"read", "write"}
           /\ \A p \in 0 .. last : p # NoLink => p \in 1 .. last
BY CaAssumption, SMTT(60), ZenonT(60) DEF Types, Links, NoLink

\* The types, variable by variable.
LEMMA TypesKept ==
    ASSUME Types, UNCHANGED <<inst, last>>,
           link' \in [pvt : 0 .. last, pvlMask : SUBSET Kinds],
           ca' \in [Links -> CaLinks], chan' \in [Links -> Channels],
           \A q \in Links : IsFiniteSet(chan'[q].subs),
           freed' \subseteq 1 .. last, refused' \subseteq 1 .. last,
           unsubscribed' \subseteq 1 .. last, paused' \subseteq 1 .. last,
           workList' \in Seq(0 .. last), onceQ' \in Seq(1 .. last),
           workListEvent' \in BOOLEAN, dbCaCtl' \in {"ctlRun", "ctlPause", "ctlExit"},
           removesOutstanding' \in Nat, lost' \in 0 .. inst.lost,
           task' \in [pc : TaskPlaces, p : 0 .. last, todo : SUBSET LinkBits],
           cb' \in [pc : {"idle", "notify", "call", "callThenNotify"}, p : 0 .. last],
           scan' \in [pc : {"idle", "process", "complete", "dec", "free", "call"}, p : 0 .. last],
           user' \in [pc : {"idle", "removing", "pausing", "syncing", "joining"}, p : 0 .. last,
                      callAdd : BOOLEAN],
           pact' \in BOOLEAN, stale' \in BOOLEAN
    PROVE  Types'
<1>1. Links' = Links /\ inst' = inst /\ last' = last
  BY DEF Links
<1>2. inst' \in Instances /\ last' \in 0 .. inst'.links
  BY DEF Types
<1>. HIDE DEF CaLinks, Channels, TaskPlaces, LinkBits
<1>. QED  BY <1>1, <1>2 DEF Types

\* The types of what the step leaves alone.
LEMMA TypesThen ==
    ASSUME Types
    PROVE  /\ link \in [pvt : 0 .. last, pvlMask : SUBSET Kinds]
           /\ ca \in [Links -> CaLinks] /\ chan \in [Links -> Channels]
           /\ \A q \in Links : IsFiniteSet(chan[q].subs)
           /\ freed \subseteq 1 .. last /\ refused \subseteq 1 .. last
           /\ unsubscribed \subseteq 1 .. last /\ paused \subseteq 1 .. last
           /\ workList \in Seq(0 .. last) /\ onceQ \in Seq(1 .. last)
           /\ workListEvent \in BOOLEAN /\ dbCaCtl \in {"ctlRun", "ctlPause", "ctlExit"}
           /\ removesOutstanding \in Nat /\ lost \in 0 .. inst.lost
           /\ task \in [pc : TaskPlaces, p : 0 .. last, todo : SUBSET LinkBits]
           /\ cb \in [pc : {"idle", "notify", "call", "callThenNotify"}, p : 0 .. last]
           /\ scan \in [pc : {"idle", "process", "complete", "dec", "free", "call"}, p : 0 .. last]
           /\ user \in [pc : {"idle", "removing", "pausing", "syncing", "joining"}, p : 0 .. last,
                        callAdd : BOOLEAN]
           /\ pact \in BOOLEAN /\ stale \in BOOLEAN
BY DEF Types

\* What has not been allocated is left alone.
LEMMA UnusedKept ==
    ASSUME Types, Unused, UNCHANGED <<inst, last>>,
           \A q \in Links : q > last => ca'[q] = ca[q] /\ chan'[q] = chan[q]
    PROVE  Unused'
<1>1. Links' = Links
  BY DEF Links
<1>2. NewLink' = NewLink /\ NoChannel' = NoChannel
  BY DEF NewLink, NoChannel
<1>. QED  BY <1>1, <1>2 DEF Unused

SameOnList == \A q \in Links : ca'[q].plink = ca[q].plink /\ ca'[q].link_action = ca[q].link_action

\* A step that leaves the actions, the work list and the thread that removes alone.
LEMMA OwnersKept ==
    ASSUME Types, Linked, Listed, Removes, SameOnList, link'.pvt = link.pvt,
           UNCHANGED <<inst, last, freed, paused, workList, removesOutstanding, user>>
    PROVE  Linked' /\ Listed' /\ Removes'
<1>1. \A q \in 1 .. last : /\ q \in Links /\ ca'[q].plink = ca[q].plink
                           /\ ca'[q].link_action = ca[q].link_action
  BY Typed DEF SameOnList
<1>2. last' = last /\ user' = user /\ \A q \in 1 .. last : (Clears(q)' <=> Clears(q))
            /\ (Owned(q)' <=> Owned(q))
  BY <1>1 DEF Clears, Owned
<1>3. user.p # NoLink => user.p \in 1 .. last
  BY Typed DEF Types
<1>4. Linked'
  BY <1>1, <1>2, <1>3 DEF Linked, NoLink
<1>5. Listed'
  BY <1>1, <1>2 DEF Listed
<1>6. Clearing' = Clearing
  BY <1>2 DEF Clearing
<1>. QED  BY <1>4, <1>5, <1>6 DEF Removes

\* The thread that serves scan requests processes the record, or does nothing.
ScanGoes == \/ scan' = scan
            \/ scan.pc = "process" /\ scan' = [scan EXCEPT !.pc = "complete"]

\* Processing the record neither takes nor makes a request.
LEMMA RequestsKept ==
    ASSUME Types, ScanGoes, onceQ' = onceQ
    PROVE  /\ \A q : Holding(q)' = Holding(q) /\ Requests(q)' = Requests(q)
           /\ scan'.p = scan.p /\ (scan'.pc = "free" <=> scan.pc = "free")
           /\ (scan'.pc = "idle" <=> scan.pc = "idle") /\ (scan'.pc = "call" <=> scan.pc = "call")
<1>1. scan \in [pc : {"idle", "process", "complete", "dec", "free", "call"}, p : 0 .. last]
  BY DEF Types
<1>2. /\ scan'.p = scan.p /\ (scan'.pc = "free" <=> scan.pc = "free")
      /\ (scan'.pc = "idle" <=> scan.pc = "idle") /\ (scan'.pc = "call" <=> scan.pc = "call")
      /\ (scan'.pc \in {"process", "complete", "dec"} <=> scan.pc \in {"process", "complete", "dec"})
      /\ (scan'.pc \in {"process", "complete"} <=> scan.pc \in {"process", "complete"})
  BY <1>1 DEF ScanGoes
<1>3. \A q : Occurrences(onceQ', q) = Occurrences(onceQ, q)
  OBVIOUS
<1>4. ASSUME NEW q PROVE Holding(q)' = Holding(q) /\ Requests(q)' = Requests(q)
  BY <1>2, <1>3 DEF Holding, Requests
<1>. QED  BY <1>2, <1>4

\* dbCaTask's reference is that of a structure somebody owns, or that it is to drop.
LEMMA HoldsOwned ==
    \A q : /\ TaskHolds(q) <=> Owned(q) \/ (task.p = q /\ task.pc = "dec")
           /\ TaskHolds(q)' <=> Owned(q)' \/ (task'.p = q /\ task'.pc = "dec")
BY DEF TaskHolds, Owned, Clears

\* Who owns a structure is read from plink, its actions and the thread that removes.
LEMMA OwnedKept ==
    ASSUME Types, SameOnList, user'.p = user.p
    PROVE  \A q \in 1 .. last : (Owned(q)' <=> Owned(q))
<1>1. \A q \in 1 .. last : q \in Links
  BY Typed
<1>. QED  BY <1>1 DEF SameOnList, Owned, Clears

Resting == {"wait", "work", "ctl", "shutdown"}
\* dbCaTask goes on with the structure it has, or is done with it.
TaskGoes ==
    \/ task' = task
    \/ /\ task.pc \in Resting \cup Acting /\ task'.pc \in Resting /\ task'.p = NoLink
       /\ task'.todo \subseteq task.todo
    \/ /\ task.pc \in Acting /\ task'.pc \in Acting \ {"act"} /\ task'.p = task.p
       /\ task'.todo \subseteq task.todo /\ "CA_CONNECT" \notin task'.todo
       /\ chan[task.p].state \in {"conn", "disc"}
       /\ \A k \in Kinds : task'.pc = Monitor[k] => Monitor[k] \in task'.todo

\* What dbCaTask has in hand after it went on.
LEMMA TaskFrame ==
    ASSUME Types, InHand, TaskGoes
    PROVE  /\ task'.pc \in Resting => task'.p = NoLink
           /\ task'.pc \notin Resting => task'.p = task.p /\ task.p # NoLink
           /\ task'.pc \in Acting => task.pc \in Acting
           /\ task'.pc = "dec" <=> task.pc = "dec"
           /\ task'.pc = "free" <=> task.pc = "free"
           /\ task'.pc = "call" <=> task.pc = "call"
           /\ task'.pc = "act" => task' = task
           /\ \A k \in Kinds : task'.pc = Monitor[k] => Monitor[k] \in task'.todo
           /\ task'.pc \in Acting \ {"act"} => "CA_CONNECT" \notin task'.todo
           /\ task'.todo \subseteq task.todo
<1>1. CASE task' = task
  BY <1>1 DEF InHand, Resting
<1>2. CASE /\ task.pc \in Resting \cup Acting /\ task'.pc \in Resting /\ task'.p = NoLink
           /\ task'.todo \subseteq task.todo
  BY <1>2 DEF Resting, Acting, Monitors, Monitor, Kinds
<1>3. CASE /\ task.pc \in Acting /\ task'.pc \in Acting \ {"act"} /\ task'.p = task.p
           /\ task'.todo \subseteq task.todo /\ "CA_CONNECT" \notin task'.todo
           /\ \A k \in Kinds : task'.pc = Monitor[k] => Monitor[k] \in task'.todo
  <2>1. task.p # NoLink
    BY <1>3 DEF InHand, Acting, Monitors, Monitor, Kinds
  <2>. QED  BY <1>3, <2>1 DEF Resting, Acting, Monitors, Monitor, Kinds
<1>. QED  BY <1>1, <1>2, <1>3 DEF TaskGoes

\* It is done with a structure that has lost its reference.
TaskEnds ==
    /\ task.pc \in {"dec", "free", "call"} /\ task'.pc \in {"free", "call", "work"}
    /\ task'.p = (IF task'.pc = "work" THEN NoLink ELSE task.p) /\ task'.todo \subseteq task.todo
ScanEnds ==
    /\ scan.pc \in {"dec", "free", "call"} /\ scan'.pc \in {"free", "call", "idle"}
    /\ scan'.p = (IF scan'.pc = "idle" THEN NoLink ELSE scan.p)

\* The same, when it may also be at the end of a structure.
LEMMA TaskEither ==
    ASSUME Types, InHand, TaskGoes \/ TaskEnds
    PROVE  /\ task'.pc \in Acting => task.pc \in Acting /\ task'.p = task.p /\ task.p # NoLink
           /\ task'.pc = "act" => task' = task
           /\ task'.todo \subseteq task.todo
<1>1. CASE TaskGoes
  BY <1>1, TaskFrame DEF Resting, Acting, Monitors, Monitor, Kinds
<1>2. CASE TaskEnds
  BY <1>2 DEF TaskEnds, Acting, Monitors, Monitor, Kinds
<1>. QED  BY <1>1, <1>2

\* The end of a request is after it was served.
LEMMA RequestsEnd ==
    ASSUME ScanEnds, onceQ' = onceQ
    PROVE  /\ \A q : Requests(q)' = Requests(q)
           /\ scan'.pc \notin {"process", "complete"} /\ scan.pc \notin {"process", "complete"}
<1>1. scan'.pc \notin {"process", "complete"} /\ scan.pc \notin {"process", "complete"}
  BY DEF ScanEnds
<1>2. \A q : Occurrences(onceQ', q) = Occurrences(onceQ, q)
  OBVIOUS
<1>. QED  BY <1>1, <1>2 DEF Requests

\* A step that takes nothing in hand and counts no reference.
LEMMA HandsKept ==
    ASSUME Types, InHand, RefsCounted, ScanGoes, TaskGoes, UNCHANGED <<inst, last, freed, onceQ>>,
           \A q \in 1 .. last : (Owned(q)' <=> Owned(q)),
           \A q \in Links : ca'[q].refcount = ca[q].refcount
    PROVE  InHand' /\ RefsCounted'
<1>1. \A q \in 1 .. last : q \in Links /\ ca'[q].refcount = ca[q].refcount
  BY Typed
<1>2. \A q \in 1 .. last : (Owned(q)' <=> Owned(q)) /\ (TaskHolds(q)' <=> TaskHolds(q))
  BY <1>1, HoldsOwned, TaskFrame DEF Resting
<1>3. /\ task.p # NoLink => task.p \in 1 .. last
      /\ scan.p # NoLink => scan.p \in 1 .. last
      /\ freed \subseteq 1 .. last
  BY Typed DEF Types
<1>4. RefsCounted'
  BY <1>1, <1>2, RequestsKept DEF RefsCounted
<1>5. /\ task.pc \in Acting => task.p \in 1 .. last
      /\ task.pc \in {"dec", "free"} => task.p \in 1 .. last
      /\ scan.pc = "free" => scan.p \in 1 .. last
  BY <1>3 DEF InHand, Acting, Monitors, Monitor, Kinds
<1>6. /\ task'.pc \in Acting => Owned(task.p)'
      /\ task'.pc \in {"dec", "free"} => ~Owned(task.p)' /\ task'.p \notin freed
      /\ task'.pc = "free" => ca'[task'.p].refcount = 0
      /\ task'.pc = "free" /\ scan.pc = "free" => task'.p # scan.p
  <2>1. ASSUME task'.pc \in Acting PROVE Owned(task.p)'
    <3>1. task'.pc \notin Resting /\ task'.p = task.p /\ task.p \in 1 .. last /\ task.pc \in Acting
      BY <1>5, <2>1, TaskFrame DEF Resting, Acting, Monitors, Monitor, Kinds
    <3>. QED  BY <1>2, <3>1 DEF InHand
  <2>2. ASSUME task'.pc \in {"dec", "free"}
        PROVE  /\ task'.pc = task.pc /\ task'.p = task.p /\ task.p \in 1 .. last
               /\ ~Owned(task.p)' /\ task'.p \notin freed
    <3>1. task'.p = task.p /\ task'.pc = task.pc /\ task.p \in 1 .. last
      BY <1>5, <2>2, TaskFrame DEF Resting
    <3>. QED  BY <1>2, <2>2, <3>1 DEF InHand
  <2>3. ASSUME task'.pc = "free"
        PROVE ca'[task'.p].refcount = 0 /\ (scan.pc = "free" => task'.p # scan.p)
    BY <1>1, <2>2, <2>3 DEF InHand
  <2>. QED  BY <2>1, <2>2, <2>3
<1>7. \A q \in freed : Holding(q)' = 0
  BY RequestsKept DEF InHand
<1>8. /\ task'.pc \in {"wait", "work", "ctl", "shutdown"} => task'.p = NoLink
      /\ task'.pc \notin {"wait", "work", "ctl", "shutdown"} => task'.p # NoLink
      /\ \A k \in Kinds : task'.pc = Monitor[k] => Monitor[k] \in task'.todo
      /\ task'.pc \in Acting \ {"act"} => "CA_CONNECT" \notin task'.todo
  BY TaskFrame DEF Resting
<1>9. /\ scan'.pc = "idle" <=> scan'.p = NoLink
      /\ scan'.pc = "free" => ca'[scan'.p].refcount = 0 /\ scan'.p \notin freed
      /\ task'.pc = "free" /\ scan'.pc = "free" => task'.p # scan'.p
  BY <1>1, <1>5, <1>6, RequestsKept DEF InHand
<1>10. InHand'
  <2>1. \A q : freed' = freed /\ (q \in freed => Holding(q)' = 0)
    BY <1>7
  <2>. QED  BY <1>6, <1>8, <1>9, <2>1 DEF InHand
<1>. QED  BY <1>4, <1>10

SameConnection == \A q \in Links :
    /\ ca'[q].gotFirstConnection = ca[q].gotFirstConnection /\ ca'[q].shape = ca[q].shape
    /\ ca'[q].isConnected => ca[q].isConnected
    /\ "CA_CONNECT" \in ca'[q].link_action <=> "CA_CONNECT" \in ca[q].link_action
SameChannels == \A q \in Links :
    /\ chan'[q].state = chan[q].state /\ chan'[q].shape = chan[q].shape
    /\ chan'[q].access = chan[q].access \/ chan'[q].access \in inst.rights
    /\ chan'[q].puts > 0 \/ chan'[q].subs # {} =>
          chan[q].puts > 0 \/ chan[q].subs # {} \/ chan[q].state \in {"conn", "disc"}

\* The library's thread goes on, or returns.
CallbackGoes == \/ cb' = cb \/ cb' = Idle
                \/ cb.pc = "callThenNotify" /\ cb' = [cb EXCEPT !.pc = "notify"]

\* A step that leaves the connections alone.
LEMMA ChannelsKept ==
    ASSUME Types, InHand, Channeled, SameConnection, SameChannels, CallbackGoes,
           TaskGoes \/ TaskEnds, UNCHANGED <<inst, last, freed, lost>>
    PROVE  Channeled'
<1>1. \A q \in 1 .. last :
         /\ q \in Links /\ ca'[q].gotFirstConnection = ca[q].gotFirstConnection
         /\ ca'[q].shape = ca[q].shape /\ (ca'[q].isConnected => ca[q].isConnected)
         /\ "CA_CONNECT" \in ca'[q].link_action <=> "CA_CONNECT" \in ca[q].link_action
         /\ chan'[q].state = chan[q].state /\ chan'[q].shape = chan[q].shape
         /\ chan'[q].access = chan[q].access \/ chan'[q].access \in inst.rights
         /\ chan'[q].puts > 0 \/ chan'[q].subs # {} =>
               chan[q].puts > 0 \/ chan[q].subs # {} \/ chan[q].state \in {"conn", "disc"}
  BY Typed DEF SameConnection, SameChannels
<1>2. \A q \in 1 .. last : Connects(q)' => Connects(q)
  BY <1>1, TaskEither DEF Connects
<1>3. /\ task.p # NoLink => task.p \in 1 .. last
      /\ cb.p # NoLink => cb.p \in 1 .. last
  BY Typed DEF Types
<1>4. task.pc \in Acting => task.p \in 1 .. last
  BY <1>3 DEF InHand, Acting, Monitors, Monitor, Kinds
<1>5. \A q \in 1 .. last :
         /\ chan'[q].state = "cleared" <=> q \in freed
         /\ Connects(q)' => chan'[q].state = "none"
         /\ chan'[q].puts > 0 \/ chan'[q].subs # {} => chan'[q].state \in {"conn", "disc"}
         /\ chan'[q].state \in {"conn", "disc"} => chan'[q].shape \in inst.shapes
         /\ chan'[q].state = "conn" => chan'[q].access \in inst.rights
         /\ chan'[q].state = "disc" => lost > 0
         /\ ca'[q].gotFirstConnection =>
               /\ ca'[q].shape \in inst.shapes /\ chan'[q].state \in {"conn", "disc"}
               /\ lost = 0 => ~(cb.p = q /\ cb.pc = "notify")
         /\ ca'[q].isConnected => ca'[q].gotFirstConnection
  BY <1>1, <1>2 DEF Channeled
<1>6. /\ cb'.pc = "idle" <=> cb'.p = NoLink
      /\ cb'.p # NoLink => chan'[cb'.p].state \in {"conn", "disc"}
      /\ cb'.pc = "callThenNotify" => chan'[cb'.p].state = "disc"
      /\ lost = 0 => \A q \in 1 .. last : cb'.p = q /\ cb'.pc = "notify" => cb.p = q
            /\ cb.pc = "notify"
  <2>1. CASE cb' = cb
    BY <1>1, <1>3, <2>1 DEF Channeled
  <2>2. CASE cb' = Idle
    BY <2>2 DEF Idle, NoLink
  <2>3. CASE cb.pc = "callThenNotify" /\ cb' = [cb EXCEPT !.pc = "notify"]
    <3>1. cb'.pc = "notify" /\ cb'.p = cb.p /\ cb.p # NoLink
      BY <2>3 DEF Types, Channeled
    <3>2. chan[cb.p].state = "disc" /\ cb.p \in 1 .. last /\ lost > 0 /\ lost \in Nat
      BY <1>3, <2>3, <3>1, Typed DEF Types, Channeled
    <3>. QED  BY <1>1, <3>1, <3>2
  <2>. QED  BY <2>1, <2>2, <2>3 DEF CallbackGoes
<1>7. /\ task'.pc = "act" /\ "CA_CONNECT" \in task'.todo =>
            "CA_CONNECT" \notin ca'[task'.p].link_action
      /\ task'.pc \in Acting \ {"act"} => chan'[task'.p].state \in {"conn", "disc"}
  <2>1. task'.pc = "act" => task' = task /\ task.p \in 1 .. last
    BY <1>4, TaskEither DEF Acting
  <2>2. ASSUME task'.pc \in Acting \ {"act"}
        PROVE  task'.p = task.p /\ task.p \in 1 .. last /\ chan[task.p].state \in {"conn", "disc"}
    <3>1. task.pc \in Acting /\ task'.p = task.p /\ task.p \in 1 .. last
      BY <1>4, <2>2, TaskEither
    <3>2. chan[task.p].state \in {"conn", "disc"}
      BY <2>2 DEF TaskGoes, TaskEnds, Channeled, Resting, Acting, Monitors, Monitor, Kinds
    <3>. QED  BY <3>1, <3>2
  <2>. QED  BY <1>1, <2>1, <2>2 DEF Channeled
<1>. QED  BY <1>5, <1>6, <1>7 DEF Channeled

\* dbCaTask going on asks for no new action.
LEMMA AskedKept ==
    ASSUME Types, InHand, TaskGoes \/ TaskEnds,
           \A q \in Links : ca'[q].link_action = ca[q].link_action
    PROVE  \A q \in 1 .. last : \A a : Asked(q, a)' => Asked(q, a)
<1>1. ASSUME NEW q \in 1 .. last PROVE ca'[q].link_action = ca[q].link_action /\ q # NoLink
  BY Typed
<1>. QED  BY <1>1, TaskEither DEF Asked

\* A step that takes no buffer away and asks for no action.
LEMMA BuffersKept ==
    ASSUME Types, InHand, Buffered, TaskGoes \/ TaskEnds, UNCHANGED <<inst, last>>,
           lost' = 0 => lost = 0,
           "string" \in link'.pvlMask => "string" \in link.pvlMask,
           \A k \in Kinds : task'.pc = Monitor[k] => task' = task \/ k \in ca'[task'.p].pget,
           \A q \in Links : /\ ca'[q].link_action = ca[q].link_action /\ ca'[q].pput = ca[q].pput
                            /\ ca[q].pget \subseteq ca'[q].pget
                            /\ ca[q].gotFirstConnection => ca'[q].gotFirstConnection
                            /\ chan'[q].subs = chan[q].subs
    PROVE  Buffered'
<1>1. \A q \in 1 .. last :
         /\ q \in Links /\ ca'[q].link_action = ca[q].link_action /\ ca'[q].pput = ca[q].pput
         /\ ca[q].pget \subseteq ca'[q].pget
         /\ ca[q].gotFirstConnection => ca'[q].gotFirstConnection
         /\ chan'[q].subs = chan[q].subs
  BY Typed
<1>2. \A q \in 1 .. last : \A a : Asked(q, a)' => Asked(q, a)
  BY <1>1, AskedKept
<1>3. OneShape' = OneShape
  BY DEF OneShape
<1>4. OneShape \/ lost' = 0 => \A q \in 1 .. last, k \in Kinds :
         Asked(q, Write[k])' => k \in ca'[q].pput /\ ca'[q].gotFirstConnection
  BY <1>1, <1>2 DEF Buffered
<1>5. ASSUME OneShape, NEW q \in 1 .. last
      PROVE  /\ \A s \in chan'[q].subs :
                   s.kind \in ca'[q].pget /\ (s.kind = "string" => inst.shapes \subseteq EnumShapes)
             /\ Asked(q, Monitor["string"])' => inst.shapes \subseteq EnumShapes
             /\ \A k \in Kinds : task'.pc = Monitor[k] /\ task'.p = q => k \in ca'[q].pget
  BY <1>1, <1>2, <1>5 DEF Buffered
<1>. QED  BY <1>3, <1>4, <1>5 DEF Buffered

\* A step that keeps the callbacks as they are.
LEMMA AnsweringKept ==
    ASSUME Types, Answering, UNCHANGED <<inst, pact>>,
           \A t : CallsBack(t)' <=> CallsBack(t),
           \A q \in Links : /\ ca'[q].putCallback = ca[q].putCallback
                            /\ ca'[q].putType = ca[q].putType
    PROVE  Answering'
<1>1. Links' = Links
  BY DEF Links
<1>. QED  BY <1>1 DEF Answering

\* Who calls back is read from three program counters.
LEMMA CallsBackKept ==
    ASSUME Types, cb'.pc \in {"call", "callThenNotify"} <=> cb.pc \in {"call", "callThenNotify"},
           task'.pc = "call" <=> task.pc = "call", scan'.pc = "call" <=> scan.pc = "call"
    PROVE  \A t : CallsBack(t)' <=> CallsBack(t)
BY DEF CallsBack

\* A step that leaves flags and subscriptions alone and does not connect the channel.
LEMMA MonitoredKept ==
    ASSUME Types, Monitored, link' = link, UNCHANGED <<inst, last, unsubscribed>>,
           \/ task' = task
           \/ /\ task.pc \notin Monitors /\ task'.pc \notin Monitors
              /\ link.pvt # NoLink =>
                    \A k \in Kinds : Asked(link.pvt, Monitor[k]) /\ Known(link.pvt)
                                         => Asked(link.pvt, Monitor[k])',
           \A q \in Links : /\ Known(q)' => Known(q)
                            /\ ca'[q].link_action = ca[q].link_action /\ ca'[q].pget = ca[q].pget
                            /\ chan'[q].subs = chan[q].subs
    PROVE  Monitored'
<1> DEFINE p == link.pvt
<1>1. CASE p = NoLink
  BY <1>1 DEF Monitored
<1>2. CASE p # NoLink
  <2>1. p \in Links /\ p \in 1 .. last
    BY <1>2, Typed DEF Types
  <2>2. /\ Known(p)' => Known(p)
        /\ ca'[p].link_action = ca[p].link_action /\ ca'[p].pget = ca[p].pget
        /\ chan'[p].subs = chan[p].subs
    BY <2>1
  <2>3. /\ \A k \in Kinds : Subscribed(p, k)' = Subscribed(p, k)
        /\ task' = task => \A a : Asked(p, a)' <=> Asked(p, a)
    BY <2>2 DEF Subscribed, Asked
  <2>4. link'.pvt = p /\ link'.pvlMask = link.pvlMask
    OBVIOUS
  <2>5. CASE task' = task
    BY <1>2, <2>2, <2>3, <2>4, <2>5 DEF Monitored
  <2>6. CASE /\ task.pc \notin Monitors /\ task'.pc \notin Monitors
             /\ \A k \in Kinds : Asked(p, Monitor[k]) /\ Known(p) => Asked(p, Monitor[k])'
    <3>1. \A k \in Kinds : task.pc # Monitor[k] /\ task'.pc # Monitor[k]
      BY <2>6 DEF Monitors
    <3>. QED  BY <1>2, <2>2, <2>3, <2>4, <2>6, <3>1 DEF Monitored
  <2>. QED  BY <1>2, <2>5, <2>6
<1>. QED  BY <1>1, <1>2

\* A step that makes and takes no scan request.
LEMMA ScansKept ==
    ASSUME Types, OneScan, Scans, ScanGoes \/ ScanEnds,
           UNCHANGED <<inst, last, freed, onceQ, refused>>,
           \A q \in Links : ca'[q].plink = ca[q].plink /\ ca'[q].scanningOnce = ca[q].scanningOnce
    PROVE  OneScan' /\ Scans'
<1>1. \A q \in 1 .. last : /\ q \in Links /\ ca'[q].plink = ca[q].plink
                           /\ ca'[q].scanningOnce = ca[q].scanningOnce
  BY Typed
<1>2. \A q : Requests(q)' = Requests(q)
  BY RequestsKept, RequestsEnd
<1>. QED  BY <1>1, <1>2 DEF OneScan, Scans

\* A step that brings no news of the link.
LEMMA StaleKept ==
    ASSUME Types, Stale, NoLostScan, UNCHANGED <<inst, last, onceQ>>, scan' = scan \/ ScanEnds,
           stale' => stale, link'.pvt = link.pvt, refused \subseteq refused',
           \A q \in Links : ca'[q].scanningOnce = ca[q].scanningOnce
    PROVE  Stale' /\ NoLostScan'
<1>1. link.pvt # NoLink => link.pvt \in Links
  BY Typed DEF Types
<1>2. stale => ca'[link.pvt].scanningOnce = ca[link.pvt].scanningOnce
  BY <1>1 DEF Stale
<1>3. stale => (ScanWaits(link.pvt)' <=> ScanWaits(link.pvt))
  BY <1>2, RequestsEnd DEF ScanWaits, Occurrences
<1>. QED  BY <1>2, <1>3 DEF Stale, NoLostScan

\* A step that takes no put from its way.
LEMMA PutsKept ==
    ASSUME Types, PutKept, UNCHANGED <<inst, task>>, lost' = 0 => lost = 0,
           \A q \in Links : /\ ca'[q].putCallback => ca[q].putCallback
                            /\ ca[q].link_action \subseteq ca'[q].link_action
                            /\ ca'[q].plink => ca[q].plink
                            /\ chan[q].puts > 0 => chan'[q].puts > 0
    PROVE  PutKept'
<1>1. Links' = Links
  BY DEF Links
<1>2. ASSUME NEW q \in Links, PutGoing(q) PROVE PutGoing(q)'
  BY <1>2 DEF PutGoing
<1>. QED  BY <1>1, <1>2 DEF PutKept

\* A step that leaves the work list and the wishes of the shell alone.
LEMMA WakesKept ==
    ASSUME NoLostWakeup, task'.pc \in {"wait", "ctl"} => task'.pc = task.pc,
           UNCHANGED <<dbCaCtl, workList, workListEvent>>
    PROVE  NoLostWakeup'
BY DEF NoLostWakeup
-----------------------------------------------------------------------------
(* addAction.                                                              *)

\* All fields of a structure but link_action.
SameRest(d, c) ==
    /\ d.refcount = c.refcount /\ d.plink = c.plink /\ d.isConnected = c.isConnected
    /\ d.access = c.access /\ d.gotFirstConnection = c.gotFirstConnection /\ d.shape = c.shape
    /\ d.pget = c.pget /\ d.gotIn = c.gotIn /\ d.evid = c.evid /\ d.pput = c.pput
    /\ d.putType = c.putType /\ d.putCallback = c.putCallback /\ d.scanningOnce = c.scanningOnce
    /\ d.gotAttributes = c.gotAttributes

\* One structure is changed.
LEMMA OneChanged ==
    ASSUME Types, NEW p \in Links, NEW d \in CaLinks, ca' = [ca EXCEPT ![p] = d]
    PROVE  /\ ca' \in [Links -> CaLinks] /\ ca'[p] = d
           /\ \A q \in Links : q # p => ca'[q] = ca[q]
BY DEF Types

\* A structure with more actions.
LEMMA WithMore ==
    ASSUME NEW c \in CaLinks, NEW acts \in SUBSET LinkBits, "CA_CLEAR_CHANNEL" \notin c.link_action
    PROVE  /\ WithAction(c, acts) \in CaLinks /\ SameRest(WithAction(c, acts), c)
           /\ WithAction(c, acts).link_action = c.link_action \cup acts
<1>1. WithAction(c, acts) = [c EXCEPT !.link_action = c.link_action \cup acts]
  BY DEF WithAction
<1>2. c.link_action \in SUBSET LinkBits /\ c.link_action \cup acts \in SUBSET LinkBits
  BY DEF CaLinks
<1>. HIDE DEF LinkBits
<1>3. [c EXCEPT !.link_action = c.link_action \cup acts] \in CaLinks
  BY <1>2 DEF CaLinks
<1>. QED  BY <1>1, <1>3 DEF CaLinks, SameRest

\* A link that is not removed gets actions: the structure goes on the list if it had none.
LEMMA UpdateStep ==
    ASSUME Types, Linked, Listed, Removes, NoLostWakeup, NEW p \in 1 .. last, ca[p].plink,
           NEW c \in CaLinks, c.plink = ca[p].plink, c.link_action = ca[p].link_action,
           NEW acts \in SUBSET LinkBits, "CA_CLEAR_CHANNEL" \notin acts,
           Update(p, c, acts), link'.pvt = link.pvt,
           UNCHANGED <<inst, last, freed, paused, user, task>>
    PROVE  /\ ca' \in [Links -> CaLinks] /\ \A q \in Links : q # p => ca'[q] = ca[q]
           /\ ca'[p].link_action = ca[p].link_action \cup acts /\ SameRest(ca'[p], c)
           /\ workList' \in Seq(0 .. last) /\ workListEvent' \in BOOLEAN
           /\ UNCHANGED <<dbCaCtl, removesOutstanding>>
           /\ Linked' /\ Listed' /\ Removes' /\ NoLostWakeup'
           /\ \A q \in 1 .. last : (Owned(q)' <=> Owned(q))
<1>1. p \in Links /\ ~Clears(p) /\ "CA_CLEAR_CHANNEL" \notin c.link_action
  BY Typed DEF Linked, Clears
<1>2. /\ ca' \in [Links -> CaLinks] /\ \A q \in Links : q # p => ca'[q] = ca[q]
      /\ ca'[p].link_action = ca[p].link_action \cup acts /\ SameRest(ca'[p], c)
  <2>1. CASE acts = {}
    <3>1. ca' = [ca EXCEPT ![p] = c]
      BY <2>1 DEF Update
    <3>. QED  BY <1>1, <2>1, <3>1, OneChanged DEF SameRest
  <2>2. CASE acts # {}
    <3>1. ca' = [ca EXCEPT ![p] = WithAction(c, acts)]
      BY <2>2 DEF Update, addAction
    <3>2. /\ WithAction(c, acts) \in CaLinks /\ SameRest(WithAction(c, acts), c)
          /\ WithAction(c, acts).link_action = c.link_action \cup acts
      BY <1>1, WithMore
    <3>. HIDE DEF WithAction
    <3>3. /\ ca' \in [Links -> CaLinks] /\ ca'[p] = WithAction(c, acts)
          /\ \A q \in Links : q # p => ca'[q] = ca[q]
      BY <1>1, <3>1, <3>2, OneChanged
    <3>. QED  BY <3>2, <3>3
  <2>. QED  BY <2>1, <2>2
<1>3. /\ UNCHANGED <<dbCaCtl, removesOutstanding>>
      /\ IF acts # {} /\ ca[p].link_action = {}
         THEN workList' = Append(workList, p) /\ workListEvent' = TRUE
         ELSE UNCHANGED <<workList, workListEvent>>
  BY DEF Update, addAction, listVars
<1>4. workList' \in Seq(0 .. last) /\ workListEvent' \in BOOLEAN
  <2>1. workList \in Seq(0 .. last) /\ workListEvent \in BOOLEAN /\ p \in 0 .. last
    BY Typed DEF Types
  <2>2. Append(workList, p) \in Seq(0 .. last)
    BY <2>1
  <2>. QED  BY <1>3, <2>1, <2>2
<1>5. \A q \in 1 .. last :
         /\ q \in Links /\ ca'[q].plink = ca[q].plink /\ (Clears(q)' <=> Clears(q))
         /\ (Owned(q)' <=> Owned(q)) /\ (q # p => ca'[q].link_action = ca[q].link_action)
  <2>1. /\ \A q \in 1 .. last : q \in Links
        /\ \A q \in Links : q # p => ca'[q] = ca[q]
    BY <1>2, Typed
  <2>2. ca'[p].plink = ca[p].plink /\ (Clears(p)' <=> Clears(p))
    BY <1>2 DEF SameRest, Clears
  <2>3. \A q \in 1 .. last : ca'[q].plink = ca[q].plink /\ (Clears(q)' <=> Clears(q))
    BY <2>1, <2>2 DEF Clears
  <2>. QED  BY <2>1, <2>3 DEF Owned
<1>6. user.p # NoLink => user.p \in 1 .. last /\ user.p # p
  BY Typed DEF Types, Linked
<1>7. Owned(p)
  BY DEF Owned
<1>8. Linked'
  <2>1. \A q \in 1 .. last :
           /\ ca'[q].plink <=> link'.pvt = q
           /\ ca'[q].link_action # {} => Owned(q)
           /\ Clears(q)' => ~ca'[q].plink /\ user.p # q
           /\ q \in freed => ~Owned(q)
    BY <1>5, <1>7 DEF Linked
  <2>2. user.p # NoLink => ~ca'[user.p].plink /\ ca'[user.p].link_action = ca[user.p].link_action
    BY <1>5, <1>6 DEF Linked
  <2>3. user.pc = "pausing" => user.p # NoLink
    BY DEF Linked
  <2>. QED  BY <1>5, <2>1, <2>2, <2>3 DEF Linked
<1>9. Listed'
  <2>1. /\ \A q \in 1 .. last : Occurrences(workList', q) =
             Occurrences(workList, q) +
                   (IF q = p /\ acts # {} /\ ca[p].link_action = {} THEN 1 ELSE 0)
        /\ Occurrences(workList', TempLink) = Occurrences(workList, TempLink)
    <3>1. CASE acts # {} /\ ca[p].link_action = {}
      <4>1. workList' = Append(workList, p) /\ workList \in Seq(0 .. last) /\ p \in 0 .. last
                  /\ p # TempLink
        <5>1. workList \in Seq(0 .. last) /\ last \in Nat
          BY Typed DEF Types
        <5>. QED  BY <1>3, <3>1, <5>1 DEF TempLink
      <4>2. \A q : /\ Occurrences(Append(workList, p), q)
                            = Occurrences(workList, q) + (IF q = p THEN 1 ELSE 0)
                   /\ Occurrences(workList, q) \in Nat
        BY <4>1, ListOccurs, Typed
      <4>. QED  BY <3>1, <4>1, <4>2
    <3>2. CASE ~(acts # {} /\ ca[p].link_action = {})
      <4>1. workList' = workList /\ \A q : Occurrences(workList, q) \in Nat
        BY <1>3, <3>2, ListOccurs, Typed DEF Types
      <4>. QED  BY <3>2, <4>1
    <3>. QED  BY <3>1, <3>2
  <2>2. \A q \in 1 .. last : q # p => ca'[q].link_action = ca[q].link_action
    BY <1>5
  <2>. QED  BY <1>2, <2>1, <2>2 DEF Listed
<1>10. Removes'
  <2>1. Clearing' = Clearing
    BY <1>5 DEF Clearing
  <2>. QED  BY <1>3, <2>1 DEF Removes
<1>11. NoLostWakeup'
  BY <1>3 DEF NoLostWakeup
<1>. QED  BY <1>2, <1>3, <1>4, <1>5, <1>8, <1>9, <1>10, <1>11
-----------------------------------------------------------------------------
(* scanLinkOnce.                                                           *)

\* All fields of a structure but refcount and scanningOnce.
SameUncounted(d, c) ==
    /\ d.link_action = c.link_action /\ d.plink = c.plink /\ d.isConnected = c.isConnected
    /\ d.access = c.access /\ d.gotFirstConnection = c.gotFirstConnection /\ d.shape = c.shape
    /\ d.pget = c.pget /\ d.gotIn = c.gotIn /\ d.evid = c.evid /\ d.pput = c.pput
    /\ d.putType = c.putType /\ d.putCallback = c.putCallback
    /\ d.gotAttributes = c.gotAttributes

\* What counting a scan and its reference does to a structure.
LEMMA CountedTypes ==
    ASSUME NEW c \in CaLinks
    PROVE  /\ \A ok \in BOOLEAN :
                 /\ CaLinkInc(c, ok) \in CaLinks /\ SameUncounted(CaLinkInc(c, ok), c)
                 /\ CaLinkInc(c, ok).refcount = c.refcount + (IF ok THEN 1 ELSE 0)
                 /\ CaLinkInc(c, ok).scanningOnce = c.scanningOnce
           /\ ScanCounted(c) \in CaLinks /\ SameUncounted(ScanCounted(c), c)
           /\ ScanCounted(c).refcount = c.refcount
           /\ ScanCounted(c).scanningOnce =
                 IF c.scanningOnce < maxScans THEN c.scanningOnce + 1 ELSE c.scanningOnce
<1>1. c.refcount \in Nat /\ c.scanningOnce \in 0 .. maxScans /\ maxScans \in Nat
  BY CaAssumption DEF CaLinks
<1>. HIDE DEF LinkBits
<1>2. ASSUME NEW n \in Nat
      PROVE  /\ [c EXCEPT !.refcount = n] \in CaLinks
             /\ SameUncounted([c EXCEPT !.refcount = n], c)
             /\ [c EXCEPT !.refcount = n].refcount = n
             /\ [c EXCEPT !.refcount = n].scanningOnce = c.scanningOnce
  BY DEF CaLinks, SameUncounted
<1>3. ASSUME NEW n \in 0 .. maxScans
      PROVE  /\ [c EXCEPT !.scanningOnce = n] \in CaLinks
             /\ SameUncounted([c EXCEPT !.scanningOnce = n], c)
             /\ [c EXCEPT !.scanningOnce = n].refcount = c.refcount
             /\ [c EXCEPT !.scanningOnce = n].scanningOnce = n
  BY DEF CaLinks, SameUncounted
<1>4. SameUncounted(c, c)
  BY DEF SameUncounted
<1>. HIDE DEF CaLinks, SameUncounted
<1>5. ASSUME NEW ok \in BOOLEAN
      PROVE  /\ CaLinkInc(c, ok) \in CaLinks /\ SameUncounted(CaLinkInc(c, ok), c)
             /\ CaLinkInc(c, ok).refcount = c.refcount + (IF ok THEN 1 ELSE 0)
             /\ CaLinkInc(c, ok).scanningOnce = c.scanningOnce
  <2>1. CASE ok
    <3>1. CaLinkInc(c, ok) = [c EXCEPT !.refcount = c.refcount + 1] /\ c.refcount + 1 \in Nat
      BY <1>1, <2>1 DEF CaLinkInc
    <3>. QED  BY <1>2, <2>1, <3>1
  <2>2. CASE ~ok
    <3>1. CaLinkInc(c, ok) = c
      BY <2>2 DEF CaLinkInc
    <3>. QED  BY <1>1, <1>4, <2>2, <3>1
  <2>. QED  BY <2>1, <2>2
<1>6. /\ ScanCounted(c) \in CaLinks /\ SameUncounted(ScanCounted(c), c)
      /\ ScanCounted(c).refcount = c.refcount
      /\ ScanCounted(c).scanningOnce =
            IF c.scanningOnce < maxScans THEN c.scanningOnce + 1 ELSE c.scanningOnce
  <2> DEFINE n == IF c.scanningOnce < maxScans THEN c.scanningOnce + 1 ELSE c.scanningOnce
  <2>1. ScanCounted(c) = [c EXCEPT !.scanningOnce = n]
    BY DEF ScanCounted
  <2>2. n \in 0 .. maxScans
    BY <1>1
  <2>. HIDE DEF n
  <2>3. /\ ScanCounted(c) \in CaLinks /\ SameUncounted(ScanCounted(c), c)
        /\ ScanCounted(c).refcount = c.refcount /\ ScanCounted(c).scanningOnce = n
    BY <1>3, <2>1, <2>2
  <2>. QED  BY <2>3 DEF n
<1>. QED  BY <1>5, <1>6

\* What a scan request of p does to the counts: r is how many are added, to the queue and to the
\* references.
LEMMA RequestAdded ==
    ASSUME Types, NEW p \in 1 .. last, NEW ok \in BOOLEAN, Requested(p, ok), scan' = scan,
           UNCHANGED <<inst, last>>
    PROVE  /\ onceQ' \in Seq(1 .. last) /\ refused' \subseteq 1 .. last
                 /\ refused \subseteq refused'
           /\ (~ok => p \in refused')
           /\ \A q : /\ Occurrences(onceQ, q) \in Nat
                     /\ Occurrences(onceQ', q) = Occurrences(onceQ, q) +
                           (IF q = p /\ ok THEN 1 ELSE 0)
                     /\ Holding(q) \in Nat /\ Requests(q) \in Nat
                     /\ Holding(q)' = Holding(q) + (IF q = p /\ ok THEN 1 ELSE 0)
                     /\ Requests(q)' = Requests(q) + (IF q = p /\ ok THEN 1 ELSE 0)
<1>1. /\ onceQ \in Seq(1 .. last) /\ last \in Nat /\ refused \subseteq 1 .. last
      /\ onceQ' = (IF ok THEN Append(onceQ, p) ELSE onceQ)
      /\ refused' = (IF ok THEN refused ELSE refused \cup {p})
  BY Typed DEF Types, Requested
<1>2. \A q : /\ Occurrences(onceQ, q) \in Nat
             /\ Occurrences(Append(onceQ, p), q) = Occurrences(onceQ, q) + (IF q = p THEN 1 ELSE 0)
  BY <1>1, OnceOccurs
<1>3. Append(onceQ, p) \in Seq(1 .. last)
  BY <1>1
<1>4. ASSUME NEW q
      PROVE  /\ Occurrences(onceQ, q) \in Nat
             /\ Occurrences(onceQ', q) = Occurrences(onceQ, q) + (IF q = p /\ ok THEN 1 ELSE 0)
  BY <1>1, <1>2
<1>5. ASSUME NEW q
      PROVE  /\ Holding(q) \in Nat /\ Requests(q) \in Nat
             /\ Holding(q)' = Holding(q) + (IF q = p /\ ok THEN 1 ELSE 0)
             /\ Requests(q)' = Requests(q) + (IF q = p /\ ok THEN 1 ELSE 0)
  BY <1>4 DEF Holding, Requests
<1>. QED  BY <1>1, <1>3, <1>4, <1>5

\* A callback has news of a link: the counts agree, and a scan follows.
LEMMA ScanLinkOnce ==
    ASSUME Types, Linked, InHand, RefsCounted, OneScan, Scans, Stale, NoLostScan,
           NEW p \in 1 .. last, ca[p].plink, NEW c \in CaLinks, c.plink = ca[p].plink,
           c.link_action = ca[p].link_action, c.refcount = ca[p].refcount,
           c.scanningOnce = ca[p].scanningOnce, NEW scans \in BOOLEAN, scanLinkOnce(p, c, scans),
           stale' = (stale \/ scans), scans => inst.use = "cp", link'.pvt = link.pvt,
           UNCHANGED <<inst, last, freed, task, scan, user>>
    PROVE  /\ ca' \in [Links -> CaLinks] /\ \A q \in Links : q # p => ca'[q] = ca[q]
           /\ SameUncounted(ca'[p], c)
           /\ onceQ' \in Seq(1 .. last) /\ refused' \subseteq 1 .. last
           /\ SameOnList
           /\ InHand' /\ RefsCounted' /\ OneScan' /\ Scans' /\ Stale' /\ NoLostScan'
<1>0. /\ p \in Links /\ link.pvt = p /\ p \notin freed /\ last \in Nat
      /\ onceQ \in Seq(1 .. last) /\ refused \subseteq 1 .. last /\ freed \subseteq 1 .. last
      /\ \A q \in 1 .. last : q \in Links
      /\ c.scanningOnce \in 0 .. maxScans /\ c.refcount \in Nat /\ maxScans \in Nat \ {0, 1}
  <2>1. /\ p \in Links /\ last \in Nat /\ onceQ \in Seq(1 .. last) /\ refused \subseteq 1 .. last
        /\ freed \subseteq 1 .. last /\ \A q \in 1 .. last : q \in Links
    BY Typed DEF Types
  <2>2. link.pvt = p /\ p \notin freed
    BY DEF Linked, Owned
  <2>3. c.scanningOnce \in 0 .. maxScans /\ c.refcount \in Nat /\ maxScans \in Nat \ {0, 1}
    BY CaAssumption DEF CaLinks
  <2>. QED  BY <2>1, <2>2, <2>3
<1>1. PICK ok \in BOOLEAN :
        /\ \/ scans /\ c.scanningOnce = 0 /\ Requested(p, ok)
              /\ ca' = [ca EXCEPT ![p] = ScanCounted(CaLinkInc(c, ok))]
           \/ scans /\ c.scanningOnce > 0 /\ ~ok
              /\ ca' = [ca EXCEPT ![p] = ScanCounted(c)] /\ UNCHANGED <<onceQ, refused>>
           \/ ~scans /\ ~ok /\ ca' = [ca EXCEPT ![p] = c] /\ UNCHANGED <<onceQ, refused>>
  BY DEF scanLinkOnce
<1> DEFINE more == IF ok THEN 1 ELSE 0
           counted == IF ~scans \/ c.scanningOnce = maxScans THEN c.scanningOnce
                                                              ELSE c.scanningOnce + 1
<1>2. /\ ca' \in [Links -> CaLinks] /\ \A q \in Links : q # p => ca'[q] = ca[q]
      /\ SameUncounted(ca'[p], c) /\ ca'[p].refcount = c.refcount + more
      /\ ca'[p].scanningOnce = counted
  <2>1. CASE scans /\ c.scanningOnce = 0 /\ ca' = [ca EXCEPT ![p] = ScanCounted(CaLinkInc(c, ok))]
    <3> DEFINE i == CaLinkInc(c, ok)
               d == ScanCounted(i)
    <3>1. /\ i \in CaLinks /\ SameUncounted(i, c) /\ i.refcount = c.refcount + more
          /\ i.scanningOnce = c.scanningOnce
      BY CountedTypes
    <3>. HIDE DEF i, more
    <3>2. /\ d \in CaLinks /\ SameUncounted(d, i) /\ d.refcount = i.refcount
          /\ d.scanningOnce = (IF i.scanningOnce < maxScans THEN i.scanningOnce + 1 ELSE i.scanningOnce)
      BY <3>1, CountedTypes
    <3>3. ca' = [ca EXCEPT ![p] = d]
      BY <2>1 DEF i
    <3>. HIDE DEF d
    <3>4. /\ ca' \in [Links -> CaLinks] /\ ca'[p] = d /\ \A q \in Links : q # p => ca'[q] = ca[q]
      BY <1>0, <3>2, <3>3, OneChanged
    <3>5. SameUncounted(d, c)
      BY <3>1, <3>2 DEF SameUncounted
    <3>. QED  BY <1>0, <2>1, <3>1, <3>2, <3>4, <3>5
  <2>2. CASE scans /\ c.scanningOnce > 0 /\ ~ok /\ ca' = [ca EXCEPT ![p] = ScanCounted(c)]
    <3> DEFINE d == ScanCounted(c)
    <3>1. /\ d \in CaLinks /\ SameUncounted(d, c) /\ d.refcount = c.refcount
          /\ d.scanningOnce = (IF c.scanningOnce < maxScans THEN c.scanningOnce + 1 ELSE c.scanningOnce)
      BY CountedTypes
    <3>2. ca' = [ca EXCEPT ![p] = d]
      BY <2>2
    <3>. HIDE DEF d
    <3>3. /\ ca' \in [Links -> CaLinks] /\ ca'[p] = d /\ \A q \in Links : q # p => ca'[q] = ca[q]
      BY <1>0, <3>1, <3>2, OneChanged
    <3>. QED  BY <1>0, <2>2, <3>1, <3>3
  <2>3. CASE ~scans /\ ~ok /\ ca' = [ca EXCEPT ![p] = c]
    <3>1. /\ ca' \in [Links -> CaLinks] /\ ca'[p] = c /\ \A q \in Links : q # p => ca'[q] = ca[q]
      BY <1>0, <2>3, OneChanged
    <3>2. SameUncounted(c, c)
      BY DEF SameUncounted
    <3>3. more = 0 /\ counted = c.scanningOnce
      BY <2>3
    <3>. HIDE DEF more, counted
    <3>. QED  BY <1>0, <3>1, <3>2, <3>3
  <2>. QED  BY <1>1, <2>1, <2>2, <2>3
<1>3. /\ onceQ' \in Seq(1 .. last) /\ refused' \subseteq 1 .. last /\ refused \subseteq refused'
      /\ \A q : /\ Occurrences(onceQ, q) \in Nat
                /\ Occurrences(onceQ', q) = Occurrences(onceQ, q) + (IF q = p /\ ok THEN 1 ELSE 0)
                /\ Holding(q) \in Nat /\ Requests(q) \in Nat
                /\ Holding(q)' = Holding(q) + (IF q = p /\ ok THEN 1 ELSE 0)
                /\ Requests(q)' = Requests(q) + (IF q = p /\ ok THEN 1 ELSE 0)
  <2>1. CASE Requested(p, ok)
    BY <2>1, RequestAdded
  <2>2. CASE ~ok /\ UNCHANGED <<onceQ, refused>>
    <3>1. \A q : Occurrences(onceQ, q) \in Nat
      BY <1>0, OnceOccurs
    <3>2. \A q : Holding(q) \in Nat /\ Requests(q) \in Nat
      BY <3>1 DEF Holding, Requests
    <3>3. \A q : Holding(q)' = Holding(q) /\ Requests(q)' = Requests(q)
      BY <2>2, RequestsKept DEF ScanGoes
    <3>. QED  BY <1>0, <2>2, <3>1, <3>2, <3>3
  <2>. QED  BY <1>1, <2>1, <2>2
<1>4. /\ scans /\ c.scanningOnce = 0 => ok \/ p \in refused'
      /\ ok => scans /\ c.scanningOnce = 0
  BY <1>1, RequestAdded
<1>5. ca'[p].plink = ca[p].plink /\ ca'[p].link_action = ca[p].link_action
  BY <1>2 DEF SameUncounted
<1>6. SameOnList
  BY <1>2, <1>5 DEF SameOnList
<1>7. \A q \in 1 .. last : (Owned(q)' <=> Owned(q)) /\ (TaskHolds(q)' <=> TaskHolds(q))
  BY <1>6, OwnedKept, HoldsOwned
<1>8. \A q \in 1 .. last : q # p => ca'[q] = ca[q]
  BY <1>0, <1>2
<1>9. RefsCounted'
  <2>1. \A q \in 1 .. last : ca'[q].refcount = ca[q].refcount + (IF q = p /\ ok THEN 1 ELSE 0)
    <3>1. \A q \in 1 .. last : ca[q].refcount \in Nat
      BY <1>0, Typed DEF CaLinks
    <3>. QED  BY <1>2, <1>8, <3>1
  <2>. QED  BY <1>3, <1>7, <2>1 DEF RefsCounted
<1>10. InHand'
  <2>1. /\ task.p # NoLink => task.p \in 1 .. last
        /\ scan.p # NoLink => scan.p \in 1 .. last
    BY Typed DEF Types
  <2>2. /\ task.pc \in Acting => task.p \in 1 .. last
        /\ task.pc \in {"dec", "free"} => task.p \in 1 .. last
        /\ scan.pc = "free" => scan.p \in 1 .. last
    BY <2>1 DEF InHand, Acting, Monitors, Monitor, Kinds
  <2>3. /\ task.pc = "free" => task.p # p
        /\ scan.pc = "free" => scan.p # p
    <3>1. TaskHolds(p)
      BY DEF TaskHolds
    <3>2. ca[p].refcount > 0
      BY <1>0, <1>3, <3>1 DEF RefsCounted
    <3>. QED  BY <3>2 DEF InHand
  <2>4. ASSUME NEW q \in freed PROVE Holding(q)' = 0
    <3>1. Holding(q) = 0 /\ q # p
      BY <1>0 DEF InHand
    <3>. QED  BY ONLY <1>3, <3>1
  <2>. QED  BY <1>7, <1>8, <2>2, <2>3, <2>4 DEF InHand
<1>11. OneScan' /\ Scans'
  <2>1. ASSUME NEW q \in (1 .. last) \ freed
        PROVE  /\ Requests(q)' <= 1
               /\ ca'[q].plink /\ q \notin refused'
                     => (ca'[q].scanningOnce > 0) = (Requests(q)' = 1)
               /\ ca'[q].plink /\ ca'[q].scanningOnce = 0 => Requests(q)' = 0
    <3>1. CASE q # p
      BY <1>3, <1>8, <2>1, <3>1 DEF OneScan, Scans
    <3>2. CASE q = p /\ ok
      BY <1>0, <1>2, <1>3, <1>4, <3>2 DEF OneScan, Scans
    <3>3. CASE q = p /\ ~ok
      <4>1. Requests(p)' = Requests(p) /\ Requests(p) \in Nat
        BY <1>3, <3>3
      <4>2. CASE scans /\ c.scanningOnce = 0
        BY <1>0, <1>2, <1>4, <3>3, <4>1, <4>2 DEF OneScan, Scans
      <4>3. CASE ~(scans /\ c.scanningOnce = 0)
        <5>1. ca'[p].scanningOnce > 0 <=> c.scanningOnce > 0
          BY <1>0, <1>2, <4>3
        <5>2. ca'[p].scanningOnce \in Nat
          BY <1>0, <1>2
        <5>. QED  BY <1>0, <1>3, <3>3, <4>1, <5>1, <5>2 DEF OneScan, Scans
      <4>. QED  BY <4>2, <4>3
    <3>. QED  BY <3>1, <3>2, <3>3
  <2>. QED  BY <2>1 DEF OneScan, Scans
<1>12. Stale' /\ NoLostScan'
  <2>1. Stale'
    BY <1>0 DEF Stale, NoLink
  <2>2. ASSUME stale', p \notin refused' PROVE ScanWaits(p)'
    <3>1. CASE ok
      BY <1>3, <3>1 DEF ScanWaits
    <3>2. CASE scans /\ ~ok
      <4>1. c.scanningOnce > 0 /\ p \notin refused
        BY <1>0, <1>3, <1>4, <2>2, <3>2
      <4>2. Requests(p) = 1
        BY <1>0, <4>1 DEF OneScan
      <4>3. ca'[p].scanningOnce > 1
        BY <1>0, <1>2, <3>2, <4>1
      <4>4. Occurrences(onceQ', p) = Occurrences(onceQ, p) /\ Occurrences(onceQ, p) \in Nat
        BY <1>3, <3>2
      <4>. QED  BY <4>2, <4>3, <4>4 DEF Requests, ScanWaits
    <3>3. CASE ~scans
      <4>1. ~ok /\ stale /\ p \notin refused
        BY <1>3, <1>4, <2>2, <3>3
      <4>2. ScanWaits(p)
        BY <1>0, <4>1 DEF NoLostScan
      <4>3. ca'[p].scanningOnce = ca[p].scanningOnce
        BY <1>2, <3>3
      <4>4. Occurrences(onceQ', p) = Occurrences(onceQ, p) /\ Occurrences(onceQ, p) \in Nat
        BY <1>3, <4>1
      <4>. QED  BY <4>2, <4>3, <4>4 DEF ScanWaits
    <3>. QED  BY <3>1, <3>2, <3>3
  <2>. QED  BY <1>0, <2>1, <2>2 DEF NoLostScan
<1>. QED  BY <1>2, <1>3, <1>6, <1>9, <1>10, <1>11, <1>12
-----------------------------------------------------------------------------
(* The library calls back.                                                 *)

\* A channel was lost: the link is disconnected, and its record scanned.
LEMMA ConnectionLostStep ==
    ASSUME CaInv, asserted = {}, ConnectionLost
    PROVE  CaInv'
<1> DEFINE p == cb.p
           scans == inst.use = "cp"
           d == [ca[p] EXCEPT !.isConnected = FALSE]
<1>0. /\ Types /\ Unused /\ Linked /\ Listed /\ Removes /\ InHand /\ Channeled /\ Buffered
      /\ Answering /\ Stale /\ Monitored
      /\ RefsCounted /\ NoLostWakeup /\ OneScan /\ Scans /\ InputBuffered /\ PutKept /\ NoLostScan
  BY DEF CaInv
<1>1. /\ cb.pc = "notify" /\ chan[p].state = "disc" /\ cb' = Idle
      /\ IF ca[p].plink
         THEN scanLinkOnce(p, d, scans) /\ stale' = (stale \/ scans)
         ELSE UNCHANGED <<ca, onceQ, refused, stale>>
      /\ UNCHANGED <<inst, unsubscribed, paused, link, last, freed, chan, workList, workListEvent,
                     dbCaCtl, removesOutstanding, task, scan, user, pact, asserted, lost>>
  BY DEF ConnectionLost, listVars
<1>2. p \in 1 .. last /\ p \in Links
  BY <1>0, <1>1, Typed DEF Types, Channeled
<1>3. /\ d \in CaLinks /\ d.plink = ca[p].plink /\ d.link_action = ca[p].link_action
      /\ d.refcount = ca[p].refcount /\ d.scanningOnce = ca[p].scanningOnce
      /\ d.gotFirstConnection = ca[p].gotFirstConnection /\ d.shape = ca[p].shape
      /\ d.pget = ca[p].pget /\ d.gotIn = ca[p].gotIn /\ d.pput = ca[p].pput
      /\ d.putType = ca[p].putType /\ d.putCallback = ca[p].putCallback /\ ~d.isConnected
  <2>1. ca[p] \in CaLinks
    BY <1>0, <1>2, Typed
  <2>. HIDE DEF LinkBits
  <2>. QED  BY <2>1 DEF CaLinks
<1>. HIDE DEF d
<1>4. /\ ca' \in [Links -> CaLinks] /\ SameOnList
      /\ onceQ' \in Seq(1 .. last) /\ refused' \subseteq 1 .. last
      /\ \A q \in Links :
            /\ q # p => ca'[q] = ca[q]
            /\ ca'[q].gotFirstConnection = ca[q].gotFirstConnection /\ ca'[q].shape = ca[q].shape
            /\ ca'[q].isConnected => ca[q].isConnected
            /\ ca'[q].pget = ca[q].pget /\ ca'[q].gotIn = ca[q].gotIn /\ ca'[q].pput = ca[q].pput
            /\ ca'[q].putType = ca[q].putType /\ ca'[q].putCallback = ca[q].putCallback
            /\ ca'[q].link_action = ca[q].link_action /\ ca'[q].plink = ca[q].plink
      /\ InHand' /\ RefsCounted' /\ OneScan' /\ Scans' /\ Stale' /\ NoLostScan'
  <2>1. CASE ca[p].plink
    <3>1. /\ ca' \in [Links -> CaLinks] /\ \A q \in Links : q # p => ca'[q] = ca[q]
          /\ SameUncounted(ca'[p], d)
          /\ onceQ' \in Seq(1 .. last) /\ refused' \subseteq 1 .. last
          /\ SameOnList
          /\ InHand' /\ RefsCounted' /\ OneScan' /\ Scans' /\ Stale' /\ NoLostScan'
      BY <1>0, <1>1, <1>2, <1>3, <2>1, ScanLinkOnce
    <3>. QED  BY <1>3, <3>1 DEF SameUncounted, SameOnList
  <2>2. CASE ~ca[p].plink
    <3>1. UNCHANGED <<ca, onceQ, refused, stale>>
      BY <1>1, <2>2
    <3>2. ScanGoes /\ SameOnList /\ \A q \in 1 .. last : (Owned(q)' <=> Owned(q))
      BY <1>0, <1>1, <3>1, OwnedKept DEF ScanGoes, SameOnList
    <3>3. InHand' /\ RefsCounted'
      BY <1>0, <1>1, <3>1, <3>2, HandsKept DEF TaskGoes
    <3>4. OneScan' /\ Scans'
      BY <1>0, <1>1, <3>1, <3>2, ScansKept
    <3>5. Stale' /\ NoLostScan'
      BY <1>0, <1>1, <3>1, StaleKept
    <3>. QED  BY <1>0, <3>1, <3>2, <3>3, <3>4, <3>5 DEF Types
  <2>. QED  BY <2>1, <2>2
<1>5. Types' /\ Unused'
  <2>1. Idle \in [pc : {"idle", "notify", "call", "callThenNotify"}, p : 0 .. last]
              /\ Links' = Links
    BY <1>0, <1>1, Typed DEF Idle, NoLink, Links
  <2>2. stale' \in BOOLEAN
    BY <1>0, <1>1 DEF Types
  <2>3. Types'
    BY <1>0, <1>1, <1>4, <2>1, <2>2, TypesThen, TypesKept
  <2>4. \A q \in Links : q > last => ca'[q] = ca[q] /\ chan'[q] = chan[q]
    <3>1. \A q \in Links : q > last => q # p
      BY <1>0, <1>2, Typed
    <3>. QED  BY <1>1, <1>4, <3>1
  <2>. QED  BY <1>0, <1>1, <2>1, <2>3, <2>4, UnusedKept
<1>6. Linked' /\ Listed' /\ Removes'
  BY <1>0, <1>1, <1>4, OwnersKept
<1>7. Channeled'
  BY <1>0, <1>1, <1>4, ChannelsKept DEF SameConnection, SameChannels, CallbackGoes, TaskGoes
<1>8. Buffered'
  BY <1>0, <1>1, <1>4, BuffersKept DEF TaskGoes
<1>9. Answering'
  <2>1. \A t : CallsBack(t)' <=> CallsBack(t)
    BY <1>0, <1>1, CallsBackKept DEF Idle
  <2>. QED  BY <1>0, <1>1, <1>4, <2>1, AnsweringKept
<1>10. Monitored'
  <2>1. \A q \in Links : Known(q)' => Known(q)
    BY <1>1 DEF Known
  <2>. QED  BY <1>0, <1>1, <1>4, <2>1, MonitoredKept
<1>11. NoLostWakeup' /\ AssertsHold'
  BY <1>0, <1>1, WakesKept DEF AssertsHold
<1>12. InputBuffered'
  BY <1>0, <1>1, <1>4 DEF InputBuffered, Links
<1>13. PutKept'
  BY <1>0, <1>1, <1>4, PutsKept
<1>. QED  BY <1>4, <1>5, <1>6, <1>7, <1>8, <1>9, <1>10, <1>11, <1>12, <1>13 DEF CaInv
-----------------------------------------------------------------------------
(* dbCaTask does what it has been asked.                                   *)

\* All fields of a structure but pget and evid.
SameButBuffers(d, c) ==
    /\ d.refcount = c.refcount /\ d.link_action = c.link_action /\ d.plink = c.plink
    /\ d.isConnected = c.isConnected /\ d.gotFirstConnection = c.gotFirstConnection
    /\ d.shape = c.shape /\ d.gotIn = c.gotIn /\ d.pput = c.pput
    /\ d.putType = c.putType /\ d.putCallback = c.putCallback
    /\ d.scanningOnce = c.scanningOnce /\ c.pget \subseteq d.pget

\* What such a step has to show: the rest of the invariant does not see it.
LEMMA TaskTurns ==
    ASSUME CaInv, TaskGoes,
           UNCHANGED <<inst, link, last, freed, workList, dbCaCtl, removesOutstanding, cb, onceQ,
                       scan, user, pact, lost, refused, paused, stale>>,
           ca' \in [Links -> CaLinks], chan' \in [Links -> Channels],
           \A q \in Links : IsFiniteSet(chan'[q].subs),
           task' \in [pc : TaskPlaces, p : 0 .. last, todo : SUBSET LinkBits],
           workListEvent' \in BOOLEAN, unsubscribed' \subseteq 1 .. last,
           \A q \in Links : q > last => ca'[q] = ca[q] /\ chan'[q] = chan[q],
           \A q \in Links : SameButBuffers(ca'[q], ca[q]),
           Channeled', Buffered', Monitored', PutKept', NoLostWakeup', AssertsHold'
    PROVE  CaInv'
<1>0. /\ Types /\ Unused /\ Linked /\ Listed /\ Removes /\ InHand /\ Channeled
      /\ Answering /\ Stale
      /\ RefsCounted /\ NoLostWakeup /\ OneScan /\ Scans /\ InputBuffered /\ PutKept /\ NoLostScan
  BY DEF CaInv
<1>1. /\ SameOnList /\ SameConnection
      /\ \A q \in Links :
            /\ ca'[q].refcount = ca[q].refcount /\ ca'[q].scanningOnce = ca[q].scanningOnce
            /\ ca'[q].plink = ca[q].plink /\ ca'[q].link_action = ca[q].link_action
            /\ ca'[q].putCallback = ca[q].putCallback /\ ca'[q].putType = ca[q].putType
            /\ ca'[q].gotIn = ca[q].gotIn /\ ca[q].pget \subseteq ca'[q].pget
  BY DEF SameButBuffers, SameOnList, SameConnection
<1>2. ScanGoes /\ CallbackGoes
  BY DEF ScanGoes, CallbackGoes
<1>3. Types'
  BY <1>0, TypesThen, TypesKept
<1>4. Unused'
  BY <1>0, UnusedKept
<1>5. Linked' /\ Listed' /\ Removes'
  BY <1>0, <1>1, OwnersKept
<1>6. \A q \in 1 .. last : (Owned(q)' <=> Owned(q))
  BY <1>0, <1>1, OwnedKept
<1>7. InHand' /\ RefsCounted'
  BY <1>0, <1>1, <1>2, <1>6, HandsKept
<1>9. Answering'
  <2>1. \A t : CallsBack(t)' <=> CallsBack(t)
    BY <1>0, TaskFrame, CallsBackKept
  <2>. QED  BY <1>0, <1>1, <2>1, AnsweringKept
<1>10. OneScan' /\ Scans'
  BY <1>0, <1>1, <1>2, ScansKept
<1>11. Stale' /\ NoLostScan'
  BY <1>0, <1>1, StaleKept
<1>12. InputBuffered'
  BY <1>0, <1>1 DEF InputBuffered, Links
<1>. QED  BY <1>3, <1>4, <1>5, <1>7, <1>9, <1>10, <1>11, <1>12 DEF CaInv

\* A structure that is left alone has its buffers.
LEMMA SameBuffers == \A c : SameButBuffers(c, c)
BY DEF SameButBuffers

\* A step of dbCaTask that has nothing in hand.
LEMMA RestingTurns ==
    ASSUME CaInv, task.pc \in Resting, task'.pc \in Resting, task'.p = NoLink,
           task'.todo = task.todo,
           UNCHANGED <<inst, link, last, ca, freed, chan, workList, dbCaCtl, removesOutstanding, cb,
                       onceQ, scan, user, pact, asserted, lost, refused, unsubscribed, paused, stale>>,
           task' \in [pc : TaskPlaces, p : 0 .. last, todo : SUBSET LinkBits],
           workListEvent' \in BOOLEAN, NoLostWakeup'
    PROVE  CaInv'
<1>0. /\ Types /\ Unused /\ InHand /\ Channeled /\ Buffered /\ Monitored /\ PutKept
      /\ AssertsHold
  BY DEF CaInv
<1>1. /\ TaskGoes /\ task.p = NoLink
      /\ task.pc \notin Monitors /\ task'.pc \notin Monitors
      /\ task.pc \notin Acting /\ task'.pc \notin Acting
  BY <1>0 DEF TaskGoes, InHand, Resting, Acting, Monitors, Monitor, Kinds
<1>2. \A q \in Links : SameButBuffers(ca'[q], ca[q])
  BY SameBuffers
<1>3. Channeled'
  BY <1>0, <1>1, ChannelsKept DEF SameConnection, SameChannels, CallbackGoes
<1>4. Buffered'
  BY <1>0, <1>1, BuffersKept DEF Monitors
<1>5. Monitored'
  <2>1. \A k \in Kinds : Asked(link.pvt, Monitor[k]) => Asked(link.pvt, Monitor[k])'
    BY <1>1 DEF Asked
  <2>2. \A q \in Links : Known(q)' => Known(q)
    BY DEF Known
  <2>. QED  BY <1>0, <1>1, <2>1, <2>2, MonitoredKept
<1>6. PutKept'
  <2>1. Links' = Links
    BY DEF Links
  <2>2. ASSUME NEW q \in Links, PutGoing(q) PROVE PutGoing(q)'
    <3>1. q # NoLink
      BY <1>0, Typed
    <3>. QED  BY <1>1, <2>2, <3>1 DEF PutGoing
  <2>. QED  BY <1>0, <2>1, <2>2 DEF PutKept
<1>7. AssertsHold'
  BY <1>0 DEF AssertsHold
<1>8. /\ ca' \in [Links -> CaLinks] /\ chan' \in [Links -> Channels]
      /\ \A q \in Links : IsFiniteSet(chan'[q].subs)
      /\ unsubscribed' \subseteq 1 .. last
      /\ \A q \in Links : q > last => ca'[q] = ca[q] /\ chan'[q] = chan[q]
  BY <1>0, TypesThen
<1>. QED  BY <1>1, <1>2, <1>3, <1>4, <1>5, <1>6, <1>7, <1>8, TaskTurns

\* The event wakes dbCaTask, which may be paused.
LEMMA TaskWakeStep ==
    ASSUME CaInv, asserted = {}, TaskWake
    PROVE  CaInv'
<1>0. /\ Types /\ Unused /\ InHand /\ Buffered /\ Monitored /\ PutKept /\ AssertsHold
      /\ task \in [pc : TaskPlaces, p : 0 .. last, todo : SUBSET LinkBits]
  BY DEF CaInv, Types
<1>1. /\ task.pc = "wait" /\ workListEvent' = FALSE
      /\ task' = [task EXCEPT !.pc = IF dbCaCtl = "ctlPause" THEN "wait" ELSE "work"]
      /\ UNCHANGED <<inst, link, last, ca, freed, chan, workList, dbCaCtl, removesOutstanding, cb,
                     onceQ, scan, user, pact, asserted, lost, refused, unsubscribed, paused, stale>>
  BY DEF TaskWake, recVars, scanVars
<1>2. /\ task'.pc \in {"wait", "work"} /\ task'.p = task.p /\ task'.todo = task.todo
      /\ task.p = NoLink /\ (dbCaCtl # "ctlPause" => task'.pc = "work")
      /\ task' \in [pc : TaskPlaces, p : 0 .. last, todo : SUBSET LinkBits]
  <2>. HIDE DEF LinkBits
  <2>. QED  BY <1>0, <1>1 DEF InHand, TaskPlaces
<1>3. workListEvent' \in BOOLEAN /\ NoLostWakeup'
  BY <1>1, <1>2 DEF NoLostWakeup
<1>4. task.pc \in Resting /\ task'.pc \in Resting
  BY <1>1, <1>2 DEF Resting
<1>. QED  BY <1>1, <1>2, <1>3, <1>4, RestingTurns

\* An empty list: dbCaTask goes to look at dbCaCtl.
LEMMA TaskListEmptyStep ==
    ASSUME CaInv, asserted = {}, TaskListEmpty
    PROVE  CaInv'
<1>0. /\ Types /\ InHand
      /\ task \in [pc : TaskPlaces, p : 0 .. last, todo : SUBSET LinkBits]
  BY DEF CaInv, Types
<1>1. /\ task.pc = "work" /\ workList = <<>> /\ task' = [task EXCEPT !.pc = "ctl"]
      /\ UNCHANGED <<inst, link, last, ca, freed, chan, workList, workListEvent, dbCaCtl,
                     removesOutstanding, cb, onceQ, scan, user, pact, asserted, lost, refused,
                     unsubscribed, paused, stale>>
  BY DEF TaskListEmpty, recVars, scanVars, listVars
<1>2. /\ task'.pc = "ctl" /\ task'.p = task.p /\ task'.todo = task.todo /\ task.p = NoLink
      /\ task' \in [pc : TaskPlaces, p : 0 .. last, todo : SUBSET LinkBits]
  <2>. HIDE DEF LinkBits
  <2>. QED  BY <1>0, <1>1 DEF InHand, TaskPlaces
<1>3. workListEvent' \in BOOLEAN /\ NoLostWakeup'
  BY <1>0, <1>1, <1>2, TypesThen DEF NoLostWakeup
<1>4. task.pc \in Resting /\ task'.pc \in Resting
  BY <1>1, <1>2 DEF Resting
<1>. QED  BY <1>1, <1>2, <1>3, <1>4, RestingTurns

\* It sleeps, or ends; what came on the list since has set the event.
LEMMA TaskCtlStep ==
    ASSUME CaInv, asserted = {}, TaskCtl
    PROVE  CaInv'
<1>0. /\ Types /\ InHand /\ NoLostWakeup
      /\ task \in [pc : TaskPlaces, p : 0 .. last, todo : SUBSET LinkBits]
  BY DEF CaInv, Types
<1>1. /\ task.pc = "ctl"
      /\ task' = [task EXCEPT !.pc = IF dbCaCtl = "ctlExit" THEN "shutdown" ELSE "wait"]
      /\ UNCHANGED <<inst, link, last, ca, freed, chan, workList, workListEvent, dbCaCtl,
                     removesOutstanding, cb, onceQ, scan, user, pact, asserted, lost, refused,
                     unsubscribed, paused, stale>>
  BY DEF TaskCtl, recVars, scanVars, listVars
<1>2. /\ task'.pc \in {"wait", "shutdown"} /\ task'.p = task.p /\ task'.todo = task.todo
      /\ task.p = NoLink /\ (dbCaCtl = "ctlExit" => task'.pc = "shutdown")
      /\ task' \in [pc : TaskPlaces, p : 0 .. last, todo : SUBSET LinkBits]
  <2>. HIDE DEF LinkBits
  <2>. QED  BY <1>0, <1>1 DEF InHand, TaskPlaces
<1>3. workListEvent' \in BOOLEAN /\ NoLostWakeup'
  BY <1>0, <1>1, <1>2, TypesThen DEF NoLostWakeup
<1>4. task.pc \in Resting /\ task'.pc \in Resting
  BY <1>1, <1>2 DEF Resting
<1>. QED  BY <1>1, <1>2, <1>3, <1>4, RestingTurns


\* The channel that dbCaTask has made is called back for later.
LEMMA TaskConnectStep ==
    ASSUME CaInv, asserted = {}, TaskConnect
    PROVE  CaInv'
<1> DEFINE p == task.p
<1>0. /\ Types /\ Unused /\ InHand /\ Channeled /\ Buffered /\ Monitored /\ PutKept
      /\ AssertsHold /\ NoLostWakeup
      /\ task \in [pc : TaskPlaces, p : 0 .. last, todo : SUBSET LinkBits]
  BY DEF CaInv, Types
<1>1. /\ task.pc = "act" /\ "CA_CONNECT" \in task.todo
      /\ chan' = [chan EXCEPT ![p].state = "created"] /\ task' = NextWork
      /\ UNCHANGED <<inst, link, last, ca, freed, workList, workListEvent, dbCaCtl,
                     removesOutstanding, cb, onceQ, scan, user, pact, asserted, lost, refused,
                     unsubscribed, paused, stale>>
  BY DEF TaskConnect, recVars, scanVars, listVars
<1>2. /\ p \in 1 .. last /\ p \in Links /\ chan[p].state = "none" /\ Connects(p)
      /\ "CA_CONNECT" \notin ca[p].link_action
  <2>1. p \in 1 .. last /\ p \in Links
    BY <1>0, <1>1, Typed DEF InHand
  <2>2. Connects(p)
    BY <1>1 DEF Connects
  <2>. QED  BY <1>0, <1>1, <2>1, <2>2 DEF Channeled
<1>3. /\ chan' \in [Links -> Channels] /\ chan'[p].state = "created"
      /\ \A q \in Links : q # p => chan'[q] = chan[q]
      /\ \A q \in Links : /\ chan'[q].subs = chan[q].subs /\ chan'[q].puts = chan[q].puts
                          /\ chan'[q].shape = chan[q].shape /\ chan'[q].access = chan[q].access
  <2>1. chan \in [Links -> Channels]
    BY <1>0, TypesThen
  <2>. QED  BY <1>1, <1>2, <2>1 DEF Channels
<1>4. /\ task'.pc = "work" /\ task'.p = NoLink /\ task'.todo = {}
      /\ task' \in [pc : TaskPlaces, p : 0 .. last, todo : SUBSET LinkBits]
  BY <1>0, <1>1, Typed DEF NextWork, TaskPlaces, NoLink
<1>5. TaskGoes
  BY <1>1, <1>4 DEF TaskGoes, Resting, Acting
<1>6. Channeled'
  <2>1. cb.p # p
    BY <1>0, <1>2, Typed DEF Channeled
  <2>2. \A q \in 1 .. last : Connects(q)' => Connects(q) /\ q # p
    BY <1>1, <1>2, <1>4 DEF Connects
  <2>3. ~ca[p].gotFirstConnection /\ p \notin freed /\ ~(chan[p].puts > 0 \/ chan[p].subs # {})
    BY <1>0, <1>2 DEF Channeled
  <2>4. \A q \in 1 .. last :
           /\ chan'[q].state = "cleared" <=> q \in freed
           /\ Connects(q)' => chan'[q].state = "none"
           /\ chan'[q].puts > 0 \/ chan'[q].subs # {} => chan'[q].state \in {"conn", "disc"}
           /\ chan'[q].state \in {"conn", "disc"} => chan'[q].shape \in inst.shapes
           /\ chan'[q].state = "conn" => chan'[q].access \in inst.rights
           /\ chan'[q].state = "disc" => lost > 0
           /\ ca[q].gotFirstConnection =>
                 /\ ca[q].shape \in inst.shapes /\ chan'[q].state \in {"conn", "disc"}
                 /\ lost = 0 => ~(cb.p = q /\ cb.pc = "notify")
           /\ ca[q].isConnected => ca[q].gotFirstConnection
    <3>1. ASSUME NEW q \in 1 .. last PROVE q \in Links
      BY <1>0, Typed
    <3>. QED  BY <1>0, <1>2, <1>3, <2>2, <2>3, <3>1 DEF Channeled
  <2>5. /\ cb.pc = "idle" <=> cb.p = NoLink
        /\ cb.p # NoLink => chan'[cb.p].state \in {"conn", "disc"}
        /\ cb.pc = "callThenNotify" => chan'[cb.p].state = "disc"
    <3>1. cb.p # NoLink => cb.p \in Links
      BY <1>0, Typed DEF Types
    <3>. QED  BY <1>0, <1>3, <2>1, <3>1 DEF Channeled
  <2>. QED  BY <1>1, <1>4, <2>4, <2>5 DEF Channeled, Acting, Monitors, Monitor, Kinds
<1>7. Buffered'
  BY <1>0, <1>1, <1>3, <1>4, <1>5, BuffersKept DEF Monitor, Kinds
<1>8. Monitored'
  <2>1. \A q \in Links : Known(q)' => Known(q)
    BY <1>1, <1>2, <1>3 DEF Known
  <2>2. \A k \in Kinds : Asked(link.pvt, Monitor[k]) /\ Known(link.pvt)
                            => Asked(link.pvt, Monitor[k])'
    BY <1>1, <1>2 DEF Asked, Known
  <2>3. task.pc \notin Monitors /\ task'.pc \notin Monitors
    BY <1>1, <1>4 DEF Monitors, Monitor, Kinds
  <2>. QED  BY <1>0, <1>1, <1>3, <2>1, <2>2, <2>3, MonitoredKept
<1>9. PutKept'
  <2>1. Links' = Links
    BY <1>1 DEF Links
  <2>2. ASSUME lost = 0, NEW q \in Links, PutGoing(q) PROVE PutGoing(q)'
    <3>1. CASE q # p
      BY <1>1, <1>3, <2>2, <3>1 DEF PutGoing
    <3>2. CASE q = p
      <4>1. ~ca[p].gotFirstConnection
        BY <1>0, <1>2 DEF Channeled
      <4>2. \A k \in Kinds : Write[k] \notin task.todo
        BY <1>0, <1>1, <1>2, <2>2, <4>1 DEF Buffered, Asked, Acting
      <4>. QED  BY <1>1, <1>3, <2>2, <3>2, <4>2 DEF PutGoing
    <3>. QED  BY <3>1, <3>2
  <2>. QED  BY <1>0, <1>1, <2>1, <2>2 DEF PutKept
<1>10. NoLostWakeup' /\ AssertsHold'
  BY <1>0, <1>1, <1>4, WakesKept DEF AssertsHold
<1>11. /\ ca' \in [Links -> CaLinks] /\ \A q \in Links : IsFiniteSet(chan'[q].subs)
       /\ unsubscribed' \subseteq 1 .. last /\ workListEvent' \in BOOLEAN
       /\ \A q \in Links : q > last => ca'[q] = ca[q] /\ chan'[q] = chan[q]
       /\ \A q \in Links : SameButBuffers(ca'[q], ca[q])
  <2>1. \A q \in Links : q > last => q # p
    BY <1>0, <1>2, Typed
  <2>. QED  BY <1>0, <1>1, <1>3, <2>1, TypesThen, SameBuffers
<1>. QED  BY <1>1, <1>3, <1>4, <1>5, <1>6, <1>7, <1>8, <1>9, <1>10, <1>11, TaskTurns

\* A channel that is connected is served, any other one is left alone.
LEMMA TaskStateStep ==
    ASSUME CaInv, asserted = {}, TaskState
    PROVE  CaInv'
<1> DEFINE p == task.p
<1>0. /\ Types /\ Unused /\ InHand /\ Channeled /\ Buffered /\ Monitored /\ PutKept
      /\ AssertsHold /\ NoLostWakeup
      /\ task \in [pc : TaskPlaces, p : 0 .. last, todo : SUBSET LinkBits]
  BY DEF CaInv, Types
<1>1. /\ task.pc = "act" /\ "CA_CONNECT" \notin task.todo
      /\ task' = IF chan[p].state = "conn" THEN [task EXCEPT !.pc = "do"] ELSE NextWork
      /\ UNCHANGED <<inst, link, last, ca, freed, chan, workList, workListEvent, dbCaCtl,
                     removesOutstanding, cb, onceQ, scan, user, pact, asserted, lost, refused,
                     unsubscribed, paused, stale>>
  BY DEF TaskState, recVars, scanVars, listVars
<1>2. p \in 1 .. last /\ p \in Links
  BY <1>0, <1>1, Typed DEF InHand
<1>3. /\ task' \in [pc : TaskPlaces, p : 0 .. last, todo : SUBSET LinkBits]
      /\ chan[p].state = "conn" => task'.pc = "do" /\ task'.p = p /\ task'.todo = task.todo
      /\ chan[p].state # "conn" => task'.pc = "work" /\ task'.p = NoLink /\ task'.todo = {}
  <2>. HIDE DEF LinkBits
  <2>. QED  BY <1>0, <1>1, Typed DEF NextWork, TaskPlaces, Acting, NoLink
<1>4. TaskGoes
  BY <1>1, <1>3 DEF TaskGoes, Resting, Acting, Monitor, Kinds
<1>5. task.pc \notin Monitors /\ task'.pc \notin Monitors /\ task'.pc \notin {"wait", "ctl"}
  BY <1>1, <1>3 DEF Monitors, Monitor, Kinds
<1>6. Channeled'
  BY <1>0, <1>1, <1>4, ChannelsKept DEF SameConnection, SameChannels, CallbackGoes
<1>7. Buffered'
  <2>1. \A k \in Kinds : task'.pc # Monitor[k]
    BY <1>5 DEF Monitors
  <2>. QED  BY <1>0, <1>1, <1>4, <2>1, BuffersKept
<1>8. Monitored'
  <2>1. \A q \in Links : Known(q)' => Known(q)
    BY <1>1 DEF Known
  <2>2. \A k \in Kinds : Asked(link.pvt, Monitor[k]) /\ Known(link.pvt)
                            => Asked(link.pvt, Monitor[k])'
    BY <1>1, <1>3 DEF Asked, Known, Acting
  <2>. QED  BY <1>0, <1>1, <1>5, <2>1, <2>2, MonitoredKept
<1>9. PutKept'
  <2>1. Links' = Links
    BY <1>1 DEF Links
  <2>2. ASSUME lost = 0, NEW q \in Links, PutGoing(q) PROVE PutGoing(q)'
    <3>1. CASE q # p \/ chan[p].state = "conn"
      BY <1>1, <1>3, <2>2, <3>1 DEF PutGoing
    <3>2. CASE q = p /\ chan[p].state # "conn"
      <4>1. ~ca[p].gotFirstConnection
        <5>1. chan[p].state # "disc"
          BY <1>0, <1>2, <2>2 DEF Channeled
        <5>. QED  BY <1>0, <1>2, <3>2, <5>1 DEF Channeled
      <4>2. \A k \in Kinds : Write[k] \notin task.todo
        BY <1>0, <1>1, <1>2, <2>2, <4>1 DEF Buffered, Asked, Acting
      <4>. QED  BY <1>1, <2>2, <3>2, <4>2 DEF PutGoing
    <3>. QED  BY <3>1, <3>2
  <2>. QED  BY <1>0, <1>1, <2>1, <2>2 DEF PutKept
<1>10. NoLostWakeup' /\ AssertsHold'
  BY <1>0, <1>1, <1>5, WakesKept DEF AssertsHold
<1>11. /\ ca' \in [Links -> CaLinks] /\ \A q \in Links : IsFiniteSet(chan'[q].subs)
       /\ chan' \in [Links -> Channels]
       /\ unsubscribed' \subseteq 1 .. last /\ workListEvent' \in BOOLEAN
       /\ \A q \in Links : q > last => ca'[q] = ca[q] /\ chan'[q] = chan[q]
       /\ \A q \in Links : SameButBuffers(ca'[q], ca[q])
  BY <1>0, <1>1, TypesThen, SameBuffers
<1>. QED  BY <1>1, <1>3, <1>4, <1>6, <1>7, <1>8, <1>9, <1>10, <1>11, TaskTurns

\* An action is done, and the others are left.
LEMMA DoneWith ==
    ASSUME Types, InHand, Channeled, task.pc \in Acting \ {"act"}, NEW a, a \in task.todo, Done(a)
    PROVE  /\ task' \in [pc : TaskPlaces, p : 0 .. last, todo : SUBSET LinkBits] /\ TaskGoes
           /\ task.p \in 1 .. last /\ task.p \in Links
           /\ chan[task.p].state \in {"conn", "disc"}
           /\ task'.pc \in {"work", "do"} /\ task'.pc \notin Monitors
           /\ \A b \in task.todo : b # a =>
                 task'.pc \in Acting /\ task'.p = task.p /\ b \in task'.todo
<1>1. /\ task \in [pc : TaskPlaces, p : 0 .. last, todo : SUBSET LinkBits]
      /\ task.p # NoLink /\ "CA_CONNECT" \notin task.todo
      /\ chan[task.p].state \in {"conn", "disc"}
  BY DEF Types, InHand, Channeled, Acting, Monitors, Monitor, Kinds
<1>2. task.p \in 1 .. last /\ task.p \in Links
  BY <1>1, Typed
<1>. HIDE DEF LinkBits
<1>3. CASE task.todo = {a}
  <2>1. task'.pc = "work" /\ task'.p = NoLink /\ task'.todo = {} /\ task' = NextWork
    BY <1>3 DEF Done, NextWork
  <2>2. task' \in [pc : TaskPlaces, p : 0 .. last, todo : SUBSET LinkBits]
    BY <2>1, Typed DEF NextWork, TaskPlaces, NoLink
  <2>. QED  BY <1>1, <1>2, <1>3, <2>1, <2>2
            DEF TaskGoes, Resting, Acting, Monitors, Monitor, Kinds
<1>4. CASE task.todo # {a}
  <2>1. task' = [task EXCEPT !.pc = "do", !.todo = task.todo \ {a}]
    BY <1>4 DEF Done
  <2>2. task'.pc = "do" /\ task'.p = task.p /\ task'.todo = task.todo \ {a}
    BY <1>1, <2>1
  <2>3. task' \in [pc : TaskPlaces, p : 0 .. last, todo : SUBSET LinkBits]
    <3>1. "do" \in TaskPlaces
      BY DEF TaskPlaces, Acting
    <3>. HIDE DEF TaskPlaces
    <3>. QED  BY <1>1, <2>1, <3>1
  <2>. QED  BY <1>1, <1>2, <2>2, <2>3 DEF TaskGoes, Resting, Acting, Monitors, Monitor, Kinds
<1>. QED  BY <1>3, <1>4

\* A write is sent: the answer to come takes the place of the action.
LEMMA TaskWriteStep ==
    ASSUME CaInv, asserted = {}, NEW k \in Kinds, TaskWrite(k)
    PROVE  CaInv'
<1> DEFINE p == task.p
           c == ca[p]
           sent == chan[p].state = "conn" /\ "write" \in chan[p].access
           counted == sent /\ c.putType = "CA_PUT_CALLBACK" /\ k \in c.pput
<1>0. /\ Types /\ Unused /\ InHand /\ Channeled /\ Buffered /\ Monitored /\ PutKept
      /\ AssertsHold /\ NoLostWakeup /\ Answering
  BY DEF CaInv
<1>1. /\ task.pc = "do" /\ Write[k] \in task.todo /\ Done(Write[k])
      /\ asserted' = IF k \in c.pput THEN asserted ELSE asserted \cup {"pputNative"}
      /\ chan' = IF counted THEN [chan EXCEPT ![p].puts = @ + 1] ELSE chan
      /\ UNCHANGED <<inst, link, last, ca, freed, workList, workListEvent, dbCaCtl,
                     removesOutstanding, cb, onceQ, scan, user, pact, lost, refused,
                     unsubscribed, paused, stale>>
  BY DEF TaskWrite, Doing, recVars, scanVars, listVars
<1>2. task.pc \in Acting \ {"act"} /\ task.pc \notin Monitors
  BY <1>1 DEF Acting, Monitors, Monitor, Kinds
<1>3. /\ task' \in [pc : TaskPlaces, p : 0 .. last, todo : SUBSET LinkBits] /\ TaskGoes
      /\ p \in 1 .. last /\ p \in Links /\ chan[p].state \in {"conn", "disc"}
      /\ task'.pc \in {"work", "do"} /\ task'.pc \notin Monitors
      /\ \A b \in task.todo : b # Write[k] =>
            task'.pc \in Acting /\ task'.p = p /\ b \in task'.todo
  BY <1>0, <1>1, <1>2, DoneWith
<1>4. /\ chan' \in [Links -> Channels] /\ \A q \in Links : q # p => chan'[q] = chan[q]
      /\ chan[p].puts \in Nat /\ chan'[p].puts = chan[p].puts + (IF counted THEN 1 ELSE 0)
      /\ \A q \in Links : /\ chan'[q].subs = chan[q].subs /\ chan'[q].state = chan[q].state
                          /\ chan'[q].shape = chan[q].shape /\ chan'[q].access = chan[q].access
  <2>1. chan \in [Links -> Channels] /\ chan[p] \in Channels
    BY <1>0, <1>3, TypesThen
  <2>2. CASE counted
    <3>1. chan' = [chan EXCEPT ![p].puts = @ + 1]
      BY <1>1, <2>2
    <3>. QED  BY <1>3, <2>1, <2>2, <3>1 DEF Channels
  <2>3. CASE ~counted
    <3>1. chan' = chan /\ chan[p].puts \in Nat
      BY <1>1, <2>1, <2>3 DEF Channels
    <3>. HIDE DEF counted
    <3>. QED  BY <2>1, <2>3, <3>1
  <2>. QED  BY <2>2, <2>3
<1>5. SameChannels
  BY <1>3, <1>4 DEF SameChannels
<1>6. Channeled'
  BY <1>0, <1>1, <1>3, <1>5, ChannelsKept DEF SameConnection, CallbackGoes
<1>7. Buffered'
  <2>1. \A j \in Kinds : task'.pc # Monitor[j]
    BY <1>3 DEF Monitors
  <2>. QED  BY <1>0, <1>1, <1>3, <1>4, <2>1, BuffersKept
<1>8. Monitored'
  <2>1. \A q \in Links : Known(q)' => Known(q)
    BY <1>1, <1>4 DEF Known
  <2>2. \A j \in Kinds : Monitor[j] # Write[k]
    BY DEF Monitor, Write, Kinds
  <2>3. \A j \in Kinds : Asked(link.pvt, Monitor[j]) => Asked(link.pvt, Monitor[j])'
    BY <1>1, <1>3, <2>2 DEF Asked
  <2>. QED  BY <1>0, <1>1, <1>2, <1>3, <1>4, <2>1, <2>3, MonitoredKept
<1>9. PutKept'
  <2>1. Links' = Links
    BY <1>1 DEF Links
  <2>2. ASSUME lost = 0, inst.rights = {{"read", "write"}}, NEW q \in Links, PutGoing(q),
               ca[q].putCallback
        PROVE  PutGoing(q)'
    <3>1. CASE \/ q # p
               \/ \E j \in Kinds : Write[j] \in ca[q].link_action
               \/ \E j \in Kinds : Write[j] \in task.todo /\ Write[j] # Write[k] /\ task.p = q
               \/ chan[q].puts > 0 \/ ~ca[q].plink
      <4>1. chan'[q].puts > 0 \/ ~(chan[q].puts > 0)
        BY <1>3, <1>4
      <4>. QED  BY <1>1, <1>3, <1>4, <2>2, <3>1, <4>1 DEF PutGoing
    <3>2. CASE q = p
      <4>1. /\ c.putType = "CA_PUT_CALLBACK" /\ k \in c.pput /\ c.gotFirstConnection
        BY <1>0, <1>1, <1>2, <1>3, <2>2, <3>2 DEF Answering, Buffered, Asked
      <4>2. chan[p].state = "conn"
        BY <1>0, <1>3, <2>2 DEF Channeled
      <4>3. "write" \in chan[p].access
        BY <1>0, <1>3, <2>2, <4>2 DEF Channeled
      <4>4. chan'[p].puts > 0
        BY <1>4, <4>1, <4>2, <4>3
      <4>. QED  BY <3>2, <4>4 DEF PutGoing
    <3>. QED  BY <3>1, <3>2
  <2>. QED  BY <1>0, <1>1, <2>1, <2>2 DEF PutKept
<1>10. NoLostWakeup'
  BY <1>0, <1>1, <1>3, WakesKept
<1>11. AssertsHold'
  <2>1. OneShape => k \in c.pput
    BY <1>0, <1>1, <1>2, <1>3 DEF Buffered, Asked
  <2>. QED  BY <1>0, <1>1, <2>1 DEF AssertsHold, OneShape
<1>12. /\ ca' \in [Links -> CaLinks] /\ \A q \in Links : IsFiniteSet(chan'[q].subs)
       /\ unsubscribed' \subseteq 1 .. last /\ workListEvent' \in BOOLEAN
       /\ \A q \in Links : q > last => ca'[q] = ca[q] /\ chan'[q] = chan[q]
       /\ \A q \in Links : SameButBuffers(ca'[q], ca[q])
  <2>1. \A q \in Links : q > last => q # p
    BY <1>0, <1>3, Typed
  <2>. QED  BY <1>0, <1>1, <1>4, <2>1, TypesThen, SameBuffers
<1>. QED  BY <1>1, <1>3, <1>4, <1>6, <1>7, <1>8, <1>9, <1>10, <1>11, <1>12, TaskTurns

\* The attributes are asked for.
LEMMA TaskGetAttributesStep ==
    ASSUME CaInv, asserted = {}, TaskGetAttributes
    PROVE  CaInv'
<1> DEFINE p == task.p
           a == "CA_GET_ATTRIBUTES"
           sent == chan[p].state = "conn" /\ "read" \in chan[p].access
<1>0. /\ Types /\ Unused /\ InHand /\ Channeled /\ Buffered /\ Monitored /\ PutKept
      /\ AssertsHold /\ NoLostWakeup
  BY DEF CaInv
<1>1. /\ task.pc = "do" /\ a \in task.todo /\ Done(a)
      /\ chan' = IF sent THEN [chan EXCEPT ![p].gets = @ + 1] ELSE chan
      /\ UNCHANGED <<inst, link, last, ca, freed, workList, workListEvent, dbCaCtl,
                     removesOutstanding, cb, onceQ, scan, user, pact, lost, refused,
                     unsubscribed, paused, stale, asserted>>
  BY DEF TaskGetAttributes, Doing, recVars, scanVars, listVars
<1>2. task.pc \in Acting \ {"act"} /\ task.pc \notin Monitors
  BY <1>1 DEF Acting, Monitors, Monitor, Kinds
<1>3. /\ task' \in [pc : TaskPlaces, p : 0 .. last, todo : SUBSET LinkBits] /\ TaskGoes
      /\ p \in 1 .. last /\ p \in Links
      /\ task'.pc \in {"work", "do"} /\ task'.pc \notin Monitors
      /\ \A b \in task.todo : b # a => task'.pc \in Acting /\ task'.p = p /\ b \in task'.todo
  BY <1>0, <1>1, <1>2, DoneWith
<1>4. /\ chan' \in [Links -> Channels] /\ \A q \in Links : q # p => chan'[q] = chan[q]
      /\ \A q \in Links : /\ chan'[q].subs = chan[q].subs /\ chan'[q].state = chan[q].state
                          /\ chan'[q].shape = chan[q].shape /\ chan'[q].access = chan[q].access
                          /\ chan'[q].puts = chan[q].puts
  <2>1. chan \in [Links -> Channels] /\ chan[p] \in Channels
    BY <1>0, <1>3, TypesThen
  <2>2. CASE sent
    <3>1. chan' = [chan EXCEPT ![p].gets = @ + 1]
      BY <1>1, <2>2
    <3>. QED  BY <1>3, <2>1, <3>1 DEF Channels
  <2>3. CASE ~sent
    <3>1. chan' = chan
      BY <1>1, <2>3
    <3>. QED  BY <2>1, <3>1
  <2>. QED  BY <2>2, <2>3
<1>5. SameChannels
  BY <1>4 DEF SameChannels
<1>6. Channeled'
  BY <1>0, <1>1, <1>3, <1>5, ChannelsKept DEF SameConnection, CallbackGoes
<1>7. Buffered'
  <2>1. \A j \in Kinds : task'.pc # Monitor[j]
    BY <1>3 DEF Monitors
  <2>. QED  BY <1>0, <1>1, <1>3, <1>4, <2>1, BuffersKept
<1>8. Monitored'
  <2>1. \A q \in Links : Known(q)' => Known(q)
    BY <1>1, <1>4 DEF Known
  <2>2. \A j \in Kinds : Monitor[j] # a
    BY DEF Monitor, Kinds
  <2>3. \A j \in Kinds : Asked(link.pvt, Monitor[j]) => Asked(link.pvt, Monitor[j])'
    BY <1>1, <1>3, <2>2 DEF Asked
  <2>. QED  BY <1>0, <1>1, <1>2, <1>3, <1>4, <2>1, <2>3, MonitoredKept
<1>9. PutKept'
  <2>1. Links' = Links
    BY <1>1 DEF Links
  <2>2. \A j \in Kinds : Write[j] # a
    BY DEF Write, Kinds
  <2>3. ASSUME NEW q \in Links, PutGoing(q) PROVE PutGoing(q)'
    BY <1>1, <1>3, <1>4, <2>2, <2>3 DEF PutGoing
  <2>. QED  BY <1>0, <1>1, <2>1, <2>3 DEF PutKept
<1>10. NoLostWakeup' /\ AssertsHold'
  BY <1>0, <1>1, <1>3, WakesKept DEF AssertsHold
<1>11. /\ ca' \in [Links -> CaLinks] /\ \A q \in Links : IsFiniteSet(chan'[q].subs)
       /\ unsubscribed' \subseteq 1 .. last /\ workListEvent' \in BOOLEAN
       /\ \A q \in Links : q > last => ca'[q] = ca[q] /\ chan'[q] = chan[q]
       /\ \A q \in Links : SameButBuffers(ca'[q], ca[q])
  <2>1. \A q \in Links : q > last => q # p
    BY <1>0, <1>3, Typed
  <2>. QED  BY <1>0, <1>1, <1>4, <2>1, TypesThen, SameBuffers
<1>. QED  BY <1>1, <1>3, <1>4, <1>6, <1>7, <1>8, <1>9, <1>10, <1>11, TaskTurns

\* The buffer is there before the subscription.
LEMMA TaskAllocateStep ==
    ASSUME CaInv, asserted = {}, NEW k \in Kinds, TaskAllocate(k)
    PROVE  CaInv'
<1> DEFINE p == task.p
           d == [ca[p] EXCEPT !.pget = @ \cup {k}]
<1>0. /\ Types /\ Unused /\ InHand /\ Channeled /\ Buffered /\ Monitored /\ PutKept
      /\ AssertsHold /\ NoLostWakeup
      /\ task \in [pc : TaskPlaces, p : 0 .. last, todo : SUBSET LinkBits]
  BY DEF CaInv, Types
<1>1. /\ task.pc = "do" /\ Monitor[k] \in task.todo
      /\ ca' = [ca EXCEPT ![p] = d] /\ task' = [task EXCEPT !.pc = Monitor[k]]
      /\ UNCHANGED <<inst, link, last, chan, freed, workList, workListEvent, dbCaCtl,
                     removesOutstanding, cb, onceQ, scan, user, pact, lost, refused,
                     unsubscribed, paused, stale, asserted>>
  BY DEF TaskAllocate, Doing, recVars, scanVars, listVars
<1>2. /\ task.pc \in Acting \ {"act"} /\ task.pc \notin Monitors /\ Monitor[k] \in Monitors
      /\ Monitor[k] \in Acting \ {"act"}
  BY <1>1 DEF Acting, Monitors, Monitor, Kinds
<1>3. p \in 1 .. last /\ p \in Links /\ chan[p].state \in {"conn", "disc"}
            /\ "CA_CONNECT" \notin task.todo
  BY <1>0, <1>1, <1>2, Typed DEF InHand, Channeled
<1>4. /\ task'.pc = Monitor[k] /\ task'.p = p /\ task'.todo = task.todo
      /\ task' \in [pc : TaskPlaces, p : 0 .. last, todo : SUBSET LinkBits]
  <2>1. Monitor[k] \in TaskPlaces
    BY <1>2 DEF TaskPlaces
  <2>. HIDE DEF LinkBits, TaskPlaces
  <2>. QED  BY <1>0, <1>1, <2>1
<1>5. TaskGoes
  BY <1>1, <1>2, <1>3, <1>4 DEF TaskGoes, Monitor, Kinds
<1>6. /\ d \in CaLinks /\ d.pget = ca[p].pget \cup {k} /\ SameButBuffers(d, ca[p])
  <2>1. ca[p] \in CaLinks
    BY <1>0, <1>3, Typed
  <2>. HIDE DEF LinkBits
  <2>. QED  BY <2>1 DEF CaLinks, SameButBuffers
<1>. HIDE DEF d
<1>7. /\ ca' \in [Links -> CaLinks] /\ ca'[p] = d /\ \A q \in Links : q # p => ca'[q] = ca[q]
      /\ \A q \in Links : SameButBuffers(ca'[q], ca[q])
  <2>1. /\ ca' \in [Links -> CaLinks] /\ ca'[p] = d /\ \A q \in Links : q # p => ca'[q] = ca[q]
    BY <1>0, <1>1, <1>3, <1>6, OneChanged
  <2>. QED  BY <1>6, <2>1, SameBuffers
<1>8. \A q \in Links :
         /\ ca'[q].link_action = ca[q].link_action /\ ca'[q].pput = ca[q].pput
         /\ ca'[q].gotFirstConnection = ca[q].gotFirstConnection /\ ca'[q].shape = ca[q].shape
         /\ ca'[q].isConnected = ca[q].isConnected /\ ca[q].pget \subseteq ca'[q].pget
         /\ ca'[q].plink = ca[q].plink /\ ca'[q].putCallback = ca[q].putCallback
  BY <1>7 DEF SameButBuffers
<1>9. Channeled'
  BY <1>0, <1>1, <1>5, <1>8, ChannelsKept DEF SameConnection, SameChannels, CallbackGoes
<1>10. Buffered'
  <2>1. \A j \in Kinds : task'.pc = Monitor[j] => j \in ca'[p].pget
    BY <1>4, <1>6, <1>7 DEF Monitor, Kinds
  <2>. QED  BY <1>0, <1>1, <1>4, <1>5, <1>8, <2>1, BuffersKept
<1>11. Monitored'
  <2> DEFINE r == link.pvt
  <2>1. CASE r = NoLink
    BY <1>1, <2>1 DEF Monitored
  <2>2. CASE r # NoLink
    <3>1. r \in Links
      BY <1>0, <2>2, Typed, TypesThen
    <3>2. /\ Known(r)' <=> Known(r)
          /\ \A j \in Kinds : Subscribed(r, j)' <=> Subscribed(r, j)
          /\ \A j \in Kinds : Asked(r, Monitor[j])' <=> Asked(r, Monitor[j])
          /\ \A j \in Kinds : task.pc # Monitor[j]
      BY <1>1, <1>2, <1>4, <1>8, <3>1 DEF Known, Subscribed, Asked, Acting, Monitors
    <3>3. r # p => ca'[r].pget = ca[r].pget
      BY <1>7, <3>1
    <3>4. r = p => ca'[r].pget = ca[r].pget \cup {k}
      BY <1>6, <1>7
    <3>5. \A j \in Kinds : Monitor[j] = Monitor[k] <=> j = k
      BY DEF Monitor, Kinds
    <3>6. CASE r # p
      BY <1>0, <1>1, <1>4, <2>2, <3>2, <3>3, <3>6 DEF Monitored
    <3>7. CASE r = p
      BY <1>0, <1>1, <1>4, <2>2, <3>2, <3>4, <3>5, <3>7 DEF Monitored
    <3>. QED  BY <3>6, <3>7
  <2>. QED  BY <2>1, <2>2
<1>12. PutKept'
  <2>1. Links' = Links
    BY <1>1 DEF Links
  <2>2. ASSUME NEW q \in Links, PutGoing(q) PROVE PutGoing(q)'
    BY <1>1, <1>4, <1>8, <2>2 DEF PutGoing
  <2>. QED  BY <1>0, <1>1, <1>8, <2>1, <2>2 DEF PutKept
<1>13. NoLostWakeup' /\ AssertsHold'
  BY <1>0, <1>1, <1>4, WakesKept DEF AssertsHold, Monitor, Kinds
<1>14. /\ chan' \in [Links -> Channels] /\ \A q \in Links : IsFiniteSet(chan'[q].subs)
       /\ unsubscribed' \subseteq 1 .. last /\ workListEvent' \in BOOLEAN
       /\ \A q \in Links : q > last => ca'[q] = ca[q] /\ chan'[q] = chan[q]
  <2>1. \A q \in Links : q > last => q # p
    BY <1>0, <1>3, Typed
  <2>. QED  BY <1>0, <1>1, <1>7, <2>1, TypesThen
<1>. QED  BY <1>1, <1>4, <1>5, <1>7, <1>9, <1>10, <1>11, <1>12, <1>13, <1>14, TaskTurns

\* The subscription is made with the buffer there, or the library refuses it.
LEMMA TaskSubscribeStep ==
    ASSUME CaInv, asserted = {}, NEW k \in Kinds, TaskSubscribe(k)
    PROVE  CaInv'
<1> DEFINE p == task.p
           id == Cardinality(chan[p].subs) + 1
           new == [kind |-> k, id |-> id, shape |-> chan[p].shape]
           more == chan[p].subs \cup {new}
           d == [ca[p] EXCEPT !.evid = [@ EXCEPT ![k] = id]]
           takes == chan[p].state = "conn" \/ k = "string"
<1>0. /\ Types /\ Unused /\ InHand /\ Channeled /\ Buffered /\ Monitored /\ PutKept
      /\ AssertsHold /\ NoLostWakeup
  BY DEF CaInv
<1>1. /\ task.pc = Monitor[k] /\ Done(Monitor[k])
      /\ IF takes
         THEN /\ chan' = [chan EXCEPT ![p] = [@ EXCEPT !.subs = more]]
              /\ ca' = [ca EXCEPT ![p] = d] /\ UNCHANGED unsubscribed
         ELSE unsubscribed' = unsubscribed \cup {p} /\ UNCHANGED <<ca, chan>>
      /\ UNCHANGED <<inst, link, last, freed, workList, workListEvent, dbCaCtl,
                     removesOutstanding, cb, onceQ, scan, user, pact, lost, refused,
                     paused, stale, asserted>>
  BY DEF TaskSubscribe, scanVars, listVars
<1>2. /\ task.pc \in Acting \ {"act"} /\ Monitor[k] \in task.todo
  BY <1>0, <1>1 DEF InHand, Acting, Monitors, Monitor, Kinds
<1>3. /\ task' \in [pc : TaskPlaces, p : 0 .. last, todo : SUBSET LinkBits] /\ TaskGoes
      /\ p \in 1 .. last /\ p \in Links /\ chan[p].state \in {"conn", "disc"}
      /\ task'.pc \in {"work", "do"} /\ task'.pc \notin Monitors
      /\ \A b \in task.todo : b # Monitor[k] =>
            task'.pc \in Acting /\ task'.p = p /\ b \in task'.todo
  BY <1>0, <1>1, <1>2, DoneWith
<1>4. /\ d \in CaLinks /\ d.pget = ca[p].pget /\ SameButBuffers(d, ca[p])
      /\ more \in SUBSET [kind : Kinds, id : Nat, shape : Shapes \cup {"none"}]
      /\ IsFiniteSet(more)
  <2>1. /\ ca[p] \in CaLinks /\ chan[p] \in Channels /\ IsFiniteSet(chan[p].subs)
    BY <1>0, <1>3, TypesThen
  <2>2. id \in Nat
    BY <2>1, FS_CardinalityType
  <2>. HIDE DEF id, LinkBits
  <2>3. [ca[p].evid EXCEPT ![k] = id] \in [Kinds -> Nat]
    BY <2>1, <2>2 DEF CaLinks
  <2>4. new \in [kind : Kinds, id : Nat, shape : Shapes \cup {"none"}]
    BY <2>1, <2>2 DEF Channels
  <2>5. IsFiniteSet(more)
    <3>. HIDE DEF new
    <3>. QED  BY <2>1, FS_AddElement
  <2>6. more \in SUBSET [kind : Kinds, id : Nat, shape : Shapes \cup {"none"}]
    <3>. HIDE DEF new
    <3>. QED  BY <2>1, <2>4 DEF Channels
  <2>7. d = [ca[p] EXCEPT !.evid = [ca[p].evid EXCEPT ![k] = id]]
    OBVIOUS
  <2>8. /\ d \in CaLinks /\ d.pget = ca[p].pget /\ SameButBuffers(d, ca[p])
    <3>. HIDE DEF d, more
    <3>. QED  BY <2>1, <2>3, <2>7 DEF CaLinks, SameButBuffers
  <2>. QED  BY <2>5, <2>6, <2>8
<1>5. new.kind = k /\ new \in more /\ chan[p].subs \subseteq more
            /\ \A s \in more : s \in chan[p].subs \/ s = new
  OBVIOUS
<1>. HIDE DEF d, more, new
<1>6. /\ ca' \in [Links -> CaLinks] /\ chan' \in [Links -> Channels]
      /\ \A q \in Links : q # p => ca'[q] = ca[q] /\ chan'[q] = chan[q]
      /\ \A q \in Links : /\ chan'[q].puts = chan[q].puts /\ chan'[q].state = chan[q].state
                          /\ chan'[q].shape = chan[q].shape /\ chan'[q].access = chan[q].access
      /\ chan'[p].subs = (IF takes THEN more ELSE chan[p].subs)
      /\ \A q \in Links : SameButBuffers(ca'[q], ca[q]) /\ ca'[q].pget = ca[q].pget
  <2>1. /\ chan \in [Links -> Channels] /\ chan[p] \in Channels /\ ca \in [Links -> CaLinks]
    BY <1>0, <1>3, TypesThen
  <2>2. CASE takes
    <3>1. chan' = [chan EXCEPT ![p] = [@ EXCEPT !.subs = more]] /\ ca' = [ca EXCEPT ![p] = d]
      BY <1>1, <2>2
    <3>2. /\ ca' \in [Links -> CaLinks] /\ ca'[p] = d /\ \A q \in Links : q # p => ca'[q] = ca[q]
      BY <1>0, <1>3, <1>4, <3>1, OneChanged
    <3>3. /\ chan' \in [Links -> Channels] /\ \A q \in Links : q # p => chan'[q] = chan[q]
          /\ chan'[p].puts = chan[p].puts /\ chan'[p].state = chan[p].state
          /\ chan'[p].shape = chan[p].shape /\ chan'[p].access = chan[p].access
          /\ chan'[p].subs = more
      BY <1>3, <1>4, <2>1, <3>1 DEF Channels
    <3>4. \A q \in Links : SameButBuffers(ca'[q], ca[q]) /\ ca'[q].pget = ca[q].pget
      BY <1>4, <3>2, SameBuffers
    <3>. QED  BY <2>2, <3>2, <3>3, <3>4
  <2>3. CASE ~takes
    <3>1. chan' = chan /\ ca' = ca
      BY <1>1, <2>3
    <3>2. \A q \in Links : SameButBuffers(ca'[q], ca[q])
      BY <3>1, SameBuffers
    <3>. QED  BY <2>1, <2>3, <3>1, <3>2
  <2>. QED  BY <2>2, <2>3
<1>7. \A q \in Links :
         /\ ca'[q].link_action = ca[q].link_action /\ ca'[q].pput = ca[q].pput
         /\ ca'[q].gotFirstConnection = ca[q].gotFirstConnection /\ ca'[q].shape = ca[q].shape
         /\ ca'[q].isConnected = ca[q].isConnected
         /\ ca'[q].plink = ca[q].plink /\ ca'[q].putCallback = ca[q].putCallback
  BY <1>6 DEF SameButBuffers
<1>8. Channeled'
  <2>1. SameChannels
    <3>1. \A q \in Links : chan'[q].subs = chan[q].subs \/ chan[q].state \in {"conn", "disc"}
      BY <1>3, <1>6
    <3>. QED  BY <1>6, <3>1 DEF SameChannels
  <2>. QED  BY <1>0, <1>1, <1>3, <1>7, <2>1, ChannelsKept DEF SameConnection, CallbackGoes
<1>9. Buffered'
  <2>1. OneShape' = OneShape
    BY <1>1 DEF OneShape
  <2>2. \A q \in 1 .. last : \A a : Asked(q, a)' => Asked(q, a)
    BY <1>0, <1>3, <1>7, AskedKept
  <2>3. \A q \in 1 .. last : q \in Links
    BY <1>0, Typed
  <2>4. \A j \in Kinds : task'.pc # Monitor[j]
    BY <1>3 DEF Monitors
  <2>5. OneShape \/ lost = 0 => \A q \in 1 .. last, j \in Kinds :
           Asked(q, Write[j])' => j \in ca'[q].pput /\ ca'[q].gotFirstConnection
    BY <1>0, <1>7, <2>2, <2>3 DEF Buffered
  <2>6. ASSUME OneShape, NEW q \in 1 .. last, NEW s \in chan'[q].subs
        PROVE  s.kind \in ca'[q].pget /\ (s.kind = "string" => inst.shapes \subseteq EnumShapes)
    <3>1. CASE s \in chan[q].subs
      BY <1>0, <1>6, <2>3, <2>6, <3>1 DEF Buffered
    <3>2. CASE s \notin chan[q].subs
      <4>1. q = p /\ s = new
        BY <1>5, <1>6, <2>3, <2>6, <3>2
      <4>2. k \in ca[p].pget /\ (k = "string" => inst.shapes \subseteq EnumShapes)
        BY <1>0, <1>1, <1>2, <1>3, <2>6 DEF Buffered, Asked
      <4>. QED  BY <1>3, <1>5, <1>6, <4>1, <4>2
    <3>. QED  BY <3>1, <3>2
  <2>7. OneShape => \A q \in 1 .. last :
           Asked(q, Monitor["string"])' => inst.shapes \subseteq EnumShapes
    BY <1>0, <2>2 DEF Buffered
  <2>8. OneShape /\ "string" \in link.pvlMask => inst.shapes \subseteq EnumShapes
    BY <1>0 DEF Buffered
  <2>. QED  BY <1>1, <2>1, <2>4, <2>5, <2>6, <2>7, <2>8 DEF Buffered
<1>10. Monitored'
  <2> DEFINE r == link.pvt
  <2>1. CASE r = NoLink
    BY <1>1, <2>1 DEF Monitored
  <2>2. CASE r # NoLink
    <3>1. r \in Links
      BY <1>0, <2>2, Typed, TypesThen
    <3>2. /\ Known(r)' <=> Known(r)
          /\ \A j \in Kinds : Subscribed(r, j) => Subscribed(r, j)'
          /\ \A j \in Kinds : task'.pc # Monitor[j]
          /\ \A j \in Kinds : Monitor[j] = Monitor[k] <=> j = k
      <4>1. chan[r].subs \subseteq chan'[r].subs
        BY <1>5, <1>6, <3>1
      <4>. QED  BY <1>1, <1>3, <1>6, <3>1, <4>1 DEF Known, Subscribed, Monitors, Monitor, Kinds
    <3>3. ca'[r].pget = ca[r].pget /\ ca'[r].link_action = ca[r].link_action
      BY <1>6, <1>7, <3>1
    <3>4. \A j \in Kinds : r # p \/ j # k => (Asked(r, Monitor[j]) => Asked(r, Monitor[j])')
      BY <1>1, <1>3, <3>2, <3>3 DEF Asked
    <3>5. CASE r # p
      BY <1>0, <1>1, <2>2, <3>2, <3>3, <3>4, <3>5 DEF Monitored
    <3>6. CASE r = p /\ takes
      <4>1. Subscribed(r, k)'
        <5>1. new \in chan'[p].subs /\ new.kind = k
          BY <1>5, <1>6, <3>6
        <5>. QED  BY <1>1, <3>6, <5>1 DEF Subscribed
      <4>2. k \in link.pvlMask /\ r \notin unsubscribed =>
               k \in ca[r].pget \/ Asked(r, Monitor[k])'
        BY <1>0, <1>1, <2>2, <3>3, <3>6 DEF Monitored, Asked
      <4>3. unsubscribed' = unsubscribed
        BY <1>1, <3>6
      <4>. QED  BY <1>0, <1>1, <2>2, <3>2, <3>3, <3>4, <3>6, <4>1, <4>2, <4>3 DEF Monitored
    <3>7. CASE r = p /\ ~takes
      <4>1. r \in unsubscribed'
        BY <1>1, <3>7
      <4>. QED  BY <1>1, <4>1 DEF Monitored
    <3>. QED  BY <3>5, <3>6, <3>7
  <2>. QED  BY <2>1, <2>2
<1>11. PutKept'
  <2>1. Links' = Links
    BY <1>1 DEF Links
  <2>2. \A j \in Kinds : Write[j] # Monitor[k]
    BY DEF Write, Monitor, Kinds
  <2>3. ASSUME NEW q \in Links, PutGoing(q) PROVE PutGoing(q)'
    BY <1>1, <1>3, <1>6, <1>7, <2>2, <2>3 DEF PutGoing
  <2>. QED  BY <1>0, <1>1, <1>7, <2>1, <2>3 DEF PutKept
<1>12. NoLostWakeup' /\ AssertsHold'
  BY <1>0, <1>1, <1>3, WakesKept DEF AssertsHold
<1>13. /\ \A q \in Links : IsFiniteSet(chan'[q].subs)
       /\ unsubscribed' \subseteq 1 .. last /\ workListEvent' \in BOOLEAN
       /\ \A q \in Links : q > last => ca'[q] = ca[q] /\ chan'[q] = chan[q]
  <2>1. \A q \in Links : q > last => q # p
    BY <1>0, <1>3, Typed
  <2>2. \A q \in Links : IsFiniteSet(chan'[q].subs)
    BY <1>0, <1>4, <1>6, TypesThen
  <2>3. unsubscribed' \subseteq 1 .. last /\ workListEvent' \in BOOLEAN
    BY <1>0, <1>1, <1>3, TypesThen
  <2>. QED  BY <1>6, <2>1, <2>2, <2>3
<1>. QED  BY <1>1, <1>3, <1>6, <1>8, <1>9, <1>10, <1>11, <1>12, <1>13, TaskTurns
-----------------------------------------------------------------------------
(* caLinkDec.                                                              *)

\* A reference less: nothing but the counts sees it.
LEMMA DecKeeps ==
    ASSUME CaInv, NEW p \in 1 .. last, ca[p].refcount > 0,
           ca' = [ca EXCEPT ![p].refcount = @ - 1],
           UNCHANGED <<inst, link, last, freed, chan, workList, workListEvent, dbCaCtl,
                       removesOutstanding, cb, onceQ, user, pact, lost, refused, asserted,
                       unsubscribed, paused, stale>>,
           task' = task \/ (TaskEnds /\ task.pc = "dec" /\ task'.pc # "call"),
           scan' = scan \/ (ScanEnds /\ scan.pc = "dec" /\ scan'.pc # "call"),
           task' \in [pc : TaskPlaces, p : 0 .. last, todo : SUBSET LinkBits],
           scan' \in [pc : {"idle", "process", "complete", "dec", "free", "call"}, p : 0 .. last],
           InHand', RefsCounted'
    PROVE  CaInv'
<1> DEFINE d == [ca[p] EXCEPT !.refcount = @ - 1]
<1>0. /\ Types /\ Unused /\ Linked /\ Listed /\ Removes /\ InHand /\ Channeled /\ Buffered
      /\ Answering /\ Stale /\ Monitored /\ AssertsHold
      /\ RefsCounted /\ NoLostWakeup /\ OneScan /\ Scans /\ InputBuffered /\ PutKept /\ NoLostScan
  BY DEF CaInv
<1>1. p \in Links /\ ca[p] \in CaLinks
  BY <1>0, Typed
<1>2. /\ d \in CaLinks /\ SameUncounted(d, ca[p]) /\ d.scanningOnce = ca[p].scanningOnce
  <2>1. ca[p].refcount \in Nat /\ ca[p].refcount - 1 \in Nat
    BY <1>1 DEF CaLinks
  <2>. HIDE DEF LinkBits
  <2>. QED  BY <1>1, <2>1 DEF CaLinks, SameUncounted
<1>. HIDE DEF d
<1>3. ca' = [ca EXCEPT ![p] = d]
  BY DEF d
<1>4. /\ ca' \in [Links -> CaLinks] /\ ca'[p] = d /\ \A q \in Links : q # p => ca'[q] = ca[q]
  BY <1>0, <1>1, <1>2, <1>3, OneChanged
<1>5. \A q \in Links : SameUncounted(ca'[q], ca[q]) /\ ca'[q].scanningOnce = ca[q].scanningOnce
  <2>1. \A c : SameUncounted(c, c)
    BY DEF SameUncounted
  <2>. QED  BY <1>2, <1>4, <2>1
<1>6. /\ SameOnList /\ SameConnection /\ SameChannels /\ CallbackGoes
      /\ TaskGoes \/ TaskEnds
      /\ ScanGoes \/ ScanEnds
      /\ \A q \in Links :
            /\ ca'[q].scanningOnce = ca[q].scanningOnce
            /\ ca'[q].plink = ca[q].plink /\ ca'[q].link_action = ca[q].link_action
            /\ ca'[q].putCallback = ca[q].putCallback /\ ca'[q].putType = ca[q].putType
            /\ ca'[q].gotIn = ca[q].gotIn /\ ca'[q].pget = ca[q].pget
            /\ ca'[q].pput = ca[q].pput /\ ca'[q].gotFirstConnection = ca[q].gotFirstConnection
  BY <1>5 DEF SameUncounted, SameOnList, SameConnection, SameChannels, CallbackGoes, TaskGoes,
              ScanGoes
<1>7. Types' /\ Unused'
  <2>1. Types'
    BY <1>0, <1>4, TypesThen, TypesKept, SMTT(60), ZenonT(60)
  <2>2. \A q \in Links : q > last => q # p
    BY <1>0, Typed
  <2>. QED  BY <1>0, <1>4, <2>1, <2>2, UnusedKept
<1>8. Linked' /\ Listed' /\ Removes'
  BY <1>0, <1>6, OwnersKept
<1>9. Channeled'
  BY <1>0, <1>6, ChannelsKept
<1>10. \A k \in Kinds : task'.pc = Monitor[k] => task' = task
  BY DEF TaskEnds, Monitor, Kinds
<1>11. Buffered'
  BY <1>0, <1>6, <1>10, BuffersKept
<1>12. Answering'
  <2>1. \A t : CallsBack(t)' <=> CallsBack(t)
    <3>1. (task'.pc = "call" <=> task.pc = "call") /\ (scan'.pc = "call" <=> scan.pc = "call")
      OBVIOUS
    <3>. QED  BY <1>0, <3>1, CallsBackKept
  <2>. QED  BY <1>0, <1>6, <2>1, AnsweringKept
<1>13. Monitored'
  <2>1. \A q \in Links : Known(q)' => Known(q)
    BY DEF Known
  <2>2. ASSUME task' # task
        PROVE  /\ task.pc \notin Monitors /\ task'.pc \notin Monitors
               /\ link.pvt # NoLink =>
                     \A k \in Kinds : Asked(link.pvt, Monitor[k]) /\ Known(link.pvt)
                                          => Asked(link.pvt, Monitor[k])'
    <3>1. /\ task.pc \notin Acting /\ task'.pc \notin Acting
          /\ task.pc \notin Monitors /\ task'.pc \notin Monitors
      BY <2>2 DEF TaskEnds, Acting, Monitors, Monitor, Kinds
    <3>2. link.pvt # NoLink => ca'[link.pvt].link_action = ca[link.pvt].link_action
      BY <1>0, <1>6, Typed, TypesThen
    <3>. QED  BY <3>1, <3>2 DEF Asked
  <2>. QED  BY <1>0, <1>6, <2>1, <2>2, MonitoredKept
<1>14. OneScan' /\ Scans'
  BY <1>0, <1>6, ScansKept
<1>15. Stale' /\ NoLostScan'
  BY <1>0, <1>6, StaleKept
<1>16. InputBuffered'
  BY <1>0, <1>6 DEF InputBuffered, Links
<1>17. PutKept'
  <2>1. Links' = Links
    BY DEF Links
  <2>2. ASSUME NEW q \in Links, ca[q].putCallback, PutGoing(q) PROVE PutGoing(q)'
    <3>1. CASE task' = task
      BY <1>6, <2>2, <3>1 DEF PutGoing
    <3>2. CASE task' # task /\ task.p # q
      BY <1>6, <2>2, <3>2 DEF PutGoing
    <3>3. CASE task' # task /\ task.p = q
      <4>1. ~ca[q].plink
        BY <1>0, <3>3 DEF InHand, Owned
      <4>. QED  BY <1>6, <4>1 DEF PutGoing
    <3>. QED  BY <3>1, <3>2, <3>3
  <2>. QED  BY <1>0, <1>6, <2>1, <2>2 DEF PutKept
<1>18. NoLostWakeup' /\ AssertsHold'
  <2>1. task'.pc \in {"wait", "ctl"} => task'.pc = task.pc
    BY DEF TaskEnds
  <2>. QED  BY <1>0, <2>1, WakesKept DEF AssertsHold
<1>. QED  BY <1>7, <1>8, <1>9, <1>11, <1>12, <1>13, <1>14, <1>15, <1>16, <1>17, <1>18 DEF CaInv

\* dbCaTask drops its own reference.
LEMMA TaskDecStep ==
    ASSUME CaInv, asserted = {}, TaskDec
    PROVE  CaInv'
<1> DEFINE p == task.p
<1>0. /\ Types /\ InHand /\ RefsCounted
      /\ task \in [pc : TaskPlaces, p : 0 .. last, todo : SUBSET LinkBits]
  BY DEF CaInv, Types
<1>1. /\ task.pc = "dec" /\ ca' = [ca EXCEPT ![p].refcount = @ - 1]
      /\ task' = IF ca[p].refcount = 1 THEN [task EXCEPT !.pc = "free"] ELSE NextWork
      /\ UNCHANGED <<inst, link, last, freed, chan, workList, workListEvent, dbCaCtl, scan,
                     removesOutstanding, cb, onceQ, user, pact, lost, refused, asserted,
                     unsubscribed, paused, stale>>
  BY DEF TaskDec, Dec, DecTo, recVars, listVars
<1>2. /\ p \in 1 .. last /\ p \in Links /\ ~Owned(p) /\ p \notin freed
      /\ p # NoLink
  BY <1>0, <1>1, Typed DEF InHand
<1>3. \A q : Holding(q) \in Nat /\ Holding(q)' = Holding(q)
  <2>1. \A q : Occurrences(onceQ, q) \in Nat
    BY <1>0, OnceOccurs, Typed, TypesThen
  <2>. QED  BY <1>0, <1>1, <2>1, RequestsKept DEF ScanGoes, Holding
<1>4. TaskHolds(p) /\ ca[p].refcount = Holding(p) + 1
  BY <1>0, <1>1, <1>2 DEF TaskHolds, RefsCounted
<1>5. \A q \in Links : /\ ca'[q].refcount = IF q = p THEN ca[q].refcount - 1 ELSE ca[q].refcount
                       /\ ca'[q].plink = ca[q].plink /\ ca'[q].link_action = ca[q].link_action
  <2>1. ca \in [Links -> CaLinks] /\ ca[p] \in CaLinks
    BY <1>0, <1>2, TypesThen
  <2>. HIDE DEF LinkBits
  <2>. QED  BY <1>1, <1>2, <2>1 DEF CaLinks
<1>6. /\ task'.pc \in {"free", "work"} /\ (task'.pc = "free" <=> ca[p].refcount = 1)
      /\ task'.p = (IF task'.pc = "work" THEN NoLink ELSE p)
      /\ task' \in [pc : TaskPlaces, p : 0 .. last, todo : SUBSET LinkBits]
      /\ task'.todo \subseteq task.todo
  <2>1. CASE ca[p].refcount = 1
    <3>1. task' = [task EXCEPT !.pc = "free"] /\ "free" \in TaskPlaces
      BY <1>1, <2>1 DEF TaskPlaces
    <3>. HIDE DEF LinkBits, TaskPlaces
    <3>. QED  BY <1>0, <2>1, <3>1
  <2>2. CASE ca[p].refcount # 1
    BY <1>0, <1>1, <2>2, Typed DEF NextWork, TaskPlaces, NoLink
  <2>. QED  BY <2>1, <2>2
<1>7. TaskEnds /\ task'.pc # "call"
  BY <1>1, <1>6 DEF TaskEnds
<1>8. \A q \in 1 .. last : /\ q \in Links /\ (Owned(q)' <=> Owned(q))
                           /\ (TaskHolds(q)' <=> TaskHolds(q) /\ q # p)
  <2>1. \A q \in 1 .. last : q \in Links
    BY <1>0, Typed
  <2>2. \A q \in 1 .. last : Owned(q)' <=> Owned(q)
    BY <1>0, <1>1, <1>5, <2>1 DEF Owned, Clears
  <2>. QED  BY <1>1, <1>2, <1>6, <2>1, <2>2, HoldsOwned
<1>9. RefsCounted'
  <2>1. ASSUME NEW q \in (1 .. last) \ freed
        PROVE  ca'[q].refcount = Holding(q)' + IF TaskHolds(q)' THEN 1 ELSE 0
    <3>1. ca[q].refcount = Holding(q) + IF TaskHolds(q) THEN 1 ELSE 0
      BY <1>0 DEF RefsCounted
    <3>. QED  BY <1>3, <1>4, <1>5, <1>8, <3>1
  <2>. QED  BY <1>1, <2>1 DEF RefsCounted
<1>10. InHand'
  <2>1. scan.pc = "free" => scan.p # p /\ scan.p \in Links /\ ca'[scan.p].refcount = 0
    <3>1. scan.pc = "free" => scan.p # NoLink /\ scan.p \in 0 .. last /\ ca[scan.p].refcount = 0
      BY <1>0, TypesThen DEF InHand
    <3>2. scan.pc = "free" => scan.p \in 1 .. last /\ scan.p # p
      BY <1>0, <1>3, <1>4, <3>1, Typed
    <3>. QED  BY <1>5, <1>8, <3>1, <3>2
  <2>2. \A q : freed' = freed /\ (q \in freed => Holding(q)' = 0)
    BY <1>0, <1>1, <1>3 DEF InHand
  <2>3. task'.pc = "free" => ca'[p].refcount = 0 /\ ~Owned(p)'
    BY <1>2, <1>3, <1>4, <1>5, <1>6, <1>8
  <2>. QED  BY <1>0, <1>1, <1>2, <1>6, <2>1, <2>2, <2>3
            DEF InHand, Acting, Monitors, Monitor, Kinds
<1>11. scan' \in [pc : {"idle", "process", "complete", "dec", "free", "call"}, p : 0 .. last]
  BY <1>0, <1>1, TypesThen
<1>12. ca[p].refcount > 0
  BY <1>3, <1>4
<1>. QED  BY <1>1, <1>2, <1>6, <1>7, <1>9, <1>10, <1>11, <1>12, DecKeeps

\* The thread that served a request drops the reference it had.
LEMMA ScanDecStep ==
    ASSUME CaInv, asserted = {}, ScanDec
    PROVE  CaInv'
<1> DEFINE p == scan.p
           Places == {"idle", "process", "complete", "dec", "free", "call"}
<1>0. /\ Types /\ InHand /\ RefsCounted
      /\ scan \in [pc : Places, p : 0 .. last]
  BY DEF CaInv, Types
<1>1. /\ scan.pc = "dec" /\ ca' = [ca EXCEPT ![p].refcount = @ - 1]
      /\ scan' = IF ca[p].refcount = 1 THEN [scan EXCEPT !.pc = "free"] ELSE Idle
      /\ UNCHANGED <<inst, link, last, freed, chan, workList, workListEvent, dbCaCtl, task,
                     removesOutstanding, cb, onceQ, user, pact, lost, refused, asserted,
                     unsubscribed, paused, stale>>
  BY DEF ScanDec, Dec, DecTo, recVars, listVars
<1>2. /\ p \in 1 .. last /\ p \in Links /\ p # NoLink
  BY <1>0, <1>1, Typed DEF InHand
<1>3. /\ scan'.pc \in {"free", "idle"} /\ (scan'.pc = "free" <=> ca[p].refcount = 1)
      /\ scan'.p = (IF scan'.pc = "idle" THEN NoLink ELSE p)
      /\ scan' \in [pc : Places, p : 0 .. last]
  BY <1>0, <1>1, Typed DEF Idle, NoLink
<1>4. \A q : /\ Holding(q) \in Nat /\ Holding(q)' \in Nat
             /\ Holding(q) = Holding(q)' + (IF q = p THEN 1 ELSE 0)
  <2>1. \A q : Occurrences(onceQ, q) \in Nat
    BY <1>0, OnceOccurs, Typed, TypesThen
  <2>2. \A q : Occurrences(onceQ', q) = Occurrences(onceQ, q)
    BY <1>1
  <2>. QED  BY <1>1, <1>3, <2>1, <2>2 DEF Holding
<1>5. p \notin freed /\ ca[p].refcount = Holding(p) + IF TaskHolds(p) THEN 1 ELSE 0
  <2>1. p \notin freed
    BY <1>0, <1>4 DEF InHand
  <2>. QED  BY <1>0, <1>2, <2>1 DEF RefsCounted
<1>6. \A q \in Links : /\ ca'[q].refcount = IF q = p THEN ca[q].refcount - 1 ELSE ca[q].refcount
                       /\ ca'[q].plink = ca[q].plink /\ ca'[q].link_action = ca[q].link_action
  <2>1. ca \in [Links -> CaLinks] /\ ca[p] \in CaLinks
    BY <1>0, <1>2, TypesThen
  <2>. HIDE DEF LinkBits
  <2>. QED  BY <1>1, <1>2, <2>1 DEF CaLinks
<1>7. ScanEnds /\ scan'.pc # "call"
  BY <1>1, <1>3 DEF ScanEnds
<1>8. \A q \in 1 .. last : /\ q \in Links /\ (Owned(q)' <=> Owned(q))
                           /\ (TaskHolds(q)' <=> TaskHolds(q))
  <2>1. \A q \in 1 .. last : q \in Links
    BY <1>0, Typed
  <2>2. \A q \in 1 .. last : Owned(q)' <=> Owned(q)
    BY <1>0, <1>1, <1>6, <2>1 DEF Owned, Clears
  <2>. QED  BY <1>1, <2>1, <2>2, HoldsOwned
<1>9. RefsCounted'
  <2>1. ASSUME NEW q \in (1 .. last) \ freed
        PROVE  ca'[q].refcount = Holding(q)' + IF TaskHolds(q)' THEN 1 ELSE 0
    <3>1. ca[q].refcount = Holding(q) + IF TaskHolds(q) THEN 1 ELSE 0
      BY <1>0 DEF RefsCounted
    <3>. QED  BY <1>4, <1>6, <1>8, <3>1
  <2>. QED  BY <1>1, <2>1 DEF RefsCounted
<1>10. InHand'
  <2>1. /\ task.p # NoLink => task.p \in 1 .. last
        /\ task.pc \in Acting => task.p # NoLink
        /\ task.pc \in {"dec", "free"} => task.p # NoLink
    BY <1>0, Typed, TypesThen DEF InHand, Acting, Monitors, Monitor, Kinds
  <2>2. task.pc = "free" => task.p # p /\ ca'[task.p].refcount = 0
    <3>1. task.pc = "free" => ca[task.p].refcount = 0 /\ task.p \in Links
      BY <1>0, <1>8, <2>1 DEF InHand
    <3>. QED  BY <1>4, <1>5, <1>6, <3>1
  <2>3. scan'.pc = "free" => ca'[p].refcount = 0
    BY <1>2, <1>3, <1>6
  <2>4. \A q : freed' = freed /\ (q \in freed => Holding(q)' = 0)
    BY <1>0, <1>1, <1>4 DEF InHand
  <2>5. /\ task.pc \in Acting => Owned(task.p)'
        /\ task.pc \in {"dec", "free"} => ~Owned(task.p)' /\ task.p \notin freed
    BY <1>0, <1>1, <1>8, <2>1 DEF InHand
  <2>6. /\ scan'.pc = "idle" <=> scan'.p = NoLink
        /\ scan'.pc = "free" => ca'[scan'.p].refcount = 0 /\ scan'.p \notin freed
        /\ task.pc = "free" /\ scan'.pc = "free" => task.p # scan'.p
    BY <1>2, <1>3, <1>5, <2>2, <2>3
  <2>. QED  BY <1>0, <1>1, <2>2, <2>4, <2>5, <2>6 DEF InHand
<1>11. task' \in [pc : TaskPlaces, p : 0 .. last, todo : SUBSET LinkBits]
  BY <1>0, <1>1, TypesThen
<1>12. ca[p].refcount > 0
  BY <1>4, <1>5
<1>. QED  BY <1>1, <1>2, <1>3, <1>7, <1>9, <1>10, <1>11, <1>12, DecKeeps

\* The callback that the record waits for is called, and the record waits no more.
LEMMA CallKeeps ==
    ASSUME CaInv, pact' = FALSE,
           UNCHANGED <<inst, link, last, ca, freed, chan, workList, workListEvent, dbCaCtl,
                       removesOutstanding, onceQ, user, lost, refused, asserted,
                       unsubscribed, paused, stale>>,
           task' = task \/ (task.pc = "call" /\ task' = NextWork),
           scan' = scan \/ (scan.pc = "call" /\ scan' = Idle),
           CallbackGoes, cb.pc = "notify" => cb' = cb,
           NEW t \in {"cb", "task", "scan"}, CallsBack(t), ~CallsBack(t)',
           \A u \in {"cb", "task", "scan"} : CallsBack(u)' => CallsBack(u),
           InHand', RefsCounted'
    PROVE  CaInv'
<1>0. /\ Types /\ Unused /\ Linked /\ Listed /\ Removes /\ InHand /\ Channeled /\ Buffered
      /\ Answering /\ Stale /\ Monitored /\ AssertsHold
      /\ RefsCounted /\ NoLostWakeup /\ OneScan /\ Scans /\ InputBuffered /\ PutKept /\ NoLostScan
  BY DEF CaInv
<1>1. /\ SameOnList /\ SameConnection /\ SameChannels
      /\ TaskGoes \/ TaskEnds
      /\ ScanGoes \/ ScanEnds
      /\ task' = task \/ task'.pc = "work"
      /\ scan' = scan \/ ScanEnds
  BY DEF SameOnList, SameConnection, SameChannels, TaskGoes, TaskEnds, ScanGoes, ScanEnds,
         NextWork, Idle
<1>2. Types'
  <2>1. task' \in [pc : TaskPlaces, p : 0 .. last, todo : SUBSET LinkBits]
    BY <1>0, Typed, TypesThen DEF NextWork, TaskPlaces, NoLink
  <2>2. /\ scan' \in [pc : {"idle", "process", "complete", "dec", "free", "call"}, p : 0 .. last]
        /\ cb' \in [pc : {"idle", "notify", "call", "callThenNotify"}, p : 0 .. last]
    BY <1>0, Typed, TypesThen DEF Idle, NoLink, CallbackGoes
  <2>. QED  BY <1>0, <2>1, <2>2, TypesThen, TypesKept
<1>3. Unused'
  BY <1>0, UnusedKept
<1>4. Linked' /\ Listed' /\ Removes'
  BY <1>0, <1>1, OwnersKept
<1>5. Channeled'
  BY <1>0, <1>1, ChannelsKept
<1>6. Buffered'
  BY <1>0, <1>1, BuffersKept DEF Monitor, Kinds
<1>7. Answering'
  <2>1. /\ Links' = Links
        /\ \A q \in Links : ~ca[q].putCallback
    BY <1>0 DEF Answering, Links
  <2>2. \A u \in {"cb", "task", "scan"} : ~CallsBack(u)'
    BY <1>0 DEF Answering
  <2>. QED  BY <2>1, <2>2 DEF Answering
<1>8. Monitored'
  <2>1. \A q \in Links : Known(q)' => Known(q)
    BY DEF Known, CallbackGoes, Idle
  <2>2. ASSUME task' # task
        PROVE  /\ task.pc \notin Monitors /\ task'.pc \notin Monitors
               /\ \A a : Asked(link.pvt, a) => Asked(link.pvt, a)'
    BY <2>2, <1>1 DEF Asked, Acting, Monitors, Monitor, Kinds
  <2>. QED  BY <1>0, <2>1, <2>2, MonitoredKept
<1>9. OneScan' /\ Scans'
  BY <1>0, <1>1, ScansKept
<1>10. Stale' /\ NoLostScan'
  BY <1>0, <1>1, StaleKept
<1>11. InputBuffered'
  BY <1>0 DEF InputBuffered, Links
<1>12. PutKept'
  <2>1. \A q \in Links : ~ca[q].putCallback
    BY <1>0 DEF Answering
  <2>. QED  BY <2>1 DEF PutKept, Links
<1>13. NoLostWakeup' /\ AssertsHold'
  BY <1>0, <1>1, WakesKept DEF AssertsHold
<1>. QED  BY <1>2, <1>3, <1>4, <1>5, <1>6, <1>7, <1>8, <1>9, <1>10, <1>11, <1>12, <1>13 DEF CaInv

\* The library's thread calls it.
LEMMA CallbackCallsStep ==
    ASSUME CaInv, asserted = {}, CallbackCalls
    PROVE  CaInv'
<1>0. /\ Types /\ InHand /\ RefsCounted
      /\ cb \in [pc : {"idle", "notify", "call", "callThenNotify"}, p : 0 .. last]
  BY DEF CaInv, Types
<1>1. /\ cb.pc \in {"call", "callThenNotify"} /\ pact' = FALSE
      /\ cb' = IF cb.pc = "call" THEN Idle ELSE [cb EXCEPT !.pc = "notify"]
      /\ UNCHANGED <<inst, link, last, ca, freed, chan, workList, workListEvent, dbCaCtl, task,
                     scan, removesOutstanding, onceQ, user, lost, refused, asserted,
                     unsubscribed, paused, stale>>
  BY DEF CallbackCalls, listVars, scanVars
<1>2. CallbackGoes /\ cb'.pc \in {"idle", "notify"}
  BY <1>0, <1>1 DEF CallbackGoes, Idle
<1>3. /\ CallsBack("cb") /\ ~CallsBack("cb")'
      /\ \A u \in {"cb", "task", "scan"} : CallsBack(u)' => CallsBack(u)
  BY <1>1, <1>2 DEF CallsBack
<1>4. InHand' /\ RefsCounted'
  <2>1. \A q \in 1 .. last : (Owned(q)' <=> Owned(q))
    BY <1>1 DEF Owned, Clears
  <2>. QED  BY <1>0, <1>1, <2>1, HandsKept DEF ScanGoes, TaskGoes
<1>. QED  BY <1>1, <1>2, <1>3, <1>4, CallKeeps

\* dbCaTask calls it for a link that was removed.
LEMMA TaskCallStep ==
    ASSUME CaInv, asserted = {}, TaskCall
    PROVE  CaInv'
<1>0. Types /\ InHand /\ RefsCounted
  BY DEF CaInv
<1>1. /\ task.pc = "call" /\ pact' = FALSE /\ task' = NextWork
      /\ UNCHANGED <<inst, link, last, ca, freed, chan, workList, workListEvent, dbCaCtl, cb,
                     scan, removesOutstanding, onceQ, user, lost, refused, asserted,
                     unsubscribed, paused, stale>>
  BY DEF TaskCall, Call, listVars
<1>2. task'.pc = "work" /\ task'.p = NoLink
  BY <1>1 DEF NextWork
<1>3. /\ CallsBack("task") /\ ~CallsBack("task")'
      /\ \A u \in {"cb", "task", "scan"} : CallsBack(u)' => CallsBack(u)
  BY <1>1, <1>2 DEF CallsBack
<1>4. \A q : Holding(q)' = Holding(q)
  BY <1>1, <1>0, RequestsKept DEF ScanGoes
<1>5. InHand'
  BY <1>0, <1>1, <1>2, <1>4 DEF InHand, Acting, Monitors, Monitor, Kinds
<1>6. RefsCounted'
  <2>1. \A q : TaskHolds(q)' <=> TaskHolds(q)
    BY <1>1, <1>2 DEF TaskHolds
  <2>. QED  BY <1>0, <1>1, <1>4, <2>1 DEF RefsCounted
<1>7. CallbackGoes
  BY <1>1 DEF CallbackGoes
<1>. QED  BY <1>1, <1>3, <1>5, <1>6, <1>7, CallKeeps

\* So does the thread that serves scan requests.
LEMMA ScanCallStep ==
    ASSUME CaInv, asserted = {}, ScanCall
    PROVE  CaInv'
<1>0. Types /\ InHand /\ RefsCounted
  BY DEF CaInv
<1>1. /\ scan.pc = "call" /\ pact' = FALSE /\ scan' = Idle
      /\ UNCHANGED <<inst, link, last, ca, freed, chan, workList, workListEvent, dbCaCtl, cb,
                     task, removesOutstanding, onceQ, user, lost, refused, asserted,
                     unsubscribed, paused, stale>>
  BY DEF ScanCall, Call, listVars
<1>2. scan'.pc = "idle" /\ scan'.p = NoLink
  BY <1>1 DEF Idle
<1>3. /\ CallsBack("scan") /\ ~CallsBack("scan")'
      /\ \A u \in {"cb", "task", "scan"} : CallsBack(u)' => CallsBack(u)
  BY <1>1, <1>2 DEF CallsBack
<1>4. \A q : Holding(q)' = Holding(q)
  BY <1>1, <1>2 DEF Holding
<1>5. InHand'
  BY <1>0, <1>1, <1>2, <1>4 DEF InHand, Owned, Clears
<1>6. RefsCounted'
  <2>1. \A q : TaskHolds(q)' <=> TaskHolds(q)
    BY <1>1, <1>2 DEF TaskHolds
  <2>. QED  BY <1>0, <1>1, <1>4, <2>1 DEF RefsCounted
<1>7. CallbackGoes
  BY <1>1 DEF CallbackGoes
<1>. QED  BY <1>1, <1>3, <1>5, <1>6, <1>7, CallKeeps

ScanPlaces == {"idle", "process", "complete", "dec", "free", "call"}
\* A structure without references is freed, by the thread that dropped the last one; a callback
\* that was kept is called after it.
LEMMA FreeKeeps ==
    ASSUME CaInv, NEW p \in 1 .. last, p \notin freed, ca[p].refcount = 0,
           chan[p].state # "none" => cb.pc = "idle",
           chan' = [chan EXCEPT ![p] = [NoChannel EXCEPT !.state = "cleared"]],
           freed' = freed \cup {p},
           ca' = [ca EXCEPT ![p] = [NewLink EXCEPT !.refcount = 0, !.plink = FALSE]],
           UNCHANGED <<inst, link, last, workList, workListEvent, dbCaCtl,
                       removesOutstanding, cb, onceQ, user, pact, lost, refused, asserted,
                       unsubscribed, paused, stale>>,
           \/ /\ task.pc = "free" /\ task.p = p /\ scan' = scan
              /\ task' = FreeTo(task, NextWork)
           \/ /\ scan.pc = "free" /\ scan.p = p /\ task' = task
              /\ scan' = FreeTo(scan, Idle)
    PROVE  CaInv'
<1> DEFINE d == [NewLink EXCEPT !.refcount = 0, !.plink = FALSE]
           x == [NoChannel EXCEPT !.state = "cleared"]
<1>0. /\ Types /\ Unused /\ Linked /\ Listed /\ Removes /\ InHand /\ Channeled /\ Buffered
      /\ Answering /\ Stale /\ Monitored /\ AssertsHold
      /\ RefsCounted /\ NoLostWakeup /\ OneScan /\ Scans /\ InputBuffered /\ PutKept /\ NoLostScan
      /\ task \in [pc : TaskPlaces, p : 0 .. last, todo : SUBSET LinkBits]
      /\ scan \in [pc : ScanPlaces, p : 0 .. last]
  BY DEF CaInv, Types, ScanPlaces
<1>1. /\ p \in Links /\ p # NoLink /\ ca[p] \in CaLinks /\ chan[p] \in Channels
      /\ \A q \in 1 .. last : q \in Links /\ q # NoLink
      /\ freed \subseteq 1 .. last
  BY <1>0, Typed, TypesThen
<1>2. /\ d \in CaLinks /\ d.refcount = 0 /\ ~d.plink /\ d.link_action = {} /\ d.pget = {}
      /\ ~d.gotFirstConnection /\ ~d.isConnected /\ d.gotIn = {} /\ ~d.putCallback
      /\ d.scanningOnce = 0
  <2>1. NewLink \in CaLinks
    BY CaAssumption DEF NewLink, CaLinks
  <2>2. d \in CaLinks
    BY ONLY <2>1 DEF CaLinks
  <2>. QED  BY ONLY <2>2 DEF NewLink
<1>3. x \in Channels /\ x.state = "cleared" /\ x.subs = {} /\ x.puts = 0
  BY DEF NoChannel, Channels
<1>. HIDE DEF d, x
<1>4. /\ ca' \in [Links -> CaLinks] /\ ca'[p] = d /\ \A q \in Links : q # p => ca'[q] = ca[q]
  <2>1. ca' = [ca EXCEPT ![p] = d]
    BY DEF d
  <2>. QED  BY <1>0, <1>1, <1>2, <2>1, OneChanged
<1>5. /\ chan' \in [Links -> Channels] /\ chan'[p] = x
      /\ \A q \in Links : q # p => chan'[q] = chan[q]
  <2>1. chan' = [chan EXCEPT ![p] = x] /\ chan \in [Links -> Channels]
    BY <1>0, TypesThen DEF x
  <2>. QED  BY <1>1, <1>3, <2>1
<1>6. \A q \in 1 .. last : q # p =>
         /\ ca'[q] = ca[q] /\ chan'[q] = chan[q]
         /\ (Owned(q)' <=> Owned(q)) /\ (Clears(q)' <=> Clears(q))
         /\ (q \in freed' <=> q \in freed)
  BY <1>1, <1>4, <1>5 DEF Owned, Clears
<1>7. Holding(p) = 0 /\ ~TaskHolds(p)
  <2>1. \A q : Occurrences(onceQ, q) \in Nat
    BY <1>0, OnceOccurs, Typed, TypesThen
  <2>2. Holding(p) \in Nat
    BY <2>1 DEF Holding
  <2>. QED  BY <1>0, <2>2 DEF RefsCounted
<1>8. /\ ~Owned(p) /\ ~ca[p].plink /\ ca[p].link_action = {} /\ user.p # p /\ link.pvt # p
      /\ ~(task.p = p /\ task.pc = "dec") /\ ~(task.p = p /\ task.pc \in Acting)
  <2>1. ~Owned(p) /\ ~(task.p = p /\ task.pc = "dec")
    BY <1>7, HoldsOwned
  <2>. QED  BY <1>0, <2>1 DEF Owned, Linked, InHand
<1>9. cb.p # p
  BY <1>0, <1>1 DEF Channeled
<1>10. ~(task'.p = p /\ task'.pc = "free") /\ ~(scan'.p = p /\ scan'.pc = "free")
  BY <1>0, <1>1 DEF InHand, FreeTo, NextWork, Idle
<1>11. /\ task' = task \/ (TaskEnds /\ task.pc = "free" /\ task'.pc \in {"call", "work"})
       /\ scan' = scan \/ (ScanEnds /\ scan.pc = "free" /\ scan'.pc \in {"call", "idle"})
       /\ task' \in [pc : TaskPlaces, p : 0 .. last, todo : SUBSET LinkBits]
       /\ scan' \in [pc : ScanPlaces, p : 0 .. last]
  <2>1. CASE task.pc = "free" /\ task.p = p /\ scan' = scan /\ task' = FreeTo(task, NextWork)
    <3>1. CASE ca[p].putCallback
      <4>1. task' = [task EXCEPT !.pc = "call"] /\ "call" \in TaskPlaces
        BY <2>1, <3>1 DEF FreeTo, TaskPlaces
      <4>. HIDE DEF TaskPlaces, LinkBits
      <4>. QED  BY <1>0, <2>1, <4>1 DEF TaskEnds
    <3>2. CASE ~ca[p].putCallback
      <4>1. task' = NextWork /\ "work" \in TaskPlaces
        BY <2>1, <3>2 DEF FreeTo, TaskPlaces
      <4>. HIDE DEF TaskPlaces, LinkBits
      <4>. QED  BY <1>0, <2>1, <4>1, Typed DEF TaskEnds, NextWork, NoLink
    <3>. QED  BY <3>1, <3>2
  <2>2. CASE scan.pc = "free" /\ scan.p = p /\ task' = task /\ scan' = FreeTo(scan, Idle)
    <3>1. CASE ca[p].putCallback
      <4>1. scan' = [scan EXCEPT !.pc = "call"]
        BY <2>2, <3>1 DEF FreeTo
      <4>. QED  BY <1>0, <2>2, <4>1 DEF ScanEnds, ScanPlaces
    <3>2. CASE ~ca[p].putCallback
      <4>1. scan' = Idle
        BY <2>2, <3>2 DEF FreeTo
      <4>. QED  BY <1>0, <2>2, <4>1, Typed DEF ScanEnds, ScanPlaces, Idle, NoLink
    <3>. QED  BY <3>1, <3>2
  <2>. QED  BY <2>1, <2>2
<1>12. \A q : Holding(q)' = Holding(q) /\ Requests(q)' = Requests(q)
  <2>1. \A q : Occurrences(onceQ', q) = Occurrences(onceQ, q)
    OBVIOUS
  <2>. QED  BY <1>11, <2>1 DEF ScanEnds, Holding, Requests
<1>13. /\ \A q : (TaskHolds(q)' <=> Owned(q)' \/ (task.p = q /\ task.pc = "dec"))
       /\ \A q : q # p => \A a : (task'.pc \in Acting /\ task'.p = q /\ a \in task'.todo)
                                    <=> (task.pc \in Acting /\ task.p = q /\ a \in task.todo)
       /\ task'.pc \in Acting => task' = task /\ task.p \in 1 .. last /\ task.p # p
       /\ \A k \in Kinds : task'.pc = Monitor[k] => task' = task /\ task.p \in 1 .. last
             /\ task.p # p
       /\ \A k \in Kinds : task.pc = Monitor[k] => task' = task
       /\ task'.pc \in {"wait", "ctl"} => task' = task
  <2>1. /\ task.pc \in Acting => task.p \in 1 .. last
    BY <1>0, Typed DEF InHand, Acting, Monitors, Monitor, Kinds
  <2>2. CASE task' = task
    BY <1>8, <2>1, <2>2, HoldsOwned DEF Acting, Monitors
  <2>3. CASE TaskEnds /\ task.pc = "free" /\ task'.pc \in {"call", "work"}
    BY <2>3, HoldsOwned DEF Acting, Monitors, Monitor, Kinds
  <2>. QED  BY <1>11, <2>2, <2>3
<1>14. Types' /\ Unused'
  <2>1. \A q \in Links : IsFiniteSet(chan'[q].subs)
    BY <1>0, <1>1, <1>3, <1>5, TypesThen, FS_EmptySet
  <2>2. freed' \subseteq 1 .. last
    BY <1>1
  <2>3. Types'
    BY <1>0, <1>4, <1>5, <1>11, <2>1, <2>2, TypesThen, TypesKept, SMTT(60), ZenonT(60) DEF ScanPlaces
  <2>4. \A q \in Links : q > last => q # p
    BY <1>0, Typed
  <2>. QED  BY <1>0, <1>4, <1>5, <2>3, <2>4, UnusedKept
<1>15. Linked'
  <2>1. \A q \in 1 .. last :
           /\ ca'[q].plink <=> link.pvt = q
           /\ ca'[q].link_action # {} => Owned(q)'
           /\ Clears(q)' => ~ca'[q].plink /\ user.p # q
           /\ q \in freed' => ~Owned(q)'
    <3>1. ASSUME NEW q \in 1 .. last, q # p
          PROVE  /\ ca'[q].plink <=> link.pvt = q
                 /\ ca'[q].link_action # {} => Owned(q)'
                 /\ Clears(q)' => ~ca'[q].plink /\ user.p # q
                 /\ q \in freed' => ~Owned(q)'
      BY <1>0, <1>6, <3>1 DEF Linked
    <3>2. /\ ca'[p].plink <=> link.pvt = p
          /\ ca'[p].link_action # {} => Owned(p)'
          /\ Clears(p)' => ~ca'[p].plink /\ user.p # p
          /\ p \in freed' => ~Owned(p)'
      BY <1>2, <1>4, <1>8 DEF Owned, Clears
    <3>. QED  BY <3>1, <3>2
  <2>2. /\ user.p # NoLink => user.p \in 1 .. last /\ ca'[user.p] = ca[user.p]
        /\ user.pc = "pausing" => user.p # NoLink
    BY <1>0, <1>6, <1>8, Typed, TypesThen DEF Linked
  <2>. QED  BY <1>0, <2>1, <2>2 DEF Linked
<1>16. Listed' /\ Removes'
  <2>1. \A q \in 1 .. last : ca'[q].link_action = ca[q].link_action
    BY <1>2, <1>4, <1>6, <1>8
  <2>2. Clearing' = Clearing
    BY <2>1 DEF Clearing, Clears
  <2>. QED  BY <1>0, <2>1, <2>2 DEF Listed, Removes
<1>17. RefsCounted'
  <2>1. ASSUME NEW q \in (1 .. last) \ freed'
        PROVE  ca'[q].refcount = Holding(q)' + IF TaskHolds(q)' THEN 1 ELSE 0
    <3>1. q # p /\ q \in (1 .. last) \ freed
      BY <2>1
    <3>2. TaskHolds(q)' <=> TaskHolds(q)
      BY <1>6, <1>13, <3>1, HoldsOwned
    <3>3. ca[q].refcount = Holding(q) + IF TaskHolds(q) THEN 1 ELSE 0
      BY <1>0, <3>1 DEF RefsCounted
    <3>. QED  BY <1>6, <1>12, <3>1, <3>2, <3>3
  <2>. QED  BY <2>1 DEF RefsCounted
<1>18. InHand'
  <2>1. /\ task'.pc \in {"wait", "work", "ctl", "shutdown"} => task'.p = NoLink
        /\ task'.pc \notin {"wait", "work", "ctl", "shutdown"} => task'.p # NoLink
        /\ scan'.pc = "idle" <=> scan'.p = NoLink
    BY <1>0, <1>11 DEF InHand, TaskEnds, ScanEnds
  <2>2. /\ task'.pc \in Acting => Owned(task.p)'
        /\ task'.pc \in Acting \ {"act"} => "CA_CONNECT" \notin task'.todo
        /\ \A k \in Kinds : task'.pc = Monitor[k] => Monitor[k] \in task'.todo
    <3>1. task'.pc \in Acting => Owned(task.p)'
      <4>1. ASSUME task'.pc \in Acting
            PROVE task' = task /\ task.p \in 1 .. last /\ task.p # p /\ Owned(task.p)
        BY <1>0, <1>13, <4>1 DEF InHand
      <4>. QED  BY <1>6, <4>1
    <3>. QED  BY <1>0, <1>13, <3>1 DEF InHand
  <2>3. ASSUME task'.pc \in {"dec", "free"}
        PROVE  /\ task' = task /\ task.p \in 1 .. last /\ task.p # p /\ ~Owned(task.p)'
               /\ task.p \notin freed' /\ (task.pc = "free" => ca'[task.p].refcount = 0)
    <3>1. task' = task /\ task.p # p
      BY <1>8, <1>10, <1>11, <2>3 DEF TaskEnds
    <3>2. task.p \in 1 .. last /\ ~Owned(task.p) /\ task.p \notin freed
      BY <1>0, <2>3, <3>1, Typed DEF InHand
    <3>. QED  BY <1>0, <1>6, <2>3, <3>1, <3>2 DEF InHand
  <2>4. ASSUME scan'.pc = "free"
        PROVE  /\ scan' = scan /\ scan.p # p /\ scan.p \notin freed' /\ ca'[scan.p].refcount = 0
               /\ scan.p \in 1 .. last
    <3>1. scan' = scan /\ scan.p # p
      BY <1>10, <1>11, <2>4 DEF ScanEnds
    <3>2. scan.p \in 1 .. last /\ scan.p \notin freed /\ ca[scan.p].refcount = 0
      BY <1>0, <2>4, <3>1, Typed DEF InHand
    <3>. QED  BY <1>6, <2>4, <3>1, <3>2
  <2>5. task'.pc = "free" /\ scan'.pc = "free" => task'.p # scan'.p
    BY <1>0, <2>3, <2>4 DEF InHand
  <2>6. \A q \in freed' : Holding(q)' = 0
    BY <1>0, <1>7, <1>12 DEF InHand
  <2>. QED  BY <2>1, <2>2, <2>3, <2>4, <2>5, <2>6 DEF InHand
<1>19. Channeled'
  <2>1. \A q \in 1 .. last : Connects(q)' => q # p /\ Connects(q)
    BY <1>2, <1>4, <1>6, <1>8, <1>13 DEF Connects, Acting
  <2>2. ASSUME NEW q \in 1 .. last
        PROVE
           /\ chan'[q].state = "cleared" <=> q \in freed'
           /\ Connects(q)' => chan'[q].state = "none"
           /\ chan'[q].puts > 0 \/ chan'[q].subs # {} => chan'[q].state \in {"conn", "disc"}
           /\ chan'[q].state \in {"conn", "disc"} => chan'[q].shape \in inst.shapes
           /\ chan'[q].state = "conn" => chan'[q].access \in inst.rights
           /\ chan'[q].state = "disc" => lost > 0
           /\ ca'[q].gotFirstConnection =>
                 /\ ca'[q].shape \in inst.shapes /\ chan'[q].state \in {"conn", "disc"}
                 /\ lost = 0 => ~(cb.p = q /\ cb.pc = "notify")
           /\ ca'[q].isConnected => ca'[q].gotFirstConnection
    <3>1. CASE q = p
      <4>1. /\ chan'[q].state = "cleared" /\ chan'[q].subs = {} /\ chan'[q].puts = 0
            /\ q \in freed' /\ ~Connects(q)'
        BY <1>3, <1>5, <2>1, <3>1
      <4>2. ~ca'[q].gotFirstConnection /\ ~ca'[q].isConnected
        BY <1>2, <1>4, <3>1
      <4>. QED  BY <4>1, <4>2
    <3>2. CASE q # p
      BY <1>0, <1>6, <2>1, <3>2 DEF Channeled
    <3>. QED  BY <3>1, <3>2
  <2>3. /\ cb.pc = "idle" <=> cb.p = NoLink
        /\ cb.p # NoLink => chan'[cb.p].state \in {"conn", "disc"}
        /\ cb.pc = "callThenNotify" => chan'[cb.p].state = "disc"
    <3>1. cb.p # NoLink => cb.p \in Links
      BY <1>0, Typed, TypesThen
    <3>. QED  BY <1>0, <1>5, <1>9, <3>1 DEF Channeled
  <2>4. /\ task'.pc = "act" /\ "CA_CONNECT" \in task'.todo =>
              "CA_CONNECT" \notin ca'[task'.p].link_action
        /\ task'.pc \in Acting \ {"act"} => chan'[task'.p].state \in {"conn", "disc"}
    BY <1>0, <1>6, <1>13 DEF Channeled, Acting
  <2>. QED  BY <2>2, <2>3, <2>4 DEF Channeled
<1>20. Buffered'
  <2>1. \A q \in 1 .. last : \A a : Asked(q, a)' => Asked(q, a) /\ q # p
    BY <1>2, <1>4, <1>6, <1>13 DEF Asked
  <2>2. OneShape' = OneShape
    BY DEF OneShape
  <2>3. OneShape \/ lost' = 0 => \A q \in 1 .. last, k \in Kinds :
           Asked(q, Write[k])' => k \in ca'[q].pput /\ ca'[q].gotFirstConnection
    BY <1>0, <1>6, <2>1 DEF Buffered
  <2>4. ASSUME OneShape, NEW q \in 1 .. last
        PROVE  /\ \A s \in chan'[q].subs :
                     s.kind \in ca'[q].pget
                           /\ (s.kind = "string" => inst.shapes \subseteq EnumShapes)
               /\ Asked(q, Monitor["string"])' => inst.shapes \subseteq EnumShapes
               /\ \A k \in Kinds : task'.pc = Monitor[k] /\ task'.p = q => k \in ca'[q].pget
    <3>1. CASE q = p
      BY <1>3, <1>5, <1>13, <2>1, <3>1
    <3>2. CASE q # p
      BY <1>0, <1>6, <1>13, <2>1, <2>4, <3>2 DEF Buffered
    <3>. QED  BY <3>1, <3>2
  <2>5. OneShape /\ "string" \in link.pvlMask => inst.shapes \subseteq EnumShapes
    BY <1>0 DEF Buffered
  <2>. QED  BY <2>2, <2>3, <2>4, <2>5 DEF Buffered
<1>21. Answering'
  <2>0. Links' = Links
    BY DEF Links
  <2>1. CASE ~ca[p].putCallback
    <3>1. \A t : CallsBack(t)' <=> CallsBack(t)
      BY <2>1 DEF CallsBack, FreeTo, NextWork, Idle
    <3>2. \A q \in Links : /\ ca'[q].putCallback = ca[q].putCallback
                           /\ ca'[q].putCallback => ca'[q].putType = ca[q].putType
      BY <1>1, <1>2, <1>4, <2>1 DEF CaLinks
    <3>. QED  BY <1>0, <2>0, <3>1, <3>2 DEF Answering
  <2>2. CASE ca[p].putCallback
    <3>1. /\ \A q \in Links : ~ca'[q].putCallback
          /\ pact /\ \A t \in {"cb", "task", "scan"} : ~CallsBack(t)
          /\ inst.use \notin Inputs
      BY <1>0, <1>1, <1>2, <1>4, <2>2 DEF Answering
    <3>2. \E t \in {"cb", "task", "scan"} :
             CallsBack(t)' /\ \A u \in {"cb", "task", "scan"} : CallsBack(u)' => u = t
      <4>1. CASE task.pc = "free" /\ task.p = p /\ scan' = scan /\ task' = FreeTo(task, NextWork)
        <5>1. task'.pc = "call"
          BY <1>0, <2>2, <4>1 DEF FreeTo
        <5>. QED  BY <3>1, <4>1, <5>1 DEF CallsBack
      <4>2. CASE scan.pc = "free" /\ scan.p = p /\ task' = task /\ scan' = FreeTo(scan, Idle)
        <5>1. scan'.pc = "call"
          BY <1>0, <2>2, <4>2 DEF FreeTo
        <5>. QED  BY <3>1, <4>2, <5>1 DEF CallsBack
      <4>. QED  BY <4>1, <4>2
    <3>. QED  BY <2>0, <3>1, <3>2 DEF Answering
  <2>. QED  BY <2>1, <2>2
<1>22. Monitored'
  <2> DEFINE r == link.pvt
  <2>1. CASE r = NoLink
    BY <2>1 DEF Monitored
  <2>2. CASE r # NoLink
    <3>1. r \in 1 .. last /\ r # p
      BY <1>0, <1>8, <2>2, Typed, TypesThen
    <3>2. /\ Known(r)' <=> Known(r)
          /\ \A j \in Kinds : Subscribed(r, j)' <=> Subscribed(r, j)
          /\ \A a : Asked(r, a)' <=> Asked(r, a)
          /\ \A j \in Kinds : task'.p = r /\ task'.pc = Monitor[j] <=> task.p = r
                /\ task.pc = Monitor[j]
      BY <1>6, <1>13, <3>1 DEF Known, Subscribed, Asked
    <3>. QED  BY <1>0, <1>6, <2>2, <3>1, <3>2 DEF Monitored
  <2>. QED  BY <2>1, <2>2
<1>23. OneScan' /\ Scans'
  BY <1>0, <1>6, <1>12 DEF OneScan, Scans
<1>24. Stale' /\ NoLostScan'
  <2>1. stale => link.pvt \in 1 .. last /\ ca'[link.pvt].scanningOnce = ca[link.pvt].scanningOnce
    BY <1>0, <1>6, <1>8, Typed, TypesThen DEF Stale
  <2>2. stale => (ScanWaits(link.pvt)' <=> ScanWaits(link.pvt))
    BY <1>11, <2>1 DEF ScanWaits, Occurrences, ScanEnds
  <2>. QED  BY <1>0, <2>1, <2>2 DEF Stale, NoLostScan
<1>25. InputBuffered'
  BY <1>0, <1>2, <1>4 DEF InputBuffered, Links
<1>26. PutKept'
  <2>1. Links' = Links
    BY DEF Links
  <2>2. ASSUME NEW q \in Links, q # p, PutGoing(q) PROVE PutGoing(q)'
    <3>1. task.p = q => task' = task \/ ~ca[q].plink
      BY <1>0, <1>11 DEF InHand, Owned
    <3>. QED  BY <1>4, <1>5, <2>2, <3>1 DEF PutGoing
  <2>. QED  BY <1>0, <1>2, <1>4, <2>1, <2>2 DEF PutKept
<1>27. NoLostWakeup' /\ AssertsHold'
  BY <1>0, <1>13, WakesKept DEF AssertsHold
<1>. QED  BY <1>14, <1>15, <1>16, <1>17, <1>18, <1>19, <1>20, <1>21, <1>22, <1>23, <1>24, <1>25,
             <1>26, <1>27 DEF CaInv

\* dbCaTask frees it.
LEMMA TaskFreeStep ==
    ASSUME CaInv, asserted = {}, TaskFree
    PROVE  CaInv'
<1>1. task.pc = "free" /\ task.p \in 1 .. last /\ task.p \notin freed /\ ca[task.p].refcount = 0
  BY Typed, TypesThen DEF CaInv, InHand, TaskFree, Free
<1>. QED  BY <1>1, FreeKeeps DEF TaskFree, Free, recVars, listVars

\* The thread that serves scan requests frees it.
LEMMA ScanFreeStep ==
    ASSUME CaInv, asserted = {}, ScanFree
    PROVE  CaInv'
<1>1. scan.pc = "free" /\ scan.p \in 1 .. last /\ scan.p \notin freed /\ ca[scan.p].refcount = 0
  BY Typed, TypesThen DEF CaInv, InHand, ScanFree, Free
<1>. QED  BY <1>1, FreeKeeps DEF ScanFree, Free, recVars, listVars
-----------------------------------------------------------------------------
(* The work list.                                                          *)

\* The removals are finitely many.
LEMMA ClearingFinite ==
    ASSUME Types
    PROVE  IsFiniteSet(Clearing) /\ Cardinality(Clearing) \in Nat
<1>1. Clearing \in SUBSET (1 .. last) /\ last \in Nat
  BY Typed DEF Clearing
<1>2. IsFiniteSet(1 .. last)
  BY <1>1, FS_Interval
<1>. QED  BY <1>1, <1>2, FS_Subset, FS_CardinalityType

\* dbCaTask takes the head of the list with its actions; after CA_CLEAR_CHANNEL its own reference
\* is what is left of the link.
LEMMA TaskTakeStep ==
    ASSUME CaInv, asserted = {}, TaskTake
    PROVE  CaInv'
<1>a. PICK p : p = Head(workList)
  OBVIOUS
<1> DEFINE acts == ca[p].link_action
           clears == "CA_CLEAR_CHANNEL" \in acts
           d == [ca[p] EXCEPT !.link_action = {}]
<1>0. /\ Types /\ Unused /\ Linked /\ Listed /\ Removes /\ InHand /\ Channeled /\ Buffered
      /\ Answering /\ Stale /\ Monitored /\ AssertsHold
      /\ RefsCounted /\ NoLostWakeup /\ OneScan /\ Scans /\ InputBuffered /\ PutKept /\ NoLostScan
  BY DEF CaInv
<1>1. /\ task.pc = "work" /\ workList # <<>> /\ p # TempLink /\ workList' = Tail(workList)
      /\ ca' = [ca EXCEPT ![p] = d]
      /\ removesOutstanding' = IF clears THEN removesOutstanding - 1 ELSE removesOutstanding
      /\ task' = [pc |-> IF clears THEN "dec" ELSE "act", p |-> p, todo |-> acts]
      /\ UNCHANGED <<inst, link, last, freed, chan, workListEvent, dbCaCtl, cb, onceQ, scan, user,
                     pact, lost, refused, asserted, unsubscribed, paused, stale>>
  BY <1>a DEF TaskTake, recVars, scanVars
<1>2. /\ p \in 1 .. last /\ p \in Links /\ p # NoLink /\ workList' \in Seq(0 .. last)
      /\ \A q : /\ Occurrences(workList, q) \in Nat /\ Occurrences(workList', q) \in Nat
                /\ Occurrences(workList, q) = Occurrences(workList', q) + (IF q = p THEN 1 ELSE 0)
  <2>1. last \in Nat /\ workList \in Seq(0 .. last)
    BY <1>0, Typed, TypesThen
  <2>2. /\ p \in 0 .. last /\ workList' \in Seq(0 .. last)
        /\ \A q : /\ Occurrences(workList, q) \in Nat
                  /\ Occurrences(workList, q) = Occurrences(workList', q) + (IF q = p THEN 1 ELSE 0)
    BY <1>1, <1>a, <2>1, ListOccurs
  <2>3. \A q : Occurrences(workList', q) \in Nat
    BY <2>1, <2>2, ListOccurs
  <2>4. p \in 1 .. last /\ p # NoLink
    BY <1>0, <1>1, <2>2, Typed DEF TempLink, NoLink
  <2>. QED  BY <1>0, <2>2, <2>3, <2>4, Typed
<1>3. /\ Occurrences(workList', p) = 0 /\ acts # {} /\ Owned(p) /\ p \notin freed
      /\ clears => ~ca[p].plink /\ user.p # p
      /\ task.p = NoLink
  <2>1. Occurrences(workList, p) \in {0, 1} /\ (acts = {} => Occurrences(workList, p) = 0)
    BY <1>0, <1>2 DEF Listed
  <2>2. Occurrences(workList', p) = 0 /\ acts # {}
    BY <1>2, <2>1
  <2>3. /\ Owned(p) /\ p \notin freed /\ (clears => ~ca[p].plink /\ user.p # p)
    BY <1>0, <1>2, <2>2 DEF Linked, Clears
  <2>. QED  BY <1>0, <1>1, <2>2, <2>3 DEF InHand
<1>4. /\ d \in CaLinks /\ SameRest(d, ca[p]) /\ d.link_action = {} /\ acts \in SUBSET LinkBits
  <2>1. ca[p] \in CaLinks
    BY <1>0, <1>2, TypesThen
  <2>. HIDE DEF LinkBits
  <2>. QED  BY <2>1 DEF CaLinks, SameRest
<1>. HIDE DEF d
<1>5. /\ ca' \in [Links -> CaLinks] /\ ca'[p] = d /\ \A q \in Links : q # p => ca'[q] = ca[q]
      /\ \A q \in Links : SameRest(ca'[q], ca[q])
  <2>1. /\ ca' \in [Links -> CaLinks] /\ ca'[p] = d /\ \A q \in Links : q # p => ca'[q] = ca[q]
    BY <1>0, <1>1, <1>2, <1>4, OneChanged
  <2>2. \A c : SameRest(c, c)
    BY DEF SameRest
  <2>. QED  BY <1>4, <2>1, <2>2
<1>6. /\ \A q \in Links :
            /\ ca'[q].refcount = ca[q].refcount /\ ca'[q].scanningOnce = ca[q].scanningOnce
            /\ ca'[q].plink = ca[q].plink /\ ca'[q].putCallback = ca[q].putCallback
            /\ ca'[q].putType = ca[q].putType /\ ca'[q].gotIn = ca[q].gotIn
            /\ ca'[q].pget = ca[q].pget /\ ca'[q].pput = ca[q].pput
            /\ ca'[q].gotFirstConnection = ca[q].gotFirstConnection /\ ca'[q].shape = ca[q].shape
            /\ ca'[q].isConnected = ca[q].isConnected
      /\ \A q \in 1 .. last : q \in Links
      /\ \A q \in Links : q # p => ca'[q].link_action = ca[q].link_action
      /\ ca'[p].link_action = {}
  BY <1>0, <1>4, <1>5, Typed DEF SameRest
<1>7. /\ task'.pc = (IF clears THEN "dec" ELSE "act") /\ task'.p = p /\ task'.todo = acts
      /\ task' \in [pc : TaskPlaces, p : 0 .. last, todo : SUBSET LinkBits]
  <2>1. p \in 0 .. last
    BY <1>0, <1>2, Typed
  <2>. HIDE DEF LinkBits
  <2>. QED  BY <1>1, <1>4, <2>1 DEF TaskPlaces, Acting
<1>8. /\ \A q \in 1 .. last : q # p => (Owned(q)' <=> Owned(q)) /\ (Clears(q)' <=> Clears(q))
      /\ ~Clears(p)' /\ (Owned(p)' <=> ~clears)
  <2>1. \A q \in 1 .. last : q # p => (Owned(q)' <=> Owned(q)) /\ (Clears(q)' <=> Clears(q))
    BY <1>1, <1>6 DEF Owned, Clears
  <2>2. ~Clears(p)' /\ (Owned(p)' <=> ~clears)
    BY <1>1, <1>2, <1>3, <1>6 DEF Owned, Clears
  <2>. QED  BY <2>1, <2>2
<1>9. Types' /\ Unused'
  <2>1. removesOutstanding' \in Nat
    <3>1. CASE clears
      <4>1. p \in Clearing /\ IsFiniteSet(Clearing)
        <5>1. p \in Clearing
          BY <1>2, <3>1 DEF Clearing, Clears
        <5>. QED  BY <1>0, <5>1, ClearingFinite
      <4>2. Cardinality(Clearing) \in Nat \ {0}
        BY <4>1, FS_CardinalityType, FS_EmptySet
      <4>. QED  BY <1>0, <1>1, <4>2 DEF Removes
    <3>2. CASE ~clears
      BY <1>0, <1>1, <3>2, TypesThen
    <3>. QED  BY <3>1, <3>2
  <2>2. Types'
    BY <1>0, <1>1, <1>2, <1>5, <1>7, <2>1, TypesThen, TypesKept
  <2>3. \A q \in Links : q > last => q # p
    BY <1>0, <1>2, Typed
  <2>. QED  BY <1>0, <1>1, <1>5, <2>2, <2>3, UnusedKept
<1>10. Linked'
  <2>1. \A q \in 1 .. last :
           /\ ca'[q].plink <=> link.pvt = q
           /\ ca'[q].link_action # {} => Owned(q)'
           /\ Clears(q)' => ~ca'[q].plink /\ user.p # q
           /\ q \in freed => ~Owned(q)'
    BY <1>0, <1>3, <1>6, <1>8 DEF Linked
  <2>2. /\ user.p # NoLink => user.p \in 1 .. last
        /\ user.pc = "pausing" => user.p # NoLink
    BY <1>0, Typed, TypesThen DEF Linked
  <2>. QED  BY <1>0, <1>1, <1>6, <2>1, <2>2 DEF Linked
<1>11. Listed'
  <2>1. ASSUME NEW q \in 1 .. last
        PROVE  /\ Occurrences(workList', q) \in {0, 1}
               /\ ca'[q].link_action = {} => Occurrences(workList', q) = 0
               /\ q \notin paused /\ ca'[q].link_action # {} => Occurrences(workList', q) = 1
    <3>1. CASE q = p
      BY <1>3, <1>6, <3>1
    <3>2. CASE q # p
      <4>1. Occurrences(workList', q) = Occurrences(workList, q)
        BY <1>2, <3>2
      <4>2. ca'[q].link_action = ca[q].link_action
        BY <1>6, <3>2
      <4>3. /\ Occurrences(workList, q) \in {0, 1}
            /\ ca[q].link_action = {} => Occurrences(workList, q) = 0
            /\ q \notin paused /\ ca[q].link_action # {} => Occurrences(workList, q) = 1
        BY <1>0 DEF Listed
      <4>. QED  BY <4>1, <4>2, <4>3
    <3>. QED  BY <3>1, <3>2
  <2>2. Occurrences(workList', TempLink) = Occurrences(workList, TempLink)
    BY <1>1, <1>2
  <2>3. Occurrences(workList, TempLink) = IF user.pc = "syncing" THEN 1 ELSE 0
    BY <1>0 DEF Listed
  <2>4. Occurrences(workList', TempLink) = IF user'.pc = "syncing" THEN 1 ELSE 0
    BY <1>1, <2>2, <2>3
  <2>. QED  BY <1>1, <2>1, <2>4 DEF Listed
<1>12. Removes'
  <2>1. IsFiniteSet(Clearing) /\ Cardinality(Clearing) \in Nat
    BY <1>0, ClearingFinite
  <2>2. Clearing' = Clearing \ {p} /\ (p \in Clearing <=> clears)
    <3>1. p \in Clearing <=> clears
      BY <1>2 DEF Clearing, Clears
    <3>. QED  BY <1>1, <1>8, <3>1 DEF Clearing
  <2>3. Cardinality(Clearing \ {p}) = Cardinality(Clearing) - (IF clears THEN 1 ELSE 0)
    <3>1. Cardinality(Clearing \ {p}) = IF p \in Clearing THEN Cardinality(Clearing) - 1
                                                           ELSE Cardinality(Clearing)
      BY <2>1, FS_RemoveElement
    <3>. QED  BY <2>1, <2>2, <3>1
  <2>. QED  BY <1>0, <1>1, <2>1, <2>2, <2>3 DEF Removes
<1>13. \A q : Holding(q)' = Holding(q)
  BY <1>0, <1>1, RequestsKept DEF ScanGoes
<1>14. RefsCounted'
  <2>1. \A q \in 1 .. last : TaskHolds(q)' <=> TaskHolds(q)
    <3>1. \A q \in 1 .. last : q # p => (TaskHolds(q)' <=> TaskHolds(q))
      BY <1>1, <1>7, <1>8, HoldsOwned
    <3>2. TaskHolds(p)' /\ TaskHolds(p)
      BY <1>3, <1>7, <1>8, HoldsOwned
    <3>. QED  BY <3>1, <3>2
  <2>. QED  BY <1>0, <1>1, <1>6, <1>13, <2>1 DEF RefsCounted
<1>15. InHand'
  <2>1. /\ task'.pc \in Acting => task'.pc = "act" /\ Owned(p)'
        /\ task'.pc \in {"dec", "free"} => task'.pc = "dec" /\ ~Owned(p)'
        /\ task'.pc \notin {"wait", "work", "ctl", "shutdown", "free"}
              /\ \A k \in Kinds : task'.pc # Monitor[k]
    BY <1>7, <1>8 DEF Acting, Monitors, Monitor, Kinds
  <2>2. scan.pc = "free" => scan.p \in Links
    BY <1>0, Typed, TypesThen DEF InHand
  <2>3. \A q : freed' = freed /\ (q \in freed => Holding(q)' = 0)
    BY <1>0, <1>1, <1>13 DEF InHand
  <2>. QED  BY <1>0, <1>1, <1>2, <1>3, <1>6, <1>7, <2>1, <2>2, <2>3 DEF InHand
<1>16. Channeled'
  <2>1. \A q \in 1 .. last : Connects(q)' => Connects(q)
    BY <1>6, <1>7 DEF Connects
  <2>2. cb.p # NoLink => cb.p \in 1 .. last
    BY <1>0, Typed, TypesThen
  <2>3. task'.pc \notin Acting \ {"act"}
    BY <1>7 DEF Acting, Monitors, Monitor, Kinds
  <2>4. \A q \in 1 .. last :
           /\ chan[q].state = "cleared" <=> q \in freed
           /\ Connects(q)' => chan[q].state = "none"
           /\ chan[q].puts > 0 \/ chan[q].subs # {} => chan[q].state \in {"conn", "disc"}
           /\ chan[q].state \in {"conn", "disc"} => chan[q].shape \in inst.shapes
           /\ chan[q].state = "conn" => chan[q].access \in inst.rights
           /\ chan[q].state = "disc" => lost > 0
           /\ ca'[q].gotFirstConnection =>
                 /\ ca'[q].shape \in inst.shapes /\ chan[q].state \in {"conn", "disc"}
                 /\ lost = 0 => ~(cb.p = q /\ cb.pc = "notify")
           /\ ca'[q].isConnected => ca'[q].gotFirstConnection
    BY <1>0, <1>6, <2>1 DEF Channeled
  <2>5. /\ cb.pc = "idle" <=> cb.p = NoLink
        /\ cb.p # NoLink => chan[cb.p].state \in {"conn", "disc"}
        /\ cb.pc = "callThenNotify" => chan[cb.p].state = "disc"
    BY <1>0 DEF Channeled
  <2>. QED  BY <1>1, <1>6, <1>7, <2>3, <2>4, <2>5 DEF Channeled
<1>17. \A q \in 1 .. last : \A a : Asked(q, a)' => Asked(q, a)
  BY <1>6, <1>7 DEF Asked
<1>18. \A k \in Kinds : task'.pc # Monitor[k] /\ task.pc # Monitor[k]
  BY <1>1, <1>7 DEF Monitor, Kinds
<1>19. Buffered'
  <2>1. OneShape' = OneShape
    BY <1>1 DEF OneShape
  <2>2. OneShape \/ lost = 0 => \A q \in 1 .. last, k \in Kinds :
           Asked(q, Write[k])' => k \in ca'[q].pput /\ ca'[q].gotFirstConnection
    BY <1>0, <1>6, <1>17 DEF Buffered
  <2>3. ASSUME OneShape, NEW q \in 1 .. last
        PROVE  /\ \A s \in chan[q].subs :
                     s.kind \in ca'[q].pget
                           /\ (s.kind = "string" => inst.shapes \subseteq EnumShapes)
               /\ Asked(q, Monitor["string"])' => inst.shapes \subseteq EnumShapes
    BY <1>0, <1>6, <1>17, <2>3 DEF Buffered
  <2>4. OneShape /\ "string" \in link.pvlMask => inst.shapes \subseteq EnumShapes
    BY <1>0 DEF Buffered
  <2>. QED  BY <1>1, <1>18, <2>1, <2>2, <2>3, <2>4 DEF Buffered
<1>20. Answering'
  <2>1. \A t : CallsBack(t)' <=> CallsBack(t)
    BY <1>0, <1>1, <1>7, CallsBackKept
  <2>. QED  BY <1>0, <1>1, <1>6, <2>1, AnsweringKept
<1>21. Monitored'
  <2> DEFINE r == link.pvt
  <2>1. CASE r = NoLink
    BY <1>1, <2>1 DEF Monitored
  <2>2. CASE r # NoLink
    <3>1. r \in 1 .. last
      BY <1>0, <2>2, Typed, TypesThen
    <3>2. r = p => ~clears /\ task'.pc = "act"
      BY <1>0, <1>3, <1>7, <3>1 DEF Linked
    <3>3. /\ Known(r)' <=> Known(r)
          /\ \A j \in Kinds : Subscribed(r, j)' <=> Subscribed(r, j)
          /\ \A a : Asked(r, a)' <=> Asked(r, a)
      <4>1. \A a : Asked(r, a) => Asked(r, a)'
        BY <1>1, <1>3, <1>6, <1>7, <2>2, <3>1, <3>2 DEF Asked, Acting
      <4>. QED  BY <1>1, <1>17, <3>1, <4>1 DEF Known, Subscribed
    <3>4. ca'[r].pget = ca[r].pget
      BY <1>6, <3>1
    <3>. QED  BY <1>0, <1>1, <1>18, <2>2, <3>3, <3>4 DEF Monitored
  <2>. QED  BY <2>1, <2>2
<1>22. OneScan' /\ Scans'
  BY <1>0, <1>1, <1>6, ScansKept DEF ScanGoes
<1>23. Stale' /\ NoLostScan'
  BY <1>0, <1>1, <1>6, StaleKept
<1>24. InputBuffered'
  BY <1>0, <1>1, <1>6 DEF InputBuffered, Links
<1>25. PutKept'
  <2>1. Links' = Links
    BY <1>1 DEF Links
  <2>2. ASSUME NEW q \in Links, PutGoing(q) PROVE PutGoing(q)'
    <3>1. q # NoLink
      BY <1>0, Typed
    <3>. QED  BY <1>1, <1>3, <1>6, <1>7, <2>2, <3>1 DEF PutGoing
  <2>. QED  BY <1>0, <1>1, <1>6, <2>1, <2>2 DEF PutKept
<1>26. NoLostWakeup' /\ AssertsHold'
  BY <1>0, <1>1, <1>7 DEF AssertsHold, NoLostWakeup
<1>. QED  BY <1>9, <1>10, <1>11, <1>12, <1>14, <1>15, <1>16, <1>19, <1>20, <1>21, <1>22, <1>23,
             <1>24, <1>25, <1>26 DEF CaInv

\* A step of the list, the event, the control word or the user's thread alone.
LEMMA QuietKeeps ==
    ASSUME CaInv, user'.p = user.p,
           UNCHANGED <<inst, link, last, ca, freed, chan, task, cb, onceQ, scan, pact, asserted,
                       lost, refused, unsubscribed, stale>>,
           workList' \in Seq(0 .. last), workListEvent' \in BOOLEAN,
           dbCaCtl' \in {"ctlRun", "ctlPause", "ctlExit"}, removesOutstanding' \in Nat,
           user' \in [pc : {"idle", "removing", "pausing", "syncing", "joining"}, p : 0 .. last,
                      callAdd : BOOLEAN],
           paused' \subseteq 1 .. last,
           Linked', Listed', Removes', NoLostWakeup'
    PROVE  CaInv'
<1>0. /\ Types /\ Unused /\ InHand /\ Channeled /\ Buffered
      /\ Answering /\ Stale /\ Monitored /\ AssertsHold
      /\ RefsCounted /\ OneScan /\ Scans /\ InputBuffered /\ PutKept /\ NoLostScan
  BY DEF CaInv
<1>1. /\ SameOnList /\ SameConnection /\ SameChannels /\ CallbackGoes /\ TaskGoes /\ ScanGoes
      /\ Links' = Links
  BY DEF SameOnList, SameConnection, SameChannels, CallbackGoes, TaskGoes, ScanGoes, Links
<1>2. Types'
  BY <1>0, TypesThen, TypesKept
<1>3. Unused'
  BY <1>0, UnusedKept
<1>4. \A q \in 1 .. last : (Owned(q)' <=> Owned(q))
  BY <1>0, <1>1, OwnedKept
<1>5. InHand' /\ RefsCounted'
  BY <1>0, <1>1, <1>4, HandsKept
<1>6. Channeled'
  BY <1>0, <1>1, ChannelsKept
<1>7. Buffered'
  BY <1>0, <1>1, BuffersKept
<1>8. Answering'
  <2>1. \A t : CallsBack(t)' <=> CallsBack(t)
    BY DEF CallsBack
  <2>. QED  BY <1>0, <2>1, AnsweringKept
<1>9. Monitored'
  <2>1. \A q \in Links : Known(q)' => Known(q)
    BY DEF Known
  <2>. QED  BY <1>0, <2>1, MonitoredKept
<1>10. OneScan' /\ Scans'
  BY <1>0, <1>1, ScansKept
<1>11. Stale' /\ NoLostScan'
  BY <1>0, StaleKept
<1>12. InputBuffered' /\ AssertsHold'
  BY <1>0, <1>1 DEF InputBuffered, AssertsHold
<1>13. PutKept'
  BY <1>0, PutsKept
<1>. QED  BY <1>2, <1>3, <1>5, <1>6, <1>7, <1>8, <1>9, <1>10, <1>11, <1>12, <1>13 DEF CaInv

\* The thread that waits for dbCaTask is woken.
LEMMA TaskSyncStep ==
    ASSUME CaInv, asserted = {}, TaskSync
    PROVE  CaInv'
<1>0. /\ Types /\ Linked /\ Listed /\ Removes
      /\ user \in [pc : {"idle", "removing", "pausing", "syncing", "joining"}, p : 0 .. last,
                   callAdd : BOOLEAN]
  BY DEF CaInv, Types
<1>1. /\ task.pc = "work" /\ workList # <<>> /\ Head(workList) = TempLink
      /\ workList' = Tail(workList) /\ user' = [user EXCEPT !.pc = "idle"]
      /\ UNCHANGED <<inst, link, last, ca, freed, chan, workListEvent, dbCaCtl, task, cb, onceQ,
                     scan, removesOutstanding, pact, lost, refused, asserted, unsubscribed,
                     paused, stale>>
  BY DEF TaskSync, recVars, scanVars
<1>2. /\ workList' \in Seq(0 .. last)
      /\ \A q : /\ Occurrences(workList', q) \in Nat
                /\ Occurrences(workList, q) = Occurrences(workList', q) +
                      (IF q = TempLink THEN 1 ELSE 0)
  <2>1. last \in Nat /\ workList \in Seq(0 .. last)
    BY <1>0, Typed, TypesThen
  <2>2. /\ workList' \in Seq(0 .. last)
        /\ \A q : Occurrences(workList, q) = Occurrences(workList', q) +
              (IF q = TempLink THEN 1 ELSE 0)
    BY <1>1, <2>1, ListOccurs
  <2>. QED  BY <2>1, <2>2, ListOccurs
<1>3. user.pc = "syncing" /\ Occurrences(workList', TempLink) = 0
  BY <1>0, <1>2 DEF Listed
<1>4. /\ user'.pc = "idle" /\ user'.p = user.p
      /\ user' \in [pc : {"idle", "removing", "pausing", "syncing", "joining"}, p : 0 .. last,
                    callAdd : BOOLEAN]
  BY <1>0, <1>1
<1>5. \A q \in 1 .. last : q # TempLink /\ (Clears(q)' <=> Clears(q)) /\ (Owned(q)' <=> Owned(q))
  BY <1>0, <1>1, <1>4, Typed DEF Clears, Owned, TempLink, NoLink
<1>6. Linked'
  BY <1>0, <1>1, <1>3, <1>4, <1>5 DEF Linked
<1>7. Listed'
  BY <1>0, <1>1, <1>2, <1>3, <1>4, <1>5 DEF Listed
<1>8. Removes'
  BY <1>0, <1>1, <1>3, <1>4, <1>5 DEF Removes, Clearing
<1>9. NoLostWakeup'
  BY <1>1 DEF NoLostWakeup
<1>. QED  BY <1>0, <1>1, <1>2, <1>4, <1>6, <1>7, <1>8, <1>9, TypesThen, QuietKeeps
-----------------------------------------------------------------------------
(* The thread that sets, removes and processes the record, and the shell.  *)

\* A thread waits for dbCaTask: its templink goes on the list.
LEMMA dbCaSyncStep ==
    ASSUME CaInv, asserted = {}, dbCaSync
    PROVE  CaInv'
<1>0. /\ Types /\ Linked /\ Listed /\ Removes
      /\ user \in [pc : {"idle", "removing", "pausing", "syncing", "joining"}, p : 0 .. last,
                   callAdd : BOOLEAN]
  BY DEF CaInv, Types
<1>1. /\ user.pc = "idle" /\ user' = [user EXCEPT !.pc = "syncing"]
      /\ workList' = Append(workList, TempLink) /\ workListEvent' = TRUE
      /\ UNCHANGED <<inst, link, last, ca, freed, chan, dbCaCtl, task, cb, onceQ,
                     scan, removesOutstanding, pact, lost, refused, asserted, unsubscribed,
                     paused, stale>>
  BY DEF dbCaSync, recVars, scanVars
<1>2. /\ workList' \in Seq(0 .. last)
      /\ \A q : /\ Occurrences(workList, q) \in Nat
                /\ Occurrences(workList', q) = Occurrences(workList, q) +
                      (IF q = TempLink THEN 1 ELSE 0)
  <2>1. last \in Nat /\ workList \in Seq(0 .. last) /\ TempLink \in 0 .. last
    BY <1>0, Typed, TypesThen DEF TempLink
  <2>2. Append(workList, TempLink) \in Seq(0 .. last)
    BY <2>1
  <2>. QED  BY <1>1, <2>1, <2>2, ListOccurs
<1>3. Occurrences(workList, TempLink) = 0
  BY <1>0, <1>1 DEF Listed
<1>4. /\ user'.pc = "syncing" /\ user'.p = user.p
      /\ user' \in [pc : {"idle", "removing", "pausing", "syncing", "joining"}, p : 0 .. last,
                    callAdd : BOOLEAN]
  BY <1>0, <1>1
<1>5. \A q \in 1 .. last : q # TempLink /\ (Clears(q)' <=> Clears(q)) /\ (Owned(q)' <=> Owned(q))
  BY <1>0, <1>1, <1>4, Typed DEF Clears, Owned, TempLink, NoLink
<1>6. Linked'
  BY <1>0, <1>1, <1>4, <1>5 DEF Linked
<1>7. Listed'
  BY <1>0, <1>1, <1>2, <1>3, <1>4, <1>5 DEF Listed
<1>8. Removes'
  BY <1>0, <1>1, <1>4, <1>5 DEF Removes, Clearing
<1>9. NoLostWakeup'
  BY <1>1 DEF NoLostWakeup
<1>. QED  BY <1>0, <1>1, <1>2, <1>4, <1>6, <1>7, <1>8, <1>9, TypesThen, QuietKeeps

\* The shell's thread runs or pauses dbCaTask, or has it end.
LEMMA SetCtlKeeps ==
    ASSUME CaInv, NEW from, NEW to \in {"ctlRun", "ctlPause", "ctlExit"}, SetCtl(from, to),
           \/ user' = user
           \/ user.pc = "idle" /\ user' = [user EXCEPT !.pc = "joining"]
    PROVE  CaInv'
<1>0. /\ Types /\ Linked /\ Listed /\ Removes
      /\ user \in [pc : {"idle", "removing", "pausing", "syncing", "joining"}, p : 0 .. last,
                   callAdd : BOOLEAN]
  BY DEF CaInv, Types
<1>1. /\ dbCaCtl' = to /\ workListEvent' = TRUE
      /\ UNCHANGED <<inst, link, last, ca, freed, chan, workList, task, cb, onceQ,
                     scan, removesOutstanding, pact, lost, refused, asserted, unsubscribed,
                     paused, stale>>
  BY DEF SetCtl, recVars, scanVars
<1>2. /\ user'.p = user.p /\ user'.callAdd = user.callAdd
      /\ user'.pc \in {"removing", "pausing", "syncing"}
            \/ user.pc \in {"removing", "pausing", "syncing"}
            => user' = user
      /\ user' \in [pc : {"idle", "removing", "pausing", "syncing", "joining"}, p : 0 .. last,
                    callAdd : BOOLEAN]
  BY <1>0
<1>3. \A q \in 1 .. last : (Clears(q)' <=> Clears(q)) /\ (Owned(q)' <=> Owned(q))
  BY <1>1, <1>2 DEF Clears, Owned
<1>4. /\ user'.pc \in {"removing", "pausing"} <=> user.pc \in {"removing", "pausing"}
      /\ user'.pc = "pausing" <=> user.pc = "pausing"
      /\ user'.pc = "syncing" <=> user.pc = "syncing"
  BY <1>2
<1>5. Linked'
  BY <1>0, <1>1, <1>2, <1>3, <1>4 DEF Linked
<1>6. Listed'
  BY <1>0, <1>1, <1>4 DEF Listed
<1>7. Removes'
  BY <1>0, <1>1, <1>3, <1>4 DEF Removes, Clearing
<1>8. NoLostWakeup'
  BY <1>1 DEF NoLostWakeup
<1>. QED  BY <1>0, <1>1, <1>2, <1>5, <1>6, <1>7, <1>8, TypesThen, QuietKeeps

\* iocRun, iocPause and iocShutdown keep the invariant.
LEMMA ControlStep ==
    ASSUME CaInv, asserted = {}, dbCaRun \/ dbCaPause \/ dbCaShutdown
    PROVE  CaInv'
<1>1. CASE dbCaRun
  <2>1. SetCtl({"ctlPause"}, "ctlRun") /\ user' = user
    BY <1>1 DEF dbCaRun
  <2>. QED  BY <2>1, SetCtlKeeps
<1>2. CASE dbCaPause
  <2>1. SetCtl({"ctlRun"}, "ctlPause") /\ user' = user
    BY <1>2 DEF dbCaPause
  <2>. QED  BY <2>1, SetCtlKeeps
<1>3. CASE dbCaShutdown
  <2>1. /\ SetCtl({"ctlRun", "ctlPause"}, "ctlExit")
        /\ user.pc = "idle" /\ user' = [user EXCEPT !.pc = "joining"]
    BY <1>3 DEF dbCaShutdown
  <2>. QED  BY <2>1, SetCtlKeeps
<1>. QED  BY <1>1, <1>2, <1>3

\* A removal that finds too many others outstanding pauses.
LEMMA RemovePauseStep ==
    ASSUME CaInv, asserted = {}, RemovePause
    PROVE  CaInv'
<1> DEFINE p == user.p
<1>0. /\ Types /\ Linked /\ Listed /\ Removes /\ NoLostWakeup
      /\ user \in [pc : {"idle", "removing", "pausing", "syncing", "joining"}, p : 0 .. last,
                   callAdd : BOOLEAN]
      /\ removesOutstanding \in Nat
  BY DEF CaInv, Types
<1>1. /\ user.pc = "removing" /\ removesOutstanding' = removesOutstanding + 1
      /\ user' = [user EXCEPT !.pc = "pausing", !.callAdd = (ca[p].link_action = {})]
      /\ paused' = paused \cup {p}
      /\ UNCHANGED <<inst, link, last, ca, freed, chan, workList, workListEvent, dbCaCtl, task, cb,
                     onceQ, scan, pact, lost, refused, asserted, unsubscribed, stale>>
  BY DEF RemovePause, scanVars
<1>2. /\ user'.pc = "pausing" /\ user'.p = p /\ user'.callAdd = (ca[p].link_action = {})
      /\ user' \in [pc : {"idle", "removing", "pausing", "syncing", "joining"}, p : 0 .. last,
                    callAdd : BOOLEAN]
  BY <1>0, <1>1
<1>3. p \in 1 .. last
  BY <1>0, <1>1, Typed DEF Linked
<1>4. \A q \in 1 .. last : (Clears(q)' <=> Clears(q)) /\ (Owned(q)' <=> Owned(q))
  BY <1>1, <1>2 DEF Clears, Owned
<1>5. paused' \subseteq 1 .. last /\ removesOutstanding' \in Nat
  BY <1>0, <1>1, <1>3 DEF Types
<1>6. Linked'
  BY <1>0, <1>1, <1>2, <1>3, <1>4 DEF Linked
<1>7. Listed'
  <2>1. \A q : q \notin paused' => q \notin paused
    BY <1>1
  <2>. QED  BY <1>0, <1>1, <1>2, <2>1 DEF Listed
<1>8. Removes'
  <2>1. Clearing' = Clearing
    BY <1>1, <1>4 DEF Clearing
  <2>. QED  BY <1>0, <1>1, <1>2, <2>1, ClearingFinite DEF Removes
<1>9. NoLostWakeup'
  BY <1>0, <1>1 DEF NoLostWakeup
<1>. QED  BY <1>0, <1>1, <1>2, <1>5, <1>6, <1>7, <1>8, <1>9, TypesThen, QuietKeeps
-----------------------------------------------------------------------------
\* The buffers, when actions are asked for: what is new has its buffer.
LEMMA BuffersThen ==
    ASSUME Types, Buffered, UNCHANGED <<inst, last, task>>, lost' = 0 => lost = 0,
           OneShape /\ "string" \in link'.pvlMask =>
               "string" \in link.pvlMask \/ inst.shapes \subseteq EnumShapes,
           \A q \in 1 .. last : \A k \in Kinds :
               (OneShape \/ lost' = 0) /\ Write[k] \in ca'[q].link_action =>
                   \/ Write[k] \in ca[q].link_action
                   \/ k \in ca'[q].pput /\ ca'[q].gotFirstConnection,
           \A q \in 1 .. last : OneShape /\ Monitor["string"] \in ca'[q].link_action =>
               Monitor["string"] \in ca[q].link_action \/ inst.shapes \subseteq EnumShapes,
           OneShape \/ lost' = 0 => \A q \in 1 .. last :
               /\ ca[q].pput \subseteq ca'[q].pput /\ ca[q].pget \subseteq ca'[q].pget
               /\ ca[q].gotFirstConnection => ca'[q].gotFirstConnection
               /\ chan'[q].subs \subseteq chan[q].subs
    PROVE  Buffered'
<1>1. OneShape' = OneShape
  BY DEF OneShape
<1>2. OneShape \/ lost' = 0 => \A q \in 1 .. last, k \in Kinds :
         Asked(q, Write[k])' => k \in ca'[q].pput /\ ca'[q].gotFirstConnection
  <2>1. ASSUME OneShape \/ lost' = 0, NEW q \in 1 .. last, NEW k \in Kinds, Asked(q, Write[k])'
        PROVE  k \in ca'[q].pput /\ ca'[q].gotFirstConnection
    <3>1. Asked(q, Write[k]) \/ (k \in ca'[q].pput /\ ca'[q].gotFirstConnection)
      BY <2>1 DEF Asked
    <3>. QED  BY <2>1, <3>1 DEF Buffered
  <2>. QED  BY <2>1
<1>3. ASSUME OneShape, NEW q \in 1 .. last
      PROVE  /\ \A s \in chan'[q].subs :
                   s.kind \in ca'[q].pget /\ (s.kind = "string" => inst.shapes \subseteq EnumShapes)
             /\ Asked(q, Monitor["string"])' => inst.shapes \subseteq EnumShapes
             /\ \A k \in Kinds : task'.pc = Monitor[k] /\ task'.p = q => k \in ca'[q].pget
  <2>1. Asked(q, Monitor["string"])' => Asked(q, Monitor["string"])
              \/ inst.shapes \subseteq EnumShapes
    BY <1>3 DEF Asked
  <2>. QED  BY <1>3, <2>1 DEF Buffered
<1>. QED  BY <1>1, <1>2, <1>3 DEF Buffered

\* The subscriptions of the link, when it is asked for more or calls come from the library.
LEMMA MonitoredThen ==
    ASSUME Types, Monitored, link' = link, UNCHANGED <<inst, last, unsubscribed, task>>,
           link.pvt # NoLink =>
               /\ Known(link.pvt)' => Known(link.pvt)
               /\ ca[link.pvt].link_action \subseteq ca'[link.pvt].link_action
               /\ ca'[link.pvt].pget = ca[link.pvt].pget
               /\ chan'[link.pvt].subs = chan[link.pvt].subs
    PROVE  Monitored'
<1>1. CASE link.pvt = NoLink
  BY <1>1 DEF Monitored
<1>2. CASE link.pvt # NoLink
  <2>a. PICK p : p = link.pvt
    OBVIOUS
  <2>1. /\ Known(p)' => Known(p)
        /\ ca[p].link_action \subseteq ca'[p].link_action /\ ca'[p].pget = ca[p].pget
        /\ chan'[p].subs = chan[p].subs /\ link'.pvt = p /\ link'.pvlMask = link.pvlMask
    BY <1>2, <2>a
  <2>2. /\ \A k \in Kinds : Subscribed(p, k)' = Subscribed(p, k)
        /\ \A a : Asked(p, a) => Asked(p, a)'
    BY <2>1 DEF Subscribed, Asked
  <2>. QED  BY <1>2, <2>a, <2>1, <2>2 DEF Monitored
<1>. QED  BY <1>1, <1>2

\* The last action of a link that is removed.
LEMMA RemoveActionStep ==
    ASSUME CaInv, asserted = {}, RemoveAction
    PROVE  CaInv'
<1>a. PICK p : p = user.p
  OBVIOUS
<1>b. PICK adds \in BOOLEAN :
         adds = (IF user.pc = "pausing" THEN user.callAdd ELSE ca[p].link_action = {})
  <2>1. user.callAdd \in BOOLEAN
    BY DEF CaInv, Types
  <2>. QED  BY <2>1
<1>0. /\ Types /\ Unused /\ Linked /\ Listed /\ Removes /\ InHand /\ Channeled /\ Buffered
      /\ Answering /\ Stale /\ Monitored
      /\ RefsCounted /\ NoLostWakeup /\ OneScan /\ Scans /\ InputBuffered /\ PutKept /\ NoLostScan
      /\ AssertsHold
  BY DEF CaInv
<1>1. /\ \/ user.pc = "removing" /\ removesOutstanding' = removesOutstanding + 1
         \/ user.pc = "pausing" /\ removesOutstanding' = removesOutstanding
      /\ ca' = [ca EXCEPT ![p] = WithAction(ca[p], {"CA_CLEAR_CHANNEL"})]
      /\ IF adds THEN workList' = Append(workList, p) /\ workListEvent' = TRUE
                 ELSE UNCHANGED <<workList, workListEvent>>
      /\ user' = UserIdle
      /\ UNCHANGED <<inst, link, last, freed, chan, dbCaCtl, task, cb, onceQ, scan, pact, lost,
                     refused, asserted, unsubscribed, paused, stale>>
  BY <1>a, <1>b DEF RemoveAction, scanVars
<1>2. p \in 1 .. last /\ p \in Links /\ p # NoLink /\ p # TempLink
  <2>1. p # NoLink /\ p \in 0 .. last
    BY <1>0, <1>1, <1>a, TypesThen DEF Linked
  <2>. QED  BY <1>0, <2>1, Typed DEF TempLink, NoLink
<1>3. ~ca[p].plink /\ ~Clears(p) /\ p \notin freed /\ link.pvt # p
  BY <1>0, <1>a, <1>2 DEF Linked, Owned
<1>4. /\ ca' \in [Links -> CaLinks] /\ \A q \in Links : q # p => ca'[q] = ca[q]
      /\ ca'[p].link_action = ca[p].link_action \cup {"CA_CLEAR_CHANNEL"} /\ SameRest(ca'[p], ca[p])
  <2> DEFINE d == WithAction(ca[p], {"CA_CLEAR_CHANNEL"})
  <2>1. /\ d \in CaLinks /\ SameRest(d, ca[p])
        /\ d.link_action = ca[p].link_action \cup {"CA_CLEAR_CHANNEL"}
    <3>1. {"CA_CLEAR_CHANNEL"} \in SUBSET LinkBits
      BY DEF LinkBits
    <3>. QED  BY <1>0, <1>2, <1>3, <3>1, Typed, WithMore DEF Clears
  <2>2. ca' = [ca EXCEPT ![p] = d]
    BY <1>1
  <2>. HIDE DEF d
  <2>3. ca' \in [Links -> CaLinks] /\ ca'[p] = d /\ \A q \in Links : q # p => ca'[q] = ca[q]
    BY <1>0, <1>2, <2>1, <2>2, OneChanged
  <2>. QED  BY <2>1, <2>3
<1>5. \A q \in Links :
         /\ ca'[q].refcount = ca[q].refcount /\ ca'[q].plink = ca[q].plink
         /\ ca'[q].isConnected = ca[q].isConnected
         /\ ca'[q].gotFirstConnection = ca[q].gotFirstConnection /\ ca'[q].shape = ca[q].shape
         /\ ca'[q].pget = ca[q].pget /\ ca'[q].gotIn = ca[q].gotIn /\ ca'[q].pput = ca[q].pput
         /\ ca'[q].putType = ca[q].putType /\ ca'[q].putCallback = ca[q].putCallback
         /\ ca'[q].scanningOnce = ca[q].scanningOnce
         /\ ca[q].link_action \subseteq ca'[q].link_action
         /\ \A a : a # "CA_CLEAR_CHANNEL" => (a \in ca'[q].link_action <=> a \in ca[q].link_action)
  BY <1>4 DEF SameRest
<1>6. user'.pc = "idle" /\ user'.p = NoLink
  BY <1>1 DEF UserIdle
<1>7. \A q \in 1 .. last : q \in Links /\ (q # p => ca'[q] = ca[q])
  BY <1>0, <1>4, Typed
<1>8. \A q \in 1 .. last : /\ Clears(q)' <=> Clears(q) \/ q = p
                           /\ Owned(q)' <=> Owned(q)
  <2>1. ASSUME NEW q \in 1 .. last
        PROVE  (Clears(q)' <=> Clears(q) \/ q = p) /\ (Owned(q)' <=> Owned(q))
    <3>1. CASE q = p
      BY <1>4, <1>a, <3>1 DEF Clears, Owned
    <3>2. CASE q # p
      <4>1. ca'[q] = ca[q] /\ user.p # q /\ user'.p # q
        BY <1>0, <1>a, <1>6, <1>7, <3>2, Typed
      <4>. QED  BY <3>2, <4>1 DEF Clears, Owned
    <3>. QED  BY <3>1, <3>2
  <2>. QED  BY <2>1
<1>9. Linked'
  <2>1. \A q \in 1 .. last :
           /\ ca'[q].plink <=> link'.pvt = q
           /\ ca'[q].link_action # {} => Owned(q)'
           /\ Clears(q)' => ~ca'[q].plink /\ user'.p # q
           /\ q \in freed => ~Owned(q)'
    <3>1. ASSUME NEW q \in 1 .. last
          PROVE  /\ ca'[q].plink <=> link'.pvt = q
                 /\ ca'[q].link_action # {} => Owned(q)
                 /\ Clears(q)' => ~ca'[q].plink /\ user'.p # q
                 /\ q \in freed => ~Owned(q)
      <4>1. ca'[q].plink = ca[q].plink /\ q # NoLink
        BY <1>0, <1>5, <1>7, Typed
      <4>2. CASE q = p
        BY <1>0, <1>1, <1>3, <1>6, <1>a, <4>1, <4>2 DEF Linked, Owned
      <4>3. CASE q # p
        BY <1>0, <1>1, <1>6, <1>7, <1>8, <4>1, <4>3 DEF Linked
      <4>. QED  BY <4>2, <4>3
    <3>. QED  BY <1>8, <3>1
  <2>. QED  BY <1>1, <1>6, <2>1 DEF Linked
<1>10. /\ workList' \in Seq(0 .. last)
       /\ \A q : /\ Occurrences(workList, q) \in Nat
                 /\ Occurrences(workList', q) =
                       Occurrences(workList, q) + (IF q = p /\ adds THEN 1 ELSE 0)
  <2>1. last \in Nat /\ workList \in Seq(0 .. last) /\ p \in 0 .. last
    BY <1>0, <1>2, Typed, TypesThen
  <2>2. Append(workList, p) \in Seq(0 .. last)
    BY <2>1
  <2>3. \A q : /\ Occurrences(workList, q) \in Nat
               /\ Occurrences(Append(workList, p), q) =
                       Occurrences(workList, q) + (IF q = p THEN 1 ELSE 0)
    BY <2>1, ListOccurs
  <2>4. CASE adds
    BY <1>1, <2>2, <2>3, <2>4
  <2>5. CASE ~adds
    BY <1>1, <2>1, <2>3, <2>5
  <2>. QED  BY <2>4, <2>5
<1>11. Listed'
  <2>1. adds => ca[p].link_action = {}
    BY <1>0, <1>a, <1>b DEF Linked
  <2>2. ~adds => p \in paused \/ ca[p].link_action # {}
    BY <1>0, <1>a, <1>b, <1>1 DEF Linked
  <2>3. ASSUME NEW q \in 1 .. last
        PROVE  /\ Occurrences(workList', q) \in {0, 1}
               /\ ca'[q].link_action = {} => Occurrences(workList', q) = 0
               /\ q \notin paused /\ ca'[q].link_action # {} => Occurrences(workList', q) = 1
    <3>1. CASE q = p
      <4>1. ca'[p].link_action # {}
        BY <1>4
      <4>2. CASE adds
        <5>1. Occurrences(workList, p) = 0
                    /\ Occurrences(workList', p) = Occurrences(workList, p) + 1
          BY <1>0, <1>2, <1>10, <2>1, <4>2 DEF Listed
        <5>. QED  BY <3>1, <4>1, <5>1
      <4>3. CASE ~adds
        <5>1. Occurrences(workList', p) = Occurrences(workList, p)
          BY <1>10, <4>3
        <5>. QED  BY <1>0, <1>2, <2>2, <3>1, <4>1, <4>3, <5>1 DEF Listed
      <4>. QED  BY <4>2, <4>3
    <3>2. CASE q # p
      <4>1. Occurrences(workList, q) \in Nat
               /\ Occurrences(workList', q) = Occurrences(workList, q)
        BY <1>10, <3>2
      <4>2. ca'[q].link_action = ca[q].link_action
        BY <1>7, <3>2
      <4>3. /\ Occurrences(workList, q) \in {0, 1}
            /\ ca[q].link_action = {} => Occurrences(workList, q) = 0
            /\ q \notin paused /\ ca[q].link_action # {} => Occurrences(workList, q) = 1
        BY <1>0 DEF Listed
      <4>. QED  BY <4>1, <4>2, <4>3
    <3>. QED  BY <3>1, <3>2
  <2>4. Occurrences(workList', TempLink) = 0
    BY <1>0, <1>1, <1>2, <1>10 DEF Listed
  <2>. QED  BY <1>1, <1>6, <2>3, <2>4 DEF Listed
<1>12. Removes' /\ removesOutstanding' \in Nat
  <2>1. Clearing' = Clearing \cup {p} /\ p \notin Clearing
    BY <1>1, <1>2, <1>3, <1>8 DEF Clearing
  <2>2. IsFiniteSet(Clearing) /\ Cardinality(Clearing) \in Nat /\ removesOutstanding \in Nat
    BY <1>0, ClearingFinite DEF Types
  <2>3. Cardinality(Clearing') = Cardinality(Clearing) + 1
    BY <2>1, <2>2, FS_AddElement
  <2>4. removesOutstanding = Cardinality(Clearing) + (IF user.pc = "pausing" THEN 1 ELSE 0)
    BY <1>0 DEF Removes
  <2>5. removesOutstanding' = Cardinality(Clearing') /\ removesOutstanding' \in Nat
    <3>1. CASE user.pc = "removing" /\ removesOutstanding' = removesOutstanding + 1
      BY <2>2, <2>3, <2>4, <3>1
    <3>2. CASE user.pc = "pausing" /\ removesOutstanding' = removesOutstanding
      BY <2>2, <2>3, <2>4, <3>2
    <3>. QED  BY <1>1, <3>1, <3>2
  <2>. QED  BY <1>6, <2>2, <2>3, <2>5 DEF Removes
<1>13. Types' /\ Unused'
  <2>1. UserIdle \in [pc : {"idle", "removing", "pausing", "syncing", "joining"}, p : 0 .. last,
                      callAdd : BOOLEAN]
    BY <1>0, Typed DEF UserIdle, NoLink
  <2>4. workListEvent' \in BOOLEAN
    BY <1>0, <1>1, TypesThen
  <2>2. Types'
    BY <1>0, <1>1, <1>4, <1>10, <1>12, <2>1, <2>4, TypesThen, TypesKept, SMTT(60), ZenonT(60)
  <2>3. \A q \in Links : q > last => ca'[q] = ca[q] /\ chan'[q] = chan[q]
    <3>1. \A q \in Links : q > last => q # p
      BY <1>0, <1>2, Typed
    <3>. QED  BY <1>1, <1>4, <3>1
  <2>. QED  BY <1>0, <1>1, <2>2, <2>3, UnusedKept
<1>14. ScanGoes /\ TaskGoes /\ CallbackGoes /\ SameConnection /\ SameChannels
  BY <1>1, <1>5 DEF ScanGoes, TaskGoes, CallbackGoes, SameConnection, SameChannels
<1>15. InHand' /\ RefsCounted'
  BY <1>0, <1>1, <1>5, <1>8, <1>14, HandsKept
<1>16. Channeled'
  BY <1>0, <1>1, <1>14, ChannelsKept
<1>17. Buffered'
  <2>1. \A k \in Kinds : Write[k] # "CA_CLEAR_CHANNEL" /\ Monitor["string"] # "CA_CLEAR_CHANNEL"
    BY DEF Write, Monitor, Kinds
  <2>2. \A q \in 1 .. last :
           /\ \A k \in Kinds : Write[k] \in ca'[q].link_action => Write[k] \in ca[q].link_action
           /\ Monitor["string"] \in ca'[q].link_action => Monitor["string"] \in ca[q].link_action
           /\ ca'[q].pput = ca[q].pput /\ ca'[q].pget = ca[q].pget
           /\ ca'[q].gotFirstConnection = ca[q].gotFirstConnection
    <3>1. ASSUME NEW q \in 1 .. last
          PROVE  /\ \A k \in Kinds : Write[k] \in ca'[q].link_action
                       => Write[k] \in ca[q].link_action
                 /\ Monitor["string"] \in ca'[q].link_action
                       => Monitor["string"] \in ca[q].link_action
      <4>1. /\ q \in Links /\ "string" \in Kinds
            /\ \A a : a # "CA_CLEAR_CHANNEL" /\ a \in ca'[q].link_action => a \in ca[q].link_action
        BY <1>5, <1>7 DEF Kinds
      <4>. QED  BY <2>1, <4>1
    <3>. QED  BY <1>5, <1>7, <3>1
  <2>. QED  BY <1>0, <1>1, <2>2, BuffersThen
<1>18. Answering'
  <2>1. \A t : CallsBack(t)' <=> CallsBack(t)
    BY <1>1 DEF CallsBack
  <2>. QED  BY <1>0, <1>1, <1>5, <2>1, AnsweringKept
<1>19. Monitored'
  <2>1. \A q : Known(q)' <=> Known(q)
    BY <1>1 DEF Known
  <2>2. link.pvt # NoLink => link.pvt \in Links
    BY <1>0, Typed, TypesThen
  <2>. QED  BY <1>0, <1>1, <1>5, <2>1, <2>2, MonitoredThen
<1>20. OneScan' /\ Scans'
  BY <1>0, <1>1, <1>5, <1>14, ScansKept
<1>21. Stale' /\ NoLostScan'
  BY <1>0, <1>1, <1>5, StaleKept
<1>22. InputBuffered' /\ AssertsHold'
  <2>1. Links' = Links
    BY <1>1 DEF Links
  <2>. QED  BY <1>0, <1>1, <1>5, <2>1 DEF InputBuffered, AssertsHold
<1>23. PutKept'
  BY <1>0, <1>1, <1>5, PutsKept
<1>24. NoLostWakeup'
  BY <1>0, <1>1 DEF NoLostWakeup
<1>. QED  BY <1>9, <1>11, <1>12, <1>13, <1>15, <1>16, <1>17, <1>18, <1>19, <1>20, <1>21, <1>22,
             <1>23, <1>24 DEF CaInv
-----------------------------------------------------------------------------
\* A link is removed: its thread has the structure until it has asked dbCaTask to clear it.
LEMMA dbCaRemoveLinkStep ==
    ASSUME CaInv, asserted = {}, dbCaRemoveLink
    PROVE  CaInv'
<1>a. PICK p : p = link.pvt
  OBVIOUS
<1>0. /\ Types /\ Unused /\ Linked /\ Listed /\ Removes /\ InHand /\ Channeled /\ Buffered
      /\ Answering /\ Stale /\ Monitored
      /\ RefsCounted /\ NoLostWakeup /\ OneScan /\ Scans /\ InputBuffered /\ PutKept /\ NoLostScan
      /\ AssertsHold
  BY DEF CaInv
<1>1. /\ user.pc = "idle" /\ p # NoLink /\ ca' = [ca EXCEPT ![p].plink = FALSE]
      /\ link' = [pvt |-> NoLink, pvlMask |-> {}]
      /\ user' = [pc |-> "removing", p |-> p, callAdd |-> FALSE] /\ stale' = FALSE
      /\ UNCHANGED <<inst, last, freed, chan, workList, workListEvent, dbCaCtl, removesOutstanding,
                     task, cb, onceQ, scan, pact, lost, refused, asserted, unsubscribed, paused>>
  BY <1>a DEF dbCaRemoveLink, scanVars, listVars
<1>2. p \in 1 .. last /\ p \in Links
  <2>1. p \in 0 .. last
    BY <1>0, <1>a, TypesThen
  <2>. QED  BY <1>0, <1>1, <2>1, Typed
<1>3. ca[p].plink /\ ~Clears(p) /\ p \notin freed /\ user.p = NoLink
  BY <1>0, <1>1, <1>2, <1>a DEF Linked, Owned
<1>4. /\ ca' \in [Links -> CaLinks] /\ \A q \in Links : q # p => ca'[q] = ca[q]
      /\ ~ca'[p].plink /\ ca'[p].link_action = ca[p].link_action
      /\ ca'[p].refcount = ca[p].refcount /\ ca'[p].isConnected = ca[p].isConnected
      /\ ca'[p].gotFirstConnection = ca[p].gotFirstConnection /\ ca'[p].shape = ca[p].shape
      /\ ca'[p].pget = ca[p].pget /\ ca'[p].gotIn = ca[p].gotIn /\ ca'[p].pput = ca[p].pput
      /\ ca'[p].putType = ca[p].putType /\ ca'[p].putCallback = ca[p].putCallback
      /\ ca'[p].scanningOnce = ca[p].scanningOnce
  <2> DEFINE d == [ca[p] EXCEPT !.plink = FALSE]
  <2>1. ca[p] \in CaLinks
    BY <1>0, <1>2, Typed
  <2>2. /\ d \in CaLinks /\ ~d.plink /\ d.link_action = ca[p].link_action
        /\ d.refcount = ca[p].refcount /\ d.isConnected = ca[p].isConnected
        /\ d.gotFirstConnection = ca[p].gotFirstConnection /\ d.shape = ca[p].shape
        /\ d.pget = ca[p].pget /\ d.gotIn = ca[p].gotIn /\ d.pput = ca[p].pput
        /\ d.putType = ca[p].putType /\ d.putCallback = ca[p].putCallback
        /\ d.scanningOnce = ca[p].scanningOnce
    <3>. HIDE DEF LinkBits
    <3>. QED  BY <2>1 DEF CaLinks
  <2>3. ca' = [ca EXCEPT ![p] = d]
    BY <1>1
  <2>. HIDE DEF d
  <2>4. ca' \in [Links -> CaLinks] /\ ca'[p] = d /\ \A q \in Links : q # p => ca'[q] = ca[q]
    BY <1>0, <1>2, <2>2, <2>3, OneChanged
  <2>. QED  BY <2>2, <2>4
<1>5. \A q \in Links :
         /\ ca'[q].refcount = ca[q].refcount /\ (ca'[q].plink <=> ca[q].plink /\ q # p)
         /\ ca'[q].link_action = ca[q].link_action /\ ca'[q].isConnected = ca[q].isConnected
         /\ ca'[q].gotFirstConnection = ca[q].gotFirstConnection /\ ca'[q].shape = ca[q].shape
         /\ ca'[q].pget = ca[q].pget /\ ca'[q].gotIn = ca[q].gotIn /\ ca'[q].pput = ca[q].pput
         /\ ca'[q].putType = ca[q].putType /\ ca'[q].putCallback = ca[q].putCallback
         /\ ca'[q].scanningOnce = ca[q].scanningOnce
  <2>1. \A q \in Links : ca'[q].plink \in BOOLEAN /\ ca[q].plink \in BOOLEAN
    BY <1>0, <1>4, Typed DEF CaLinks
  <2>. QED  BY <1>4, <2>1
<1>6. user'.pc = "removing" /\ user'.p = p /\ user'.callAdd = FALSE
  BY <1>1
<1>7. \A q \in 1 .. last : q \in Links /\ q # NoLink /\ (q # p => ca'[q] = ca[q])
  BY <1>0, <1>4, Typed
<1>8. \A q \in 1 .. last : /\ Clears(q)' <=> Clears(q)
                           /\ Owned(q)' <=> Owned(q)
  <2>1. ASSUME NEW q \in 1 .. last
        PROVE  (Clears(q)' <=> Clears(q)) /\ (Owned(q)' <=> Owned(q))
    <3>1. CASE q = p
      BY <1>3, <1>4, <1>6, <3>1 DEF Clears, Owned
    <3>2. CASE q # p
      <4>1. ca'[q] = ca[q] /\ user.p # q /\ user'.p # q
        BY <1>3, <1>6, <1>7, <3>2
      <4>. QED  BY <3>2, <4>1 DEF Clears, Owned
    <3>. QED  BY <3>1, <3>2
  <2>. QED  BY <2>1
<1>9. Linked'
  <2>1. \A q \in 1 .. last :
           /\ ca'[q].plink <=> link'.pvt = q
           /\ ca'[q].link_action # {} => Owned(q)'
           /\ Clears(q)' => ~ca'[q].plink /\ user'.p # q
           /\ q \in freed => ~Owned(q)'
    <3>1. ASSUME NEW q \in 1 .. last
          PROVE  /\ ca'[q].plink <=> link'.pvt = q
                 /\ ca'[q].link_action # {} => Owned(q)
                 /\ Clears(q) => ~ca'[q].plink /\ user'.p # q
                 /\ q \in freed => ~Owned(q)
      <4>1. CASE q = p
        BY <1>0, <1>1, <1>2, <1>3, <1>4, <1>6, <4>1 DEF Linked, Owned
      <4>2. CASE q # p
        BY <1>0, <1>1, <1>6, <1>7, <1>a, <4>2 DEF Linked
      <4>. QED  BY <4>1, <4>2
    <3>. QED  BY <1>8, <3>1
  <2>. QED  BY <1>1, <1>4, <1>6, <2>1 DEF Linked
<1>10. Listed'
  BY <1>0, <1>1, <1>5, <1>6, <1>7 DEF Listed
<1>11. Removes'
  <2>1. Clearing' = Clearing
    BY <1>1, <1>8 DEF Clearing
  <2>. QED  BY <1>0, <1>1, <1>6, <2>1 DEF Removes
<1>12. Types' /\ Unused'
  <2>1. /\ user' \in [pc : {"idle", "removing", "pausing", "syncing", "joining"}, p : 0 .. last,
                      callAdd : BOOLEAN]
        /\ link' \in [pvt : 0 .. last, pvlMask : SUBSET Kinds]
    BY <1>0, <1>1, <1>2, Typed DEF NoLink
  <2>2. Types'
    BY <1>0, <1>1, <1>4, <2>1, TypesThen, TypesKept
  <2>3. \A q \in Links : q > last => ca'[q] = ca[q] /\ chan'[q] = chan[q]
    <3>1. \A q \in Links : q > last => q # p
      BY <1>0, <1>2, Typed
    <3>. QED  BY <1>1, <1>4, <3>1
  <2>. QED  BY <1>0, <1>1, <2>2, <2>3, UnusedKept
<1>13. ScanGoes /\ TaskGoes /\ CallbackGoes /\ SameConnection /\ SameChannels
  BY <1>1, <1>5 DEF ScanGoes, TaskGoes, CallbackGoes, SameConnection, SameChannels
<1>14. InHand' /\ RefsCounted'
  BY <1>0, <1>1, <1>5, <1>8, <1>13, HandsKept
<1>15. Channeled'
  BY <1>0, <1>1, <1>13, ChannelsKept
<1>16. Buffered'
  BY <1>0, <1>1, <1>5, <1>13, BuffersKept
<1>17. Answering'
  <2>1. \A t : CallsBack(t)' <=> CallsBack(t)
    BY <1>1 DEF CallsBack
  <2>. QED  BY <1>0, <1>1, <1>5, <2>1, AnsweringKept
<1>18. Monitored' /\ Stale' /\ NoLostScan' /\ NoLostWakeup'
  BY <1>0, <1>1 DEF Monitored, Stale, NoLostScan, NoLostWakeup
<1>19. OneScan' /\ Scans'
  <2>1. \A q : Requests(q)' = Requests(q)
    BY <1>0, <1>1, <1>13, RequestsKept
  <2>2. ASSUME NEW q \in (1 .. last) \ freed
        PROVE  /\ Requests(q) <= 1
               /\ ca'[q].plink /\ q \notin refused => (ca'[q].scanningOnce > 0) = (Requests(q) = 1)
               /\ ca'[q].plink /\ ca'[q].scanningOnce = 0 => Requests(q) = 0
    BY <1>0, <1>5, <1>7 DEF OneScan, Scans
  <2>. QED  BY <1>1, <2>1, <2>2 DEF OneScan, Scans
<1>20. InputBuffered' /\ AssertsHold'
  <2>1. Links' = Links
    BY <1>1 DEF Links
  <2>. QED  BY <1>0, <1>1, <1>5, <2>1 DEF InputBuffered, AssertsHold
<1>21. PutKept'
  BY <1>0, <1>1, <1>5, PutsKept
<1>. QED  BY <1>9, <1>10, <1>11, <1>12, <1>14, <1>15, <1>16, <1>17, <1>18, <1>19, <1>20,
             <1>21 DEF CaInv

\* A link is set: it gets a new structure, which nothing knows yet.
LEMMA dbCaAddLinkStep ==
    ASSUME CaInv, asserted = {}, dbCaAddLink
    PROVE  CaInv'
<1>a. PICK p : p = last + 1
  OBVIOUS
<1>0. /\ Types /\ Unused /\ Linked /\ Listed /\ Removes /\ InHand /\ Channeled /\ Buffered
      /\ Answering /\ Stale /\ Monitored
      /\ RefsCounted /\ NoLostWakeup /\ OneScan /\ Scans /\ InputBuffered /\ PutKept /\ NoLostScan
      /\ AssertsHold
  BY DEF CaInv
<1>1. /\ user.pc = "idle" /\ link.pvt = NoLink /\ last < inst.links /\ last' = p
      /\ link' = [pvt |-> p, pvlMask |-> IF inst.use \in Inputs THEN {"native"} ELSE {}]
      /\ ca' = [ca EXCEPT ![p] = WithAction(NewLink, {"CA_CONNECT"})]
      /\ workList' = Append(workList, p) /\ workListEvent' = TRUE
      /\ UNCHANGED <<inst, freed, chan, dbCaCtl, removesOutstanding, user, task, cb, onceQ, scan,
                     pact, lost, refused, asserted, unsubscribed, paused, stale>>
  BY <1>a DEF dbCaAddLink, scanVars, addAction, NewLink
<1>2. /\ last \in Nat /\ p \in Nat /\ p # NoLink /\ p \in Links /\ p \notin 0 .. last
      /\ p \in 1 .. p /\ p \in 0 .. p /\ Links' = Links
      /\ \A q : q \in 1 .. p <=> q \in 1 .. last \/ q = p
      /\ \A q \in 1 .. last : q \in Links /\ q # p /\ q # NoLink /\ q # TempLink
      /\ 0 .. last \subseteq 0 .. p /\ 1 .. last \subseteq 1 .. p /\ p \in 0 .. inst.links
  <2>1. last \in Nat /\ inst.links \in Nat /\ Links = 1 .. inst.links /\ last <= inst.links
    BY <1>0, Typed
  <2>2. Links' = Links
    BY <1>1 DEF Links
  <2>. QED  BY <1>1, <1>a, <2>1, <2>2 DEF NoLink, TempLink
<1>3. /\ ca[p] = NewLink /\ chan[p] = NoChannel
      /\ p \notin freed /\ p \notin refused /\ p \notin unsubscribed /\ p \notin paused
      /\ task.p # p /\ cb.p # p /\ scan.p # p /\ user.p # p
      /\ Occurrences(workList, p) = 0 /\ Occurrences(onceQ, p) = 0
  <2>1. ca[p] = NewLink /\ chan[p] = NoChannel
    BY <1>0, <1>2, <1>a DEF Unused
  <2>2. /\ p \notin freed /\ p \notin refused /\ p \notin unsubscribed /\ p \notin paused
        /\ task.p # p /\ cb.p # p /\ scan.p # p /\ user.p # p
    BY <1>0, <1>2, TypesThen
  <2>3. workList \in Seq(0 .. last) /\ onceQ \in Seq(1 .. last)
    BY <1>0, TypesThen
  <2>4. Occurrences(workList, p) = 0
    BY <1>2, <2>3, ListOccurs
  <2>5. Occurrences(onceQ, p) = 0
    BY <1>2, <2>3, OnceOccurs
  <2>. QED  BY <2>1, <2>2, <2>4, <2>5
<1>4. /\ ca' \in [Links -> CaLinks] /\ \A q \in Links : q # p => ca'[q] = ca[q]
      /\ ca'[p].link_action = {"CA_CONNECT"} /\ SameRest(ca'[p], NewLink)
  <2> DEFINE d == WithAction(NewLink, {"CA_CONNECT"})
  <2>1. NewLink \in CaLinks /\ NewLink.link_action = {}
    <3>1. ca[p] \in CaLinks
      BY <1>0, <1>2, Typed
    <3>. QED  BY <1>3, <3>1 DEF NewLink
  <2>2. d \in CaLinks /\ SameRest(d, NewLink) /\ d.link_action = {"CA_CONNECT"}
    <3>1. {"CA_CONNECT"} \in SUBSET LinkBits
      BY DEF LinkBits
    <3>. HIDE DEF LinkBits, CaLinks
    <3>2. /\ d \in CaLinks /\ SameRest(d, NewLink)
          /\ d.link_action = NewLink.link_action \cup {"CA_CONNECT"}
      BY <2>1, <3>1, WithMore
    <3>. QED  BY <2>1, <3>2
  <2>3. ca' = [ca EXCEPT ![p] = d]
    BY <1>1
  <2>. HIDE DEF d
  <2>4. ca' \in [Links -> CaLinks] /\ ca'[p] = d /\ \A q \in Links : q # p => ca'[q] = ca[q]
    BY <1>0, <1>2, <2>2, <2>3, OneChanged
  <2>. QED  BY <2>2, <2>4
<1>5. /\ ca'[p].refcount = 1 /\ ca'[p].plink /\ ~ca'[p].isConnected /\ ~ca'[p].gotFirstConnection
      /\ ca'[p].pget = {} /\ ca'[p].gotIn = {} /\ ~ca'[p].putCallback /\ ca'[p].scanningOnce = 0
      /\ ca'[p].putType = "none"
  BY <1>4 DEF SameRest, NewLink
<1>6. /\ chan[p].state = "none" /\ chan[p].puts = 0 /\ chan[p].subs = {}
      /\ ca[p].putType = "none" /\ ~ca[p].putCallback /\ ca[p].link_action = {} /\ ca[p].plink
      /\ ca[p].gotIn = {}
  BY <1>3 DEF NoChannel, NewLink
<1>7. user.p = NoLink
  BY <1>0, <1>1 DEF Linked
<1>8. \A q \in 1 .. last : /\ ca'[q] = ca[q] /\ Clears(q)' = Clears(q) /\ Owned(q)' = Owned(q)
  <2>1. \A q \in 1 .. last : ca'[q] = ca[q]
    BY <1>2, <1>4
  <2>. QED  BY <1>1, <2>1 DEF Clears, Owned
<1>9. ~Clears(p)' /\ Owned(p)'
  BY <1>4, <1>5 DEF Clears, Owned
<1>10. Linked'
  <2>1. \A q \in 1 .. p :
           /\ ca'[q].plink <=> link'.pvt = q
           /\ ca'[q].link_action # {} => Owned(q)'
           /\ Clears(q)' => ~ca'[q].plink /\ user.p # q
           /\ q \in freed => ~Owned(q)'
    <3>1. ASSUME NEW q \in 1 .. last
          PROVE  /\ ca'[q].plink <=> link'.pvt = q
                 /\ ca'[q].link_action # {} => Owned(q)
                 /\ Clears(q) => ~ca'[q].plink /\ user.p # q
                 /\ q \in freed => ~Owned(q)
      <4>1. link'.pvt # q /\ link.pvt # q
        BY <1>1, <1>2
      <4>. QED  BY <1>0, <1>8, <4>1 DEF Linked
    <3>2. /\ ca'[p].plink /\ link'.pvt = p /\ Owned(p)' /\ ~Clears(p)' /\ p \notin freed
      BY <1>1, <1>3, <1>5, <1>9
    <3>. QED  BY <1>2, <1>8, <3>1, <3>2
  <2>. QED  BY <1>0, <1>1, <1>7, <2>1 DEF Linked
<1>11. /\ workList' \in Seq(0 .. p)
       /\ \A q : Occurrences(workList', q) = Occurrences(workList, q) + (IF q = p THEN 1 ELSE 0)
       /\ \A q : Occurrences(workList, q) \in Nat
  <2>1. workList \in Seq(0 .. p)
    <3>1. workList \in Seq(0 .. last) /\ last <= p
      BY <1>0, <1>2, <1>a, TypesThen
    <3>. QED  BY <1>2, <3>1, SeqGrows
  <2>2. Append(workList, p) \in Seq(0 .. p)
    BY <1>2, <2>1
  <2>. QED  BY <1>1, <1>2, <2>1, <2>2, ListOccurs
<1>12. Listed'
  <2>1. \A q \in 1 .. last :
           /\ Occurrences(workList', q) \in {0, 1}
           /\ ca'[q].link_action = {} => Occurrences(workList', q) = 0
           /\ q \notin paused /\ ca'[q].link_action # {} => Occurrences(workList', q) = 1
    <3>1. \A q \in 1 .. last : Occurrences(workList', q) = Occurrences(workList, q)
                /\ ca'[q] = ca[q]
      BY <1>2, <1>8, <1>11
    <3>. QED  BY <1>0, <3>1 DEF Listed
  <2>2. Occurrences(workList', p) = 1 /\ ca'[p].link_action # {}
    BY <1>3, <1>4, <1>11
  <2>3. Occurrences(workList', TempLink) = Occurrences(workList, TempLink)
    BY <1>2, <1>11 DEF TempLink, NoLink
  <2>. QED  BY <1>0, <1>1, <1>2, <2>1, <2>2, <2>3 DEF Listed
<1>13. Removes'
  <2>1. Clearing' = Clearing
    BY <1>1, <1>2, <1>8, <1>9 DEF Clearing
  <2>. QED  BY <1>0, <1>1, <2>1 DEF Removes
<1>14. Types'
  <2>1. link' \in [pvt : 0 .. p, pvlMask : SUBSET Kinds]
    BY <1>1, <1>2 DEF Kinds
  <2>2. onceQ \in Seq(1 .. p)
    <3>1. onceQ \in Seq(1 .. last) /\ last <= p
      BY <1>0, <1>2, <1>a, TypesThen
    <3>. QED  BY <1>2, <3>1, SeqGrows
  <2>3. /\ freed \subseteq 1 .. p /\ refused \subseteq 1 .. p
        /\ unsubscribed \subseteq 1 .. p /\ paused \subseteq 1 .. p
    BY <1>0, <1>2, TypesThen
  <2>4. /\ task \in [pc : TaskPlaces, p : 0 .. p, todo : SUBSET LinkBits]
        /\ cb \in [pc : {"idle", "notify", "call", "callThenNotify"}, p : 0 .. p]
        /\ scan \in [pc : {"idle", "process", "complete", "dec", "free", "call"}, p : 0 .. p]
        /\ user \in [pc : {"idle", "removing", "pausing", "syncing", "joining"}, p : 0 .. p,
                     callAdd : BOOLEAN]
    <3>. HIDE DEF TaskPlaces, LinkBits
    <3>. QED  BY <1>0, <1>2, TypesThen
  <2>5. \A q \in Links : IsFiniteSet(chan[q].subs)
    BY <1>0, TypesThen
  <2>6. /\ inst \in Instances /\ chan \in [Links -> Channels] /\ workListEvent' \in BOOLEAN
        /\ dbCaCtl \in {"ctlRun", "ctlPause", "ctlExit"} /\ removesOutstanding \in Nat
        /\ lost \in 0 .. inst.lost /\ pact \in BOOLEAN /\ stale \in BOOLEAN
    BY <1>0, <1>1 DEF Types
  <2>. HIDE DEF TaskPlaces, LinkBits, Channels, CaLinks
  <2>. QED  BY <1>1, <1>2, <1>4, <1>11, <2>1, <2>2, <2>3, <2>4, <2>5, <2>6, SMTT(60), ZenonT(60)
               DEF Types
<1>15. Unused'
  <2>1. \A q \in Links : q > p => q > last /\ q # p
    BY <1>0, <1>2, <1>a, Typed
  <2>2. NewLink' = NewLink /\ NoChannel' = NoChannel
    BY DEF NewLink, NoChannel
  <2>. QED  BY <1>0, <1>1, <1>2, <1>4, <2>1, <2>2 DEF Unused
<1>16. /\ \A q : Holding(q)' = Holding(q) /\ Requests(q)' = Requests(q)
       /\ Holding(p) = 0 /\ Requests(p) = 0
       /\ \A q \in 1 .. last : TaskHolds(q)' = TaskHolds(q)
  <2>1. \A q : Holding(q)' = Holding(q) /\ Requests(q)' = Requests(q)
    BY <1>0, <1>1, RequestsKept DEF ScanGoes
  <2>2. Holding(p) = 0 /\ Requests(p) = 0
    BY <1>3 DEF Holding, Requests
  <2>3. \A q \in 1 .. last : TaskHolds(q)' = TaskHolds(q)
    BY <1>1, <1>8 DEF TaskHolds
  <2>. QED  BY <2>1, <2>2, <2>3
<1>17. RefsCounted'
  <2>1. \A q \in (1 .. last) \ freed : ca'[q].refcount = Holding(q)' + IF TaskHolds(q)' THEN 1
              ELSE 0
    BY <1>0, <1>8, <1>16 DEF RefsCounted
  <2>2. TaskHolds(p)'
    BY <1>5 DEF TaskHolds
  <2>. QED  BY <1>1, <1>2, <1>5, <1>16, <2>1, <2>2 DEF RefsCounted
<1>18. InHand'
  <2>1. /\ task.p # NoLink => task.p \in 1 .. last
        /\ scan.p # NoLink => scan.p \in 1 .. last
        /\ freed \subseteq 1 .. last
    BY <1>0, Typed, TypesThen
  <2>2. /\ task.pc \in Acting => task.p \in 1 .. last
        /\ task.pc \in {"dec", "free"} => task.p \in 1 .. last
        /\ scan.pc = "free" => scan.p \in 1 .. last
    BY <1>0, <2>1 DEF InHand, Acting, Monitors, Monitor, Kinds
  <2>. QED  BY <1>0, <1>1, <1>8, <1>16, <2>2 DEF InHand
<1>19. Channeled'
  <2>1. /\ task.p # NoLink => task.p \in 1 .. last
        /\ cb.p # NoLink => cb.p \in 1 .. last
    BY <1>0, Typed, TypesThen
  <2>2. task.pc \in Acting => task.p \in 1 .. last
    BY <1>0, <2>1 DEF InHand, Acting, Monitors, Monitor, Kinds
  <2>3. \A q \in 1 .. last : Connects(q)' <=> Connects(q)
    BY <1>1, <1>8 DEF Connects
  <2>4. ASSUME NEW q \in 1 .. p
        PROVE  /\ chan[q].state = "cleared" <=> q \in freed
               /\ Connects(q)' => chan[q].state = "none"
               /\ chan[q].puts > 0 \/ chan[q].subs # {} => chan[q].state \in {"conn", "disc"}
               /\ chan[q].state \in {"conn", "disc"} => chan[q].shape \in inst.shapes
               /\ chan[q].state = "conn" => chan[q].access \in inst.rights
               /\ chan[q].state = "disc" => lost > 0
               /\ ca'[q].gotFirstConnection =>
                     /\ ca'[q].shape \in inst.shapes /\ chan[q].state \in {"conn", "disc"}
                     /\ lost = 0 => ~(cb.p = q /\ cb.pc = "notify")
               /\ ca'[q].isConnected => ca'[q].gotFirstConnection
    <3>1. CASE q = p
      BY <1>3, <1>5, <1>6, <3>1
    <3>2. CASE q \in 1 .. last
      BY <1>0, <1>8, <2>3, <3>2 DEF Channeled
    <3>. QED  BY <1>2, <3>1, <3>2
  <2>5. task.pc = "act" => task.pc \in Acting
    BY DEF Acting
  <2>6. task.pc = "act" /\ "CA_CONNECT" \in task.todo => "CA_CONNECT" \notin ca'[task.p].link_action
    BY <1>0, <1>8, <2>2, <2>5 DEF Channeled
  <2>. QED  BY <1>0, <1>1, <2>4, <2>6 DEF Channeled
<1>20. Buffered'
  <2>1. \A q \in 1 .. last : \A a : Asked(q, a)' <=> Asked(q, a)
    BY <1>1, <1>8 DEF Asked
  <2>2. \A k \in Kinds : ~Asked(p, Write[k])' /\ ~Asked(p, Monitor["string"])'
    BY <1>1, <1>3, <1>4 DEF Asked, Write, Monitor, Kinds
  <2>3. OneShape' = OneShape /\ "string" \notin link'.pvlMask
    BY <1>1 DEF OneShape
  <2>4. OneShape \/ lost = 0 => \A q \in 1 .. p, k \in Kinds :
           Asked(q, Write[k])' => k \in ca'[q].pput /\ ca'[q].gotFirstConnection
    BY <1>0, <1>2, <1>8, <2>1, <2>2 DEF Buffered
  <2>5. ASSUME OneShape, NEW q \in 1 .. p
        PROVE  /\ \A s \in chan[q].subs :
                     s.kind \in ca'[q].pget
                           /\ (s.kind = "string" => inst.shapes \subseteq EnumShapes)
               /\ Asked(q, Monitor["string"])' => inst.shapes \subseteq EnumShapes
               /\ \A k \in Kinds : task.pc = Monitor[k] /\ task.p = q => k \in ca'[q].pget
    <3>1. CASE q = p
      BY <1>3, <1>6, <2>2, <3>1 DEF Kinds
    <3>2. CASE q \in 1 .. last
      BY <1>0, <1>8, <2>1, <2>5, <3>2 DEF Buffered
    <3>. QED  BY <1>2, <3>1, <3>2
  <2>. QED  BY <1>1, <2>3, <2>4, <2>5 DEF Buffered
<1>21. \A q \in Links :
          /\ ca'[q].putCallback = ca[q].putCallback /\ ca'[q].putType = ca[q].putType
          /\ ca[q].link_action \subseteq ca'[q].link_action /\ (ca'[q].plink => ca[q].plink)
          /\ ca'[q].gotIn \subseteq ca'[q].pget \/ (ca'[q] = ca[q])
  <2>1. ca[p].putCallback = NewLink.putCallback /\ ca'[p].putCallback = NewLink.putCallback
    BY <1>3, <1>4 DEF SameRest
  <2>. QED  BY <1>4, <1>5, <1>6, <2>1
<1>22. Answering'
  <2>1. \A t : CallsBack(t)' <=> CallsBack(t)
    BY <1>1 DEF CallsBack
  <2>. QED  BY <1>0, <1>1, <1>21, <2>1, AnsweringKept
<1>23. Monitored'
  <2>1. link'.pvt = p /\ ~Known(p)'
    BY <1>1, <1>6 DEF Known
  <2>. QED  BY <1>1, <1>3, <1>5, <2>1 DEF Monitored
<1>24. OneScan' /\ Scans'
  <2>1. ASSUME NEW q \in (1 .. p) \ freed
        PROVE  /\ Requests(q)' <= 1
               /\ ca'[q].plink /\ q \notin refused => (ca'[q].scanningOnce > 0) = (Requests(q)' = 1)
               /\ ca'[q].plink /\ ca'[q].scanningOnce = 0 => Requests(q)' = 0
    <3>1. CASE q = p
      <4>1. ca'[p].scanningOnce = 0 /\ Requests(p)' = 0
        BY <1>5, <1>16
      <4>. QED  BY <3>1, <4>1
    <3>2. CASE q \in (1 .. last) \ freed
      <4>1. Requests(q)' = Requests(q) /\ ca'[q] = ca[q]
        BY <1>8, <1>16, <3>2
      <4>. QED  BY <1>0, <3>2, <4>1 DEF OneScan, Scans
    <3>. QED  BY <1>2, <2>1, <3>1, <3>2
  <2>. QED  BY <1>1, <2>1 DEF OneScan, Scans
<1>25. ~stale' /\ Stale' /\ NoLostScan'
  BY <1>0, <1>1 DEF Stale, NoLostScan
<1>26. InputBuffered' /\ AssertsHold' /\ NoLostWakeup'
  BY <1>0, <1>1, <1>2, <1>21 DEF InputBuffered, AssertsHold, NoLostWakeup
<1>27. PutKept'
  BY <1>0, <1>1, <1>21, PutsKept
<1>. QED  BY <1>10, <1>12, <1>13, <1>14, <1>15, <1>17, <1>18, <1>19, <1>20, <1>22, <1>23, <1>24,
             <1>25, <1>26, <1>27 DEF CaInv
-----------------------------------------------------------------------------
(* The record is processed.                                                *)

\* A channel that comes back as it was has one type and element count.
LEMMA TheShape ==
    ASSUME Types, OneShape, NEW s \in inst.shapes
    PROVE  inst.shapes = {s}
<1>1. IsFiniteSet(inst.shapes)
  BY Typed, CaAssumption, FS_Subset
<1>2. PICK x : inst.shapes = {x}
  BY <1>1, FS_Singleton DEF OneShape
<1>. QED  BY <1>2

\* No news are outstanding once a record has been processed: it has read its link, or has no input.
LEMMA ProcessedFresh ==
    ASSUME Types, Answering, Stale, Process
    PROVE  stale' = FALSE
<1>1. CASE dbCaGetLink
  BY <1>1 DEF dbCaGetLink
<1>2. CASE \E async \in BOOLEAN : dbCaPutLinkCallback(async)
  BY <1>2 DEF dbCaPutLinkCallback, Stale, Types, Inputs
<1>3. CASE (pact \/ link.pvt = NoLink) /\ UNCHANGED <<ca, listVars, link, pact, stale>>
  BY <1>3 DEF Answering, Stale, Types, Inputs
<1>. QED  BY <1>1, <1>2, <1>3 DEF Process

\* All fields of a structure but those of a put.
SameButPut(d, c) ==
    /\ d.link_action = c.link_action /\ d.plink = c.plink /\ d.refcount = c.refcount
    /\ d.isConnected = c.isConnected /\ d.gotFirstConnection = c.gotFirstConnection
    /\ d.shape = c.shape /\ d.pget = c.pget /\ d.gotIn = c.gotIn
    /\ d.scanningOnce = c.scanningOnce

\* What the processing of a record has to show: the rest of the invariant does not see it.
LEMMA ProcessKeeps ==
    ASSUME CaInv, NEW p \in 1 .. last, link.pvt = p, NEW c \in CaLinks, SameButPut(c, ca[p]),
           NEW acts \in SUBSET LinkBits, "CA_CLEAR_CHANNEL" \notin acts, "CA_CONNECT" \notin acts,
           Update(p, c, acts), ScanGoes, stale' = FALSE, pact' \in BOOLEAN,
           link' \in [pvt : 0 .. last, pvlMask : SUBSET Kinds], link'.pvt = p,
           UNCHANGED <<inst, unsubscribed, paused, last, freed, chan, task, cb, onceQ, refused,
                       user, asserted, lost>>,
           Buffered', Answering', Monitored', PutKept'
    PROVE  CaInv'
<1>0. /\ Types /\ Unused /\ Linked /\ Listed /\ Removes /\ InHand /\ Channeled /\ Buffered
      /\ Answering /\ Stale /\ Monitored
      /\ RefsCounted /\ NoLostWakeup /\ OneScan /\ Scans /\ InputBuffered /\ PutKept /\ NoLostScan
      /\ AssertsHold
  BY DEF CaInv
<1>1. ca[p].plink /\ p \in Links
  BY <1>0, Typed DEF Linked
<1>2. c.plink = ca[p].plink /\ c.link_action = ca[p].link_action
  BY DEF SameButPut
<1>3. /\ ca' \in [Links -> CaLinks] /\ \A q \in Links : q # p => ca'[q] = ca[q]
      /\ ca'[p].link_action = ca[p].link_action \cup acts /\ SameRest(ca'[p], c)
      /\ workList' \in Seq(0 .. last) /\ workListEvent' \in BOOLEAN
      /\ UNCHANGED <<dbCaCtl, removesOutstanding>>
      /\ Linked' /\ Listed' /\ Removes' /\ NoLostWakeup'
      /\ \A q \in 1 .. last : (Owned(q)' <=> Owned(q))
  BY <1>0, <1>1, <1>2, UpdateStep
<1>4. \A q \in Links :
         /\ ca'[q].refcount = ca[q].refcount /\ ca'[q].plink = ca[q].plink
         /\ ca'[q].isConnected = ca[q].isConnected
         /\ ca'[q].gotFirstConnection = ca[q].gotFirstConnection /\ ca'[q].shape = ca[q].shape
         /\ ca'[q].pget = ca[q].pget /\ ca'[q].gotIn = ca[q].gotIn
         /\ ca'[q].scanningOnce = ca[q].scanningOnce
         /\ "CA_CONNECT" \in ca'[q].link_action <=> "CA_CONNECT" \in ca[q].link_action
  BY <1>3 DEF SameRest, SameButPut
<1>5. Types' /\ Unused'
  <2>1. /\ scan' \in [pc : {"idle", "process", "complete", "dec", "free", "call"}, p : 0 .. last]
        /\ stale' \in BOOLEAN
    BY <1>0, TypesThen DEF ScanGoes
  <2>2. Types'
    BY <1>0, <1>3, <2>1, TypesThen, TypesKept
  <2>3. \A q \in Links : q > last => ca'[q] = ca[q] /\ chan'[q] = chan[q]
    <3>1. \A q \in Links : q > last => q # p
      BY <1>0, Typed
    <3>. QED  BY <1>3, <3>1
  <2>. QED  BY <1>0, <2>2, <2>3, UnusedKept
<1>6. TaskGoes /\ CallbackGoes /\ SameConnection /\ SameChannels
  BY <1>4 DEF TaskGoes, CallbackGoes, SameConnection, SameChannels
<1>7. InHand' /\ RefsCounted'
  BY <1>0, <1>3, <1>4, <1>6, HandsKept
<1>8. Channeled'
  BY <1>0, <1>6, ChannelsKept
<1>9. OneScan' /\ Scans'
  BY <1>0, <1>4, ScansKept
<1>10. Stale' /\ NoLostScan'
  BY DEF Stale, NoLostScan
<1>11. InputBuffered' /\ AssertsHold'
  <2>1. Links' = Links
    BY DEF Links
  <2>. QED  BY <1>0, <1>4, <2>1 DEF InputBuffered, AssertsHold
<1>. QED  BY <1>3, <1>5, <1>7, <1>8, <1>9, <1>10, <1>11 DEF CaInv

\* Processing may do nothing for the link.
LEMMA IdleKeeps ==
    ASSUME CaInv, UNCHANGED <<ca, listVars, link, pact>>, ScanGoes, stale' = FALSE,
           UNCHANGED <<inst, unsubscribed, paused, last, freed, chan, task, cb, onceQ, refused,
                       user, asserted, lost>>
    PROVE  CaInv'
<1>0. /\ Types /\ Unused /\ Linked /\ Listed /\ Removes /\ InHand /\ Channeled /\ Buffered
      /\ Answering /\ Stale /\ Monitored
      /\ RefsCounted /\ NoLostWakeup /\ OneScan /\ Scans /\ InputBuffered /\ PutKept /\ NoLostScan
      /\ AssertsHold
  BY DEF CaInv
<1>1. UNCHANGED <<workList, workListEvent, dbCaCtl, removesOutstanding>>
  BY DEF listVars
<1>2. /\ SameOnList /\ SameConnection /\ SameChannels /\ CallbackGoes /\ TaskGoes /\ Links' = Links
  BY DEF SameOnList, SameConnection, SameChannels, CallbackGoes, TaskGoes, Links
<1>3. Types' /\ Unused'
  <2>1. /\ scan' \in [pc : {"idle", "process", "complete", "dec", "free", "call"}, p : 0 .. last]
        /\ stale' \in BOOLEAN
    BY <1>0, TypesThen DEF ScanGoes
  <2>2. Types'
    BY <1>0, <1>1, <2>1, TypesThen, TypesKept
  <2>. QED  BY <1>0, <2>2, UnusedKept
<1>4. Linked' /\ Listed' /\ Removes'
  BY <1>0, <1>1, <1>2, OwnersKept
<1>5. \A q \in 1 .. last : (Owned(q)' <=> Owned(q))
  BY <1>0, <1>2, OwnedKept
<1>6. InHand' /\ RefsCounted'
  BY <1>0, <1>2, <1>5, HandsKept
<1>7. Channeled'
  BY <1>0, <1>2, ChannelsKept
<1>8. Buffered'
  BY <1>0, <1>2, BuffersKept
<1>9. Answering'
  <2>1. \A t : CallsBack(t)' <=> CallsBack(t)
    BY <1>0, RequestsKept DEF CallsBack
  <2>. QED  BY <1>0, <2>1, AnsweringKept
<1>10. Monitored'
  <2>1. \A q \in Links : Known(q)' => Known(q)
    BY DEF Known
  <2>. QED  BY <1>0, <2>1, MonitoredKept
<1>11. OneScan' /\ Scans'
  BY <1>0, <1>2, ScansKept
<1>12. Stale' /\ NoLostScan' /\ NoLostWakeup'
  BY <1>0, <1>1 DEF Stale, NoLostScan, NoLostWakeup
<1>13. InputBuffered' /\ AssertsHold'
  BY <1>0, <1>2 DEF InputBuffered, AssertsHold
<1>14. PutKept'
  BY <1>0, PutsKept
<1>. QED  BY <1>3, <1>4, <1>6, <1>7, <1>8, <1>9, <1>10, <1>11, <1>12, <1>13, <1>14 DEF CaInv
-----------------------------------------------------------------------------
\* What an enumeration is read or written as.
LEMMA KindOf ==
    ASSUME NEW c
    PROVE  Kind(c) \in Kinds /\ (Kind(c) = "string" => c.shape \in EnumShapes)
BY DEF Kind, Kinds

\* The bits are actions, and differ.
LEMMA BitsOf ==
    ASSUME NEW k \in Kinds
    PROVE  /\ {Monitor[k]} \in SUBSET LinkBits /\ {Write[k]} \in SUBSET LinkBits
           /\ Monitor[k] \notin {"CA_CLEAR_CHANNEL", "CA_CONNECT", "CA_GET_ATTRIBUTES"}
           /\ Write[k] \notin {"CA_CLEAR_CHANNEL", "CA_CONNECT", "CA_GET_ATTRIBUTES"}
           /\ \A j \in Kinds : /\ Monitor[k] # Write[j]
                               /\ Monitor[j] = Monitor[k] <=> j = k
                               /\ Write[j] = Write[k] <=> j = k
BY DEF Kinds, Monitor, Write, LinkBits

\* The record reads its link, and asks for a subscription of the kind it needs.
LEMMA GetLinkKeeps ==
    ASSUME CaInv, dbCaGetLink, ScanGoes,
           UNCHANGED <<inst, unsubscribed, paused, last, freed, chan, task, cb, onceQ, refused,
                       user, asserted, lost>>
    PROVE  CaInv'
<1>a. PICK p : p = link.pvt
  OBVIOUS
<1>b. PICK k : k = Kind(ca[p])
  OBVIOUS
<1>c. PICK asks \in BOOLEAN :
         asks = (ca[p].isConnected /\ "read" \in ca[p].access /\ k \notin ca[p].pget)
  OBVIOUS
<1>0. /\ Types /\ Linked /\ Listed /\ Removes /\ Channeled /\ Buffered
      /\ Answering /\ Monitored /\ NoLostWakeup /\ PutKept
  BY DEF CaInv
<1> DEFINE acts == IF asks THEN {Monitor[k]} ELSE {}
<1>1. /\ p # NoLink /\ Update(p, ca[p], acts) /\ stale' = FALSE /\ pact' = pact
      /\ link' = IF asks THEN [link EXCEPT !.pvlMask = @ \cup {k}] ELSE link
  BY <1>a, <1>b, <1>c DEF dbCaGetLink
<1>2. /\ p \in 1 .. last /\ p \in Links /\ ca[p] \in CaLinks
      /\ k \in Kinds /\ (k = "string" => ca[p].shape \in EnumShapes)
  <2>1. p \in 0 .. last
    BY <1>0, <1>a, TypesThen
  <2>. QED  BY <1>0, <1>1, <1>b, <2>1, Typed, KindOf
<1>3. /\ acts \in SUBSET LinkBits /\ "CA_CLEAR_CHANNEL" \notin acts /\ "CA_CONNECT" \notin acts
      /\ \A j \in Kinds : Write[j] \notin acts /\ (Monitor[j] \in acts => j = k /\ asks)
  BY <1>2, BitsOf
<1>4. /\ link' \in [pvt : 0 .. last, pvlMask : SUBSET Kinds] /\ link'.pvt = p
      /\ link'.pvlMask = link.pvlMask \cup (IF asks THEN {k} ELSE {})
  <2>1. link \in [pvt : 0 .. last, pvlMask : SUBSET Kinds]
    BY <1>0, TypesThen
  <2>. QED  BY <1>1, <1>2, <1>a, <2>1
<1>5. SameButPut(ca[p], ca[p]) /\ ca[p].plink
  BY <1>0, <1>2, <1>a DEF SameButPut, Linked
<1>. HIDE DEF acts
<1>6. /\ \A q \in Links : q # p => ca'[q] = ca[q]
      /\ ca'[p].link_action = ca[p].link_action \cup acts /\ SameRest(ca'[p], ca[p])
  BY <1>0, <1>1, <1>2, <1>3, <1>4, <1>5, <1>a, UpdateStep
<1>7. \A q \in Links :
         /\ ca'[q].gotFirstConnection = ca[q].gotFirstConnection /\ ca'[q].plink = ca[q].plink
         /\ ca'[q].pget = ca[q].pget /\ ca'[q].pput = ca[q].pput
         /\ ca'[q].putCallback = ca[q].putCallback /\ ca'[q].putType = ca[q].putType
         /\ ca[q].link_action \subseteq ca'[q].link_action
         /\ \A j \in Kinds : /\ Write[j] \in ca'[q].link_action => Write[j] \in ca[q].link_action
                             /\ Monitor[j] \in ca'[q].link_action =>
                                   Monitor[j] \in ca[q].link_action \/ (asks /\ j = k)
  BY <1>3, <1>6 DEF SameRest
<1>8. asks => Monitor[k] \in ca'[p].link_action
  BY <1>6 DEF acts
<1>9. asks /\ k = "string" /\ OneShape => inst.shapes \subseteq EnumShapes
  <2>1. asks => ca[p].shape \in inst.shapes
    BY <1>0, <1>2, <1>c DEF Channeled
  <2>. QED  BY <1>0, <1>2, <2>1, TheShape
<1>10. Buffered'
  <2>1. OneShape /\ "string" \in link'.pvlMask =>
            "string" \in link.pvlMask \/ inst.shapes \subseteq EnumShapes
    BY <1>4, <1>9
  <2>2. \A q \in 1 .. last : q \in Links /\ "string" \in Kinds
    BY <1>0, Typed DEF Kinds
  <2>3. \A q \in 1 .. last : OneShape /\ Monitor["string"] \in ca'[q].link_action =>
            Monitor["string"] \in ca[q].link_action \/ inst.shapes \subseteq EnumShapes
    BY <1>7, <1>9, <2>2
  <2>4. \A q \in 1 .. last : \A j \in Kinds :
            Write[j] \in ca'[q].link_action => Write[j] \in ca[q].link_action
    BY <1>7, <2>2
  <2>5. \A q \in 1 .. last :
            /\ ca[q].pput \subseteq ca'[q].pput /\ ca[q].pget \subseteq ca'[q].pget
            /\ ca[q].gotFirstConnection => ca'[q].gotFirstConnection
    BY <1>7, <2>2
  <2>. QED  BY <1>0, <2>1, <2>3, <2>4, <2>5, BuffersThen
<1>11. Answering'
  <2>1. \A t : CallsBack(t)' <=> CallsBack(t)
    BY <1>0, RequestsKept DEF CallsBack
  <2>. QED  BY <1>0, <1>1, <1>7, <2>1, AnsweringKept
<1>12. Monitored'
  <2>1. /\ Known(p)' <=> Known(p)
        /\ \A j \in Kinds : Subscribed(p, j)' = Subscribed(p, j)
        /\ \A a : Asked(p, a) => Asked(p, a)'
        /\ ca'[p].pget = ca[p].pget /\ ca[p].link_action \subseteq ca'[p].link_action
    BY <1>2, <1>7 DEF Known, Subscribed, Asked
  <2>2. asks => Asked(p, Monitor[k])'
    BY <1>8 DEF Asked
  <2>3. ASSUME p \notin unsubscribed, NEW j \in Kinds
        PROVE  /\ j \in ca'[p].pget => Subscribed(p, j)' \/ (task'.p = p /\ task'.pc = Monitor[j])
               /\ j \in link'.pvlMask /\ task'.p = p /\ task'.pc = Monitor[j] =>
                     j \in ca'[p].pget \/ Monitor[j] \in ca'[p].link_action
               /\ Known(p)' /\ j \in link'.pvlMask =>
                     Asked(p, Monitor[j])' \/ (j \in ca'[p].pget /\ Subscribed(p, j)')
    <3>1. /\ j \in ca[p].pget => Subscribed(p, j) \/ (task.p = p /\ task.pc = Monitor[j])
          /\ j \in link.pvlMask /\ task.p = p /\ task.pc = Monitor[j] =>
                j \in ca[p].pget \/ Monitor[j] \in ca[p].link_action
          /\ Known(p) /\ j \in link.pvlMask =>
                Asked(p, Monitor[j]) \/ (j \in ca[p].pget /\ Subscribed(p, j))
      BY <1>0, <1>1, <1>a, <2>3 DEF Monitored
    <3>2. j \in link'.pvlMask => j \in link.pvlMask \/ (asks /\ j = k)
      BY <1>4
    <3>. QED  BY <1>8, <2>1, <2>2, <3>1, <3>2
  <2>. QED  BY <1>4, <2>3 DEF Monitored
<1>13. PutKept'
  BY <1>0, <1>7, PutsKept
<1>14. pact' \in BOOLEAN
  BY <1>0, <1>1, TypesThen
<1>. QED  BY <1>1, <1>2, <1>3, <1>4, <1>5, <1>10, <1>11, <1>12, <1>13, <1>14, <1>a, ProcessKeeps

\* The record writes its link: the put's callback, if there is one, is the only one.
LEMMA PutLinkKeeps ==
    ASSUME CaInv, NEW async \in BOOLEAN, dbCaPutLinkCallback(async), ScanGoes,
           UNCHANGED <<inst, unsubscribed, paused, last, freed, chan, task, cb, onceQ, refused,
                       user, asserted, lost>>
    PROVE  CaInv'
<1>a. PICK p : p = link.pvt
  OBVIOUS
<1>b. PICK k : k = Kind(ca[p])
  OBVIOUS
<1>0. /\ Types /\ Linked /\ Listed /\ Removes /\ Channeled /\ Buffered /\ InHand
      /\ Answering /\ Monitored /\ NoLostWakeup /\ PutKept /\ Stale
  BY DEF CaInv
<1> DEFINE c == [ca[p] EXCEPT !.pput = @ \cup {k},
                              !.putType = IF async THEN "CA_PUT_CALLBACK" ELSE "CA_PUT",
                              !.putCallback = async]
<1>1. /\ p # NoLink /\ inst.use \notin Inputs /\ ~pact /\ link' = link /\ stale' = stale
      /\ \/ /\ ca[p].isConnected /\ addAction(p, c, {Write[k]}) /\ pact' = async
         \/ UNCHANGED <<ca, listVars, pact>>
  BY <1>a, <1>b DEF dbCaPutLinkCallback
<1>2. stale' = FALSE
  BY <1>0, <1>1 DEF Stale, Inputs, Types
<1>3. CASE UNCHANGED <<ca, listVars, pact>>
  BY <1>1, <1>2, <1>3, IdleKeeps
<1>4. CASE ca[p].isConnected /\ addAction(p, c, {Write[k]}) /\ pact' = async
  <2>1. p \in 1 .. last /\ p \in Links /\ ca[p] \in CaLinks /\ k \in Kinds
    <3>1. p \in 0 .. last
      BY <1>0, <1>a, TypesThen
    <3>. QED  BY <1>0, <1>1, <1>b, <3>1, Typed, KindOf
  <2>2. /\ c \in CaLinks /\ SameButPut(c, ca[p]) /\ c.pput = ca[p].pput \cup {k}
        /\ c.putType = (IF async THEN "CA_PUT_CALLBACK" ELSE "CA_PUT") /\ c.putCallback = async
    <3> DEFINE t == IF async THEN "CA_PUT_CALLBACK" ELSE "CA_PUT"
    <3>1. t \in {"none", "CA_PUT", "CA_PUT_CALLBACK"} /\ ca[p].pput \cup {k} \in SUBSET Kinds
      BY <2>1 DEF CaLinks
    <3>2. c = [ca[p] EXCEPT !.pput = ca[p].pput \cup {k}, !.putType = t, !.putCallback = async]
      OBVIOUS
    <3>. HIDE DEF LinkBits, t, c
    <3>3. /\ c \in CaLinks /\ SameButPut(c, ca[p]) /\ c.pput = ca[p].pput \cup {k}
          /\ c.putType = t /\ c.putCallback = async
      BY <2>1, <3>1, <3>2 DEF CaLinks, SameButPut
    <3>. QED  BY <3>3 DEF t
  <2>. HIDE DEF c
  <2>3. /\ {Write[k]} \in SUBSET LinkBits /\ "CA_CLEAR_CHANNEL" \notin {Write[k]}
        /\ "CA_CONNECT" \notin {Write[k]}
        /\ \A j \in Kinds : Monitor[j] # Write[k] /\ (Write[j] = Write[k] => j = k)
    BY <2>1, BitsOf
  <2>4. Update(p, c, {Write[k]})
    BY <1>4 DEF Update
  <2>5. c.plink = ca[p].plink /\ c.link_action = ca[p].link_action /\ ca[p].plink
    BY <1>0, <2>1, <2>2, <1>a DEF SameButPut, Linked
  <2>6. /\ \A q \in Links : q # p => ca'[q] = ca[q]
        /\ ca'[p].link_action = ca[p].link_action \cup {Write[k]} /\ SameRest(ca'[p], c)
    BY <1>0, <1>1, <2>1, <2>2, <2>3, <2>4, <2>5, <1>a, UpdateStep
  <2>7. /\ ca'[p].putCallback = async /\ ca'[p].pput = ca[p].pput \cup {k}
        /\ ca'[p].putType = (IF async THEN "CA_PUT_CALLBACK" ELSE "CA_PUT")
        /\ ca'[p].gotFirstConnection = ca[p].gotFirstConnection /\ ca'[p].pget = ca[p].pget
        /\ ca[p].gotFirstConnection /\ Write[k] \in ca'[p].link_action
    BY <1>0, <1>4, <2>1, <2>2, <2>6 DEF SameRest, SameButPut, Channeled
  <2>8. \A q \in Links : /\ ca[q].pput \subseteq ca'[q].pput /\ ca'[q].pget = ca[q].pget
                         /\ ca'[q].gotFirstConnection = ca[q].gotFirstConnection
                         /\ ca[q].link_action \subseteq ca'[q].link_action
    BY <2>6, <2>7
  <2>9. Buffered'
    <3>1. \A q \in 1 .. last : q \in Links
      BY <1>0, Typed
    <3>2. ASSUME NEW q \in 1 .. last, NEW j \in Kinds, Write[j] \in ca'[q].link_action
          PROVE  Write[j] \in ca[q].link_action \/ (j \in ca'[q].pput /\ ca'[q].gotFirstConnection)
      BY <2>3, <2>6, <2>7, <3>1, <3>2
    <3>3. \A q \in 1 .. last :
             Monitor["string"] \in ca'[q].link_action => Monitor["string"] \in ca[q].link_action
      BY <2>3, <2>6, <3>1 DEF Kinds
    <3>4. \A q \in 1 .. last :
             /\ ca[q].pput \subseteq ca'[q].pput /\ ca[q].pget \subseteq ca'[q].pget
             /\ ca[q].gotFirstConnection => ca'[q].gotFirstConnection
             /\ chan'[q].subs \subseteq chan[q].subs
      BY <2>8, <3>1
    <3>5. link'.pvlMask = link.pvlMask /\ (lost' = 0 => lost = 0)
      BY <1>1
    <3>. QED  BY <1>0, <3>2, <3>3, <3>4, <3>5, BuffersThen
  <2>10. /\ \A q \in Links : ~ca[q].putCallback
         /\ \A t \in {"cb", "task", "scan"} : ~CallsBack(t) /\ ~CallsBack(t)'
    <3>1. \A t : CallsBack(t)' <=> CallsBack(t)
      BY <1>0, RequestsKept DEF CallsBack
    <3>. QED  BY <1>0, <1>1, <3>1 DEF Answering
  <2>11. /\ \A q \in Links : ca'[q].putCallback => q = p /\ async
         /\ ca'[p].putCallback = async /\ Links' = Links
    BY <2>6, <2>7, <2>10 DEF Links
  <2>12. Answering'
    BY <1>1, <1>4, <2>1, <2>7, <2>10, <2>11 DEF Answering
  <2>13. Monitored'
    <3>1. Known(p)' <=> Known(p)
      BY DEF Known
    <3>. QED  BY <1>0, <1>1, <1>a, <2>1, <2>8, <3>1, MonitoredThen
  <2>14. PutKept'
    <3>1. PutGoing(p)'
      BY <2>1, <2>7 DEF PutGoing
    <3>. QED  BY <2>11, <3>1 DEF PutKept
  <2>15. /\ pact' \in BOOLEAN /\ link' \in [pvt : 0 .. last, pvlMask : SUBSET Kinds]
         /\ link'.pvt = p
    BY <1>0, <1>1, <1>4, <1>a, TypesThen
  <2>. QED  BY <1>2, <1>a, <2>1, <2>2, <2>3, <2>4, <2>9, <2>12, <2>13, <2>14, <2>15, ProcessKeeps
<1>. QED  BY <1>1, <1>3, <1>4

\* The record is processed by its own thread, or for a scan request.
LEMMA ProcessStep ==
    ASSUME CaInv, asserted = {}, UserProcess \/ ScanProcess
    PROVE  CaInv'
<1>0. Types /\ Answering /\ Stale
  BY DEF CaInv
<1>1. /\ Process /\ ScanGoes
      /\ UNCHANGED <<inst, unsubscribed, paused, last, freed, chan, task, cb, onceQ, refused,
                     user, asserted, lost>>
  BY DEF UserProcess, ScanProcess, scanVars, ScanGoes
<1>2. stale' = FALSE
  BY <1>0, <1>1, ProcessedFresh
<1>3. CASE dbCaGetLink
  BY <1>1, <1>3, GetLinkKeeps
<1>4. CASE \E async \in BOOLEAN : dbCaPutLinkCallback(async)
  BY <1>1, <1>4, PutLinkKeeps
<1>5. CASE (pact \/ link.pvt = NoLink) /\ UNCHANGED <<ca, listVars, link, pact, stale>>
  BY <1>1, <1>2, <1>5, IdleKeeps
<1>. QED  BY <1>1, <1>3, <1>4, <1>5 DEF Process
-----------------------------------------------------------------------------
(* Channels connect and are lost, and the library calls back.              *)

\* A channel that exists belongs to a structure that was allocated.
LEMMA ChannelUsed ==
    ASSUME Types, Unused, NEW p \in Links, chan[p].state # "none" \/ chan[p].puts > 0
    PROVE  p \in 1 .. last
<1>1. NoChannel.state = "none" /\ NoChannel.puts = 0
  BY DEF NoChannel
<1>2. p <= last
  BY <1>1, Typed DEF Unused
<1>. QED  BY <1>2, Typed

\* A channel connects or is lost; until the callback has been called dbCa does not know.
LEMMA NotifyKeeps ==
    ASSUME CaInv, NEW p \in 1 .. last, cb.pc = "idle", cb' = [pc |-> "notify", p |-> p],
           NEW d \in Channels, chan' = [chan EXCEPT ![p] = d],
           d.subs = chan[p].subs, d.puts = chan[p].puts, d.shape \in inst.shapes,
           chan[p].state \in {"created", "conn", "disc"}, d.state \in {"conn", "disc"},
           d.state = "conn" => d.access \in inst.rights,
           lost' \in 0 .. inst.lost, lost' >= lost, d.state = "disc" => lost' > 0,
           chan[p].state = "conn" => lost' > 0,
           UNCHANGED <<recVars, last, ca, freed, listVars, task, scanVars, user, asserted>>
    PROVE  CaInv'
<1>0. /\ Types /\ Unused /\ Linked /\ Listed /\ Removes /\ InHand /\ Channeled /\ Buffered
      /\ Answering /\ Stale /\ Monitored
      /\ RefsCounted /\ NoLostWakeup /\ OneScan /\ Scans /\ InputBuffered /\ PutKept /\ NoLostScan
      /\ AssertsHold
  BY DEF CaInv
<1>1. UNCHANGED <<inst, link, last, ca, freed, workList, workListEvent, dbCaCtl, task, onceQ,
                  scan, removesOutstanding, user, pact, refused, asserted, unsubscribed, paused,
                  stale>>
  BY DEF recVars, listVars, scanVars
<1>2. /\ p \in Links /\ p # NoLink /\ last \in Nat /\ lost \in Nat /\ cb.p = NoLink
      /\ \A q \in 1 .. last : q \in Links /\ q # NoLink /\ chan[q] \in Channels
  <2>1. p \in Links /\ p # NoLink
    BY <1>0, Typed
  <2>2. last \in Nat /\ lost \in Nat
    BY <1>0, Typed DEF Types
  <2>3. cb.p = NoLink
    BY <1>0 DEF Channeled
  <2>4. ASSUME NEW q \in 1 .. last PROVE q \in Links /\ q # NoLink /\ chan[q] \in Channels
    BY ONLY <1>0, <2>4, Typed
  <2>. QED  BY ONLY <2>1, <2>2, <2>3, <2>4
<1>3. /\ chan' \in [Links -> Channels] /\ chan'[p] = d /\ \A q \in Links : q # p
            => chan'[q] = chan[q]
  <2>1. chan \in [Links -> Channels]
    BY <1>0, TypesThen
  <2>. HIDE DEF Channels
  <2>. QED  BY <1>2, <2>1
<1>4. \A q \in Links : chan'[q].subs = chan[q].subs /\ chan'[q].puts = chan[q].puts
  BY <1>3
<1>5. Types' /\ Unused'
  <2>1. cb' \in [pc : {"idle", "notify", "call", "callThenNotify"}, p : 0 .. last]
    BY <1>2
  <2>2. \A q \in Links : IsFiniteSet(chan'[q].subs)
    BY <1>0, <1>4, TypesThen
  <2>3. Types'
    BY <1>0, <1>1, <1>3, <2>1, <2>2, TypesThen, TypesKept
  <2>4. \A q \in Links : q > last => ca'[q] = ca[q] /\ chan'[q] = chan[q]
    <3>1. \A q \in Links : q > last => q # p
      BY <1>2, Typed
    <3>. QED  BY <1>1, <1>3, <3>1
  <2>. QED  BY <1>0, <1>1, <2>3, <2>4, UnusedKept
<1>6. SameOnList /\ TaskGoes /\ ScanGoes /\ Links' = Links
  BY <1>1 DEF SameOnList, TaskGoes, ScanGoes, Links
<1>7. Linked' /\ Listed' /\ Removes'
  BY <1>0, <1>1, <1>6, OwnersKept
<1>8. \A q \in 1 .. last : (Owned(q)' <=> Owned(q))
  BY <1>0, <1>1, <1>6, OwnedKept
<1>9. InHand' /\ RefsCounted'
  BY <1>0, <1>1, <1>6, <1>8, HandsKept
<1>10. Channeled'
  <2>1. ASSUME NEW q \in 1 .. last
        PROVE  /\ chan'[q].state = "cleared" <=> q \in freed
               /\ Connects(q) => chan'[q].state = "none"
               /\ chan'[q].puts > 0 \/ chan'[q].subs # {} => chan'[q].state \in {"conn", "disc"}
               /\ chan'[q].state \in {"conn", "disc"} => chan'[q].shape \in inst.shapes
               /\ chan'[q].state = "conn" => chan'[q].access \in inst.rights
               /\ chan'[q].state = "disc" => lost' > 0
               /\ ca[q].gotFirstConnection =>
                     /\ ca[q].shape \in inst.shapes /\ chan'[q].state \in {"conn", "disc"}
                     /\ lost' = 0 => ~(cb'.p = q /\ cb'.pc = "notify")
               /\ ca[q].isConnected => ca[q].gotFirstConnection
    <3>1. CASE q = p
      <4>1. chan[p].state # "cleared" /\ p \notin freed /\ ~Connects(p)
        BY <1>0 DEF Channeled
      <4>2. ca[p].gotFirstConnection => ca[p].shape \in inst.shapes /\ lost' # 0
        BY <1>0, <1>2 DEF Channeled
      <4>3. ca[p].isConnected => ca[p].gotFirstConnection
        BY <1>0 DEF Channeled
      <4>. QED  BY <1>3, <3>1, <4>1, <4>2, <4>3
    <3>2. CASE q # p
      <4>1. chan'[q] = chan[q] /\ cb'.p # q
        BY <1>2, <1>3, <3>2
      <4>2. chan[q].state = "disc" => lost' > 0
        BY <1>0, <1>2 DEF Channeled
      <4>. QED  BY <1>0, <4>1, <4>2 DEF Channeled
    <3>. QED  BY <3>1, <3>2
  <2>2. \A q : Connects(q)' <=> Connects(q)
    BY <1>1 DEF Connects
  <2>3. task.pc \in Acting \ {"act"} => chan'[task.p].state \in {"conn", "disc"}
    <3>1. task.pc \in Acting => task.p \in Links
      <4>1. task.p \in 0 .. last
        BY <1>0, TypesThen
      <4>2. task.pc \in Acting => task.p # NoLink
        BY <1>0 DEF InHand, Acting, Monitors, Monitor, Kinds
      <4>. QED  BY <1>0, <4>1, <4>2, Typed
    <3>. QED  BY <1>0, <1>3, <3>1 DEF Channeled
  <2>4. cb'.pc = "notify" /\ cb'.p = p /\ chan'[p].state \in {"conn", "disc"}
    BY <1>3
  <2>. QED  BY <1>0, <1>1, <1>2, <2>1, <2>2, <2>3, <2>4 DEF Channeled
<1>11. Buffered'
  <2>1. lost' = 0 => lost = 0
    BY <1>2
  <2>. QED  BY <1>0, <1>1, <1>4, <1>6, <2>1, BuffersKept
<1>12. Answering'
  <2>1. \A t : CallsBack(t)' <=> CallsBack(t)
    BY <1>1 DEF CallsBack
  <2>. QED  BY <1>0, <1>1, <2>1, AnsweringKept
<1>13. Monitored'
  <2>1. \A q \in Links : Known(q)' => Known(q)
    BY <1>2, <1>3 DEF Known
  <2>. QED  BY <1>0, <1>1, <1>4, <2>1, MonitoredKept
<1>14. OneScan' /\ Scans'
  BY <1>0, <1>1, <1>6, ScansKept
<1>15. Stale' /\ NoLostScan'
  BY <1>0, <1>1, StaleKept
<1>16. NoLostWakeup' /\ InputBuffered' /\ AssertsHold'
  BY <1>0, <1>1, <1>6 DEF NoLostWakeup, InputBuffered, AssertsHold
<1>17. PutKept'
  <2>1. lost' = 0 => lost = 0
    BY <1>2
  <2>. QED  BY <1>0, <1>1, <1>4, <2>1, PutsKept
<1>. QED  BY <1>5, <1>7, <1>9, <1>10, <1>11, <1>12, <1>13, <1>14, <1>15, <1>16, <1>17 DEF CaInv

\* A channel connects, with the type and the rights the server gives now.
LEMMA ConnectStep ==
    ASSUME CaInv, asserted = {}, NEW p \in Links, NEW s \in inst.shapes, NEW r \in inst.rights,
           Connect(p, s, r)
    PROVE  CaInv'
<1>0. Types /\ Unused
  BY DEF CaInv
<1> DEFINE d == [chan[p] EXCEPT !.state = "conn", !.shape = s, !.access = r]
<1>1. /\ cb.pc = "idle" /\ chan[p].state \in {"created", "disc"}
      /\ chan' = [chan EXCEPT ![p] = d] /\ cb' = [pc |-> "notify", p |-> p]
      /\ UNCHANGED <<recVars, last, ca, freed, listVars, task, scanVars, user, asserted, lost>>
  BY DEF Connect
<1>2. /\ d \in Channels /\ d.subs = chan[p].subs /\ d.puts = chan[p].puts /\ d.shape = s
      /\ d.state = "conn" /\ d.access = r
  <2>1. chan[p] \in Channels /\ s \in Shapes /\ r \in SUBSET {"read", "write"}
    BY <1>0, Typed
  <2>. QED  BY <2>1 DEF Channels
<1>. HIDE DEF d
<1>3. p \in 1 .. last
  BY <1>0, <1>1, ChannelUsed
<1>4. lost \in 0 .. inst.lost /\ lost >= lost
  BY <1>0, Typed, TypesThen
<1>. QED  BY <1>1, <1>2, <1>3, <1>4, NotifyKeeps

\* A channel is lost.
LEMMA DisconnectStep ==
    ASSUME CaInv, asserted = {}, NEW p \in Links, Disconnect(p)
    PROVE  CaInv'
<1>0. Types /\ Unused /\ Channeled
  BY DEF CaInv
<1> DEFINE d == [chan[p] EXCEPT !.state = "disc", !.gets = 0]
<1>1. /\ cb.pc = "idle" /\ chan[p].state = "conn" /\ lost < inst.lost /\ lost' = lost + 1
      /\ chan' = [chan EXCEPT ![p] = d] /\ cb' = [pc |-> "notify", p |-> p]
      /\ UNCHANGED <<recVars, last, ca, freed, listVars, task, scanVars, user, asserted>>
  BY DEF Disconnect
<1>2. /\ d \in Channels /\ d.subs = chan[p].subs /\ d.puts = chan[p].puts
      /\ d.shape = chan[p].shape /\ d.state = "disc"
  <2>1. chan[p] \in Channels
    BY <1>0, Typed
  <2>. QED  BY <2>1 DEF Channels
<1>. HIDE DEF d
<1>3. p \in 1 .. last
  BY <1>0, <1>1, ChannelUsed
<1>4. chan[p].shape \in inst.shapes
  BY <1>0, <1>1, <1>3 DEF Channeled
<1>5. lost' \in 0 .. inst.lost /\ lost' >= lost /\ lost' > 0
  <2>1. lost \in 0 .. inst.lost /\ inst.lost \in Nat
    BY <1>0, Typed, TypesThen
  <2>. QED  BY <1>1, <2>1
<1>. QED  BY <1>1, <1>2, <1>3, <1>4, <1>5, NotifyKeeps
-----------------------------------------------------------------------------
\* All fields of a structure that a connection does not set.
SameButConnection(d, c) ==
    /\ d.link_action = c.link_action /\ d.plink = c.plink /\ d.refcount = c.refcount
    /\ d.putCallback = c.putCallback /\ d.putType = c.putType /\ d.scanningOnce = c.scanningOnce

\* dbCa learns of a connection: subscriptions of another type go, those the link wants are made.
LEMMA ConnectedStep ==
    ASSUME CaInv, asserted = {}, Connected
    PROVE  CaInv'
<1>a. PICK p : p = cb.p
  OBVIOUS
<1>b. PICK retyped \in BOOLEAN :
         retyped = (ca[p].gotFirstConnection /\ ca[p].shape # chan[p].shape)
  OBVIOUS
<1>c. PICK mask : mask = IF retyped THEN {} ELSE link.pvlMask
  OBVIOUS
<1> DEFINE d == IF retyped THEN Cleared(ca[p]) ELSE ca[p]
           c == [d EXCEPT !.isConnected = TRUE, !.access = chan[p].access,
                          !.gotFirstConnection = TRUE, !.shape = chan[p].shape,
                          !.gotAttributes = FALSE]
           acts == {Monitor[k] : k \in mask \ d.pget} \cup {"CA_GET_ATTRIBUTES"}
           lives(s) == ~retyped \/ ca[p].evid[s.kind] # s.id
<1>0. /\ Types /\ Unused /\ Linked /\ Listed /\ Removes /\ InHand /\ Channeled /\ Buffered
      /\ Answering /\ Stale /\ Monitored
      /\ RefsCounted /\ NoLostWakeup /\ OneScan /\ Scans /\ InputBuffered /\ PutKept /\ NoLostScan
      /\ AssertsHold
  BY DEF CaInv
<1>1. /\ cb.pc = "notify" /\ chan[p].state = "conn" /\ cb' = Idle
      /\ \/ /\ ca[p].plink /\ Update(p, c, acts)
            /\ chan' = [chan EXCEPT ![p].subs = {s \in @ : lives(s)}]
            /\ link' = [link EXCEPT !.pvlMask = mask]
         \/ ~ca[p].plink /\ UNCHANGED <<ca, listVars, chan, link>>
      /\ UNCHANGED <<inst, unsubscribed, paused, last, freed, task, onceQ, scan, refused, user,
                     pact, asserted, lost, stale>>
  <2>1. ~retyped => chan = [chan EXCEPT ![p].subs = {s \in @ : lives(s)}]
    <3>1. chan \in [Links -> Channels] /\ p \in 0 .. last
      BY <1>0, <1>a, TypesThen
    <3>2. CASE p \in Links
      <4>1. chan[p] \in Channels
        BY <3>1, <3>2
      <4>2. ~retyped => {s \in chan[p].subs : lives(s)} = chan[p].subs
        OBVIOUS
      <4>3. [chan[p] EXCEPT !.subs = chan[p].subs] = chan[p]
        BY <4>1 DEF Channels
      <4>. HIDE DEF Channels
      <4>. QED  BY <3>1, <3>2, <4>2, <4>3
    <3>3. CASE p \notin Links
      <4>. HIDE DEF lives
      <4>. QED  BY <3>1, <3>3
    <3>. QED  BY <3>2, <3>3
  <2>. QED  BY <1>a, <1>b, <1>c, <2>1, ZenonT(60) DEF Connected, scanVars
<1>2. p \in 1 .. last /\ p \in Links /\ p # NoLink
  <2>1. p \in 0 .. last /\ p # NoLink
    BY <1>0, <1>1, <1>a, TypesThen DEF Channeled
  <2>. QED  BY <1>0, <2>1, Typed
<1>3. ca[p] \in CaLinks /\ chan[p] \in Channels /\ \A q \in 1 .. last : q \in Links /\ q # NoLink
  BY <1>0, <1>2, Typed
<1>4. Idle \in [pc : {"idle", "notify", "call", "callThenNotify"}, p : 0 .. last]
  BY <1>0, Typed DEF Idle, NoLink
<1>5. CASE ~ca[p].plink /\ UNCHANGED <<ca, listVars, chan, link>>
  <2>1. UNCHANGED <<workList, workListEvent, dbCaCtl, removesOutstanding>>
    BY <1>5 DEF listVars
  <2>2. /\ SameOnList /\ SameConnection /\ SameChannels /\ CallbackGoes /\ TaskGoes /\ ScanGoes
        /\ Links' = Links /\ link.pvt # p
    BY <1>0, <1>1, <1>2, <1>5 DEF SameOnList, SameConnection, SameChannels, CallbackGoes, TaskGoes,
       ScanGoes, Links, Linked
  <2>3. Types' /\ Unused'
    <3>1. Types'
      BY <1>0, <1>1, <1>4, <1>5, <2>1, TypesThen, TypesKept
    <3>. QED  BY <1>0, <1>1, <1>5, <3>1, UnusedKept
  <2>4. Linked' /\ Listed' /\ Removes'
    BY <1>0, <1>1, <1>5, <2>1, <2>2, OwnersKept
  <2>5. \A q \in 1 .. last : (Owned(q)' <=> Owned(q))
    BY <1>0, <1>1, <2>2, OwnedKept
  <2>6. InHand' /\ RefsCounted'
    BY <1>0, <1>1, <1>5, <2>2, <2>5, HandsKept
  <2>7. Channeled'
    BY <1>0, <1>1, <1>5, <2>2, ChannelsKept
  <2>8. Buffered'
    BY <1>0, <1>1, <1>5, <2>2, BuffersKept
  <2>9. Answering'
    <3>1. \A t : CallsBack(t)' <=> CallsBack(t)
      BY <1>1 DEF CallsBack, Idle
    <3>. QED  BY <1>0, <1>1, <1>5, <3>1, AnsweringKept
  <2>10. Monitored'
    <3>1. Known(link.pvt)' => Known(link.pvt)
      BY <1>1, <1>5, <1>a, <2>2 DEF Known
    <3>. QED  BY <1>0, <1>1, <1>5, <3>1, MonitoredThen
  <2>11. OneScan' /\ Scans'
    BY <1>0, <1>1, <1>5, <2>2, ScansKept
  <2>12. Stale' /\ NoLostScan'
    BY <1>0, <1>1, <1>5, StaleKept
  <2>13. NoLostWakeup' /\ InputBuffered' /\ AssertsHold'
    BY <1>0, <1>1, <1>5, <2>1, <2>2 DEF NoLostWakeup, InputBuffered, AssertsHold
  <2>14. PutKept'
    BY <1>0, <1>1, <1>5, PutsKept
  <2>. QED  BY <2>3, <2>4, <2>6, <2>7, <2>8, <2>9, <2>10, <2>11, <2>12, <2>13, <2>14 DEF CaInv
<1>6. CASE /\ ca[p].plink /\ Update(p, c, acts)
           /\ chan' = [chan EXCEPT ![p].subs = {s \in @ : lives(s)}]
           /\ link' = [link EXCEPT !.pvlMask = mask]
  <2>1. /\ d \in CaLinks /\ SameButConnection(d, ca[p])
        /\ d.pget = (IF retyped THEN {} ELSE ca[p].pget)
        /\ d.pput = (IF retyped THEN {} ELSE ca[p].pput)
        /\ d.gotIn = (IF retyped THEN {} ELSE ca[p].gotIn)
    <3>1. CASE retyped
      <4>1. [k \in Kinds |-> 0] \in [Kinds -> Nat] /\ {} \in SUBSET Kinds
        OBVIOUS
      <4>2. d = [ca[p] EXCEPT !.evid = [k \in Kinds |-> 0], !.gotIn = {}, !.pget = {}, !.pput = {}]
        BY <3>1 DEF Cleared
      <4>. HIDE DEF LinkBits, Kinds, d
      <4>. QED  BY <1>3, <3>1, <4>1, <4>2 DEF CaLinks, SameButConnection
    <3>2. CASE ~retyped
      BY <1>3, <3>2 DEF SameButConnection
    <3>. QED  BY <3>1, <3>2
  <2>. HIDE DEF d
  <2>2. /\ c \in CaLinks /\ SameButConnection(c, ca[p]) /\ c.isConnected /\ c.gotFirstConnection
        /\ c.shape = chan[p].shape /\ c.pget = d.pget /\ c.pput = d.pput /\ c.gotIn = d.gotIn
    <3>1. chan[p].access \in SUBSET {"read", "write"} /\ chan[p].shape \in Shapes \cup {"none"}
      BY <1>3 DEF Channels
    <3>. HIDE DEF LinkBits
    <3>. QED  BY <2>1, <3>1 DEF CaLinks, SameButConnection
  <2>3. mask \subseteq link.pvlMask /\ link.pvlMask \subseteq Kinds
    BY <1>0, <1>c, TypesThen
  <2>4. /\ acts \in SUBSET LinkBits /\ "CA_CLEAR_CHANNEL" \notin acts /\ "CA_CONNECT" \notin acts
        /\ \A k \in Kinds : Write[k] \notin acts /\ (Monitor[k] \in acts <=> k \in mask \ d.pget)
    <3>1. "CA_GET_ATTRIBUTES" \in LinkBits
      BY DEF LinkBits
    <3>2. \A k \in mask : k \in Kinds
      BY <2>3
    <3>. QED  BY <3>1, <3>2, BitsOf
  <2>. HIDE DEF acts
  <2>5. /\ link' \in [pvt : 0 .. last, pvlMask : SUBSET Kinds] /\ link'.pvt = link.pvt
        /\ link'.pvlMask = mask
    <3>1. link \in [pvt : 0 .. last, pvlMask : SUBSET Kinds] /\ mask \in SUBSET Kinds
      BY <1>0, <2>3, TypesThen
    <3>. QED  BY <1>6, <3>1
  <2>6. /\ chan' \in [Links -> Channels] /\ \A q \in Links : q # p => chan'[q] = chan[q]
        /\ chan'[p].subs = {s \in chan[p].subs : lives(s)}
        /\ chan'[p].state = chan[p].state /\ chan'[p].shape = chan[p].shape
        /\ chan'[p].access = chan[p].access /\ chan'[p].puts = chan[p].puts
    <3> DEFINE rest == {s \in chan[p].subs : lives(s)}
               e == [chan[p] EXCEPT !.subs = rest]
    <3>1. rest \subseteq chan[p].subs
      OBVIOUS
    <3>2. chan' = [chan EXCEPT ![p] = e]
      BY <1>6
    <3>. HIDE DEF rest
    <3>3. /\ e \in Channels /\ e.subs = rest /\ e.state = chan[p].state /\ e.shape = chan[p].shape
          /\ e.access = chan[p].access /\ e.puts = chan[p].puts
      BY <1>3, <3>1 DEF Channels
    <3>4. chan \in [Links -> Channels]
      BY <1>0, TypesThen
    <3>. HIDE DEF e, Channels
    <3>5. chan' \in [Links -> Channels] /\ chan'[p] = e /\ \A q \in Links : q # p
                => chan'[q] = chan[q]
      BY <1>2, <3>2, <3>3, <3>4
    <3>. QED  BY <3>3, <3>5 DEF rest
  <2>. HIDE DEF c
  <2>7. c.plink = ca[p].plink /\ c.link_action = ca[p].link_action
    BY <2>2 DEF SameButConnection
  <2>8. /\ ca' \in [Links -> CaLinks] /\ \A q \in Links : q # p => ca'[q] = ca[q]
        /\ ca'[p].link_action = ca[p].link_action \cup acts /\ SameRest(ca'[p], c)
        /\ workList' \in Seq(0 .. last) /\ workListEvent' \in BOOLEAN
        /\ UNCHANGED <<dbCaCtl, removesOutstanding>>
        /\ Linked' /\ Listed' /\ Removes' /\ NoLostWakeup'
        /\ \A q \in 1 .. last : (Owned(q)' <=> Owned(q))
    BY <1>0, <1>1, <1>2, <1>6, <2>2, <2>4, <2>5, <2>7, UpdateStep
  <2>9. /\ ca'[p].gotFirstConnection /\ ca'[p].shape = chan[p].shape /\ ca'[p].pget = d.pget
        /\ ca'[p].pput = d.pput /\ ca'[p].gotIn = d.gotIn /\ ca'[p].refcount = ca[p].refcount
        /\ ca'[p].plink = ca[p].plink /\ ca'[p].putCallback = ca[p].putCallback
        /\ ca'[p].putType = ca[p].putType /\ ca'[p].scanningOnce = ca[p].scanningOnce
    BY <2>2, <2>8 DEF SameRest, SameButConnection
  <2>10. \A q \in Links :
            /\ ca'[q].refcount = ca[q].refcount /\ ca'[q].plink = ca[q].plink
            /\ ca'[q].putCallback = ca[q].putCallback /\ ca'[q].putType = ca[q].putType
            /\ ca'[q].scanningOnce = ca[q].scanningOnce
            /\ ca[q].link_action \subseteq ca'[q].link_action
            /\ ("CA_CONNECT" \in ca'[q].link_action <=> "CA_CONNECT" \in ca[q].link_action)
            /\ chan'[q].state = chan[q].state /\ chan'[q].shape = chan[q].shape
            /\ chan'[q].access = chan[q].access /\ chan'[q].puts = chan[q].puts
            /\ chan'[q].subs \subseteq chan[q].subs
    BY <2>4, <2>6, <2>8, <2>9
  <2>11. Types' /\ Unused'
    <3>1. \A q \in Links : IsFiniteSet(chan'[q].subs)
      BY <1>0, <2>10, TypesThen, FS_Subset
    <3>2. Types'
      BY <1>0, <1>1, <1>4, <2>5, <2>6, <2>8, <3>1, TypesThen, TypesKept
    <3>3. \A q \in Links : q > last => ca'[q] = ca[q] /\ chan'[q] = chan[q]
      <4>1. \A q \in Links : q > last => q # p
        BY <1>0, <1>2, Typed
      <4>. QED  BY <2>6, <2>8, <4>1
    <3>. QED  BY <1>0, <1>1, <3>2, <3>3, UnusedKept
  <2>12. TaskGoes /\ ScanGoes /\ Links' = Links
    BY <1>1 DEF TaskGoes, ScanGoes, Links
  <2>13. InHand' /\ RefsCounted'
    BY <1>0, <1>1, <2>8, <2>10, <2>12, HandsKept
  <2>14. chan[p].shape \in inst.shapes
    BY <1>0, <1>1, <1>2 DEF Channeled
  <2>15. OneShape \/ lost = 0 => ~retyped
    <3>1. ASSUME OneShape, retyped PROVE FALSE
      <4>1. ca[p].shape \in inst.shapes /\ ca[p].shape # chan[p].shape
        BY <1>0, <1>2, <1>b, <3>1 DEF Channeled
      <4>. QED  BY <1>0, <2>14, <3>1, <4>1, TheShape
    <3>2. ASSUME lost = 0, retyped PROVE FALSE
      BY <1>0, <1>1, <1>2, <1>a, <1>b, <3>2 DEF Channeled
    <3>. QED  BY <3>1, <3>2
  <2>16. Channeled'
    <3>1. cb'.pc = "idle" /\ cb'.p = NoLink
      BY <1>1 DEF Idle
    <3>2. \A q \in 1 .. last : Connects(q)' <=> Connects(q)
      BY <1>1, <1>3, <2>10 DEF Connects
    <3>3. ASSUME NEW q \in 1 .. last
          PROVE  /\ chan'[q].state = "cleared" <=> q \in freed
                 /\ Connects(q) => chan'[q].state = "none"
                 /\ chan'[q].puts > 0 \/ chan'[q].subs # {} => chan'[q].state \in {"conn", "disc"}
                 /\ chan'[q].state \in {"conn", "disc"} => chan'[q].shape \in inst.shapes
                 /\ chan'[q].state = "conn" => chan'[q].access \in inst.rights
                 /\ chan'[q].state = "disc" => lost > 0
      BY <1>0, <1>3, <2>10 DEF Channeled
    <3>4. ASSUME NEW q \in 1 .. last
          PROVE  /\ ca'[q].gotFirstConnection =>
                       ca'[q].shape \in inst.shapes /\ chan'[q].state \in {"conn", "disc"}
                 /\ ca'[q].isConnected => ca'[q].gotFirstConnection
      <4>1. CASE q = p
        BY <1>1, <2>6, <2>9, <2>14, <4>1
      <4>2. CASE q # p
        <5>1. ca'[q] = ca[q] /\ chan'[q] = chan[q]
          BY <1>3, <2>6, <2>8, <4>2
        <5>. QED  BY <1>0, <5>1 DEF Channeled
      <4>. QED  BY <4>1, <4>2
    <3>5. /\ task.pc = "act" => task.p \in Links
          /\ task.pc \in Acting => task.p \in Links
      <4>1. task.p \in 0 .. last
        BY <1>0, TypesThen
      <4>2. task.pc \in Acting => task.p # NoLink
        BY <1>0 DEF InHand, Acting, Monitors, Monitor, Kinds
      <4>. QED  BY <1>0, <4>1, <4>2, Typed DEF Acting
    <3>6. /\ task.pc = "act" /\ "CA_CONNECT" \in task.todo =>
                "CA_CONNECT" \notin ca'[task.p].link_action
          /\ task.pc \in Acting \ {"act"} => chan'[task.p].state \in {"conn", "disc"}
      BY <1>0, <2>10, <3>5 DEF Channeled
    <3>. QED  BY <1>1, <3>1, <3>2, <3>3, <3>4, <3>6 DEF Channeled
  <2>17. Buffered'
    <3>1. OneShape /\ "string" \in mask => inst.shapes \subseteq EnumShapes
      BY <1>0, <2>3 DEF Buffered
    <3>2. OneShape /\ "string" \in link'.pvlMask =>
              "string" \in link.pvlMask \/ inst.shapes \subseteq EnumShapes
      BY <2>5, <3>1
    <3>3. ASSUME NEW q \in 1 .. last
          PROVE  /\ \A k \in Kinds : Write[k] \in ca'[q].link_action
                       => Write[k] \in ca[q].link_action
                 /\ OneShape /\ Monitor["string"] \in ca'[q].link_action =>
                       Monitor["string"] \in ca[q].link_action \/ inst.shapes \subseteq EnumShapes
      <4>1. CASE q = p
        BY <2>4, <2>8, <3>1, <4>1 DEF Kinds
      <4>2. CASE q # p
        BY <1>3, <2>8, <4>2
      <4>. QED  BY <4>1, <4>2
    <3>4. ASSUME OneShape \/ lost' = 0, NEW q \in 1 .. last
          PROVE  /\ ca[q].pput \subseteq ca'[q].pput /\ ca[q].pget \subseteq ca'[q].pget
                 /\ ca[q].gotFirstConnection => ca'[q].gotFirstConnection
                 /\ chan'[q].subs \subseteq chan[q].subs
      <4>1. CASE q = p
        BY <1>1, <2>1, <2>9, <2>10, <2>15, <3>4, <4>1, <1>3
      <4>2. CASE q # p
        BY <1>3, <2>8, <2>10, <4>2
      <4>. QED  BY <4>1, <4>2
    <3>. QED  BY <1>0, <1>1, <3>2, <3>3, <3>4, BuffersThen
  <2>18. Answering'
    <3>1. \A t : CallsBack(t)' <=> CallsBack(t)
      BY <1>1 DEF CallsBack, Idle
    <3>. QED  BY <1>0, <1>1, <2>10, <3>1, AnsweringKept
  <2>19. Monitored'
    <3>1. link.pvt = p /\ link'.pvt = p
      BY <1>0, <1>2, <1>6, <2>5 DEF Linked
    <3>2. CASE retyped
      BY <1>c, <2>1, <2>5, <2>9, <3>1, <3>2 DEF Monitored
    <3>3. CASE ~retyped
      <4>1. /\ link'.pvlMask = link.pvlMask /\ ca'[p].pget = ca[p].pget
            /\ chan'[p].subs = chan[p].subs
        BY <1>c, <2>1, <2>5, <2>6, <2>9, <3>3
      <4>2. /\ \A k \in Kinds : Subscribed(p, k)' = Subscribed(p, k)
            /\ \A k \in Kinds : k \in mask \ ca[p].pget => Asked(p, Monitor[k])'
        BY <2>1, <2>4, <2>8, <3>3, <4>1 DEF Subscribed, Asked
      <4>3. ASSUME p \notin unsubscribed, NEW k \in Kinds
            PROVE  /\ k \in ca'[p].pget => Subscribed(p, k)'
                         \/ (task'.p = p /\ task'.pc = Monitor[k])
                   /\ k \in link'.pvlMask /\ task'.p = p /\ task'.pc = Monitor[k] =>
                         k \in ca'[p].pget \/ Monitor[k] \in ca'[p].link_action
                   /\ k \in link'.pvlMask =>
                         Asked(p, Monitor[k])' \/ (k \in ca'[p].pget /\ Subscribed(p, k)')
        <5>1. /\ k \in ca[p].pget => Subscribed(p, k) \/ (task.p = p /\ task.pc = Monitor[k])
              /\ k \in link.pvlMask /\ task.p = p /\ task.pc = Monitor[k] =>
                    k \in ca[p].pget \/ Monitor[k] \in ca[p].link_action
          BY <1>0, <1>2, <3>1, <4>3 DEF Monitored
        <5>2. task.p = p /\ task.pc = Monitor[k] => Asked(p, Monitor[k])'
          BY <1>0, <1>1 DEF InHand, Asked, Acting, Monitors
        <5>3. ca[p].link_action \subseteq ca'[p].link_action
          BY <1>2, <2>10
        <5>. QED  BY <1>1, <1>c, <3>3, <4>1, <4>2, <5>1, <5>2, <5>3
      <4>. QED  BY <1>1, <3>1, <4>3 DEF Monitored
    <3>. QED  BY <3>2, <3>3
  <2>20. OneScan' /\ Scans'
    BY <1>0, <1>1, <2>10, <2>12, ScansKept
  <2>21. Stale' /\ NoLostScan'
    BY <1>0, <1>1, <2>5, <2>10, StaleKept
  <2>22. InputBuffered' /\ AssertsHold'
    <3>1. \A q \in Links : ca'[q].gotIn \subseteq ca'[q].pget
      BY <1>0, <2>1, <2>8, <2>9 DEF InputBuffered
    <3>. QED  BY <1>0, <1>1, <2>12, <3>1 DEF InputBuffered, AssertsHold
  <2>23. PutKept'
    BY <1>0, <1>1, <2>10, PutsKept
  <2>. QED  BY <2>8, <2>11, <2>13, <2>16, <2>17, <2>18, <2>19, <2>20, <2>21, <2>22, <2>23 DEF CaInv
<1>. QED  BY <1>1, <1>5, <1>6
-----------------------------------------------------------------------------
\* All fields of a structure but the news: what a callback may set.
SameButNews(d, c) ==
    /\ d.link_action = c.link_action /\ d.plink = c.plink /\ d.refcount = c.refcount
    /\ d.isConnected = c.isConnected /\ d.gotFirstConnection = c.gotFirstConnection
    /\ d.shape = c.shape /\ d.pget = c.pget /\ d.pput = c.pput
    /\ d.putCallback = c.putCallback /\ d.putType = c.putType /\ d.scanningOnce = c.scanningOnce

\* The library calls with news of a channel: a link that is there sets some fields and may have its
\* record scanned.
LEMMA NewsKeeps ==
    ASSUME CaInv, NEW p \in 1 .. last, NEW scans \in BOOLEAN, NEW d \in CaLinks,
           SameButNews(d, ca[p]), d.gotIn \subseteq d.pget, scans => inst.use = "cp",
           \/ ca[p].plink /\ scanLinkOnce(p, d, scans) /\ stale' = (stale \/ scans)
           \/ UNCHANGED <<ca, onceQ, refused, stale>>,
           chan' \in [Links -> Channels],
           \A q \in Links : /\ chan'[q].state = chan[q].state /\ chan'[q].shape = chan[q].shape
                            /\ chan'[q].access = chan[q].access \/ chan'[q].access \in inst.rights
                            /\ chan'[q].puts = chan[q].puts /\ chan'[q].subs = chan[q].subs
                            /\ q # p => chan'[q] = chan[q],
           UNCHANGED <<inst, link, last, freed, listVars, cb, task, scan, user, pact, lost,
                       unsubscribed, paused>>,
           AssertsHold'
    PROVE  CaInv'
<1>0. /\ Types /\ Unused /\ Linked /\ Listed /\ Removes /\ InHand /\ Channeled /\ Buffered
      /\ Answering /\ Stale /\ Monitored
      /\ RefsCounted /\ NoLostWakeup /\ OneScan /\ Scans /\ InputBuffered /\ PutKept /\ NoLostScan
  BY DEF CaInv
<1>1. UNCHANGED <<workList, workListEvent, dbCaCtl, removesOutstanding>>
  BY DEF listVars
<1>2. p \in Links /\ Links' = Links /\ \A q \in Links : ca[q].gotIn \subseteq ca[q].pget
  BY <1>0, Typed DEF Links, InputBuffered
<1>3. /\ d.plink = ca[p].plink /\ d.link_action = ca[p].link_action
      /\ d.refcount = ca[p].refcount /\ d.scanningOnce = ca[p].scanningOnce
  BY DEF SameButNews
<1>4. /\ ca' \in [Links -> CaLinks] /\ SameOnList
      /\ onceQ' \in Seq(1 .. last) /\ refused' \subseteq 1 .. last /\ stale' \in BOOLEAN
      /\ \A q \in Links :
            /\ q # p => ca'[q] = ca[q]
            /\ ca'[q].gotFirstConnection = ca[q].gotFirstConnection /\ ca'[q].shape = ca[q].shape
            /\ ca'[q].isConnected => ca[q].isConnected
            /\ ca'[q].pget = ca[q].pget /\ ca'[q].pput = ca[q].pput
            /\ ca'[q].gotIn \subseteq ca'[q].pget
            /\ ca'[q].putType = ca[q].putType /\ ca'[q].putCallback = ca[q].putCallback
            /\ ca'[q].link_action = ca[q].link_action /\ ca'[q].plink = ca[q].plink
      /\ InHand' /\ RefsCounted' /\ OneScan' /\ Scans' /\ Stale' /\ NoLostScan'
  <2>1. CASE ca[p].plink /\ scanLinkOnce(p, d, scans) /\ stale' = (stale \/ scans)
    <3>1. /\ ca' \in [Links -> CaLinks] /\ \A q \in Links : q # p => ca'[q] = ca[q]
          /\ SameUncounted(ca'[p], d)
          /\ onceQ' \in Seq(1 .. last) /\ refused' \subseteq 1 .. last
          /\ SameOnList
          /\ InHand' /\ RefsCounted' /\ OneScan' /\ Scans' /\ Stale' /\ NoLostScan'
      BY <1>0, <1>3, <2>1, ScanLinkOnce
    <3>2. stale' \in BOOLEAN
      BY <1>0, <2>1, TypesThen
    <3>3. /\ ca'[p].gotFirstConnection = ca[p].gotFirstConnection /\ ca'[p].shape = ca[p].shape
          /\ ca'[p].isConnected = ca[p].isConnected
          /\ ca'[p].pget = ca[p].pget /\ ca'[p].pput = ca[p].pput
          /\ ca'[p].gotIn \subseteq ca'[p].pget
          /\ ca'[p].putType = ca[p].putType /\ ca'[p].putCallback = ca[p].putCallback
          /\ ca'[p].link_action = ca[p].link_action /\ ca'[p].plink = ca[p].plink
      BY <3>1 DEF SameUncounted, SameButNews
    <3>. QED  BY <1>2, <3>1, <3>2, <3>3
  <2>2. CASE UNCHANGED <<ca, onceQ, refused, stale>>
    <3>2. ScanGoes /\ TaskGoes /\ SameOnList /\ \A q \in 1 .. last : (Owned(q)' <=> Owned(q))
      BY <1>0, <2>2, OwnedKept DEF ScanGoes, TaskGoes, SameOnList
    <3>3. InHand' /\ RefsCounted'
      BY <1>0, <2>2, <3>2, HandsKept
    <3>4. OneScan' /\ Scans'
      BY <1>0, <2>2, <3>2, ScansKept
    <3>5. Stale' /\ NoLostScan'
      BY <1>0, <2>2, StaleKept
    <3>6. ca' \in [Links -> CaLinks] /\ onceQ' \in Seq(1 .. last) /\ refused' \subseteq 1 .. last
      BY <1>0, <2>2, TypesThen
    <3>7. stale' \in BOOLEAN
      BY <1>0, <2>2, TypesThen
    <3>. QED  BY <1>2, <2>2, <3>2, <3>3, <3>4, <3>5, <3>6, <3>7
  <2>. QED  BY <2>1, <2>2
<1>5. Types' /\ Unused'
  <2>1. \A q \in Links : IsFiniteSet(chan'[q].subs)
    BY <1>0, TypesThen
  <2>2. Types'
    BY <1>0, <1>1, <1>4, <2>1, TypesThen, TypesKept
  <2>3. \A q \in Links : q > last => ca'[q] = ca[q] /\ chan'[q] = chan[q]
    <3>1. \A q \in Links : q > last => q # p
      BY <1>0, <1>2, Typed
    <3>. QED  BY <1>4, <3>1
  <2>. QED  BY <1>0, <2>2, <2>3, UnusedKept
<1>6. Linked' /\ Listed' /\ Removes'
  BY <1>0, <1>1, <1>4, OwnersKept
<1>7. Channeled'
  <2>1. SameConnection /\ SameChannels /\ CallbackGoes /\ TaskGoes
    BY <1>4 DEF SameConnection, SameChannels, CallbackGoes, TaskGoes
  <2>. QED  BY <1>0, <2>1, ChannelsKept
<1>8. Buffered'
  <2>1. TaskGoes
    BY DEF TaskGoes
  <2>. QED  BY <1>0, <1>4, <2>1, BuffersKept
<1>9. Answering'
  <2>1. \A t : CallsBack(t)' <=> CallsBack(t)
    BY DEF CallsBack
  <2>. QED  BY <1>0, <1>4, <2>1, AnsweringKept
<1>10. Monitored'
  <2>1. \A q \in Links : Known(q)' => Known(q)
    BY DEF Known
  <2>. QED  BY <1>0, <1>4, <2>1, MonitoredKept
<1>11. NoLostWakeup' /\ InputBuffered'
  BY <1>0, <1>1, <1>2, <1>4 DEF NoLostWakeup, InputBuffered
<1>12. PutKept'
  BY <1>0, <1>4, PutsKept
<1>. QED  BY <1>4, <1>5, <1>6, <1>7, <1>8, <1>9, <1>10, <1>11, <1>12 DEF CaInv

\* An update of a subscription finds the buffer it is for, as long as the channel keeps its type.
LEMMA eventCallbackStep ==
    ASSUME CaInv, asserted = {}, NEW p \in Links, NEW s \in chan[p].subs, eventCallback(p, s)
    PROVE  CaInv'
<1>0. Types /\ Unused /\ Channeled /\ Buffered /\ InputBuffered
  BY DEF CaInv
<1>a. PICK k : k = IF s.kind = "string" /\ chan[p].shape \in EnumShapes THEN "string" ELSE "native"
  OBVIOUS
<1>b. PICK scans \in BOOLEAN :
         scans = (~(s.kind = "native" /\ s.shape \in EnumShapes /\ "string" \in link.pvlMask)
                     /\ inst.use = "cp")
  OBVIOUS
<1> DEFINE d == IF k \in ca[p].pget THEN [ca[p] EXCEPT !.gotIn = @ \cup {k}] ELSE ca[p]
<1>1. /\ chan[p].state = "conn" /\ ca[p].plink
      /\ \/ /\ k \in ca[p].pget /\ scanLinkOnce(p, d, scans) /\ stale' = (stale \/ scans)
            /\ asserted' = asserted
         \/ k \notin ca[p].pget /\ UNCHANGED <<ca, onceQ, refused, stale>>
      /\ UNCHANGED <<inst, unsubscribed, paused, link, last, freed, chan, listVars, task, cb, scan,
                     user, pact, lost>>
  BY <1>a, <1>b DEF eventCallback
<1>2. p \in 1 .. last /\ ca[p] \in CaLinks /\ chan \in [Links -> Channels]
      /\ ca[p].gotIn \subseteq ca[p].pget
  BY <1>0, <1>1, ChannelUsed, Typed, TypesThen DEF InputBuffered
<1>3. d \in CaLinks /\ SameButNews(d, ca[p]) /\ d.gotIn \subseteq d.pget
  <2>1. k \in Kinds
    BY <1>a DEF Kinds
  <2>. HIDE DEF LinkBits
  <2>. QED  BY <1>2, <2>1 DEF CaLinks, SameButNews
<1>. HIDE DEF d
<1>4. AssertsHold'
  <2>1. ASSUME OneShape PROVE k \in ca[p].pget
    <3>1. s.kind \in ca[p].pget /\ (s.kind = "string" => inst.shapes \subseteq EnumShapes)
      BY <1>0, <1>2, <2>1 DEF Buffered
    <3>2. s.kind \in Kinds
      BY <1>2, <3>1 DEF CaLinks
    <3>3. chan[p].shape \in inst.shapes
      BY <1>0, <1>1, <1>2 DEF Channeled
    <3>4. k = s.kind
      BY <1>a, <3>1, <3>2, <3>3 DEF Kinds
    <3>. QED  BY <3>1, <3>4
  <2>. QED  BY <1>1, <2>1 DEF AssertsHold, OneShape
<1>5. scans => inst.use = "cp"
  BY <1>b
<1>6. \/ ca[p].plink /\ scanLinkOnce(p, d, scans) /\ stale' = (stale \/ scans)
      \/ UNCHANGED <<ca, onceQ, refused, stale>>
  BY <1>1
<1>7. \A q \in Links : /\ chan'[q].state = chan[q].state /\ chan'[q].shape = chan[q].shape
                       /\ chan'[q].access = chan[q].access \/ chan'[q].access \in inst.rights
                       /\ chan'[q].puts = chan[q].puts /\ chan'[q].subs = chan[q].subs
                       /\ q # p => chan'[q] = chan[q]
  BY <1>1
<1>. QED  BY <1>1, <1>2, <1>3, <1>4, <1>5, <1>6, <1>7, NewsKeeps

\* The access to a channel changes.
LEMMA accessRightsStep ==
    ASSUME CaInv, asserted = {}, NEW p \in Links, NEW r \in inst.rights, accessRightsCallback(p, r)
    PROVE  CaInv'
<1>0. Types /\ Unused /\ InputBuffered
  BY DEF CaInv
<1>b. PICK scans \in BOOLEAN : scans = (inst.use = "cp" /\ r # {"read", "write"})
  OBVIOUS
<1> DEFINE d == [ca[p] EXCEPT !.access = r]
           e == [chan[p] EXCEPT !.access = r]
<1>1. /\ chan[p].state = "conn" /\ chan' = [chan EXCEPT ![p] = e]
      /\ \/ ca[p].plink /\ scanLinkOnce(p, d, scans) /\ stale' = (stale \/ scans)
         \/ UNCHANGED <<ca, onceQ, refused, stale>>
      /\ UNCHANGED <<inst, unsubscribed, paused, link, last, freed, listVars, task, cb, scan,
                     user, pact, lost, asserted>>
  BY <1>b DEF accessRightsCallback
<1>2. p \in 1 .. last /\ ca[p] \in CaLinks /\ chan \in [Links -> Channels] /\ chan[p] \in Channels
      /\ ca[p].gotIn \subseteq ca[p].pget /\ r \in SUBSET {"read", "write"}
  BY <1>0, <1>1, ChannelUsed, Typed, TypesThen DEF InputBuffered
<1>3. d \in CaLinks /\ SameButNews(d, ca[p]) /\ d.gotIn \subseteq d.pget
  <2>. HIDE DEF LinkBits
  <2>. QED  BY <1>2 DEF CaLinks, SameButNews
<1>4. /\ e \in Channels /\ e.state = chan[p].state /\ e.shape = chan[p].shape /\ e.access = r
      /\ e.puts = chan[p].puts /\ e.subs = chan[p].subs
  BY <1>2 DEF Channels
<1>. HIDE DEF d, e
<1>5. chan' \in [Links -> Channels] /\ chan'[p] = e /\ \A q \in Links : q # p => chan'[q] = chan[q]
  <2>. HIDE DEF Channels
  <2>. QED  BY <1>1, <1>2, <1>4
<1>6. \A q \in Links : /\ chan'[q].state = chan[q].state /\ chan'[q].shape = chan[q].shape
                       /\ chan'[q].access = chan[q].access \/ chan'[q].access \in inst.rights
                       /\ chan'[q].puts = chan[q].puts /\ chan'[q].subs = chan[q].subs
                       /\ q # p => chan'[q] = chan[q]
  BY <1>4, <1>5
<1>7. AssertsHold' /\ (scans => inst.use = "cp")
  BY <1>1, <1>b DEF AssertsHold
<1>. QED  BY <1>1, <1>2, <1>3, <1>5, <1>6, <1>7, NewsKeeps

\* The attributes of a channel come.
LEMMA getAttribEventStep ==
    ASSUME CaInv, asserted = {}, NEW p \in Links, getAttribEventCallback(p)
    PROVE  CaInv'
<1>0. Types /\ Unused /\ InputBuffered
  BY DEF CaInv
<1> DEFINE d == [ca[p] EXCEPT !.gotAttributes = TRUE]
           e == [chan[p] EXCEPT !.gets = @ - 1]
<1>1. /\ chan[p].state = "conn" /\ chan[p].gets > 0 /\ chan' = [chan EXCEPT ![p] = e]
      /\ ca' = (IF ca[p].plink THEN [ca EXCEPT ![p] = d] ELSE ca)
      /\ UNCHANGED <<inst, unsubscribed, paused, link, last, freed, listVars, task, cb, scan,
                     onceQ, refused, user, pact, lost, asserted, stale>>
  BY DEF getAttribEventCallback, recVars, scanVars
<1>2. p \in 1 .. last /\ ca[p] \in CaLinks /\ chan \in [Links -> Channels] /\ chan[p] \in Channels
      /\ ca[p].gotIn \subseteq ca[p].pget /\ stale \in BOOLEAN
  BY <1>0, <1>1, ChannelUsed, Typed, TypesThen DEF InputBuffered
<1>3. d \in CaLinks /\ SameButNews(d, ca[p]) /\ d.gotIn \subseteq d.pget
  <2>. HIDE DEF LinkBits
  <2>. QED  BY <1>2 DEF CaLinks, SameButNews
<1>4. /\ e \in Channels /\ e.state = chan[p].state /\ e.shape = chan[p].shape
      /\ e.access = chan[p].access /\ e.puts = chan[p].puts /\ e.subs = chan[p].subs
  BY <1>1, <1>2 DEF Channels
<1>. HIDE DEF d, e
<1>5. chan' \in [Links -> Channels] /\ chan'[p] = e /\ \A q \in Links : q # p => chan'[q] = chan[q]
  <2>. HIDE DEF Channels
  <2>. QED  BY <1>1, <1>2, <1>4
<1>6. \A q \in Links : /\ chan'[q].state = chan[q].state /\ chan'[q].shape = chan[q].shape
                       /\ chan'[q].access = chan[q].access \/ chan'[q].access \in inst.rights
                       /\ chan'[q].puts = chan[q].puts /\ chan'[q].subs = chan[q].subs
                       /\ q # p => chan'[q] = chan[q]
  BY <1>4, <1>5
<1>7. AssertsHold'
  BY <1>1 DEF AssertsHold
<1>8. \/ ca[p].plink /\ scanLinkOnce(p, d, FALSE) /\ stale' = (stale \/ FALSE)
      \/ UNCHANGED <<ca, onceQ, refused, stale>>
  BY <1>1, <1>2 DEF scanLinkOnce
<1>. QED  BY <1>1, <1>2, <1>3, <1>5, <1>6, <1>7, <1>8, NewsKeeps
-----------------------------------------------------------------------------
\* The answer to a put, or its failure: the callback that was kept is taken to be called.
LEMMA putCompleteStep ==
    ASSUME CaInv, asserted = {}, NEW p \in Links, putComplete(p)
    PROVE  CaInv'
<1>0. /\ Types /\ Unused /\ Linked /\ Listed /\ Removes /\ InHand /\ Channeled /\ Buffered
      /\ Answering /\ Stale /\ Monitored
      /\ RefsCounted /\ NoLostWakeup /\ OneScan /\ Scans /\ InputBuffered /\ PutKept /\ NoLostScan
      /\ AssertsHold
  BY DEF CaInv
<1>a. PICK calls \in BOOLEAN : calls = (ca[p].plink /\ ca[p].putCallback)
  OBVIOUS
<1>b. PICK losing \in BOOLEAN : losing = (cb.pc = "notify" /\ cb.p = p /\ chan[p].state = "disc")
  OBVIOUS
<1> DEFINE d == IF ca[p].plink THEN [ca[p] EXCEPT !.putCallback = FALSE, !.putType = "none"]
                      ELSE ca[p]
           e == [chan[p] EXCEPT !.puts = @ - 1]
<1>1. /\ cb.pc = "idle" \/ losing
      /\ chan[p].puts > 0 /\ chan' = [chan EXCEPT ![p] = e]
      /\ cb' = IF calls THEN [pc |-> IF losing THEN "callThenNotify" ELSE "call", p |-> p] ELSE cb
      /\ UNCHANGED <<inst, link, last, freed, workList, workListEvent, dbCaCtl, removesOutstanding,
                     task, onceQ, scan, refused, user, pact, asserted, lost, unsubscribed, paused,
                     stale>>
  BY <1>a, <1>b DEF putComplete, recVars, listVars, scanVars
<1>2. /\ p \in 1 .. last /\ p # NoLink /\ ca[p] \in CaLinks /\ chan[p] \in Channels
      /\ chan \in [Links -> Channels] /\ ca \in [Links -> CaLinks]
  BY <1>0, <1>1, ChannelUsed, Typed, TypesThen
<1>3. ca' = [ca EXCEPT ![p] = d]
  <2>1. ca' = IF ca[p].plink THEN [ca EXCEPT ![p] = d] ELSE ca
    BY DEF putComplete
  <2>2. ~ca[p].plink => ca = [ca EXCEPT ![p] = d]
    <3>1. [ca EXCEPT ![p] = ca[p]] = ca
      <4>. HIDE DEF CaLinks
      <4>. QED  BY <1>2
    <3>. QED  BY <3>1
  <2>. QED  BY <2>1, <2>2
<1>4. /\ d \in CaLinks /\ d.link_action = ca[p].link_action /\ d.plink = ca[p].plink
      /\ d.refcount = ca[p].refcount /\ d.isConnected = ca[p].isConnected
      /\ d.gotFirstConnection = ca[p].gotFirstConnection /\ d.shape = ca[p].shape
      /\ d.pget = ca[p].pget /\ d.gotIn = ca[p].gotIn /\ d.pput = ca[p].pput
      /\ d.scanningOnce = ca[p].scanningOnce
      /\ d.putCallback => ca[p].putCallback /\ d.putType = ca[p].putType /\ ~d.plink
      /\ calls => ~d.putCallback
      /\ ~calls => d.putCallback = ca[p].putCallback
  <2>. HIDE DEF LinkBits
  <2>. QED  BY <1>2, <1>a DEF CaLinks
<1>5. /\ e \in Channels /\ e.state = chan[p].state /\ e.shape = chan[p].shape
      /\ e.access = chan[p].access /\ e.subs = chan[p].subs
  BY <1>1, <1>2 DEF Channels
<1>. HIDE DEF d, e
<1>6. /\ chan' \in [Links -> Channels] /\ chan'[p] = e /\ \A q \in Links : q # p
            => chan'[q] = chan[q]
  <2>. HIDE DEF Channels
  <2>. QED  BY <1>1, <1>2, <1>5
<1>7. ca' \in [Links -> CaLinks] /\ ca'[p] = d /\ \A q \in Links : q # p => ca'[q] = ca[q]
  BY <1>0, <1>3, <1>4, OneChanged
<1>8. \A q \in Links :
         /\ ca'[q].link_action = ca[q].link_action /\ ca'[q].plink = ca[q].plink
         /\ ca'[q].refcount = ca[q].refcount /\ ca'[q].isConnected = ca[q].isConnected
         /\ ca'[q].gotFirstConnection = ca[q].gotFirstConnection /\ ca'[q].shape = ca[q].shape
         /\ ca'[q].pget = ca[q].pget /\ ca'[q].gotIn = ca[q].gotIn /\ ca'[q].pput = ca[q].pput
         /\ ca'[q].scanningOnce = ca[q].scanningOnce
         /\ chan'[q].state = chan[q].state /\ chan'[q].shape = chan[q].shape
         /\ chan'[q].access = chan[q].access /\ chan'[q].subs = chan[q].subs
         /\ q # p => chan'[q].puts = chan[q].puts
  BY <1>4, <1>5, <1>6, <1>7
<1>9. chan[p].state \in {"conn", "disc"}
  BY <1>0, <1>1, <1>2 DEF Channeled
<1>10. /\ calls => cb'.p = p /\ cb'.pc \in {"call", "callThenNotify"}
       /\ calls /\ cb'.pc = "callThenNotify" => chan[p].state = "disc"
       /\ ~calls => cb' = cb
       /\ cb.pc \in {"idle", "notify"}
  BY <1>1, <1>b
<1>11. Types' /\ Unused'
  <2>1. cb' \in [pc : {"idle", "notify", "call", "callThenNotify"}, p : 0 .. last]
    <3>1. cb \in [pc : {"idle", "notify", "call", "callThenNotify"}, p : 0 .. last]
      BY <1>0, TypesThen
    <3>2. p \in 0 .. last
      BY <1>0, <1>2, Typed
    <3>. QED  BY <1>1, <3>1, <3>2
  <2>2. \A q \in Links : IsFiniteSet(chan'[q].subs)
    BY <1>0, <1>8, TypesThen
  <2>3. Types'
    BY <1>0, <1>1, <1>6, <1>7, <2>1, <2>2, TypesThen, TypesKept
  <2>4. \A q \in Links : q > last => ca'[q] = ca[q] /\ chan'[q] = chan[q]
    <3>1. \A q \in Links : q > last => q # p
      BY <1>0, <1>2, Typed
    <3>. QED  BY <1>6, <1>7, <3>1
  <2>. QED  BY <1>0, <1>1, <2>3, <2>4, UnusedKept
<1>12. SameOnList /\ TaskGoes /\ ScanGoes /\ Links' = Links
  BY <1>1, <1>8 DEF SameOnList, TaskGoes, ScanGoes, Links
<1>13. Linked' /\ Listed' /\ Removes'
  BY <1>0, <1>1, <1>12, OwnersKept
<1>14. \A q \in 1 .. last : (Owned(q)' <=> Owned(q))
  BY <1>0, <1>1, <1>12, OwnedKept
<1>15. InHand' /\ RefsCounted'
  BY <1>0, <1>1, <1>8, <1>12, <1>14, HandsKept
<1>16. Channeled'
  <2>1. \A q \in 1 .. last : q \in Links /\ (Connects(q)' <=> Connects(q))
    BY <1>0, <1>1, <1>8, Typed DEF Connects
  <2>2. ASSUME NEW q \in 1 .. last
        PROVE  /\ chan'[q].state = "cleared" <=> q \in freed
               /\ Connects(q) => chan'[q].state = "none"
               /\ chan'[q].puts > 0 \/ chan'[q].subs # {} => chan'[q].state \in {"conn", "disc"}
               /\ chan'[q].state \in {"conn", "disc"} => chan'[q].shape \in inst.shapes
               /\ chan'[q].state = "conn" => chan'[q].access \in inst.rights
               /\ chan'[q].state = "disc" => lost > 0
               /\ ca'[q].gotFirstConnection =>
                     ca'[q].shape \in inst.shapes /\ chan'[q].state \in {"conn", "disc"}
               /\ ca'[q].isConnected => ca'[q].gotFirstConnection
    <3>1. CASE q = p
      BY <1>0, <1>8, <1>9, <2>1, <3>1 DEF Channeled
    <3>2. CASE q # p
      BY <1>0, <1>8, <2>1, <3>2 DEF Channeled
    <3>. QED  BY <3>1, <3>2
  <2>3. \A q \in 1 .. last : ca'[q].gotFirstConnection /\ lost = 0
              => ~(cb'.p = q /\ cb'.pc = "notify")
    BY <1>0, <1>8, <1>10, <2>1 DEF Channeled
  <2>4. /\ cb'.pc = "idle" <=> cb'.p = NoLink
        /\ cb'.p # NoLink => chan'[cb'.p].state \in {"conn", "disc"}
        /\ cb'.pc = "callThenNotify" => chan'[cb'.p].state = "disc"
    <3>1. CASE calls
      BY <1>2, <1>8, <1>9, <1>10, <3>1
    <3>2. CASE ~calls
      <4>1. cb.p # NoLink => cb.p \in Links
        BY <1>0, Typed, TypesThen
      <4>. QED  BY <1>0, <1>8, <1>10, <3>2, <4>1 DEF Channeled
    <3>. QED  BY <3>1, <3>2
  <2>5. /\ task.pc = "act" => task.p \in Links
        /\ task.pc \in Acting => task.p \in Links
    <3>1. task.p \in 0 .. last
      BY <1>0, TypesThen
    <3>2. task.pc \in Acting => task.p # NoLink
      BY <1>0 DEF InHand, Acting, Monitors, Monitor, Kinds
    <3>. QED  BY <1>0, <3>1, <3>2, Typed DEF Acting
  <2>6. /\ task.pc = "act" /\ "CA_CONNECT" \in task.todo =>
              "CA_CONNECT" \notin ca'[task.p].link_action
        /\ task.pc \in Acting \ {"act"} => chan'[task.p].state \in {"conn", "disc"}
    BY <1>0, <1>8, <2>5 DEF Channeled
  <2>. QED  BY <1>1, <2>1, <2>2, <2>3, <2>4, <2>6 DEF Channeled
<1>17. Buffered'
  BY <1>0, <1>1, <1>8, <1>12, BuffersKept
<1>18. Answering'
  <2>1. CASE calls
    <3>1. /\ pact /\ \A t \in {"cb", "task", "scan"} : ~CallsBack(t)
          /\ \A q \in Links : ca[q].putCallback => q = p
          /\ inst.use \notin Inputs
      BY <1>0, <1>a, <2>1 DEF Answering
    <3>2. \A q \in Links : ~ca'[q].putCallback
      BY <1>4, <1>7, <2>1, <3>1
    <3>3. CallsBack("cb")' /\ ~CallsBack("task")' /\ ~CallsBack("scan")'
      BY <1>1, <1>10, <2>1, <3>1 DEF CallsBack
    <3>. QED  BY <1>1, <1>12, <3>1, <3>2, <3>3 DEF Answering
  <2>2. CASE ~calls
    <3>1. \A t : CallsBack(t)' <=> CallsBack(t)
      BY <1>1, <1>10, <2>2 DEF CallsBack
    <3>2. \A q \in Links : /\ ca'[q].putCallback = ca[q].putCallback
                           /\ ca'[q].putCallback => ca'[q].putType = ca[q].putType
      BY <1>4, <1>7, <2>2
    <3>. QED  BY <1>0, <1>1, <1>12, <3>1, <3>2 DEF Answering
  <2>. QED  BY <2>1, <2>2
<1>19. Monitored'
  <2>1. \A q \in Links : Known(q)' => Known(q)
    <3>1. CASE calls
      <4>1. cb.pc = "notify" => cb.p = p /\ chan[p].state = "disc"
        BY <1>1, <1>b
      <4>2. \A q \in Links : Known(q)' => chan[q].state = "conn"
        BY <1>8 DEF Known
      <4>3. ASSUME NEW q \in Links, Known(q)' PROVE ~(cb.p = q /\ cb.pc = "notify")
        BY <4>1, <4>2, <4>3
      <4>. QED  BY <4>2, <4>3 DEF Known
    <3>2. CASE ~calls
      BY <1>8, <1>10, <3>2 DEF Known
    <3>. QED  BY <3>1, <3>2
  <2>. QED  BY <1>0, <1>1, <1>8, <2>1, MonitoredKept
<1>20. OneScan' /\ Scans'
  BY <1>0, <1>1, <1>8, <1>12, ScansKept
<1>21. Stale' /\ NoLostScan'
  BY <1>0, <1>1, <1>8, StaleKept
<1>22. NoLostWakeup' /\ InputBuffered' /\ AssertsHold'
  BY <1>0, <1>1, <1>8, <1>12 DEF NoLostWakeup, InputBuffered, AssertsHold
<1>23. PutKept'
  <2>1. ASSUME NEW q \in Links, ca'[q].putCallback, ca[q].putCallback => PutGoing(q)
        PROVE  PutGoing(q)'
    <3>1. CASE q = p
      BY <1>4, <1>7, <1>8, <2>1, <3>1 DEF PutGoing
    <3>2. CASE q # p
      BY <1>1, <1>7, <1>8, <2>1, <3>2 DEF PutGoing
    <3>. QED  BY <3>1, <3>2
  <2>. QED  BY <1>0, <1>1, <1>12, <2>1 DEF PutKept
<1>. QED  BY <1>11, <1>13, <1>15, <1>16, <1>17, <1>18, <1>19, <1>20, <1>21, <1>22, <1>23 DEF CaInv
-----------------------------------------------------------------------------
(* Scan requests are served.                                               *)

\* What a step of the thread that serves them has to show.
LEMMA ServesKeeps ==
    ASSUME CaInv, ca' \in [Links -> CaLinks],
           \A q \in Links :
               /\ ca'[q].link_action = ca[q].link_action /\ ca'[q].plink = ca[q].plink
               /\ ca'[q].isConnected = ca[q].isConnected
               /\ ca'[q].gotFirstConnection = ca[q].gotFirstConnection /\ ca'[q].shape = ca[q].shape
               /\ ca'[q].pget = ca[q].pget /\ ca'[q].gotIn = ca[q].gotIn
               /\ ca'[q].pput = ca[q].pput /\ ca'[q].putCallback = ca[q].putCallback
               /\ ca'[q].putType = ca[q].putType
               /\ q > last => ca'[q] = ca[q],
           scan' \in [pc : {"process", "dec"}, p : 1 .. last], scan.pc \in {"idle", "complete"},
           onceQ' \in Seq(1 .. last), refused' \subseteq 1 .. last,
           UNCHANGED <<recVars, last, freed, chan, listVars, task, cb, user, asserted, lost>>,
           RefsCounted', \A q \in freed : Holding(q)' = 0,
           task.pc \in {"dec", "free"} => ca'[task.p].refcount = ca[task.p].refcount,
           OneScan', Scans', NoLostScan'
    PROVE  CaInv'
<1>0. /\ Types /\ Unused /\ Linked /\ Listed /\ Removes /\ InHand /\ Channeled /\ Buffered
      /\ Answering /\ Stale /\ Monitored
      /\ NoLostWakeup /\ InputBuffered /\ PutKept /\ AssertsHold
  BY DEF CaInv
<1>1. /\ UNCHANGED <<inst, link, last, freed, chan, workList, workListEvent, dbCaCtl, task, cb,
                     removesOutstanding, user, pact, lost, asserted, unsubscribed, paused, stale>>
      /\ Links' = Links
  BY DEF recVars, listVars, Links
<1>2. /\ SameOnList /\ SameConnection /\ SameChannels /\ CallbackGoes /\ TaskGoes
  BY <1>1 DEF SameOnList, SameConnection, SameChannels, CallbackGoes, TaskGoes
<1>3. Types' /\ Unused'
  <2>1. scan' \in [pc : {"idle", "process", "complete", "dec", "free", "call"}, p : 0 .. last]
    BY <1>0, Typed
  <2>2. Types'
    BY <1>0, <1>1, <2>1, TypesThen, TypesKept
  <2>. QED  BY <1>0, <1>1, <2>2, UnusedKept
<1>4. Linked' /\ Listed' /\ Removes'
  BY <1>0, <1>1, <1>2, OwnersKept
<1>5. \A q \in 1 .. last : (Owned(q)' <=> Owned(q))
  BY <1>0, <1>1, <1>2, OwnedKept
<1>6. InHand'
  <2>1. /\ scan'.pc \notin {"idle", "free"} /\ scan'.p # NoLink
    BY <1>0, Typed
  <2>2. /\ task.pc \in Acting => task.p \in 1 .. last
        /\ task.pc \in {"dec", "free"} => task.p \in 1 .. last
    <3>1. task.p # NoLink => task.p \in 1 .. last
      BY <1>0, Typed, TypesThen
    <3>. QED  BY <1>0, <3>1 DEF InHand, Acting, Monitors, Monitor, Kinds
  <2>. QED  BY <1>0, <1>1, <1>5, <2>1, <2>2 DEF InHand
<1>7. Channeled'
  BY <1>0, <1>1, <1>2, ChannelsKept
<1>8. Buffered'
  BY <1>0, <1>1, <1>2, BuffersKept
<1>9. Answering'
  <2>1. \A t : CallsBack(t)' <=> CallsBack(t)
    BY <1>1 DEF CallsBack
  <2>. QED  BY <1>0, <1>1, <2>1, AnsweringKept
<1>10. Monitored'
  <2>1. \A q \in Links : Known(q)' => Known(q)
    BY <1>1 DEF Known
  <2>. QED  BY <1>0, <1>1, <2>1, MonitoredKept
<1>11. Stale' /\ NoLostWakeup' /\ InputBuffered' /\ AssertsHold'
  BY <1>0, <1>1 DEF Stale, NoLostWakeup, InputBuffered, AssertsHold
<1>12. PutKept'
  BY <1>0, <1>1, PutsKept
<1>. QED  BY <1>3, <1>4, <1>6, <1>7, <1>8, <1>9, <1>10, <1>11, <1>12 DEF CaInv

\* A request is taken: its reference is now that of the thread.
LEMMA ScanTakeStep ==
    ASSUME CaInv, asserted = {}, ScanTake
    PROVE  CaInv'
<1>0. /\ Types /\ InHand /\ RefsCounted /\ OneScan /\ Scans /\ NoLostScan /\ Stale
  BY DEF CaInv
<1>a. PICK p : p = Head(onceQ)
  OBVIOUS
<1>1. /\ scan.pc = "idle" /\ onceQ # <<>> /\ scan' = [pc |-> "process", p |-> p]
      /\ onceQ' = Tail(onceQ)
      /\ UNCHANGED <<recVars, last, ca, freed, chan, listVars, task, cb, refused, user, asserted,
                     lost>>
  BY <1>a DEF ScanTake
<1>2. /\ p \in 1 .. last /\ onceQ' \in Seq(1 .. last)
      /\ \A q : /\ Occurrences(onceQ, q) \in Nat /\ Occurrences(onceQ', q) \in Nat
                /\ Occurrences(onceQ, q) = Occurrences(onceQ', q) + (IF q = p THEN 1 ELSE 0)
  <2>1. onceQ \in Seq(1 .. last) /\ last \in Nat
    BY <1>0, Typed, TypesThen
  <2>2. /\ p \in 1 .. last /\ onceQ' \in Seq(1 .. last)
        /\ \A q : /\ Occurrences(onceQ, q) \in Nat
                  /\ Occurrences(onceQ, q) = Occurrences(onceQ', q) + (IF q = p THEN 1 ELSE 0)
    BY <1>1, <1>a, <2>1, OnceOccurs
  <2>. QED  BY <2>1, <2>2, OnceOccurs
<1>3. ASSUME NEW q
      PROVE  /\ Holding(q)' = Holding(q) /\ Requests(q)' = Requests(q)
             /\ TaskHolds(q)' = TaskHolds(q)
             /\ ScanWaits(q) => ScanWaits(q)'
  <2>1. /\ Occurrences(onceQ, q) \in Nat /\ Occurrences(onceQ', q) \in Nat
        /\ Occurrences(onceQ, q) = Occurrences(onceQ', q) + (IF q = p THEN 1 ELSE 0)
    BY <1>2
  <2>2. scan'.pc = "process" /\ scan'.p = p /\ scan.pc = "idle"
    BY <1>1
  <2>3. Holding(q)' = Holding(q) /\ Requests(q)' = Requests(q)
    BY <2>1, <2>2 DEF Holding, Requests
  <2>4. ScanWaits(q) => ScanWaits(q)'
    <3>1. CASE q = p
      BY <2>2, <3>1 DEF ScanWaits
    <3>2. CASE q # p
      BY <2>1, <2>2, <3>2 DEF ScanWaits
    <3>. QED  BY <3>1, <3>2
  <2>. QED  BY <1>1, <2>3, <2>4 DEF TaskHolds
<1>4. RefsCounted' /\ OneScan' /\ Scans' /\ \A q \in freed : Holding(q)' = 0
  BY <1>0, <1>1, <1>3 DEF RefsCounted, OneScan, Scans, InHand
<1>5. NoLostScan'
  BY <1>0, <1>1, <1>3 DEF NoLostScan, recVars
<1>6. scan' \in [pc : {"process", "dec"}, p : 1 .. last]
  BY <1>1, <1>2
<1>7. ca' \in [Links -> CaLinks] /\ refused' \subseteq 1 .. last
  BY <1>0, <1>1, TypesThen
<1>. QED  BY <1>1, <1>2, <1>4, <1>5, <1>6, <1>7, ServesKeeps

\* The request is done: it is put again when another scan was asked for meanwhile.
LEMMA scanCompleteStep ==
    ASSUME CaInv, asserted = {}, scanComplete
    PROVE  CaInv'
<1>0. /\ Types /\ Linked /\ InHand /\ RefsCounted /\ OneScan /\ Scans /\ NoLostScan /\ Stale
      /\ scan \in [pc : {"idle", "process", "complete", "dec", "free", "call"}, p : 0 .. last]
      /\ onceQ \in Seq(1 .. last) /\ refused \subseteq 1 .. last /\ freed \subseteq 1 .. last
      /\ ca \in [Links -> CaLinks]
  BY DEF CaInv, Types
<1>a. PICK p : p = scan.p
  OBVIOUS
<1>b. PICK ok \in BOOLEAN :
         \/ /\ ca[p].plink /\ ca[p].scanningOnce > 1 /\ Requested(p, ok)
            /\ ca' = [ca EXCEPT ![p] = CaLinkInc([ca[p] EXCEPT !.scanningOnce = @ - 1], ok)]
         \/ /\ ca[p].plink /\ ca[p].scanningOnce = 1 /\ ~ok
            /\ ca' = [ca EXCEPT ![p] = [ca[p] EXCEPT !.scanningOnce = @ - 1]]
            /\ UNCHANGED <<onceQ, refused>>
         \/ (~ca[p].plink \/ ca[p].scanningOnce = 0) /\ ~ok /\ UNCHANGED <<ca, onceQ, refused>>
  BY <1>a DEF scanComplete
<1> DEFINE more == IF ok THEN 1 ELSE 0
<1>1. /\ scan.pc = "complete" /\ scan' = [scan EXCEPT !.pc = "dec"]
      /\ UNCHANGED <<recVars, last, freed, chan, listVars, task, cb, user, asserted, lost>>
  BY DEF scanComplete
<1>2. /\ p \in 1 .. last /\ p \in Links /\ ca[p] \in CaLinks /\ scan'.pc = "dec" /\ scan'.p = p
      /\ last \in Nat /\ \A q \in 1 .. last : q \in Links
  <2>1. p # NoLink /\ p \in 0 .. last
    BY <1>0, <1>1, <1>a DEF InHand
  <2>. QED  BY <1>0, <1>1, <1>a, <2>1, Typed
<1>3. \A q : Occurrences(onceQ, q) \in Nat
  BY <1>0, <1>2, OnceOccurs
<1>4. p \notin freed /\ Occurrences(onceQ, p) = 0 /\ Requests(p) = 1 /\ Holding(p) \in Nat
  <2>1. Holding(p) = Occurrences(onceQ, p) + 1 /\ Requests(p) = Occurrences(onceQ, p) + 1
    BY <1>1, <1>a DEF Holding, Requests
  <2>2. Occurrences(onceQ, p) \in Nat
    BY <1>3
  <2>3. p \notin freed
    <3>1. \A q \in freed : Holding(q) = 0
      BY <1>0 DEF InHand
    <3>2. Holding(p) # 0
      BY <2>1, <2>2
    <3>. QED  BY <3>1, <3>2
  <2>4. Requests(p) <= 1
    BY <1>0, <1>2, <2>3 DEF OneScan
  <2>. QED  BY <2>1, <2>2, <2>3, <2>4
<1>5. /\ ca[p].scanningOnce \in Nat /\ ca[p].refcount \in Nat
      /\ ca[p].plink /\ p \notin refused => ca[p].scanningOnce > 0
      /\ ca[p].plink => ca[p].scanningOnce > 0
  <2>1. ca[p].scanningOnce \in Nat /\ ca[p].refcount \in Nat
    BY <1>2, CaAssumption DEF CaLinks
  <2>2. ca[p].plink => ca[p].scanningOnce # 0
    BY <1>0, <1>2, <1>4 DEF Scans
  <2>. QED  BY <2>1, <2>2
<1>6. /\ onceQ' \in Seq(1 .. last) /\ refused' \subseteq 1 .. last /\ refused \subseteq refused'
      /\ \A q : Occurrences(onceQ', q) = Occurrences(onceQ, q) + (IF q = p /\ ok THEN 1 ELSE 0)
      /\ Requested(p, ok) /\ ~ok => p \in refused'
  <2>1. CASE Requested(p, ok)
    <3>1. /\ onceQ' = (IF ok THEN Append(onceQ, p) ELSE onceQ)
          /\ refused' = (IF ok THEN refused ELSE refused \cup {p})
      BY <2>1 DEF Requested
    <3>2. \A q : Occurrences(Append(onceQ, p), q) = Occurrences(onceQ, q) + (IF q = p THEN 1 ELSE 0)
      BY <1>0, <1>2, OnceOccurs
    <3>3. Append(onceQ, p) \in Seq(1 .. last)
      BY <1>0, <1>2
    <3>4. CASE ok
      BY <1>0, <1>2, <1>3, <3>1, <3>2, <3>3, <3>4
    <3>5. CASE ~ok
      BY <1>0, <1>2, <1>3, <3>1, <3>5
    <3>. QED  BY <3>4, <3>5
  <2>2. CASE ~ok /\ UNCHANGED <<onceQ, refused>>
    <3>1. Requested(p, ok) => p \in refused'
      BY <2>2 DEF Requested
    <3>. QED  BY <1>0, <1>3, <2>2, <3>1
  <2>. QED  BY <1>b, <2>1, <2>2
<1>7. /\ ca' \in [Links -> CaLinks] /\ \A q \in Links : q # p => ca'[q] = ca[q]
      /\ ca'[p].refcount = ca[p].refcount + more
      /\ ca'[p].scanningOnce = (IF ca[p].plink THEN ca[p].scanningOnce - 1 ELSE ca[p].scanningOnce)
      /\ SameUncounted(ca'[p], ca[p])
  <2> DEFINE c == [ca[p] EXCEPT !.scanningOnce = @ - 1]
  <2>1. CASE ~ok /\ ~ca[p].plink /\ ca' = ca
    BY <1>0, <1>5, <2>1 DEF SameUncounted
  <2>2. CASE ca[p].plink
    <3>1. c \in CaLinks /\ SameUncounted(c, ca[p]) /\ c.refcount = ca[p].refcount
          /\ c.scanningOnce = ca[p].scanningOnce - 1
      <4>1. ca[p].scanningOnce - 1 \in 0 .. maxScans
        BY <1>2, <1>5, <2>2, CaAssumption DEF CaLinks
      <4>. HIDE DEF LinkBits
      <4>. QED  BY <1>2, <4>1 DEF CaLinks, SameUncounted
    <3>. HIDE DEF c
    <3>2. /\ CaLinkInc(c, ok) \in CaLinks /\ SameUncounted(CaLinkInc(c, ok), c)
          /\ CaLinkInc(c, ok).refcount = c.refcount + more
          /\ CaLinkInc(c, ok).scanningOnce = c.scanningOnce
      BY <3>1, CountedTypes
    <3>3. ca' = [ca EXCEPT ![p] = CaLinkInc(c, ok)]
      BY <1>b, <1>5, <2>2 DEF c, CaLinkInc
    <3> DEFINE d == CaLinkInc(c, ok)
    <3>4. d \in CaLinks /\ ca' = [ca EXCEPT ![p] = d]
      BY <3>2, <3>3
    <3>5. SameUncounted(d, ca[p]) /\ d.refcount = ca[p].refcount + more
          /\ d.scanningOnce = ca[p].scanningOnce - 1
      BY <3>1, <3>2 DEF SameUncounted
    <3>. HIDE DEF d
    <3>6. /\ ca' \in [Links -> CaLinks] /\ ca'[p] = d /\ \A q \in Links : q # p => ca'[q] = ca[q]
      BY <1>0, <1>2, <3>4, OneChanged
    <3>. QED  BY <2>2, <3>5, <3>6
  <2>. QED  BY <1>b, <2>1, <2>2
<1>8. ASSUME NEW q
      PROVE  /\ Holding(q)' = Holding(q) + (IF q = p /\ ok THEN 1 ELSE 0)
             /\ q # p => Requests(q)' = Requests(q)
                   /\ (ScanWaits(q) /\ q \in Links => ScanWaits(q)')
             /\ Holding(q) \in Nat
  <2>1. /\ Occurrences(onceQ, q) \in Nat
        /\ Occurrences(onceQ', q) = Occurrences(onceQ, q) + (IF q = p /\ ok THEN 1 ELSE 0)
    BY <1>3, <1>6
  <2>2. scan.p = p /\ scan.pc = "complete" /\ scan'.p = p /\ scan'.pc = "dec"
    BY <1>1, <1>2, <1>a
  <2>. QED  BY <2>1, <2>2 DEF Holding, Requests, ScanWaits
<1>9. Requests(p)' = more
  BY <1>2, <1>4, <1>6 DEF Requests
<1>10. RefsCounted'
  <2>1. \A q \in 1 .. last : ca'[q].refcount = ca[q].refcount + (IF q = p /\ ok THEN 1 ELSE 0)
    <3>1. \A q \in 1 .. last : ca[q].refcount \in Nat
      BY <1>0, <1>2 DEF CaLinks
    <3>. QED  BY <1>2, <1>7, <3>1
  <2>2. \A q \in 1 .. last : (TaskHolds(q)' <=> TaskHolds(q))
    <3>1. \A q \in 1 .. last : ca'[q].plink = ca[q].plink /\ ca'[q].link_action = ca[q].link_action
      BY <1>2, <1>7 DEF SameUncounted
    <3>. QED  BY <1>1, <3>1 DEF TaskHolds
  <2>. QED  BY <1>0, <1>1, <1>8, <2>1, <2>2 DEF RefsCounted
<1>11. \A q \in freed : Holding(q)' = 0
  BY <1>0, <1>4, <1>8 DEF InHand
<1>12. OneScan' /\ Scans'
  <2>1. ASSUME NEW q \in (1 .. last) \ freed
        PROVE  /\ Requests(q)' <= 1
               /\ ca'[q].plink /\ q \notin refused'
                     => (ca'[q].scanningOnce > 0) = (Requests(q)' = 1)
               /\ ca'[q].plink /\ ca'[q].scanningOnce = 0 => Requests(q)' = 0
    <3>1. CASE q # p
      BY <1>0, <1>2, <1>6, <1>7, <1>8, <3>1 DEF OneScan, Scans
    <3>2. CASE q = p
      <4>1. ca'[p].plink = ca[p].plink
        BY <1>7 DEF SameUncounted
      <4>2. CASE ~ca[p].plink
        BY <1>9, <3>2, <4>1, <4>2
      <4>3. CASE ca[p].plink /\ ca[p].scanningOnce > 1 /\ Requested(p, ok)
        BY <1>5, <1>6, <1>7, <1>9, <3>2, <4>1, <4>3
      <4>4. CASE ca[p].plink /\ ca[p].scanningOnce = 1 /\ ~ok
        BY <1>5, <1>6, <1>7, <1>9, <3>2, <4>1, <4>4
      <4>. QED  BY <1>5, <1>b, <4>2, <4>3, <4>4
    <3>. QED  BY <3>1, <3>2
  <2>. QED  BY <1>1, <2>1 DEF OneScan, Scans
<1>13. NoLostScan'
  <2>1. stale' = stale /\ link' = link
    BY <1>1 DEF recVars
  <2>2. ASSUME stale, link.pvt \notin refused' PROVE ScanWaits(link.pvt)'
    <3>1. link.pvt \in Links /\ ScanWaits(link.pvt)
      <4>1. link.pvt # NoLink /\ link.pvt \in 0 .. last
        BY <1>0, <2>2, TypesThen DEF Stale
      <4>. QED  BY <1>0, <1>6, <2>2, <4>1, Typed DEF NoLostScan
    <3>2. CASE link.pvt # p
      <4>1. \A q \in Links : q # p /\ ScanWaits(q) => ScanWaits(q)'
        BY <1>8
      <4>2. PICK x \in Links : x = link.pvt
        BY <3>1
      <4>3. ScanWaits(x)'
        BY <3>1, <3>2, <4>1, <4>2
      <4>. QED  BY <2>1, <4>2, <4>3
    <3>3. CASE link.pvt = p
      <4>1. ca[p].plink
        BY <1>0, <1>2, <3>3 DEF Linked
      <4>2. ca[p].scanningOnce > 1
        BY <1>1, <1>4, <1>a, <3>1, <3>3 DEF ScanWaits
      <4>3. Requested(p, ok)
        BY <1>5, <1>b, <4>1, <4>2
      <4>4. p \notin refused'
        BY <2>2, <3>3
      <4>5. ok
        BY <1>6, <4>3, <4>4
      <4>6. Occurrences(onceQ', p) > 0
        BY <1>4, <1>6, <4>5
      <4>7. ScanWaits(p)'
        BY <4>6 DEF ScanWaits
      <4>. QED  BY <2>1, <3>3, <4>7
    <3>. QED  BY <3>2, <3>3
  <2>. QED  BY <2>1, <2>2 DEF NoLostScan
<1>14. task.pc \in {"dec", "free"} => ca'[task.p].refcount = ca[task.p].refcount
  <2>1. CASE ca[p].plink
    <3>1. Owned(p)
      BY <2>1 DEF Owned
    <3>2. task.pc \in {"dec", "free"} => task.p # p /\ task.p \in Links
      <4>1. task.pc \in {"dec", "free"} => task.p # NoLink /\ ~Owned(task.p)
        BY <1>0 DEF InHand
      <4>2. task.p \in 0 .. last
        BY <1>0, TypesThen
      <4>. QED  BY <1>0, <3>1, <4>1, <4>2, Typed
    <3>. QED  BY <1>7, <3>2
  <2>2. CASE ~ca[p].plink
    BY <1>b, <2>2
  <2>. QED  BY <2>1, <2>2
<1>15. \A q \in Links :
          /\ ca'[q].link_action = ca[q].link_action /\ ca'[q].plink = ca[q].plink
          /\ ca'[q].isConnected = ca[q].isConnected
          /\ ca'[q].gotFirstConnection = ca[q].gotFirstConnection /\ ca'[q].shape = ca[q].shape
          /\ ca'[q].pget = ca[q].pget /\ ca'[q].gotIn = ca[q].gotIn
          /\ ca'[q].pput = ca[q].pput /\ ca'[q].putCallback = ca[q].putCallback
          /\ ca'[q].putType = ca[q].putType
          /\ q > last => ca'[q] = ca[q]
  <2>1. \A q \in Links : q > last => q # p
    BY <1>0, <1>2, Typed
  <2>. QED  BY <1>7, <2>1 DEF SameUncounted
<1>16. scan' \in [pc : {"process", "dec"}, p : 1 .. last]
  BY <1>0, <1>1, <1>2, <1>a
<1>. QED  BY <1>1, <1>6, <1>7, <1>10, <1>11, <1>12, <1>13, <1>14, <1>15, <1>16, ServesKeeps
-----------------------------------------------------------------------------
(* The invariant, the properties it implies, and the theorems.             *)

\* Before the first link is set the invariant holds.
LEMMA CaInvInit ==
    ASSUME Init
    PROVE  CaInv
<1>1. /\ inst \in Instances /\ inst.links \in Nat /\ inst.lost \in Nat /\ Links = 1 .. inst.links
  BY CaAssumption DEF Init, Links
<1>2. /\ last = 0 /\ 1 .. last = {} /\ link.pvt = NoLink /\ link.pvlMask = {} /\ NoLink = 0
      /\ freed = {} /\ refused = {} /\ unsubscribed = {} /\ paused = {} /\ asserted = {}
      /\ workList = <<>> /\ onceQ = <<>> /\ lost = 0 /\ removesOutstanding = 0
      /\ task.pc = "wait" /\ task.p = NoLink /\ task.todo = {} /\ cb.pc = "idle" /\ cb.p = NoLink
      /\ scan.pc = "idle" /\ scan.p = NoLink /\ user.pc = "idle" /\ user.p = NoLink
      /\ ~pact /\ ~stale /\ dbCaCtl = "ctlPause"
      /\ \A p \in Links : ca[p] = NewLink /\ chan[p] = NoChannel
  BY <1>1 DEF Init, Idle, UserIdle, NoLink
<1>3. Types
  <2>1. NewLink \in CaLinks
    BY CaAssumption DEF NewLink, CaLinks
  <2>2. NoChannel \in Channels
    BY DEF NoChannel, Channels
  <2>3. ca \in [Links -> CaLinks] /\ chan \in [Links -> Channels]
    <3>. HIDE DEF CaLinks, Channels
    <3>. QED  BY <1>1, <2>1, <2>2 DEF Init
  <2>4. \A p \in Links : IsFiniteSet(chan[p].subs)
    <3>1. NoChannel.subs = {}
      BY DEF NoChannel
    <3>2. \A p \in Links : chan[p].subs = {}
      BY <1>2, <3>1
    <3>. QED  BY <3>2, FS_EmptySet
  <2>5. /\ link \in [pvt : 0 .. last, pvlMask : SUBSET Kinds]
        /\ task \in [pc : TaskPlaces, p : 0 .. last, todo : SUBSET LinkBits]
        /\ cb \in [pc : {"idle", "notify", "call", "callThenNotify"}, p : 0 .. last]
        /\ scan \in [pc : {"idle", "process", "complete", "dec", "free", "call"}, p : 0 .. last]
        /\ user \in [pc : {"idle", "removing", "pausing", "syncing", "joining"}, p : 0 .. last,
                     callAdd : BOOLEAN]
    BY <1>2 DEF Init, Idle, UserIdle, TaskPlaces
  <2>6. /\ workList \in Seq(0 .. last) /\ onceQ \in Seq(1 .. last)
        /\ dbCaCtl \in {"ctlRun", "ctlPause", "ctlExit"}
        /\ removesOutstanding \in Nat /\ lost \in 0 .. inst.lost /\ last \in 0 .. inst.links
    BY <1>1, <1>2
  <2>7. workListEvent \in BOOLEAN /\ pact \in BOOLEAN /\ stale \in BOOLEAN
    BY DEF Init
  <2>. QED  BY <1>1, <1>2, <2>3, <2>4, <2>5, <2>6, <2>7 DEF Types
<1>4. Unused /\ Linked
  BY <1>2 DEF Unused, Linked
<1>5. Listed
  <2>1. {i \in DOMAIN <<>> : <<>>[i] = TempLink} = {}
    OBVIOUS
  <2>2. Occurrences(workList, TempLink) = 0
    BY <1>2, <2>1, FS_EmptySet DEF Occurrences
  <2>. QED  BY <1>2, <2>2 DEF Listed
<1>6. Removes
  BY <1>2, FS_EmptySet DEF Removes, Clearing
<1>7. InHand
  BY <1>2 DEF InHand, Acting, Monitors, Monitor, Kinds
<1>8. Channeled /\ Buffered
  BY <1>2 DEF Channeled, Buffered, Acting, Monitors, Monitor, Kinds, NoLink
<1>9. Answering
  <2>1. \A p \in Links : ~ca[p].putCallback
    BY <1>2 DEF NewLink
  <2>. QED  BY <1>2, <2>1 DEF Answering, CallsBack
<1>10. Stale /\ Monitored /\ NoLostWakeup /\ NoLostScan
  BY <1>2 DEF Stale, Monitored, NoLostWakeup, NoLostScan
<1>11. RefsCounted /\ OneScan /\ Scans
  BY <1>2 DEF RefsCounted, OneScan, Scans
<1>12. InputBuffered /\ PutKept /\ AssertsHold
  BY <1>2 DEF InputBuffered, PutKept, AssertsHold, NewLink
<1>. QED  BY <1>3, <1>4, <1>5, <1>6, <1>7, <1>8, <1>9, <1>10, <1>11, <1>12 DEF CaInv

\* A step that changes nothing keeps it.
LEMMA CaInvStutter ==
    ASSUME CaInv, UNCHANGED vars
    PROVE  CaInv'
<1>0. Types /\ Linked /\ Listed /\ Removes /\ NoLostWakeup
  BY DEF CaInv
<1>1. UNCHANGED <<inst, link, last, ca, freed, chan, workList, workListEvent, dbCaCtl, paused,
                  removesOutstanding, task, cb, onceQ, scan, user, pact, asserted, lost,
                  refused, unsubscribed, stale>>
  BY DEF vars
<1>2. Linked' /\ Listed' /\ Removes'
  BY <1>0, <1>1, OwnersKept DEF SameOnList
<1>3. NoLostWakeup'
  BY <1>0, <1>1 DEF NoLostWakeup
<1>. QED  BY <1>0, <1>1, <1>2, <1>3, QuietKeeps, TypesThen

\* Every step keeps it.
LEMMA CaInvNext ==
    ASSUME CaInv, Next
    PROVE  CaInv'
<1>0. asserted = {} /\ (User \/ Library \/ Callbacks \/ Task \/ Scan)
  BY DEF Next
<1>1. CASE User
  <2>1. CASE dbCaAddLink
    BY <1>0, <2>1, dbCaAddLinkStep
  <2>2. CASE dbCaRemoveLink
    BY <1>0, <2>2, dbCaRemoveLinkStep
  <2>3. CASE RemovePause
    BY <1>0, <2>3, RemovePauseStep
  <2>4. CASE RemoveAction
    BY <1>0, <2>4, RemoveActionStep
  <2>5. CASE UserProcess
    BY <1>0, <2>5, ProcessStep
  <2>6. CASE dbCaSync
    BY <1>0, <2>6, dbCaSyncStep
  <2>7. CASE dbCaRun \/ dbCaPause \/ dbCaShutdown
    BY <1>0, <2>7, ControlStep
  <2>. QED  BY <1>1, <2>1, <2>2, <2>3, <2>4, <2>5, <2>6, <2>7 DEF User
<1>2. CASE Library
  <2>1. PICK p \in Links :
           \/ \E s \in inst.shapes, r \in inst.rights : Connect(p, s, r)
           \/ Disconnect(p) \/ putComplete(p) \/ getAttribEventCallback(p)
           \/ \E s \in chan[p].subs : eventCallback(p, s)
           \/ \E r \in inst.rights : accessRightsCallback(p, r)
    BY <1>2 DEF Library
  <2>2. ASSUME NEW s \in inst.shapes, NEW r \in inst.rights, Connect(p, s, r) PROVE CaInv'
    BY <1>0, <2>2, ConnectStep
  <2>3. CASE Disconnect(p)
    BY <1>0, <2>3, DisconnectStep
  <2>4. CASE putComplete(p)
    BY <1>0, <2>4, putCompleteStep
  <2>5. CASE getAttribEventCallback(p)
    BY <1>0, <2>5, getAttribEventStep
  <2>6. ASSUME NEW s \in chan[p].subs, eventCallback(p, s) PROVE CaInv'
    BY <1>0, <2>6, eventCallbackStep
  <2>7. ASSUME NEW r \in inst.rights, accessRightsCallback(p, r) PROVE CaInv'
    BY <1>0, <2>7, accessRightsStep
  <2>. QED  BY <2>1, <2>2, <2>3, <2>4, <2>5, <2>6, <2>7
<1>3. CASE Callbacks
  BY <1>0, <1>3, ConnectionLostStep, ConnectedStep, CallbackCallsStep DEF Callbacks
<1>4. CASE Task
  <2>1. ASSUME NEW k \in Kinds, TaskWrite(k) \/ TaskAllocate(k) \/ TaskSubscribe(k)
        PROVE  CaInv'
    BY <1>0, <2>1, TaskWriteStep, TaskAllocateStep, TaskSubscribeStep
  <2>2. CASE TaskWake \/ TaskListEmpty \/ TaskCtl \/ TaskTake \/ TaskSync
    BY <1>0, <2>2, TaskWakeStep, TaskListEmptyStep, TaskCtlStep, TaskTakeStep, TaskSyncStep
  <2>3. CASE TaskConnect \/ TaskState \/ TaskGetAttributes
    BY <1>0, <2>3, TaskConnectStep, TaskStateStep, TaskGetAttributesStep
  <2>4. CASE TaskDec \/ TaskFree \/ TaskCall
    BY <1>0, <2>4, TaskDecStep, TaskFreeStep, TaskCallStep
  <2>. QED  BY <1>4, <2>1, <2>2, <2>3, <2>4 DEF Task
<1>5. CASE Scan
  <2>1. CASE ScanTake \/ ScanProcess \/ scanComplete
    BY <1>0, <2>1, ScanTakeStep, ProcessStep, scanCompleteStep
  <2>2. CASE ScanDec \/ ScanFree \/ ScanCall
    BY <1>0, <2>2, ScanDecStep, ScanFreeStep, ScanCallStep
  <2>. QED  BY <1>5, <2>1, <2>2 DEF Scan
<1>. QED  BY <1>0, <1>1, <1>2, <1>3, <1>4, <1>5

\* What has been freed is reached by nothing: it is owned by nobody, so it has no action left and
\* is on no list, and the library has forgotten its channel.
LEMMA NothingFreedIsUsed ==
    ASSUME CaInv
    PROVE  NoUseAfterFree
<1>0. Types /\ Linked /\ Listed /\ InHand /\ Channeled
  BY DEF CaInv
<1>1. ASSUME NEW p \in freed
      PROVE  /\ link.pvt # p /\ user.p # p /\ cb.p # p
             /\ Occurrences(workList, p) = 0 /\ Holding(p) = 0
             /\ task.p = p => task.pc = "call"
  <2>1. p \in 1 .. last /\ p \in Links /\ p # NoLink
    BY <1>0, Typed, TypesThen
  <2>2. ~Owned(p)
    BY <1>0, <2>1 DEF Linked
  <2>3. link.pvt # p /\ user.p # p /\ ca[p].link_action = {}
    BY <1>0, <2>1, <2>2 DEF Linked, Owned
  <2>4. cb.p # p
    BY <1>0, <2>1 DEF Channeled
  <2>5. Occurrences(workList, p) = 0 /\ Holding(p) = 0
    BY <1>0, <2>1, <2>3 DEF Listed, InHand
  <2>6. ASSUME task.p = p PROVE task.pc = "call"
    <3>1. task.pc \notin {"wait", "work", "ctl", "shutdown"} /\ task.pc \notin Acting
          /\ task.pc \notin {"dec", "free"}
      BY <1>0, <2>1, <2>2, <2>6 DEF InHand
    <3>2. task.pc \in TaskPlaces
      BY <1>0, TypesThen
    <3>. QED  BY <3>1, <3>2 DEF TaskPlaces
  <2>. QED  BY <2>3, <2>4, <2>5, <2>6
<1>. QED  BY <1>1 DEF NoUseAfterFree

\* What DbCa keeps in several places agrees.
LEMMA CaInvConsistent ==
    ASSUME CaInv
    PROVE  Consistent
<1>0. /\ Types /\ Listed /\ RefsCounted /\ NoLostWakeup /\ OneScan /\ InputBuffered /\ AssertsHold
  BY DEF CaInv
<1>1. TypeOK
  <2>1. /\ DOMAIN ca = Links /\ \A p \in Links : ca[p] \in CaLinks
        /\ DOMAIN chan = Links
    BY <1>0, TypesThen
  <2>2. ASSUME NEW p \in Links
        PROVE  /\ DOMAIN chan[p] = DOMAIN NoChannel
               /\ chan[p].puts \in Nat /\ chan[p].gets \in Nat
    BY <1>0, Typed DEF Channels, NoChannel
  <2>3. /\ task.pc \in {"wait", "work", "ctl", "act", "do", "dec", "free", "call", "shutdown"}
                         \cup {Monitor[k] : k \in Kinds}
        /\ task.p \in 0 .. last /\ task.todo \subseteq LinkBits
    BY <1>0, TypesThen DEF TaskPlaces, Acting, Monitors
  <2>4. /\ link.pvt \in 0 .. last /\ link.pvlMask \subseteq Kinds
        /\ cb.pc \in {"idle", "notify", "call", "callThenNotify"} /\ cb.p \in 0 .. last
        /\ scan.pc \in {"idle", "process", "complete", "dec", "free", "call"}
        /\ scan.p \in 0 .. last
        /\ user.pc \in {"idle", "removing", "pausing", "syncing", "joining"} /\ user.p \in 0 .. last
        /\ user.callAdd \in BOOLEAN
    BY <1>0, TypesThen
  <2>5. inst \in Instances /\ last \in 0 .. inst.links
    BY <1>0 DEF Types
  <2>. HIDE DEF LinkBits, CaLinks
  <2>. QED  BY <1>0, <2>1, <2>2, <2>3, <2>4, <2>5, TypesThen DEF TypeOK
<1>2. OnListOnce
  BY <1>0 DEF Listed, OnListOnce
<1>. QED  BY <1>0, <1>1, <1>2, NothingFreedIsUsed DEF Consistent

\* One callback is kept or being called exactly while the record waits.
LEMMA CaInvOneCallback ==
    ASSUME CaInv
    PROVE  OneCallback
<1>0. Answering /\ PutKept
  BY DEF CaInv
<1>1. Calling = {t \in {"cb", "task", "scan"} : CallsBack(t)}
  BY DEF Calling, CallsBack
<1>2. CASE ~pact
  <2>1. Kept = {} /\ Calling = {}
    BY <1>0, <1>1, <1>2 DEF Answering, Kept
  <2>. QED  BY <1>0, <1>2, <2>1, FS_EmptySet DEF OneCallback
<1>3. ASSUME pact, NEW p \in Links, ca[p].putCallback PROVE OneCallback
  <2>1. \A q \in Links : ca[q].putCallback <=> q = p
    BY <1>0, <1>3 DEF Answering
  <2>2. Kept = {p}
    BY <2>1 DEF Kept
  <2>3. Calling = {}
    BY <1>0, <1>1, <1>3 DEF Answering
  <2>4. Cardinality(Kept) = 1 /\ Cardinality(Calling) = 0
    BY <2>2, <2>3, FS_EmptySet, FS_Singleton
  <2>. QED  BY <1>0, <1>3, <2>4 DEF OneCallback
<1>4. ASSUME pact, NEW t \in {"cb", "task", "scan"}, CallsBack(t) PROVE OneCallback
  <2>1. Kept = {} /\ Calling = {t}
    BY <1>0, <1>1, <1>4 DEF Answering, Kept
  <2>. QED  BY <1>0, <1>4, <2>1, FS_EmptySet, FS_Singleton DEF OneCallback
<1>. QED  BY <1>0, <1>2, <1>3, <1>4 DEF Answering

\* News of the link are followed by a scan, and what it reads is subscribed to.
LEMMA CaInvLinkValues ==
    ASSUME CaInv
    PROVE  LinkValues
<1>0. Types /\ NoLostScan /\ Monitored
  BY DEF CaInv
<1>1. InputMonitored
  <2>a. PICK p : p = link.pvt
    OBVIOUS
  <2>1. ASSUME p # NoLink, p \notin unsubscribed, Settled(p), NEW k \in link.pvlMask
        PROVE  Monitoring(p, k) \/ (k \in ca[p].pget /\ \E s \in chan[p].subs : s.kind = k)
    <3>1. k \in Kinds
      BY <1>0, TypesThen
    <3>2. Known(p)
      BY <2>1 DEF Settled, Known
    <3>3. Asked(p, Monitor[k]) \/ (k \in ca[p].pget /\ Subscribed(p, k))
      BY <1>0, <2>a, <2>1, <3>1, <3>2 DEF Monitored
    <3>. QED  BY <3>3 DEF Asked, Monitoring, Subscribed
  <2>. QED  BY <2>a, <2>1 DEF InputMonitored
<1>. QED  BY <1>0, <1>1 DEF LinkValues

\* The invariant holds of every behaviour.
LEMMA CaInvAlways == Spec => []CaInv
<1>1. Init => CaInv
  BY CaInvInit
<1>2. CaInv /\ [Next]_vars => CaInv'
  BY CaInvNext, CaInvStutter
<1>. QED  BY <1>1, <1>2, PTL DEF Spec

\* References, the work list, the event of dbCaTask, scans counted and queued and the buffers
\* agree, and nothing that caLinkDec has freed is reached (addAction, dbCaTask, caLinkDec).
THEOREM LinksConsistent == Spec => []Consistent
<1>1. CaInv => Consistent
  BY CaInvConsistent
<1>. QED  BY <1>1, CaInvAlways, PTL

\* Exactly one of putComplete, dbCaTask and the scan thread calls the callback of a put a record
\* waits for, and until then something is on its way that does.
THEOREM CallbackOnce == Spec => []OneCallback
<1>1. CaInv => OneCallback
  BY CaInvOneCallback
<1>. QED  BY <1>1, CaInvAlways, PTL

\* An update, a lost connection or a change of access of a CP link is followed by a scan of its
\* record; a connected input has the subscriptions its flags ask for, or dbCaTask is to make them.
THEOREM ValuesArrive == Spec => []LinkValues
<1>1. CaInv => LinkValues
  BY CaInvLinkValues
<1>. QED  BY <1>1, CaInvAlways, PTL
=============================================================================
