------------------------- MODULE WriteNotifyProofs --------------------------
(***************************************************************************)
(* Theorem about WriteNotify, for any channels, puts and bounds: each put  *)
(* with a reply is answered once and truly, and nothing is answered after  *)
(* its channel.  PInv says in whose hands each put is: asked of dbNotify,  *)
(* in its callback, on the queue, with the event task, or answered; and    *)
(* which structure the TCP thread may free.                                *)
(***************************************************************************)
EXTENDS WriteNotify, SequenceTheorems, TLAPS

Places == {"idle", "test", "wait", "cancel", "canceling", "recheck", "start", "ask", "asked",
           "free", "freed", "flush", "hangup", "destroy", "closed"}
Entry == [c : Channels, is : {"asked", "completed", "answered"}, trapped : BOOLEAN]

\* The variables have their types.
Types ==
    /\ inst \in Instances
    /\ phase \in [Channels -> {"idle", "asked", "calling"}]
    /\ canceling \in [Channels -> BOOLEAN] /\ status \in [Channels -> Statuses]
    /\ chanList \subseteq Channels /\ pPutNotify \subseteq Channels
    /\ busy \in [Channels -> BOOLEAN] /\ onExtraLaborQueue \in [Channels -> BOOLEAN]
    /\ asWritePvt \in [Channels -> 0 .. Len(log)] /\ msg \in [Channels -> 0 .. Len(log)]
    /\ putNotifyQue \in Seq(Channels) /\ blockSem \in BOOLEAN
    /\ extra_labor \in BOOLEAN /\ extralabor_sub \in BOOLEAN
    /\ tcp \in [pc : Places, c : Channels \cup {None}, then : {"idle", "recheck", "free"}]
    /\ event \in [pc : {"idle", "take", "send", "signal"}, put : 0 .. Len(log),
                  status : Statuses, asWritePvt : 0 .. Len(log)]
    /\ done \in [Channels -> {"none", "entered", "post", "return"}]
    /\ log \in Seq(Entry)

\* The TCP thread is in write_notify_action, or in rsrvFreePutNotify, with the channel tcp.c.
InCancel == tcp.pc \in {"cancel", "canceling"}
Putting == \/ tcp.pc \in {"test", "wait", "recheck", "start", "ask", "asked"}
           \/ InCancel /\ tcp.then = "recheck"
Freeing == tcp.pc = "free" \/ (InCancel /\ tcp.then = "free")

\* What the TCP thread has in hand: a channel that has its structure, on the list while it
\* puts and off the list while it frees; every other structure is that of a channel on the
\* list.  When the connection is over the event task has come to rest.
InHand ==
    /\ InCancel => tcp.then \in {"recheck", "free"}
    /\ Putting => tcp.c \in chanList \cap pPutNotify
    /\ Freeing => tcp.c \in pPutNotify \ chanList
    /\ \A c \in pPutNotify : c \in chanList \/ (Freeing /\ tcp.c = c)
    /\ Putting \/ tcp.pc \in {"idle", "hangup"} => extralabor_sub
    /\ tcp.pc \in {"destroy", "closed"} => ~extralabor_sub
    /\ ~extralabor_sub /\ tcp.pc # "flush" => event.pc = "idle"

\* What dbNotify has promised: a request that may still be answered is that of a put that
\* waits for it.
Requested ==
    /\ tcp.pc = "asked" => tcp.c \in inst.links
    /\ tcp.pc = "start" => ~busy[tcp.c]
    /\ tcp.pc = "ask" => busy[tcp.c] /\ ~onExtraLaborQueue[tcp.c]
    /\ tcp.pc \in {"start", "ask", "recheck", "free"} =>
           phase[tcp.c] # "asked" /\ done[tcp.c] # "entered"
    /\ \A c \in Channels :
          /\ canceling[c] <=> tcp.pc = "canceling" /\ tcp.c = c
          /\ c \in inst.links =>
                phase[c] = "idle" /\ (done[c] # "none" <=> tcp.pc = "asked" /\ tcp.c = c)
          /\ c \notin inst.links => (done[c] # "none" <=> phase[c] = "calling")
          /\ phase[c] = "asked" => busy[c] /\ ~onExtraLaborQueue[c]
          /\ done[c] = "entered" =>
                busy[c] /\ ~onExtraLaborQueue[c] /\ log[msg[c]].is = "completed"

\* The put a busy channel waits for, and what is known of it.
Busy == \A c \in Channels : busy[c] =>
    /\ c \in pPutNotify /\ msg[c] \in DOMAIN log /\ log[msg[c]].c = c
    /\ onExtraLaborQueue[c] => log[msg[c]].is = "completed"
    /\ Open => log[msg[c]].is # "answered"
    /\ msg[c] # event.put

\* A mark without a put to reply to is about to be taken away.
Marked == \A c \in Channels : onExtraLaborQueue[c] /\ ~busy[c] =>
    tcp.c = c /\ tcp.pc \in {"test", "start"}

\* The reply that the event task sends.
Sending ==
    /\ event.put # 0 <=> event.pc = "send"
    /\ event.asWritePvt \in {0, event.put}
    /\ event.put # 0 =>
          /\ log[event.put].is = "completed"
          /\ log[event.put].c \in chanList \/ Freeing \/ tcp.pc \in {"freed", "flush"}

\* No put is forgotten.
NoneForgotten == \A k \in DOMAIN log :
    Open /\ log[k].is # "answered" /\ log[k].c \in chanList =>
        (busy[log[k].c] /\ msg[log[k].c] = k) \/ event.put = k

\* What asTrapWrite waits for is known at one place.
Trapped ==
    /\ \A c \in Channels : asWritePvt[c] # 0 => busy[c] /\ asWritePvt[c] = msg[c]
    /\ \A k \in DOMAIN log : log[k].trapped <=>
          event.asWritePvt = k \/ \E c \in Channels : asWritePvt[c] = k

\* The queue holds what is marked, once.
Queued ==
    /\ \A c \in Channels : c \in Range(putNotifyQue) <=> busy[c] /\ onExtraLaborQueue[c]
    /\ IsInjective(putNotifyQue)

\* Somebody is about to come for them.
Served == putNotifyQue # <<>> /\ extralabor_sub =>
    \/ extra_labor \/ event.pc \in {"take", "send"} \/ \E c \in Channels : done[c] = "post"

PInv == /\ Types /\ InHand /\ Requested /\ Busy /\ Marked /\ Sending /\ NoneForgotten /\ Trapped
        /\ Queued /\ Served
-----------------------------------------------------------------------------
(* Sequences: the history, and the queue.                                  *)

\* A put begins: the history is one longer.
LEMMA LogBegins ==
    ASSUME Types, NEW e \in Entry, log' = Append(log, e)
    PROVE  /\ log' \in Seq(Entry) /\ Len(log') = Len(log) + 1
           /\ DOMAIN log' = DOMAIN log \cup {Len(log) + 1} /\ Len(log) + 1 \notin DOMAIN log
           /\ log'[Len(log) + 1] = e /\ \A j \in DOMAIN log : log'[j] = log[j]
BY DEF Types

\* One entry of the history changes.
LEMMA LogChanges ==
    ASSUME Types, NEW k \in DOMAIN log, NEW e \in Entry, log' = [log EXCEPT ![k] = e]
    PROVE  /\ log' \in Seq(Entry) /\ Len(log') = Len(log) /\ DOMAIN log' = DOMAIN log
           /\ log'[k] = e /\ \A j \in DOMAIN log \ {k} : log'[j] = log[j]
BY ExceptSeq DEF Types

\* The callback of a put: it is completed.
LEMMA LogCompletes ==
    ASSUME Types, NEW c \in Channels, msg[c] \in DOMAIN log, Completes(c)
    PROVE  /\ log' \in Seq(Entry) /\ Len(log') = Len(log) /\ DOMAIN log' = DOMAIN log
           /\ \A j \in DOMAIN log : log'[j].c = log[j].c /\ log'[j].trapped = log[j].trapped
           /\ log'[msg[c]].is = "completed" /\ \A j \in DOMAIN log \ {msg[c]} : log'[j] = log[j]
<1> DEFINE e == [log[msg[c]] EXCEPT !.is = "completed"]
<1>0. log[msg[c]] \in Entry
  BY DEF Types
<1>1. e \in Entry /\ e.c = log[msg[c]].c /\ e.is = "completed" /\ e.trapped = log[msg[c]].trapped
  BY <1>0 DEF Entry
<1>2. log' = [log EXCEPT ![msg[c]] = e]
  BY DEF Types, Completes
<1>. HIDE DEF e
<1>. QED  BY <1>1, <1>2, LogChanges

\* A reply: the put is answered, and asTrapWrite told.
LEMMA LogAnswered ==
    ASSUME Types, NEW k \in DOMAIN log, Reply(k)
    PROVE  /\ log' \in Seq(Entry) /\ Len(log') = Len(log) /\ DOMAIN log' = DOMAIN log
           /\ log'[k].c = log[k].c /\ log'[k].is = "answered" /\ log'[k].trapped = FALSE
           /\ \A j \in DOMAIN log \ {k} : log'[j] = log[j]
<1> DEFINE e == [log[k] EXCEPT !.is = "answered", !.trapped = FALSE]
<1>0. log[k] \in Entry
  BY DEF Types
<1>1. e \in Entry /\ e.c = log[k].c /\ e.is = "answered" /\ e.trapped = FALSE
  BY <1>0 DEF Entry
<1>2. log' = [log EXCEPT ![k] = e]
  BY DEF Types, Reply
<1>. HIDE DEF e
<1>. QED  BY <1>1, <1>2, LogChanges

\* asTrapWriteAfter of a put without a reply.
LEMMA LogFreed ==
    ASSUME Types, NEW k \in DOMAIN log, log' = [log EXCEPT ![k].trapped = FALSE]
    PROVE  /\ log' \in Seq(Entry) /\ Len(log') = Len(log) /\ DOMAIN log' = DOMAIN log
           /\ log'[k].c = log[k].c /\ log'[k].is = log[k].is /\ log'[k].trapped = FALSE
           /\ \A j \in DOMAIN log \ {k} : log'[j] = log[j]
<1> DEFINE e == [log[k] EXCEPT !.trapped = FALSE]
<1>0. log[k] \in Entry
  BY DEF Types
<1>1. e \in Entry /\ e.c = log[k].c /\ e.is = log[k].is /\ e.trapped = FALSE
  BY <1>0 DEF Entry
<1>2. log' = [log EXCEPT ![k] = e]
  BY DEF Types
<1>. HIDE DEF e
<1>. QED  BY <1>1, <1>2, LogChanges

\* A put whose channel is busy with it is in the history, and no other channel is.
LEMMA EachItsOwn ==
    ASSUME PInv, NEW c \in Channels, busy[c]
    PROVE  /\ msg[c] \in DOMAIN log /\ \A d \in Channels \ {c} : busy[d] => msg[d] # msg[c]
           /\ msg[c] # event.put
BY DEF PInv, Busy

\* A sequence without its n-th element has the others, and those once.
Without(q, n) == SubSeq(q, 1, n - 1) \o SubSeq(q, n + 1, Len(q))
LEMMA Removed ==
    ASSUME NEW q \in Seq(Channels), IsInjective(q), NEW n \in DOMAIN q
    PROVE  /\ Without(q, n) \in Seq(Channels) /\ IsInjective(Without(q, n))
           /\ Range(Without(q, n)) = Range(q) \ {q[n]}
<1> DEFINE a == SubSeq(q, 1, n - 1)
           b == SubSeq(q, n + 1, Len(q))
           r == Without(q, n)
<1>1. /\ a \in Seq(Channels) /\ Len(a) = n - 1 /\ \A i \in 1 .. n - 1 : a[i] = q[i]
      /\ b \in Seq(Channels) /\ Len(b) = Len(q) - n
      /\ \A i \in 1 .. Len(q) - n : b[i] = q[i + n]
  OBVIOUS
<1>0. r = a \o b
  BY DEF Without
<1>. HIDE DEF a, b, r
<1>2. /\ r \in Seq(Channels) /\ Len(r) = Len(q) - 1
      /\ \A i \in 1 .. Len(q) - 1 : r[i] = IF i < n THEN q[i] ELSE q[i + 1]
  <2>1. /\ a \o b \in Seq(Channels) /\ Len(a \o b) = Len(a) + Len(b)
        /\ \A i \in 1 .. Len(a) + Len(b) : (a \o b)[i] = IF i <= Len(a) THEN a[i] ELSE b[i - Len(a)]
    BY <1>1, ConcatProperties
  <2>. QED  BY <1>0, <1>1, <2>1, SMTT(60), ZenonT(60)
<1>3. IsInjective(r)
  <2> DEFINE at(i) == IF i < n THEN i ELSE i + 1
  <2>1. \A i \in DOMAIN r : at(i) \in DOMAIN q /\ r[i] = q[at(i)]
    BY <1>2
  <2>2. \A i, j \in DOMAIN r : at(i) = at(j) => i = j
    BY <1>2
  <2>. HIDE DEF at
  <2>. QED  BY <2>1, <2>2 DEF IsInjective
<1>4. ASSUME NEW i \in DOMAIN r PROVE r[i] \in Range(q) \ {q[n]}
  <2>1. CASE i < n
    BY <1>2, <2>1 DEF IsInjective, Range
  <2>2. CASE ~(i < n)
    <3>1. i + 1 \in DOMAIN q /\ i + 1 # n /\ r[i] = q[i + 1]
      BY <1>2, <2>2
    <3>. QED  BY <3>1 DEF IsInjective, Range
  <2>. QED  BY <2>1, <2>2
<1>5. ASSUME NEW j \in DOMAIN q, q[j] # q[n] PROVE q[j] \in Range(r)
  <2>1. CASE j < n
    <3>1. j \in DOMAIN r /\ r[j] = q[j]
      BY <1>2, <2>1
    <3>. QED  BY <3>1 DEF Range
  <2>2. CASE j > n
    <3>1. j - 1 \in DOMAIN r /\ r[j - 1] = q[j]
      BY <1>2, <2>2
    <3>. QED  BY <3>1 DEF Range
  <2>. QED  BY <1>5, <2>1, <2>2
<1>6. Range(r) = Range(q) \ {q[n]}
  BY <1>4, <1>5 DEF Range
<1>. QED  BY <1>2, <1>3, <1>6 DEF r

\* ellDelete takes a channel off the queue, and nothing else.
LEMMA Dequeued ==
    ASSUME Types, Queued, NEW c \in Channels, putNotifyQue' = RemoveFirst(putNotifyQue, c)
    PROVE  /\ putNotifyQue' \in Seq(Channels) /\ IsInjective(putNotifyQue')
           /\ Range(putNotifyQue') = Range(putNotifyQue) \ {c}
           /\ putNotifyQue' # <<>> => putNotifyQue # <<>>
<1> DEFINE q == putNotifyQue
<1>1. q \in Seq(Channels) /\ IsInjective(q)
  BY DEF Types, Queued
<1>2. CASE c \notin Range(q)
  <2>1. putNotifyQue' = q
    BY <1>1, <1>2 DEF RemoveFirst, Range
  <2>. QED  BY <1>1, <1>2, <2>1
<1>3. CASE c \in Range(q)
  <2>1. PICK n \in DOMAIN q : q[n] = c
    BY <1>3 DEF Range
  <2>2. {i \in 1 .. Len(q) : q[i] = c} = {n} /\ Min({n}) = n
    BY <1>1, <2>1 DEF Min, IsInjective
  <2>3. putNotifyQue' = Without(q, n)
    BY <1>1, <2>1, <2>2 DEF Without, RemoveFirst, RemoveAt, SelectInSeq
  <2>4. q # <<>>
    BY <2>1
  <2>. QED  BY <1>1, <2>1, <2>3, <2>4, Removed
<1>. QED  BY <1>2, <1>3

\* ellGet takes the first.
LEMMA Taken ==
    ASSUME Types, Queued, putNotifyQue # <<>>, putNotifyQue' = Tail(putNotifyQue)
    PROVE  /\ Head(putNotifyQue) \in Channels /\ Head(putNotifyQue) \in Range(putNotifyQue)
           /\ putNotifyQue' \in Seq(Channels) /\ IsInjective(putNotifyQue')
           /\ Range(putNotifyQue') = Range(putNotifyQue) \ {Head(putNotifyQue)}
<1> DEFINE q == putNotifyQue
           r == Tail(q)
<1>1. q \in Seq(Channels) /\ IsInjective(q)
  BY DEF Types, Queued
<1>2. /\ 1 \in DOMAIN q /\ Head(q) = q[1] /\ Head(q) \in Channels
      /\ r \in Seq(Channels) /\ Len(r) = Len(q) - 1
      /\ \A i \in DOMAIN r : i + 1 \in DOMAIN q /\ r[i] = q[i + 1]
  BY <1>1
<1>3. \A j \in DOMAIN q \ {1} : j - 1 \in DOMAIN r /\ r[j - 1] = q[j]
  BY <1>1
<1>. HIDE DEF q, r
<1>4. IsInjective(r)
  BY <1>1, <1>2 DEF IsInjective
<1>5. \A i \in DOMAIN r : r[i] # q[1]
  BY <1>1, <1>2 DEF IsInjective
<1>6. Range(r) = Range(q) \ {q[1]}
  BY <1>2, <1>3, <1>5 DEF Range
<1>. QED  BY <1>2, <1>4, <1>6 DEF q, r, Range

\* ellAdd puts a channel that is not queued behind the others.
LEMMA Enqueued ==
    ASSUME Types, Queued, NEW c \in Channels, c \notin Range(putNotifyQue),
           putNotifyQue' = Append(putNotifyQue, c)
    PROVE  /\ putNotifyQue' \in Seq(Channels) /\ IsInjective(putNotifyQue') /\ putNotifyQue' # <<>>
           /\ Range(putNotifyQue') = Range(putNotifyQue) \cup {c}
<1> DEFINE q == putNotifyQue
           r == Append(q, c)
<1>1. q \in Seq(Channels) /\ IsInjective(q)
  BY DEF Types, Queued
<1>2. /\ r \in Seq(Channels) /\ Len(r) = Len(q) + 1 /\ r # <<>>
      /\ DOMAIN r = DOMAIN q \cup {Len(q) + 1} /\ r[Len(q) + 1] = c
      /\ \A i \in DOMAIN q : r[i] = q[i]
  BY <1>1
<1>. HIDE DEF q, r
<1>3. \A i \in DOMAIN q : q[i] # c
  BY DEF Range, q
<1>4. IsInjective(r)
  BY <1>1, <1>2, <1>3 DEF IsInjective
<1>5. Range(r) = Range(q) \cup {c}
  BY <1>2 DEF Range
<1>. QED  BY <1>2, <1>4, <1>5 DEF q, r

-----------------------------------------------------------------------------
(* The steps that leave puts as they are, or wait, or offload labor.       *)

\* The first put of a channel gives it its structure; the others have it.
LEMMA PutCallStep ==
    ASSUME PInv, NEW c \in Channels, PutCall(c) PROVE PInv'
<1>1. Types'
  BY DEF PInv, PutCall, Types, notifyVars, putVars, laborVars, Places
<1>2. InHand'
  BY DEF PInv, PutCall, InCancel, Freeing, At, laborVars, InHand
<1>3. Requested'
  BY DEF PInv, PutCall, At, notifyVars, putVars, Requested, Busy
<1>4. Busy'
  BY DEF PInv, PutCall, Open, At, putVars, Busy, InHand
<1>5. Marked'
  BY DEF PInv, PutCall, At, putVars, Marked
<1>6. Sending'
  BY DEF PInv, PutCall, InCancel, Freeing, At, Sending
<1>7. NoneForgotten'
  BY DEF PInv, PutCall, Open, At, putVars, NoneForgotten, InHand
<1>8. Trapped'
  BY DEF PInv, PutCall, putVars, Trapped
<1>9. Queued'
  BY DEF PInv, PutCall, putVars, Queued
<1>10. Served'
  BY DEF PInv, PutCall, laborVars, Served
<1>. QED  BY <1>1, <1>2, <1>3, <1>4, <1>5, <1>6, <1>7, <1>8, <1>9, <1>10 DEF PInv

\* A channel that is not busy may have a new put.
LEMMA PutTestStep ==
    ASSUME PInv, PutTest PROVE PInv'
<1>1. Types'
  BY DEF PInv, PutTest, Types, Goes, notifyVars, putVars, laborVars, chanVars, Places
<1>2. InHand'
  BY DEF PInv, PutTest, InCancel, Putting, Freeing, At, Goes, laborVars, chanVars, InHand
<1>3. Requested'
  BY DEF PInv, PutTest, Types, Putting, At, Goes, notifyVars, putVars, Requested, InHand
<1>4. Busy'
  BY DEF PInv, PutTest, Putting, Open, At, putVars, chanVars, Busy, InHand
<1>5. Marked'
  BY DEF PInv, PutTest, Goes, putVars, Marked
<1>6. Sending'
  BY DEF PInv, PutTest, Putting, At, chanVars, Sending, InHand
<1>7. NoneForgotten'
  BY DEF PInv, PutTest, Putting, Open, At, putVars, chanVars, NoneForgotten, InHand
<1>8. Trapped'
  BY DEF PInv, PutTest, putVars, Trapped
<1>9. Queued'
  BY DEF PInv, PutTest, putVars, Queued
<1>10. Served'
  BY DEF PInv, PutTest, laborVars, Served
<1>. QED  BY <1>1, <1>2, <1>3, <1>4, <1>5, <1>6, <1>7, <1>8, <1>9, <1>10 DEF PInv

\* The semaphore only makes the TCP thread look again.
LEMMA PutWakeStep ==
    ASSUME PInv, PutWake PROVE PInv'
<1>1. Types'
  BY DEF PInv, PutWake, Types, Goes, notifyVars, putVars, laborVars, chanVars, Places
<1>2. InHand'
  BY DEF PInv, PutWake, InCancel, Putting, Freeing, At, Goes, laborVars, chanVars, InHand
<1>3. Requested'
  BY DEF PInv, PutWake, At, Goes, notifyVars, putVars, Requested
<1>4. Busy'
  BY DEF PInv, PutWake, Putting, Open, At, putVars, chanVars, Busy, InHand
<1>5. Marked'
  BY DEF PInv, PutWake, At, putVars, Marked
<1>6. Sending'
  BY DEF PInv, PutWake, Putting, At, chanVars, Sending, InHand
<1>7. NoneForgotten'
  BY DEF PInv, PutWake, Putting, Open, At, putVars, chanVars, NoneForgotten, InHand
<1>8. Trapped'
  BY DEF PInv, PutWake, putVars, Trapped
<1>9. Queued'
  BY DEF PInv, PutWake, putVars, Queued
<1>10. Served'
  BY DEF PInv, PutWake, laborVars, Served
<1>. QED  BY <1>1, <1>2, <1>3, <1>4, <1>5, <1>6, <1>7, <1>8, <1>9, <1>10 DEF PInv

\* So does the timeout, once the put has been canceled.
LEMMA PutTimeoutStep ==
    ASSUME PInv, PutTimeout PROVE PInv'
<1>1. Types'
  BY DEF PInv, PutTimeout, Types, notifyVars, putVars, laborVars, chanVars, Places
<1>2. InHand'
  BY DEF PInv, PutTimeout, Putting, Freeing, At, laborVars, chanVars, InHand
<1>3. Requested'
  BY DEF PInv, PutTimeout, Types, Putting, At, notifyVars, putVars, Requested, InHand
<1>4. Busy'
  BY DEF PInv, PutTimeout, Putting, Open, At, putVars, chanVars, Busy, InHand
<1>5. Marked'
  BY DEF PInv, PutTimeout, At, putVars, Marked
<1>6. Sending'
  BY DEF PInv, PutTimeout, Putting, At, chanVars, Sending, InHand
<1>7. NoneForgotten'
  BY DEF PInv, PutTimeout, Putting, Open, At, putVars, chanVars, NoneForgotten, InHand
<1>8. Trapped'
  BY DEF PInv, PutTimeout, putVars, Trapped
<1>9. Queued'
  BY DEF PInv, PutTimeout, putVars, Queued
<1>10. Served'
  BY DEF PInv, PutTimeout, laborVars, Served
<1>. QED  BY <1>1, <1>2, <1>3, <1>4, <1>5, <1>6, <1>7, <1>8, <1>9, <1>10 DEF PInv

\* The put to a link field has called back.
LEMMA PutReturnStep ==
    ASSUME PInv, PutReturn PROVE PInv'
<1>1. Types'
  BY DEF PInv, PutReturn, Types, Goes, Home, notifyVars, putVars, laborVars, chanVars, Places
<1>2. InHand'
  BY DEF PInv, PutReturn, InCancel, Putting, Freeing, At, Goes, Home, laborVars, chanVars, InHand
<1>3. Requested'
  BY DEF PInv, PutReturn, Types, At, Goes, Home, notifyVars, putVars, Requested
<1>4. Busy'
  BY DEF PInv, PutReturn, Putting, Open, At, putVars, chanVars, Busy, InHand
<1>5. Marked'
  BY DEF PInv, PutReturn, At, putVars, Marked
<1>6. Sending'
  BY DEF PInv, PutReturn, Putting, At, chanVars, Sending, InHand
<1>7. NoneForgotten'
  BY DEF PInv, PutReturn, Putting, Open, At, putVars, chanVars, NoneForgotten, InHand
<1>8. Trapped'
  BY DEF PInv, PutReturn, putVars, Trapped
<1>9. Queued'
  BY DEF PInv, PutReturn, putVars, Queued
<1>10. Served'
  BY DEF PInv, PutReturn, laborVars, Served
<1>. QED  BY <1>1, <1>2, <1>3, <1>4, <1>5, <1>6, <1>7, <1>8, <1>9, <1>10 DEF PInv

\* A channel that is gone has left nothing behind.
LEMMA FreedStep ==
    ASSUME PInv, Freed PROVE PInv'
<1>1. Types'
  BY DEF PInv, Freed, Types, Goes, Home, notifyVars, putVars, laborVars, chanVars, Places
<1>2. InHand'
  BY DEF PInv, Freed, InCancel, Putting, Freeing, At, Goes, Home, laborVars, chanVars, InHand
<1>3. Requested'
  BY DEF PInv, Freed, At, Goes, Home, notifyVars, putVars, Requested
<1>4. Busy'
  BY DEF PInv, Freed, Open, At, putVars, laborVars, chanVars, Busy
<1>5. Marked'
  BY DEF PInv, Freed, At, putVars, Marked
<1>6. Sending'
  BY DEF PInv, Freed, At, Goes, Sending, InHand
<1>7. NoneForgotten'
  BY DEF PInv, Freed, Open, At, putVars, laborVars, chanVars, NoneForgotten
<1>8. Trapped'
  BY DEF PInv, Freed, putVars, Trapped
<1>9. Queued'
  BY DEF PInv, Freed, putVars, Queued
<1>10. Served'
  BY DEF PInv, Freed, laborVars, Served
<1>. QED  BY <1>1, <1>2, <1>3, <1>4, <1>5, <1>6, <1>7, <1>8, <1>9, <1>10 DEF PInv

\* The connection is over: no put is in hand.
LEMMA DisconnectStep ==
    ASSUME PInv, Disconnect PROVE PInv'
<1>1. Types'
  BY DEF PInv, Disconnect, Types, Goes, notifyVars, putVars, chanVars, Places
<1>2. InHand'
  BY DEF PInv, Disconnect, InCancel, Putting, Freeing, At, Goes, chanVars, InHand
<1>3. Requested'
  BY DEF PInv, Disconnect, At, Goes, notifyVars, putVars, Requested
<1>4. Busy'
  BY DEF PInv, Disconnect, Open, putVars, chanVars, Busy
<1>5. Marked'
  BY DEF PInv, Disconnect, At, putVars, Marked
<1>6. Sending'
  BY DEF PInv, Disconnect, Goes, Sending
<1>7. NoneForgotten'
  BY DEF PInv, Disconnect, Open, NoneForgotten
<1>8. Trapped'
  BY DEF PInv, Disconnect, putVars, Trapped
<1>9. Queued'
  BY DEF PInv, Disconnect, putVars, Queued
<1>10. Served'
  BY DEF PInv, Disconnect, Served
<1>. QED  BY <1>1, <1>2, <1>3, <1>4, <1>5, <1>6, <1>7, <1>8, <1>9, <1>10 DEF PInv

\* db_flush_extra_labor_event has waited until the event task is at rest.
LEMMA FlushStep ==
    ASSUME PInv, Flush PROVE PInv'
<1>1. Types'
  BY DEF PInv, Flush, LaborFlushed, Types, Goes, Home, notifyVars, putVars, laborVars, chanVars,
       Places
<1>2. InHand'
  BY DEF PInv, Flush, LaborFlushed, InCancel, Putting, Freeing, At, Goes, Home, laborVars,
       chanVars, InHand
<1>3. Requested'
  BY DEF PInv, Flush, LaborFlushed, At, Goes, Home, notifyVars, putVars, Requested
<1>4. Busy'
  BY DEF PInv, Flush, LaborFlushed, Open, At, putVars, laborVars, chanVars, Busy
<1>5. Marked'
  BY DEF PInv, Flush, LaborFlushed, At, putVars, Marked
<1>6. Sending'
  BY DEF PInv, Flush, LaborFlushed, Sending
<1>7. NoneForgotten'
  BY DEF PInv, Flush, LaborFlushed, Open, At, putVars, laborVars, chanVars, NoneForgotten
<1>8. Trapped'
  BY DEF PInv, Flush, LaborFlushed, putVars, Trapped
<1>9. Queued'
  BY DEF PInv, Flush, LaborFlushed, putVars, Queued
<1>10. Served'
  BY DEF PInv, Flush, LaborFlushed, laborVars, Served
<1>. QED  BY <1>1, <1>2, <1>3, <1>4, <1>5, <1>6, <1>7, <1>8, <1>9, <1>10 DEF PInv

\* The last channel is gone.
LEMMA CloseStep ==
    ASSUME PInv, Close PROVE PInv'
<1>1. Types'
  BY DEF PInv, Close, Types, Goes, Home, notifyVars, putVars, laborVars, chanVars, Places
<1>2. InHand'
  BY DEF PInv, Close, InCancel, Putting, Freeing, At, Goes, Home, laborVars, chanVars, InHand
<1>3. Requested'
  BY DEF PInv, Close, InCancel, Freeing, At, Goes, Home, notifyVars, Requested, Busy, InHand
<1>4. Busy'
  BY DEF PInv, Close, InCancel, Freeing, At, putVars, Busy, InHand
<1>5. Marked'
  BY DEF PInv, Close, At, putVars, Marked
<1>6. Sending'
  BY DEF PInv, Close, At, Sending, InHand
<1>7. NoneForgotten'
  BY DEF PInv, Close, chanVars, NoneForgotten
<1>8. Trapped'
  BY DEF PInv, Close, putVars, Trapped
<1>9. Queued'
  BY DEF PInv, Close, putVars, Queued
<1>10. Served'
  BY DEF PInv, Close, laborVars, Served
<1>. QED  BY <1>1, <1>2, <1>3, <1>4, <1>5, <1>6, <1>7, <1>8, <1>9, <1>10 DEF PInv

\* A callback that has queued its put asks for labor.
LEMMA DonePostStep ==
    ASSUME PInv, NEW c \in Channels, DonePost(c) PROVE PInv'
<1>1. Types'
  BY DEF PInv, DonePost, Types, notifyVars, putVars, chanVars
<1>2. InHand'
  BY DEF PInv, DonePost, InCancel, Putting, Freeing, chanVars, InHand
<1>3. Requested'
  BY DEF PInv, DonePost, notifyVars, putVars, Requested
<1>4. Busy'
  BY DEF PInv, DonePost, Open, putVars, chanVars, Busy
<1>5. Marked'
  BY DEF PInv, DonePost, putVars, Marked
<1>6. Sending'
  BY DEF PInv, DonePost, InCancel, Freeing, chanVars, Sending
<1>7. NoneForgotten'
  BY DEF PInv, DonePost, Open, putVars, chanVars, NoneForgotten
<1>8. Trapped'
  BY DEF PInv, DonePost, putVars, Trapped
<1>9. Queued'
  BY DEF PInv, DonePost, putVars, Queued
<1>10. Served'
  BY DEF PInv, DonePost, Served
<1>. QED  BY <1>1, <1>2, <1>3, <1>4, <1>5, <1>6, <1>7, <1>8, <1>9, <1>10 DEF PInv

\* A callback that returns has no put in hand any more.
LEMMA DoneReturnStep ==
    ASSUME PInv, NEW c \in Channels, DoneReturn(c) PROVE PInv'
<1>1. Types'
  BY DEF PInv, DoneReturn, Promise!DoneReturns, Types, putVars, laborVars, chanVars
<1>2. InHand'
  BY DEF PInv, DoneReturn, Promise!DoneReturns, InCancel, Putting, Freeing, laborVars, chanVars,
       InHand
<1>3. Requested'
  BY DEF PInv, DoneReturn, Promise!DoneReturns, Types, putVars, Requested
<1>4. Busy'
  BY DEF PInv, DoneReturn, Promise!DoneReturns, Open, putVars, laborVars, chanVars, Busy
<1>5. Marked'
  BY DEF PInv, DoneReturn, Promise!DoneReturns, putVars, Marked
<1>6. Sending'
  BY DEF PInv, DoneReturn, Promise!DoneReturns, InCancel, Freeing, chanVars, Sending
<1>7. NoneForgotten'
  BY DEF PInv, DoneReturn, Promise!DoneReturns, Open, putVars, laborVars, chanVars, NoneForgotten
<1>8. Trapped'
  BY DEF PInv, DoneReturn, Promise!DoneReturns, putVars, Trapped
<1>9. Queued'
  BY DEF PInv, DoneReturn, Promise!DoneReturns, putVars, Queued
<1>10. Served'
  BY DEF PInv, DoneReturn, Promise!DoneReturns, laborVars, Served
<1>. QED  BY <1>1, <1>2, <1>3, <1>4, <1>5, <1>6, <1>7, <1>8, <1>9, <1>10 DEF PInv

\* The event task begins with the queue as it finds it.
LEMMA LaborStep ==
    ASSUME PInv, Labor PROVE PInv'
<1>1. Types'
  BY DEF PInv, Labor, Types, notifyVars, putVars, chanVars
<1>2. InHand'
  BY DEF PInv, Labor, InCancel, Putting, Freeing, chanVars, InHand
<1>3. Requested'
  BY DEF PInv, Labor, notifyVars, putVars, Requested
<1>4. Busy'
  BY DEF PInv, Labor, Open, putVars, chanVars, Busy
<1>5. Marked'
  BY DEF PInv, Labor, putVars, Marked
<1>6. Sending'
  BY DEF PInv, Labor, Sending
<1>7. NoneForgotten'
  BY DEF PInv, Labor, Open, putVars, chanVars, NoneForgotten
<1>8. Trapped'
  BY DEF PInv, Labor, putVars, Trapped
<1>9. Queued'
  BY DEF PInv, Labor, putVars, Queued
<1>10. Served'
  BY DEF PInv, Labor, Served
<1>. QED  BY <1>1, <1>2, <1>3, <1>4, <1>5, <1>6, <1>7, <1>8, <1>9, <1>10 DEF PInv

\* It leaves the loop only when the queue is empty.
LEMMA ReplyEndStep ==
    ASSUME PInv, ReplyEnd PROVE PInv'
<1>1. Types'
  BY DEF PInv, ReplyEnd, Types, notifyVars, putVars, laborVars, chanVars
<1>2. InHand'
  BY DEF PInv, ReplyEnd, InCancel, Putting, Freeing, laborVars, chanVars, InHand
<1>3. Requested'
  BY DEF PInv, ReplyEnd, notifyVars, putVars, Requested
<1>4. Busy'
  BY DEF PInv, ReplyEnd, Open, putVars, laborVars, chanVars, Busy
<1>5. Marked'
  BY DEF PInv, ReplyEnd, putVars, Marked
<1>6. Sending'
  BY DEF PInv, ReplyEnd, Sending
<1>7. NoneForgotten'
  BY DEF PInv, ReplyEnd, Open, putVars, laborVars, chanVars, NoneForgotten
<1>8. Trapped'
  BY DEF PInv, ReplyEnd, putVars, Trapped
<1>9. Queued'
  BY DEF PInv, ReplyEnd, putVars, Queued
<1>10. Served'
  BY DEF PInv, ReplyEnd, Served
<1>. QED  BY <1>1, <1>2, <1>3, <1>4, <1>5, <1>6, <1>7, <1>8, <1>9, <1>10 DEF PInv

-----------------------------------------------------------------------------
(* The steps that change a put.                                            *)

\* A new put has a new place in the history, which nobody else knows.
LEMMA PutStartStep ==
    ASSUME PInv, PutStart PROVE PInv'
<1> DEFINE c == tcp.c
           k == Len(log) + 1
           refused == Put("answered", FALSE)
           put == Put("asked", TRUE)
<1>1. /\ tcp.pc = "start" /\ c \in Channels /\ c \in chanList /\ c \in pPutNotify
      /\ ~busy[c] /\ asWritePvt[c] = 0 /\ extralabor_sub
  BY DEF PInv, PutStart, At, Types, InHand, Putting, Requested, Trapped
<1>2. /\ busy' = [busy EXCEPT ![c] = TRUE] /\ msg' = [msg EXCEPT ![c] = k]
      /\ onExtraLaborQueue' = [onExtraLaborQueue EXCEPT ![c] = FALSE]
      /\ UNCHANGED <<inst, phase, canceling, status, chanList, pPutNotify, putNotifyQue, blockSem,
                     extra_labor, extralabor_sub, event, done>>
  BY DEF PutStart, notifyVars, chanVars, laborVars
<1>3. \/ /\ log' = Append(log, refused) /\ asWritePvt' = asWritePvt
         /\ tcp' = [pc |-> "hangup", c |-> None, then |-> "idle"]
      \/ /\ log' = Append(log, put) /\ asWritePvt' = [asWritePvt EXCEPT ![c] = k]
         /\ tcp' = [tcp EXCEPT !.pc = "ask"]
  BY DEF PutStart, Goes, Home
<1>4. /\ refused \in Entry /\ refused.c = c /\ refused.is = "answered" /\ ~refused.trapped
      /\ put \in Entry /\ put.c = c /\ put.is = "asked" /\ put.trapped
  BY <1>1 DEF Put, Entry
<1>. HIDE DEF c, k, refused, put
<1>5. /\ log' \in Seq(Entry) /\ Len(log') = Len(log) + 1
      /\ DOMAIN log' = DOMAIN log \cup {k} /\ k \notin DOMAIN log /\ k = Len(log) + 1
      /\ \A j \in DOMAIN log : log'[j] = log[j]
      /\ log'[k] = refused \/ log'[k] = put
      /\ tcp'.pc = "hangup" => log'[k] = refused
      /\ tcp'.pc = "ask" => log'[k] = put
  <2>1. CASE log' = Append(log, refused)
    <3>1. tcp'.pc # "ask"
      BY <1>1, <1>3, <2>1, <1>4, LogBegins DEF PInv, Types
    <3>. QED  BY <2>1, <3>1, <1>4, LogBegins DEF PInv, k
  <2>2. CASE log' = Append(log, put) /\ tcp' = [tcp EXCEPT !.pc = "ask"]
    <3>1. tcp'.pc # "hangup"
      BY <2>2 DEF PInv, Types
    <3>. QED  BY <2>2, <3>1, <1>4, LogBegins DEF PInv, k
  <2>. QED  BY <1>3, <2>1, <2>2
<1>6. c = tcp.c
  BY DEF c
<1>7. Types'
  <2>1. /\ \A i \in 0 .. Len(log) : i \in 0 .. Len(log') /\ k \in 0 .. Len(log')
    BY <1>5 DEF PInv, Types
  <2>2. asWritePvt' \in [Channels -> 0 .. Len(log')] /\ msg' \in [Channels -> 0 .. Len(log')]
    BY <2>1, <1>1, <1>2, <1>3 DEF PInv, Types
  <2>3. tcp' \in [pc : Places, c : Channels \cup {None}, then : {"idle", "recheck", "free"}]
    <3>1. CASE tcp' = [pc |-> "hangup", c |-> None, then |-> "idle"]
      BY <3>1 DEF Places
    <3>2. CASE tcp' = [tcp EXCEPT !.pc = "ask"]
      BY <3>2 DEF PInv, Types, Places
    <3>. QED  BY <1>3, <3>1, <3>2
  <2>4. event' \in [pc : {"idle", "take", "send", "signal"}, put : 0 .. Len(log'),
                    status : Statuses, asWritePvt : 0 .. Len(log')]
    BY <2>1, <1>2 DEF PInv, Types
  <2>. QED  BY <1>1, <1>2, <1>5, <2>2, <2>3, <2>4 DEF PInv, Types
<1>8. InHand'
  <2>1. \A d \in pPutNotify : d \in chanList
    BY <1>1 DEF PInv, InHand, Freeing, InCancel
  <2>2. CASE tcp' = [pc |-> "hangup", c |-> None, then |-> "idle"]
    BY <1>1, <1>2, <2>1, <2>2 DEF InHand, Putting, Freeing, InCancel
  <2>3. CASE tcp' = [tcp EXCEPT !.pc = "ask"]
    BY <1>1, <1>2, <1>6, <2>1, <2>3 DEF PInv, Types, InHand, Putting, Freeing, InCancel
  <2>. QED  BY <1>3, <2>2, <2>3
<1>9. Requested'
  BY <1>1, <1>2, <1>3, <1>4, <1>5, <1>6 DEF PInv, Types, Open, Requested, Busy
<1>10. Busy'
  BY <1>1, <1>2, <1>3, <1>4, <1>5 DEF PInv, Types, Open, Busy
<1>11. Marked'
  BY <1>2, <1>6 DEF PInv, Types, Marked
<1>12. Sending'
  BY <1>1, <1>2, <1>5, <1>6 DEF PInv, Types, Sending, InHand
<1>13. NoneForgotten'
  BY <1>1, <1>2, <1>4, <1>5 DEF PInv, Types, Open, NoneForgotten
<1>14. Trapped'
  BY <1>1, <1>2, <1>3, <1>4, <1>5 DEF PInv, Types, Trapped
<1>15. Queued'
  BY <1>1, <1>2 DEF PInv, Types, Queued
<1>16. Served'
  BY <1>2 DEF PInv, Served
<1>. QED  BY <1>7, <1>8, <1>9, <1>10, <1>11, <1>12, <1>13, <1>14, <1>15, <1>16 DEF PInv

\* A put still busy after its cancel is off the queue and has not been taken: the reply
\* of the TCP thread is its only one.
LEMMA PutRecheckStep ==
    ASSUME PInv, PutRecheck PROVE PInv'
<1> DEFINE c == tcp.c
<1>1. /\ tcp.pc = "recheck" /\ tcp' = [tcp EXCEPT !.pc = "test"]
      /\ UNCHANGED <<inst, phase, canceling, status, chanList, pPutNotify, onExtraLaborQueue, msg,
                     blockSem, extra_labor, extralabor_sub, event, done>>
  BY DEF PutRecheck, At, Goes, notifyVars, chanVars, laborVars
<1>2. /\ c \in Channels /\ c \in chanList /\ c \in pPutNotify
      /\ phase[c] # "asked" /\ done[c] # "entered"
  BY <1>1 DEF PInv, Types, InHand, Putting, Requested
<1>3. CASE ~busy[c]
  <2>1. UNCHANGED <<putNotifyQue, busy, asWritePvt, log>>
    BY <1>3 DEF PutRecheck, StillBusy
  <2>2. c = tcp.c
    OBVIOUS
  <2>. HIDE DEF c
  <2>3. Types'
    BY <1>1, <1>2, <1>3, <2>1, <2>2 DEF PInv, Types, InHand, InCancel, Putting, Freeing, Open,
         Places, Statuses
  <2>4. InHand'
    BY <1>1, <1>2, <1>3, <2>1, <2>2 DEF PInv, Types, InHand, InCancel, Putting, Freeing, Open
  <2>5. Requested'
    BY <1>1, <1>2, <1>3, <2>1, <2>2 DEF PInv, Types, InHand, InCancel, Putting, Freeing, Open,
         Requested
  <2>6. Busy'
    BY <1>1, <1>2, <1>3, <2>1, <2>2 DEF PInv, Types, InHand, InCancel, Putting, Freeing, Open,
         Busy
  <2>7. Marked'
    BY <1>1, <1>2, <1>3, <2>1, <2>2 DEF PInv, Types, InHand, InCancel, Putting, Freeing, Open,
         Marked
  <2>8. Sending'
    BY <1>1, <1>2, <1>3, <2>1, <2>2 DEF PInv, Types, InHand, InCancel, Putting, Freeing, Open,
         Sending
  <2>9. NoneForgotten'
    BY <1>1, <1>2, <1>3, <2>1, <2>2 DEF PInv, Types, InHand, InCancel, Putting, Freeing, Open,
         NoneForgotten
  <2>10. Trapped'
    BY <1>1, <1>2, <1>3, <2>1, <2>2 DEF PInv, Types, InHand, InCancel, Putting, Freeing, Open,
         Trapped
  <2>11. Queued'
    BY <1>1, <1>2, <1>3, <2>1, <2>2 DEF PInv, Types, InHand, InCancel, Putting, Freeing, Open,
         Queued
  <2>12. Served'
    BY <1>1, <1>2, <1>3, <2>1, <2>2 DEF PInv, Types, InHand, InCancel, Putting, Freeing, Open,
         Served
  <2>. QED  BY <2>3, <2>4, <2>5, <2>6, <2>7, <2>8, <2>9, <2>10, <2>11, <2>12 DEF PInv
<1>. SUFFICES ASSUME busy[c] PROVE PInv'
  BY <1>3
<1> DEFINE k == msg[c]
<1>4. /\ putNotifyQue' = IF onExtraLaborQueue[c] THEN RemoveFirst(putNotifyQue, c)
                         ELSE putNotifyQue
      /\ busy' = [busy EXCEPT ![c] = FALSE] /\ asWritePvt' = [asWritePvt EXCEPT ![c] = 0]
      /\ Reply(k)
  BY DEF PutRecheck, StillBusy, Dequeue
<1>5. /\ k \in DOMAIN log /\ k # event.put
      /\ \A d \in Channels \ {c} : busy[d] => msg[d] # k
      /\ log[k].c = c
  BY <1>2, EachItsOwn DEF PInv, Busy
<1>6. /\ putNotifyQue' \in Seq(Channels) /\ IsInjective(putNotifyQue')
      /\ Range(putNotifyQue') = Range(putNotifyQue) \ {c}
      /\ putNotifyQue' # <<>> => putNotifyQue # <<>>
  <2>1. CASE onExtraLaborQueue[c]
    BY <1>2, <1>4, <2>1, Dequeued DEF PInv
  <2>2. CASE ~onExtraLaborQueue[c]
    BY <1>2, <1>4, <2>2 DEF PInv, Types, Queued
  <2>. QED  BY <2>1, <2>2
<1>7. c = tcp.c /\ k = msg[c]
  OBVIOUS
<1>. HIDE DEF c, k
<1>8. /\ log' \in Seq(Entry) /\ Len(log') = Len(log) /\ DOMAIN log' = DOMAIN log
      /\ log'[k].c = log[k].c /\ log'[k].is = "answered" /\ log'[k].trapped = FALSE
      /\ \A j \in DOMAIN log \ {k} : log'[j] = log[j]
  BY <1>4, <1>5, LogAnswered DEF PInv
<1>9. Types'
  <2>1. asWritePvt' \in [Channels -> 0 .. Len(log)] /\ busy' \in [Channels -> BOOLEAN]
    BY <1>2, <1>4 DEF PInv, Types
  <2>2. tcp' \in [pc : Places, c : Channels \cup {None}, then : {"idle", "recheck", "free"}]
    BY <1>1 DEF PInv, Types, Places
  <2>. QED  BY <1>1, <1>6, <1>8, <2>1, <2>2 DEF PInv, Types
<1>10. InHand'
  BY <1>1 DEF PInv, InCancel, Putting, Freeing, InHand
<1>11. Requested'
  BY <1>1, <1>4, <1>5, <1>7, <1>8 DEF PInv, Requested, Busy
<1>12. Busy'
  BY <1>1, <1>4, <1>5, <1>8 DEF PInv, Types, Open, Busy
<1>13. Marked'
  BY <1>1, <1>4, <1>7 DEF PInv, Marked
<1>14. Sending'
  BY <1>1, <1>2, <1>5, <1>7, <1>8 DEF PInv, Types, Sending, InHand
<1>15. NoneForgotten'
  <2>1. ASSUME NEW j \in DOMAIN log, Open, log'[j].is # "answered", log'[j].c \in chanList
        PROVE  (busy'[log'[j].c] /\ msg[log'[j].c] = j) \/ event.put = j
    <3>1. j # k /\ log'[j] = log[j]
      BY <1>8, <2>1
    <3>2. CASE event.put = j
      BY <3>2
    <3>3. CASE busy[log[j].c] /\ msg[log[j].c] = j
      <4>1. log[j].c # c /\ log[j].c \in Channels
        BY <1>7, <2>1, <3>1, <3>3 DEF PInv, Types
      <4>. QED  BY <1>4, <3>1, <3>3, <4>1 DEF PInv, Types
    <3>. QED  BY <2>1, <3>1, <3>2, <3>3 DEF PInv, NoneForgotten
  <2>2. Open' => Open
    BY <1>1 DEF Open
  <2>. QED  BY <1>1, <1>8, <2>1, <2>2 DEF NoneForgotten
<1>16. Trapped'
  <2>1. \A d \in Channels : asWritePvt'[d] # 0 => busy'[d] /\ asWritePvt'[d] = msg[d]
    BY <1>4, <1>2 DEF PInv, Types, Trapped
  <2>2. event.asWritePvt # k /\ \A d \in Channels : asWritePvt'[d] # k
    BY <1>2, <1>4, <1>5, <1>7 DEF PInv, Types, Sending, Trapped
  <2>3. ASSUME NEW j \in DOMAIN log, j # k
        PROVE  \A d \in Channels : asWritePvt[d] = j <=> asWritePvt'[d] = j
    BY <1>2, <1>4, <1>7, <2>3 DEF PInv, Types, Trapped
  <2>4. ~log'[k].trapped /\ \A j \in DOMAIN log \ {k} : log'[j].trapped = log[j].trapped
    BY <1>8
  <2>. QED  BY <1>1, <1>8, <2>1, <2>2, <2>3, <2>4 DEF PInv, Trapped
<1>17. Queued'
  BY <1>1, <1>4, <1>6 DEF PInv, Types, Queued
<1>18. Served'
  BY <1>1, <1>6 DEF PInv, Served
<1>. QED  BY <1>9, <1>10, <1>11, <1>12, <1>13, <1>14, <1>15, <1>16, <1>17, <1>18 DEF PInv

\* Only the callback of the last request calls, and once.
LEMMA CompleteStep ==
    ASSUME PInv, NEW c \in Channels, Complete(c) PROVE PInv'
<1>1. /\ phase[c] = "asked" /\ phase' = [phase EXCEPT ![c] = "calling"]
      /\ done' = [done EXCEPT ![c] = "entered"] /\ Completes(c)
      /\ UNCHANGED <<inst, canceling, status, chanList, pPutNotify, busy, onExtraLaborQueue,
                     asWritePvt, msg, putNotifyQue, blockSem, extra_labor, extralabor_sub, tcp, event>>
  BY DEF Complete, Promise!Done, chanVars, putVars, laborVars
<1>2. /\ busy[c] /\ ~onExtraLaborQueue[c] /\ c \notin inst.links /\ done[c] = "none"
      /\ msg[c] \in DOMAIN log /\ msg[c] # event.put
      /\ \A d \in Channels \ {c} : busy[d] => msg[d] # msg[c]
  BY <1>1, EachItsOwn DEF PInv, Requested, Types
<1>3. /\ log' \in Seq(Entry) /\ Len(log') = Len(log) /\ DOMAIN log' = DOMAIN log
      /\ \A j \in DOMAIN log : log'[j].c = log[j].c /\ log'[j].trapped = log[j].trapped
      /\ log'[msg[c]].is = "completed" /\ \A j \in DOMAIN log \ {msg[c]} : log'[j] = log[j]
  BY <1>1, <1>2, LogCompletes DEF PInv
<1>4. log[msg[c]].is = "answered" => ~Open
  BY <1>2 DEF PInv, Busy
<1>5. Types'
  BY <1>1, <1>3 DEF PInv, Types
<1>6. InHand'
  BY <1>1 DEF PInv, InCancel, Putting, Freeing, InHand
<1>7. Requested'
  BY <1>1, <1>3 DEF PInv, Types, Requested, Busy
<1>8. Busy'
  <2>. SUFFICES ASSUME NEW d \in Channels, busy[d]
                PROVE  /\ d \in pPutNotify /\ msg[d] \in DOMAIN log' /\ log'[msg[d]].c = d
                       /\ onExtraLaborQueue[d] => log'[msg[d]].is = "completed"
                       /\ Open => log'[msg[d]].is # "answered"
                       /\ msg[d] # event.put
    BY <1>1 DEF Busy, Open
  <2>1. CASE d = c
    BY <1>2, <1>3, <2>1 DEF PInv, Busy
  <2>2. CASE d # c
    <3>1. msg[d] \in DOMAIN log \ {msg[c]} /\ log'[msg[d]] = log[msg[d]]
      BY <1>2, <1>3, <2>2 DEF PInv, Busy
    <3>. QED  BY <1>3, <3>1 DEF PInv, Busy
  <2>. QED  BY <2>1, <2>2
<1>9. Marked'
  BY <1>1 DEF PInv, Marked
<1>10. Sending'
  BY <1>1, <1>3 DEF PInv, Types, InCancel, Freeing, Sending
<1>11. NoneForgotten'
  BY <1>1, <1>3, <1>4 DEF PInv, Open, NoneForgotten
<1>12. Trapped'
  BY <1>1, <1>3 DEF PInv, Open, Trapped
<1>13. Queued'
  BY <1>1 DEF PInv, Queued
<1>14. Served'
  BY <1>1, <1>2 DEF PInv, Served
<1>. QED  BY <1>5, <1>6, <1>7, <1>8, <1>9, <1>10, <1>11, <1>12, <1>13, <1>14 DEF PInv

\* The put in the hands of the event task is completed, and no channel is busy with it.
LEMMA ReplySendStep ==
    ASSUME PInv, ReplySend PROVE PInv'
<1> DEFINE k == event.put
<1>1. /\ event.pc = "send" /\ Reply(k)
      /\ event' = [pc |-> "take", put |-> 0, status |-> "notifyOK", asWritePvt |-> 0]
      /\ UNCHANGED <<inst, phase, canceling, status, chanList, pPutNotify, busy, onExtraLaborQueue,
                     asWritePvt, msg, putNotifyQue, blockSem, extra_labor, extralabor_sub, tcp, done>>
  BY DEF ReplySend, Rest, notifyVars, chanVars, putVars, laborVars
<1>2. k \in DOMAIN log /\ \A d \in Channels : busy[d] => msg[d] # k
  BY <1>1 DEF PInv, Types, Sending, Busy
<1>. HIDE DEF k
<1>3. /\ log' \in Seq(Entry) /\ Len(log') = Len(log) /\ DOMAIN log' = DOMAIN log
      /\ log'[k].c = log[k].c /\ log'[k].is = "answered" /\ log'[k].trapped = FALSE
      /\ \A j \in DOMAIN log \ {k} : log'[j] = log[j]
  BY <1>1, <1>2, LogAnswered DEF PInv
<1>4. k = event.put
  BY DEF k
<1>5. Types'
  BY <1>1, <1>3 DEF PInv, Types, Statuses
<1>6. InHand'
  BY <1>1 DEF PInv, InCancel, Putting, Freeing, InHand
<1>7. Requested'
  BY <1>1, <1>3, <1>4 DEF PInv, Requested, Busy
<1>8. Busy'
  BY <1>1, <1>3, <1>4 DEF PInv, Open, Busy
<1>9. Marked'
  BY <1>1 DEF PInv, Marked
<1>10. Sending'
  BY <1>1 DEF PInv, Sending
<1>11. NoneForgotten'
  BY <1>1, <1>3, <1>4 DEF PInv, Open, NoneForgotten
<1>12. Trapped'
  <2>1. \A d \in Channels : asWritePvt[d] # 0 => busy[d] /\ asWritePvt[d] = msg[d]
    BY DEF PInv, Trapped
  <2>2. k # 0 /\ event'.asWritePvt = 0 /\ \A d \in Channels : asWritePvt[d] # k
    BY <1>1, <1>2, <2>1 DEF PInv, Types
  <2>3. \A j \in DOMAIN log \ {k} : event.asWritePvt # j /\ j # 0
    BY <1>4 DEF PInv, Types, Sending
  <2>4. \A j \in DOMAIN log \ {k} : log'[j].trapped <=> \E d \in Channels : asWritePvt[d] = j
    BY <1>3, <2>3 DEF PInv, Trapped
  <2>5. ~log'[k].trapped
    BY <1>3
  <2>. QED  BY <1>1, <1>3, <2>1, <2>2, <2>3, <2>4, <2>5 DEF Trapped
<1>13. Queued'
  BY <1>1 DEF PInv, Queued
<1>14. Served'
  BY <1>1 DEF PInv, Served
<1>. QED  BY <1>5, <1>6, <1>7, <1>8, <1>9, <1>10, <1>11, <1>12, <1>13, <1>14 DEF PInv

\* dbProcessNotify is called with no request of the channel outstanding.
LEMMA PutAskStep ==
    ASSUME PInv, PutAsk PROVE PInv'
<1> DEFINE c == tcp.c
<1>1. /\ tcp.pc = "ask" /\ status' = [status EXCEPT ![c] = "notifyOK"]
      /\ UNCHANGED <<inst, canceling, chanList, pPutNotify, busy, onExtraLaborQueue, asWritePvt,
                     msg, putNotifyQue, blockSem, extra_labor, extralabor_sub, event>>
  BY DEF PutAsk, At, Promise!Ask, notifyVars, chanVars, putVars, laborVars
<1>2. /\ c \in Channels /\ c \in chanList /\ c \in pPutNotify /\ extralabor_sub
      /\ phase[c] # "asked" /\ done[c] # "entered" /\ busy[c] /\ ~onExtraLaborQueue[c]
      /\ msg[c] \in DOMAIN log /\ msg[c] # event.put
      /\ \A d \in Channels \ {c} : busy[d] => msg[d] # msg[c]
  <2>1. c \in Channels /\ busy[c]
    BY <1>1 DEF PInv, Types, InHand, Putting, Requested
  <2>. QED  BY <1>1, <2>1, EachItsOwn DEF PInv, InHand, Putting, Requested
<1>3. \/ /\ c \notin inst.links /\ phase[c] = "idle" /\ phase' = [phase EXCEPT ![c] = "asked"]
         /\ tcp' = [pc |-> "idle", c |-> None, then |-> "idle"] /\ UNCHANGED <<done, log>>
      \/ /\ c \in inst.links /\ tcp' = [tcp EXCEPT !.pc = "asked"] /\ UNCHANGED phase
         /\ done' = [done EXCEPT ![c] = "entered"] /\ Completes(c)
  BY DEF PutAsk, Promise!Ask, Goes, Home, notifyVars
<1>4. c = tcp.c
  OBVIOUS
<1>. HIDE DEF c
<1>5. /\ log' \in Seq(Entry) /\ Len(log') = Len(log) /\ DOMAIN log' = DOMAIN log
      /\ \A j \in DOMAIN log : log'[j].c = log[j].c /\ log'[j].trapped = log[j].trapped
      /\ \A j \in DOMAIN log \ {msg[c]} : log'[j] = log[j]
      /\ log'[msg[c]].is = "completed" \/ log'[msg[c]] = log[msg[c]]
      /\ c \in inst.links => log'[msg[c]].is = "completed"
  <2>1. CASE UNCHANGED log /\ c \notin inst.links
    BY <1>2, <2>1 DEF PInv, Types
  <2>2. CASE Completes(c)
    BY <1>2, <2>2, LogCompletes DEF PInv
  <2>. QED  BY <1>3, <2>1, <2>2
<1>6. Open /\ \A d \in pPutNotify : d \in chanList
  BY <1>1, <1>2 DEF PInv, InHand, Open, Freeing, InCancel
<1>7. /\ tcp' \in [pc : Places, c : Channels \cup {None}, then : {"idle", "recheck", "free"}]
      /\ tcp'.pc = "idle" \/ (tcp'.pc = "asked" /\ tcp'.c = c)
      /\ tcp'.pc = "asked" <=> c \in inst.links
  <2>1. CASE tcp' = [pc |-> "idle", c |-> None, then |-> "idle"] /\ c \notin inst.links
    BY <2>1 DEF Places
  <2>2. CASE tcp' = [tcp EXCEPT !.pc = "asked"] /\ c \in inst.links
    BY <1>4, <2>2 DEF PInv, Types, Places
  <2>. QED  BY <1>3, <2>1, <2>2
<1>8. Types'
  <2>1. phase' = phase \/ phase' = [phase EXCEPT ![c] = "asked"]
    BY <1>3
  <2>2. done' = done \/ done' = [done EXCEPT ![c] = "entered"]
    BY <1>3
  <2>3. phase' \in [Channels -> {"idle", "asked", "calling"}]
    BY <2>1 DEF PInv, Types
  <2>4. done' \in [Channels -> {"none", "entered", "post", "return"}]
    BY <2>2 DEF PInv, Types
  <2>5. status' \in [Channels -> Statuses]
    BY <1>1 DEF PInv, Types, Statuses
  <2>6. log' \in Seq(Entry) /\ Len(log') = Len(log)
    BY <1>5
  <2>7. tcp' \in [pc : Places, c : Channels \cup {None}, then : {"idle", "recheck", "free"}]
    BY <1>7
  <2>. QED  BY <1>1, <2>3, <2>4, <2>5, <2>6, <2>7 DEF PInv, Types
<1>9. InHand'
  <2>1. CASE tcp'.pc = "idle"
    BY <1>1, <1>2, <1>6, <2>1 DEF PInv, InHand, InCancel, Putting, Freeing
  <2>2. CASE tcp'.pc = "asked" /\ tcp'.c = c
    BY <1>1, <1>2, <1>6, <2>2 DEF PInv, InHand, InCancel, Putting, Freeing
  <2>3. tcp'.pc = "idle" \/ (tcp'.pc = "asked" /\ tcp'.c = c)
    BY <1>7
  <2>. QED  BY <2>1, <2>2, <2>3
<1>10. Requested'
  BY <1>1, <1>2, <1>5, <1>7, <1>3 DEF PInv, Types, Requested, Busy
<1>11. Busy'
  <2>. SUFFICES ASSUME NEW d \in Channels, busy[d]
                PROVE  /\ d \in pPutNotify /\ msg[d] \in DOMAIN log' /\ log'[msg[d]].c = d
                       /\ onExtraLaborQueue[d] => log'[msg[d]].is = "completed"
                       /\ log'[msg[d]].is # "answered"
                       /\ msg[d] # event.put
    BY <1>1 DEF Busy
  <2>1. CASE d = c
    BY <1>2, <1>5, <1>6, <2>1 DEF PInv, Busy
  <2>2. CASE d # c
    <3>1. msg[d] \in DOMAIN log \ {msg[c]} /\ log'[msg[d]] = log[msg[d]]
      BY <1>2, <1>5, <2>2 DEF PInv, Busy
    <3>. QED  BY <1>5, <1>6, <3>1 DEF PInv, Busy
  <2>. QED  BY <2>1, <2>2
<1>12. Marked'
  BY <1>1 DEF PInv, Marked
<1>13. Sending'
  BY <1>1, <1>2, <1>5, <1>6 DEF PInv, Types, Sending, InHand
<1>14. NoneForgotten'
  <2>1. ASSUME NEW j \in DOMAIN log, Open, log'[j].is # "answered", log'[j].c \in chanList
        PROVE  (busy[log'[j].c] /\ msg[log'[j].c] = j) \/ event.put = j
    <3>1. CASE j = msg[c]
      BY <1>2, <1>5, <3>1 DEF PInv, Busy
    <3>2. CASE j # msg[c]
      BY <1>5, <2>1, <3>2 DEF PInv, NoneForgotten
    <3>. QED  BY <3>1, <3>2
  <2>. QED  BY <1>1, <1>5, <1>6, <2>1 DEF NoneForgotten
<1>15. Trapped'
  BY <1>1, <1>5 DEF PInv, Trapped
<1>16. Queued'
  BY <1>1 DEF PInv, Queued
<1>17. Served'
  <2>1. \A d \in Channels : done[d] = "post" => done'[d] = "post"
    <3>1. c \in inst.links => done[c] = "none"
      BY <1>1, <1>2 DEF PInv, Requested, Types
    <3>. QED  BY <1>3, <3>1 DEF PInv, Types
  <2>. QED  BY <1>1, <2>1 DEF PInv, Served
<1>. QED  BY <1>8, <1>9, <1>10, <1>11, <1>12, <1>13, <1>14, <1>15, <1>16, <1>17 DEF PInv

\* After dbNotifyCancel no callback is to come: the request is over, or its callback runs.
LEMMA CancelStep ==
    ASSUME PInv, Cancel PROVE PInv'
<1> DEFINE c == tcp.c
<1>1. /\ tcp.pc = "cancel" /\ status' = [status EXCEPT ![c] = "notifyCanceled"]
      /\ UNCHANGED <<inst, chanList, pPutNotify, busy, onExtraLaborQueue, asWritePvt, msg,
                     putNotifyQue, blockSem, extra_labor, extralabor_sub, event, done, log>>
  BY DEF Cancel, At, chanVars, putVars, laborVars
<1>2. /\ c \in Channels /\ c \in pPutNotify /\ tcp.then \in {"recheck", "free"}
  BY <1>1 DEF PInv, Types, InHand, InCancel, Putting, Freeing
<1>3. \/ /\ tcp' = [tcp EXCEPT !.pc = tcp.then] /\ UNCHANGED canceling /\ phase'[c] = "idle"
         /\ phase' = [phase EXCEPT ![c] = "idle"] /\ phase[c] # "calling"
      \/ /\ tcp' = [tcp EXCEPT !.pc = "canceling"] /\ UNCHANGED phase
         /\ canceling' = [canceling EXCEPT ![c] = TRUE]
  BY <1>2 DEF Cancel, Promise!CancelAtOnce, Promise!CancelWaits, Goes, Home, notifyVars, PInv,
       Types
<1>4. c = tcp.c
  OBVIOUS
<1>. HIDE DEF c
<1>5. Types'
  <2>0. /\ phase' = phase \/ phase' = [phase EXCEPT ![c] = "idle"]
        /\ canceling' = canceling \/ canceling' = [canceling EXCEPT ![c] = TRUE]
    BY <1>3
  <2>1. /\ phase' \in [Channels -> {"idle", "asked", "calling"}]
        /\ canceling' \in [Channels -> BOOLEAN]
    BY <2>0 DEF PInv, Types
  <2>2. tcp' \in [pc : Places, c : Channels \cup {None}, then : {"idle", "recheck", "free"}]
    BY <1>2, <1>3 DEF PInv, Types, Places
  <2>3. status' \in [Channels -> Statuses]
    BY <1>1 DEF PInv, Types, Statuses
  <2>. QED  BY <1>1, <2>1, <2>2, <2>3 DEF PInv, Types
<1>6. InHand'
  BY <1>1, <1>3, ZenonT(60) DEF PInv, Types, InCancel, Putting, Freeing, InHand
<1>7. Requested'
  <2>1. CASE /\ tcp' = [tcp EXCEPT !.pc = tcp.then] /\ UNCHANGED canceling
             /\ phase' = [phase EXCEPT ![c] = "idle"] /\ phase[c] # "calling"
    BY <1>1, <1>2, <1>4, <2>1 DEF PInv, Types, Requested, InHand, InCancel, Putting, Freeing
  <2>2. CASE /\ tcp' = [tcp EXCEPT !.pc = "canceling"] /\ UNCHANGED phase
             /\ canceling' = [canceling EXCEPT ![c] = TRUE]
    BY <1>1, <1>2, <1>4, <2>2 DEF PInv, Types, Requested
  <2>. QED  BY <1>3, <2>1, <2>2
<1>8. Busy'
  BY <1>1 DEF PInv, Open, Busy
<1>9. Marked'
  BY <1>1 DEF PInv, Marked
<1>10. Sending'
  BY <1>1, <1>3 DEF PInv, Types, InCancel, Freeing, Sending
<1>11. NoneForgotten'
  BY <1>1 DEF PInv, Open, NoneForgotten
<1>12. Trapped'
  BY <1>1 DEF PInv, Trapped
<1>13. Queued'
  BY <1>1 DEF PInv, Queued
<1>14. Served'
  BY <1>1 DEF PInv, Served
<1>. QED  BY <1>5, <1>6, <1>7, <1>8, <1>9, <1>10, <1>11, <1>12, <1>13, <1>14 DEF PInv

\* The callback that was waited for has returned.
LEMMA CancelEndStep ==
    ASSUME PInv, CancelEnd PROVE PInv'
<1> DEFINE c == tcp.c
<1>1. /\ tcp.pc = "canceling" /\ phase[c] # "calling"
      /\ canceling' = [canceling EXCEPT ![c] = FALSE] /\ phase' = [phase EXCEPT ![c] = "idle"]
      /\ UNCHANGED <<inst, status, chanList, pPutNotify, busy, onExtraLaborQueue, asWritePvt, msg,
                     putNotifyQue, blockSem, extra_labor, extralabor_sub, event, done, log>>
  BY DEF CancelEnd, At, Promise!CancelReturns, chanVars, putVars, laborVars
<1>2. /\ c \in Channels /\ c \in pPutNotify /\ tcp.then \in {"recheck", "free"}
  BY <1>1 DEF PInv, Types, InHand, InCancel, Putting, Freeing
<1>3. tcp' = [tcp EXCEPT !.pc = tcp.then]
  BY <1>2 DEF CancelEnd, Goes
<1>4. c = tcp.c
  OBVIOUS
<1>. HIDE DEF c
<1>5. Types'
  BY <1>1, <1>3 DEF PInv, Types, Places
<1>6. InHand'
  BY <1>1, <1>3 DEF PInv, InCancel, Putting, Freeing, InHand
<1>7. Requested'
  BY <1>1, <1>2, <1>3, <1>4 DEF PInv, Types, Requested
<1>8. Busy'
  BY <1>1 DEF PInv, Open, Busy
<1>9. Marked'
  BY <1>1 DEF PInv, Marked
<1>10. Sending'
  BY <1>1, <1>3 DEF PInv, Freeing, Sending
<1>11. NoneForgotten'
  BY <1>1 DEF PInv, Open, NoneForgotten
<1>12. Trapped'
  BY <1>1 DEF PInv, Trapped
<1>13. Queued'
  BY <1>1 DEF PInv, Queued
<1>14. Served'
  BY <1>1 DEF PInv, Served
<1>. QED  BY <1>5, <1>6, <1>7, <1>8, <1>9, <1>10, <1>11, <1>12, <1>13, <1>14 DEF PInv

\* A channel off the list is freed by the TCP thread, after a cancel if it is busy.
LEMMA ReleaseChannelStep ==
    ASSUME PInv, At("idle") \/ At("destroy"), NEW c \in Channels, ReleaseChannel(c)
    PROVE  PInv'
<1>1. /\ c \in chanList /\ chanList' = chanList \ {c}
      /\ tcp' = [pc |-> FreeBegins(c), c |-> c, then |-> "free"]
      /\ UNCHANGED <<inst, phase, canceling, status, pPutNotify, busy, onExtraLaborQueue, asWritePvt,
                     msg, putNotifyQue, blockSem, extra_labor, extralabor_sub, event, done, log>>
  BY DEF ReleaseChannel, notifyVars, putVars, laborVars
<1>2. \/ c \notin pPutNotify /\ tcp'.pc = "freed"
      \/ c \in pPutNotify /\ busy[c] /\ tcp'.pc = "cancel"
      \/ c \in pPutNotify /\ ~busy[c] /\ tcp'.pc = "free"
  BY <1>1 DEF FreeBegins
<1>3. /\ \A d \in pPutNotify : d \in chanList
      /\ \A d \in Channels : onExtraLaborQueue[d] => busy[d]
      /\ \A d \in Channels : ~canceling[d] /\ (d \in inst.links => done[d] = "none")
      /\ event.pc = "idle" \/ (tcp.pc = "idle" /\ extralabor_sub)
  BY DEF At, PInv, Types, InHand, Marked, Freeing, InCancel, Requested
<1>4. tcp'.c = c /\ tcp'.then = "free" /\ c \in Channels
  BY <1>1 DEF PInv, Types
<1>5. Open' <=> Open
  BY <1>1, <1>2 DEF At, Open
<1>6. Types'
  BY <1>1, <1>2 DEF PInv, Types, Places
<1>7. InHand'
  BY <1>1, <1>2, <1>3 DEF PInv, InCancel, Putting, Freeing, InHand
<1>8. Requested'
  BY <1>1, <1>2, <1>3 DEF PInv, Requested
<1>9. Busy'
  BY <1>1, <1>5 DEF PInv, Busy
<1>10. Marked'
  BY <1>1, <1>3 DEF PInv, Marked
<1>11. Sending'
  BY <1>1, <1>2 DEF PInv, InCancel, Freeing, Sending
<1>12. NoneForgotten'
  BY <1>1, <1>5 DEF PInv, NoneForgotten
<1>13. Trapped'
  BY <1>1 DEF PInv, Trapped
<1>14. Queued'
  BY <1>1 DEF PInv, Queued
<1>15. Served'
  BY <1>1 DEF PInv, Served
<1>. QED  BY <1>6, <1>7, <1>8, <1>9, <1>10, <1>11, <1>12, <1>13, <1>14, <1>15 DEF PInv

\* Its structure leaves the queue before it is freed, and nobody else refers to it.
LEMMA FreeStep ==
    ASSUME PInv, Free PROVE PInv'
<1> DEFINE c == tcp.c
           k == msg[c]
<1>1. /\ tcp.pc = "free" /\ tcp' = [tcp EXCEPT !.pc = "freed"]
      /\ putNotifyQue' = IF onExtraLaborQueue[c] THEN RemoveFirst(putNotifyQue, c)
                         ELSE putNotifyQue
      /\ asWritePvt' = [asWritePvt EXCEPT ![c] = 0]
      /\ log' = IF busy[c] THEN [log EXCEPT ![k].trapped = FALSE] ELSE log
      /\ pPutNotify' = pPutNotify \ {c} /\ busy' = [busy EXCEPT ![c] = FALSE]
      /\ onExtraLaborQueue' = [onExtraLaborQueue EXCEPT ![c] = FALSE]
      /\ msg' = [msg EXCEPT ![c] = 0] /\ status' = [status EXCEPT ![c] = "notifyOK"]
      /\ UNCHANGED <<inst, phase, canceling, chanList, blockSem, extra_labor, extralabor_sub,
                     event, done>>
  BY DEF Free, At, Goes, Dequeue, notifyVars, laborVars
<1>2. /\ c \in Channels /\ c \in pPutNotify /\ c \notin chanList
      /\ phase[c] # "asked" /\ done[c] # "entered" /\ (onExtraLaborQueue[c] => busy[c])
      /\ \A d \in pPutNotify \ {c} : d \in chanList
  BY <1>1 DEF PInv, Types, InHand, Freeing, Requested, Marked
<1>3. /\ c = tcp.c /\ k = msg[c]
  OBVIOUS
<1>4. /\ putNotifyQue' \in Seq(Channels) /\ IsInjective(putNotifyQue')
      /\ Range(putNotifyQue') = Range(putNotifyQue) \ {c}
      /\ putNotifyQue' # <<>> => putNotifyQue # <<>>
  <2>1. CASE onExtraLaborQueue[c]
    BY <1>1, <1>2, <2>1, Dequeued DEF PInv
  <2>2. CASE ~onExtraLaborQueue[c]
    BY <1>1, <1>2, <2>2 DEF PInv, Types, Queued
  <2>. QED  BY <2>1, <2>2
<1>. HIDE DEF c
<1>5. /\ busy[c] => k \in DOMAIN log /\ k # event.put /\ log[k].c = c
      /\ busy[c] => \A d \in Channels \ {c} : busy[d] => msg[d] # k
  BY <1>2, <1>3, EachItsOwn DEF PInv, Busy
<1>. HIDE DEF k
<1>6. /\ log' \in Seq(Entry) /\ Len(log') = Len(log) /\ DOMAIN log' = DOMAIN log
      /\ \A j \in DOMAIN log : log'[j].c = log[j].c /\ log'[j].is = log[j].is
      /\ \A j \in DOMAIN log \ {k} : log'[j] = log[j]
      /\ busy[c] => log'[k].trapped = FALSE
      /\ ~busy[c] => log' = log
  <2>1. CASE busy[c]
    <3>1. log' = [log EXCEPT ![k].trapped = FALSE]
      BY <1>1, <2>1
    <3>. QED  BY <1>5, <2>1, <3>1, LogFreed DEF PInv
  <2>2. CASE ~busy[c]
    BY <1>1, <2>2 DEF PInv, Types
  <2>. QED  BY <2>1, <2>2
<1>7. \A d \in Channels : /\ d # c => busy'[d] = busy[d] /\ msg'[d] = msg[d]
                          /\ d # c => asWritePvt'[d] = asWritePvt[d]
                          /\ ~busy'[c] /\ asWritePvt'[c] = 0
  BY <1>1, <1>2 DEF PInv, Types
<1>8. Types'
  <2>1. msg' \in [Channels -> 0 .. Len(log)] /\ asWritePvt' \in [Channels -> 0 .. Len(log)]
    BY <1>1, <1>2 DEF PInv, Types
  <2>2. tcp' \in [pc : Places, c : Channels \cup {None}, then : {"idle", "recheck", "free"}]
    BY <1>1 DEF PInv, Types, Places
  <2>3. /\ busy' \in [Channels -> BOOLEAN] /\ onExtraLaborQueue' \in [Channels -> BOOLEAN]
        /\ status' \in [Channels -> Statuses] /\ pPutNotify' \subseteq Channels
    BY <1>1 DEF PInv, Types, Statuses
  <2>4. log' \in Seq(Entry) /\ Len(log') = Len(log) /\ putNotifyQue' \in Seq(Channels)
    BY <1>4, <1>6
  <2>. QED  BY <1>1, <2>1, <2>2, <2>3, <2>4 DEF PInv, Types
<1>9. InHand'
  BY <1>1, <1>3 DEF PInv, InCancel, Putting, Freeing, InHand
<1>10. Requested'
  BY <1>1, <1>3 DEF PInv, Requested
<1>11. Busy'
  BY <1>1 DEF PInv, Types, Open, Busy
<1>12. Marked'
  BY <1>1 DEF PInv, Types, Marked
<1>13. Sending'
  BY <1>1 DEF PInv, Sending
<1>14. NoneForgotten'
  BY <1>1, <1>2 DEF PInv, Open, NoneForgotten
<1>15. Trapped'
  <2>1. \A d \in Channels : asWritePvt'[d] # 0 => busy'[d] /\ asWritePvt'[d] = msg'[d]
    BY <1>7 DEF PInv, Trapped
  <2>2. CASE ~busy[c]
    <3>1. asWritePvt[c] = 0
      BY <1>2, <2>2 DEF PInv, Trapped
    <3>2. asWritePvt' = asWritePvt
      BY <1>1, <3>1 DEF PInv, Types
    <3>. QED  BY <1>1, <1>6, <2>1, <2>2, <3>2 DEF PInv, Trapped
  <2>3. CASE busy[c]
    <3>0. k # 0 /\ event.asWritePvt # k
      BY <1>5, <2>3 DEF PInv, Types, Sending
    <3>1. event.asWritePvt # k /\ \A d \in Channels : asWritePvt'[d] # k
      BY <1>5, <1>7, <2>3, <3>0 DEF PInv, Trapped
    <3>2. ASSUME NEW j \in DOMAIN log, j # k
          PROVE  \A d \in Channels : asWritePvt[d] = j <=> asWritePvt'[d] = j
      BY <1>2, <1>3, <1>7, <3>2 DEF PInv, Types, Trapped
    <3>3. ~log'[k].trapped /\ \A j \in DOMAIN log \ {k} : log'[j].trapped = log[j].trapped
      BY <1>6, <2>3
    <3>. QED  BY <1>1, <1>6, <2>1, <3>1, <3>2, <3>3 DEF PInv, Trapped
  <2>. QED  BY <2>2, <2>3
<1>16. Queued'
  BY <1>1, <1>4 DEF PInv, Types, Queued
<1>17. Served'
  BY <1>1, <1>4 DEF PInv, Served
<1>. QED  BY <1>8, <1>9, <1>10, <1>11, <1>12, <1>13, <1>14, <1>15, <1>16, <1>17 DEF PInv

\* A callback queues its put, once, if the event task may still come for it.
LEMMA DoneQueueStep ==
    ASSUME PInv, NEW c \in Channels, DoneQueue(c) PROVE PInv'
<1>1. /\ done[c] = "entered" /\ busy[c] /\ ~onExtraLaborQueue[c] /\ log[msg[c]].is = "completed"
      /\ c \notin Range(putNotifyQue)
  BY DEF DoneQueue, PInv, Requested, Queued
<1>2. /\ putNotifyQue' = Append(putNotifyQue, c) /\ done' = [done EXCEPT ![c] = "post"]
      /\ onExtraLaborQueue' = [onExtraLaborQueue EXCEPT ![c] = TRUE]
      /\ UNCHANGED <<inst, phase, canceling, status, chanList, pPutNotify, busy, asWritePvt, msg,
                     blockSem, extra_labor, extralabor_sub, tcp, event, log>>
  BY <1>1 DEF DoneQueue, Expected, notifyVars, chanVars, laborVars
<1>3. /\ putNotifyQue' \in Seq(Channels) /\ IsInjective(putNotifyQue') /\ putNotifyQue' # <<>>
      /\ Range(putNotifyQue') = Range(putNotifyQue) \cup {c}
  BY <1>1, <1>2, Enqueued DEF PInv
<1>4. Types'
  BY <1>2 DEF PInv, Types
<1>5. InHand'
  BY <1>2 DEF PInv, InCancel, Putting, Freeing, InHand
<1>6. Requested'
  BY <1>1, <1>2 DEF PInv, Types, Requested
<1>7. Busy'
  BY <1>1, <1>2 DEF PInv, Open, Busy
<1>8. Marked'
  BY <1>1, <1>2 DEF PInv, Marked
<1>9. Sending'
  BY <1>2 DEF PInv, InCancel, Freeing, Sending
<1>10. NoneForgotten'
  BY <1>2 DEF PInv, Open, NoneForgotten
<1>11. Trapped'
  BY <1>2 DEF PInv, Trapped
<1>12. Queued'
  BY <1>1, <1>2, <1>3 DEF PInv, Types, Queued
<1>13. Served'
  BY <1>2 DEF PInv, Types, Served
<1>. QED  BY <1>4, <1>5, <1>6, <1>7, <1>8, <1>9, <1>10, <1>11, <1>12, <1>13 DEF PInv

\* The put taken from the queue passes from its channel to the event task.
LEMMA ReplyTakeStep ==
    ASSUME PInv, ReplyTake PROVE PInv'
<1> DEFINE c == Head(putNotifyQue)
<1>1. /\ event.pc = "take" /\ putNotifyQue # <<>> /\ putNotifyQue' = Tail(putNotifyQue)
      /\ event' = [pc |-> "send", put |-> msg[c], status |-> status[c],
                   asWritePvt |-> asWritePvt[c]]
      /\ asWritePvt' = [asWritePvt EXCEPT ![c] = 0] /\ busy' = [busy EXCEPT ![c] = FALSE]
      /\ onExtraLaborQueue' = [onExtraLaborQueue EXCEPT ![c] = FALSE]
      /\ UNCHANGED <<inst, phase, canceling, status, chanList, pPutNotify, msg, blockSem,
                     extra_labor, extralabor_sub, tcp, done, log>>
  BY DEF ReplyTake, notifyVars, chanVars, laborVars
<1>2. /\ c \in Channels /\ c \in Range(putNotifyQue)
      /\ putNotifyQue' \in Seq(Channels) /\ IsInjective(putNotifyQue')
      /\ Range(putNotifyQue') = Range(putNotifyQue) \ {c}
  BY <1>1, Taken DEF PInv
<1>. HIDE DEF c
<1> DEFINE k == msg[c]
<1>3. /\ busy[c] /\ onExtraLaborQueue[c] /\ c \in pPutNotify
      /\ k \in DOMAIN log /\ log[k].c = c /\ log[k].is = "completed"
      /\ \A d \in Channels \ {c} : busy[d] => msg[d] # k
  BY <1>2, EachItsOwn DEF PInv, Queued, Busy
<1>4. event.put = 0 /\ event.asWritePvt = 0 /\ asWritePvt[c] \in {0, k}
  BY <1>1, <1>2 DEF PInv, Sending, Types, Trapped
<1>5. \A d \in Channels : /\ d # c => busy'[d] = busy[d] /\ asWritePvt'[d] = asWritePvt[d]
                          /\ ~busy'[c] /\ asWritePvt'[c] = 0
  BY <1>1, <1>2 DEF PInv, Types
<1>6. k = msg[c]
  OBVIOUS
<1>. HIDE DEF k
<1>7. Types'
  BY <1>1, <1>3, SMTT(60), ZenonT(60) DEF PInv, Types
<1>8. InHand'
  BY <1>1 DEF PInv, InCancel, Putting, Freeing, InHand
<1>9. Requested'
  BY <1>1, <1>3 DEF PInv, Requested
<1>10. Busy'
  BY <1>1, <1>3 DEF PInv, Types, Open, Busy
<1>11. Marked'
  BY <1>1 DEF PInv, Types, Marked
<1>12. Sending'
  BY <1>1, <1>2, <1>3, <1>4, <1>6 DEF PInv, InCancel, Freeing, Sending, Busy, InHand
<1>13. NoneForgotten'
  <2>1. ASSUME NEW j \in DOMAIN log, Open, log[j].is # "answered", log[j].c \in chanList
        PROVE  (busy'[log[j].c] /\ msg[log[j].c] = j) \/ j = k
    <3>1. busy[log[j].c] /\ msg[log[j].c] = j
      BY <1>4, <2>1 DEF PInv, Types, NoneForgotten
    <3>2. log[j].c \in Channels
      BY <2>1 DEF PInv, Types
    <3>. QED  BY <1>5, <1>6, <3>1, <3>2
  <2>2. event'.put = k
    BY <1>1, <1>6
  <2>. QED  BY <1>1, <2>1, <2>2 DEF NoneForgotten, Open
<1>14. Trapped'
  BY <1>1, <1>3, <1>4 DEF PInv, Types, Trapped
<1>15. Queued'
  BY <1>1, <1>2 DEF PInv, Types, Queued
<1>16. Served'
  BY <1>1 DEF PInv, Served
<1>. QED  BY <1>7, <1>8, <1>9, <1>10, <1>11, <1>12, <1>13, <1>14, <1>15, <1>16 DEF PInv

\* The TCP thread is told only when the queue is empty.
LEMMA SignalStep ==
    ASSUME PInv, Signal PROVE PInv'
<1>1. /\ event.pc = "signal" /\ putNotifyQue' = putNotifyQue /\ blockSem' = TRUE
      /\ event' = [pc |-> "idle", put |-> 0, status |-> "notifyOK", asWritePvt |-> 0]
      /\ UNCHANGED <<inst, phase, canceling, status, chanList, pPutNotify, busy, onExtraLaborQueue,
                     asWritePvt, msg, extra_labor, extralabor_sub, tcp, done, log>>
  BY DEF Signal, Rest, notifyVars, chanVars, putVars, laborVars
<1>2. event.put = 0 /\ event.asWritePvt = 0
  BY <1>1 DEF PInv, Sending
<1>3. Types'
  BY <1>1 DEF PInv, Types, Statuses
<1>4. InHand'
  BY <1>1 DEF PInv, InCancel, Putting, Freeing, InHand
<1>5. Requested'
  BY <1>1 DEF PInv, Requested
<1>6. Busy'
  BY <1>1, <1>2 DEF PInv, Open, Busy
<1>7. Marked'
  BY <1>1 DEF PInv, Marked
<1>8. Sending'
  BY <1>1 DEF PInv, Sending
<1>9. NoneForgotten'
  BY <1>1, <1>2 DEF PInv, Open, NoneForgotten
<1>10. Trapped'
  BY <1>1, <1>2 DEF PInv, Trapped
<1>11. Queued'
  BY <1>1 DEF PInv, Queued
<1>12. Served'
  BY <1>1 DEF PInv, Served
<1>. QED  BY <1>3, <1>4, <1>5, <1>6, <1>7, <1>8, <1>9, <1>10, <1>11, <1>12 DEF PInv

-----------------------------------------------------------------------------
\* No put yet.
LEMMA InitInv == Init => PInv
<1>. SUFFICES ASSUME Init PROVE PInv
  OBVIOUS
<1>1. log = <<>> /\ Len(log) = 0 /\ DOMAIN log = {}
  BY DEF Init
<1>2. Types
  <2>1. /\ tcp \in [pc : Places, c : Channels \cup {None}, then : {"idle", "recheck", "free"}]
        /\ event \in [pc : {"idle", "take", "send", "signal"}, put : 0 .. 0,
                     status : Statuses, asWritePvt : 0 .. 0]
    BY DEF Init, Home, Rest, Places, Statuses
  <2>2. log \in Seq(Entry) /\ putNotifyQue \in Seq(Channels)
    BY DEF Init
  <2>3. /\ phase \in [Channels -> {"idle", "asked", "calling"}]
        /\ canceling \in [Channels -> BOOLEAN] /\ status \in [Channels -> Statuses]
    BY DEF Init, Promise!Init, Statuses
  <2>4. asWritePvt \in [Channels -> 0 .. 0] /\ msg \in [Channels -> 0 .. 0]
    BY DEF Init
  <2>. QED  BY <1>1, <2>1, <2>2, <2>3, <2>4 DEF Init, Types
<1>3. InHand /\ Requested /\ Busy /\ Marked /\ Sending /\ NoneForgotten /\ Trapped /\ Served
  BY <1>1 DEF Init, Promise!Init, Home, Rest, InHand, Requested, Busy, Marked, Sending,
              NoneForgotten, Trapped, Served, InCancel, Putting, Freeing
<1>4. Queued
  BY DEF Init, Queued, Range, IsInjective
<1>. QED  BY <1>2, <1>3, <1>4 DEF PInv

\* PInv is inductive.
LEMMA StepInv == PInv /\ [Next]_vars => PInv'
<1>. SUFFICES ASSUME PInv, [Next]_vars PROVE PInv'
  OBVIOUS
<1>1. CASE Request
  BY <1>1, PutCallStep, ReleaseChannelStep DEF Request, ClearChannel
<1>2. CASE TcpStep
  BY <1>2, PutTestStep, PutWakeStep, PutTimeoutStep, PutRecheckStep, PutStartStep, PutAskStep,
     PutReturnStep, CancelStep, CancelEndStep, FreeStep, FreedStep, FlushStep, CloseStep,
     ReleaseChannelStep DEF TcpStep, DestroyChannel
<1>3. CASE Disconnect
  BY <1>3, DisconnectStep
<1>4. CASE EventStep
  BY <1>4, LaborStep, ReplyTakeStep, ReplySendStep, ReplyEndStep, SignalStep DEF EventStep
<1>5. ASSUME NEW c \in Channels, Complete(c) \/ DoneStep(c) PROVE PInv'
  BY <1>5, CompleteStep, DoneQueueStep, DonePostStep, DoneReturnStep DEF DoneStep
<1>6. CASE UNCHANGED vars
  BY <1>6 DEF vars, notifyVars, chanVars, putVars, laborVars, PInv, Types, InHand, Requested,
       Busy,
              Marked, Sending, NoneForgotten, Trapped, Queued, Served, InCancel, Putting, Freeing, Open
<1>. QED  BY <1>1, <1>2, <1>3, <1>4, <1>5, <1>6 DEF Next

\* What the TCP thread, the callbacks and the event task know of puts agrees.
LEMMA InvConsistent == PInv => PutsConsistent
<1>. SUFFICES ASSUME PInv PROVE PutsConsistent
  OBVIOUS
<1>1. TypeOK
  BY DEF PInv, Types, TypeOK, Entry
<1>2. EachAnsweredOnce
  <2>. SUFFICES ASSUME NEW k \in DOMAIN log
                PROVE  /\ ~(Mine(k) /\ event.put = k)
                       /\ Mine(k) \/ event.put = k => log[k].is # "answered"
                       /\ log[k].is # "answered" /\ log[k].c \in chanList /\ Open =>
                              Mine(k) \/ event.put = k
    BY DEF EachAnsweredOnce
  <2>0. log[k] \in Entry /\ k # 0
    BY DEF PInv, Types
  <2>1. k # 0 /\ log[k].c \in Channels
    BY <2>0 DEF Entry
  <2>2. Mine(k) => event.put # k /\ log[k].is # "answered"
    BY <2>1 DEF PInv, Busy, Mine
  <2>3. event.put = k => log[k].is # "answered"
    BY <2>1 DEF PInv, Sending
  <2>4. log[k].is # "answered" /\ log[k].c \in chanList /\ Open => Mine(k) \/ event.put = k
    BY <2>1 DEF PInv, NoneForgotten, Busy, Mine
  <2>. QED  BY <2>2, <2>3, <2>4
<1>3. QueueServed
  <2>1. \A c \in Range(putNotifyQue) : c \in Channels
    BY DEF PInv, Types, Range
  <2>. QED  BY <2>1 DEF PInv, Types, Queued, Busy, Served, QueueServed
<1>4. TrapsPaired
  <2>. SUFFICES ASSUME NEW k \in DOMAIN log
                PROVE  log[k].trapped =
                         (event.asWritePvt = k \/ \E c \in pPutNotify : asWritePvt[c] = k)
    BY DEF TrapsPaired
  <2>1. log[k] \in Entry /\ k # 0
    BY DEF PInv, Types
  <2>2. log[k].trapped \in BOOLEAN
    BY <2>1 DEF Entry
  <2>3. \A c \in Channels : asWritePvt[c] = k => c \in pPutNotify
    BY <2>1 DEF PInv, Trapped, Busy
  <2>4. pPutNotify \subseteq Channels
    BY DEF PInv, Types
  <2>5. log[k].trapped <=> event.asWritePvt = k \/ \E c \in Channels : asWritePvt[c] = k
    BY DEF PInv, Trapped
  <2>. QED  BY <2>2, <2>3, <2>4, <2>5
<1>5. AnswersTrue
  BY DEF PInv, Sending, AnswersTrue
<1>6. NoneDouble
  BY DEF PInv, Requested, NoneDouble, Expected
<1>7. NoUseAfterFree
  BY DEF PInv, Requested, Busy, NoUseAfterFree
<1>8. QuietAfterClear
  BY DEF PInv, Sending, QuietAfterClear, Freeing, InCancel
<1>. QED  BY <1>1, <1>2, <1>3, <1>4, <1>5, <1>6, <1>7, <1>8 DEF PutsConsistent

\* For any channels, puts and records that hang: each put is answered once and truly, none is
\* forgotten while its channel is open and nothing is answered after its channel is cleared.
THEOREM PutsConsistentHolds == Spec => []PutsConsistent
BY InitInv, StepInv, InvConsistent, PTL DEF Spec
=============================================================================
