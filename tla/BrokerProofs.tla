---------------------------- MODULE BrokerProofs ----------------------------
(***************************************************************************)
(* Proofs about Broker for every number of streams, publishers and scopes  *)
(* and every buffer size.                                                  *)
(***************************************************************************)
EXTENDS Broker, FiniteSetTheorems, TLAPS

\* An event record built from a publisher, a number and a scope is an Event.
LEMMA EventTyped ==
    ASSUME NEW p \in Publishers, NEW k \in Nat, NEW c \in Scopes
    PROVE  [from |-> p, n |-> k, scope |-> c] \in Event
BY DEF Event

\* A publisher's event count stays a natural number.
LEMMA SentTyped == ASSUME NEW p \in Publishers, TypeOK PROVE sent[p] \in Nat /\ sent[p] + 1 \in Nat
<1>1. sent[p] \in Nat
  BY DEF TypeOK
<1>2. QED
  BY <1>1

\* The event a publisher is fanning out is an Event.
LEMMA EventOfTyped == ASSUME NEW p \in Publishers, TypeOK PROVE EventOf(p) \in Event
<1>1. sent[p] \in Nat /\ current[p] \in Scopes
  BY DEF TypeOK
<1>2. QED
  BY <1>1, EventTyped DEF EventOf

\* A send leaves a sequence of events in the channel, dropped event or not.
LEMMA OfferTyped ==
    ASSUME NEW s \in Streams, NEW e \in Event, TypeOK
    PROVE  Offer(s, e) \in Seq(Event) /\ Len(Offer(s, e)) <= BufSize
<1>1. ch[s] \in Seq(Event) /\ Len(ch[s]) <= BufSize
  BY DEF TypeOK
<1>2. QED
  BY <1>1, BufSizeAssumption DEF Offer

\* Receiving moves the head of the channel: both sequences stay sequences of events.
LEMMA ReceiveTyped ==
    ASSUME NEW q \in Seq(Event), NEW w \in Seq(Event), q # <<>>
    PROVE  /\ Tail(q) \in Seq(Event) /\ Append(w, Head(q)) \in Seq(Event)
           /\ Len(q) <= BufSize => Len(Tail(q)) <= BufSize
BY BufSizeAssumption

\* The broker's type invariant holds in every reachable state.
THEOREM TypeCorrect == Spec => []TypeOK
<1>1. Init => TypeOK
  <2>1. (CHOOSE c \in Scopes : TRUE) \in Scopes
    BY ScopesAssumption
  <2>2. Init => \A s \in Streams : Len(ch[s]) <= BufSize
    BY BufSizeAssumption DEF Init
  <2>3. QED
    BY <2>1, <2>2 DEF Init, TypeOK
<1>2. TypeOK /\ [Next]_vars => TypeOK'
  <2> SUFFICES ASSUME TypeOK, [Next]_vars PROVE TypeOK'
    OBVIOUS
  <2> USE DEF TypeOK
  <2>1. ASSUME NEW p \in Publishers, PublishBegin(p) PROVE TypeOK'
    <3>1. PICK c \in Scopes :
            /\ current' = [current EXCEPT ![p] = c]
            /\ owed' = [s \in Streams |-> IF s \in subscribers
                          THEN owed[s] \cup {[from |-> p, n |-> sent[p] + 1, scope |-> c]}
                          ELSE owed[s]]
      BY <2>1 DEF PublishBegin
    <3>2. [from |-> p, n |-> sent[p] + 1, scope |-> c] \in Event
      BY SentTyped, EventTyped
    <3>3. owed' \in [Streams -> SUBSET Event]
      BY <3>1, <3>2
    <3>4. sent' \in [Publishers -> Nat]
      BY <2>1, SentTyped DEF PublishBegin
    <3>5. QED
      BY <2>1, <3>1, <3>3, <3>4 DEF PublishBegin
  <2>2. ASSUME NEW p \in Publishers, NEW s \in Streams, PublishSend(p, s) PROVE TypeOK'
    <3>1. Offer(s, EventOf(p)) \in Seq(Event) /\ Len(Offer(s, EventOf(p))) <= BufSize
      BY EventOfTyped, OfferTyped
    <3>2. QED
      BY <2>2, <3>1 DEF PublishSend
  <2>3. ASSUME NEW p \in Publishers, PublishReturn(p) PROVE TypeOK'
    BY <2>3 DEF PublishReturn
  <2>4. ASSUME NEW s \in Streams, StreamOpen(s) PROVE TypeOK'
    BY <2>4 DEF StreamOpen, Subscribe
  <2>5. ASSUME NEW s \in Streams, StreamRejected(s) PROVE TypeOK'
    BY <2>5 DEF StreamRejected
  <2>6. ASSUME NEW s \in Streams, ClientDisconnect(s) PROVE TypeOK'
    BY <2>6 DEF ClientDisconnect
  <2>7. ASSUME NEW s \in Streams, StreamReceive(s) PROVE TypeOK'
    <3>1. ch[s] \in Seq(Event) /\ ch[s] # <<>> /\ written[s] \in Seq(Event)
      BY <2>7 DEF StreamReceive
    <3>2. /\ Tail(ch[s]) \in Seq(Event) /\ Append(written[s], Head(ch[s])) \in Seq(Event)
          /\ Len(Tail(ch[s])) <= BufSize
      BY <3>1, ReceiveTyped
    <3>3. ch' \in [Streams -> Seq(Event)]
      BY <2>7, <3>2 DEF StreamReceive
    <3>4. written' \in [Streams -> Seq(Event)]
      BY <2>7, <3>2 DEF StreamReceive, HandleEvent
    <3>5. \A t \in Streams : Len(ch'[t]) <= BufSize
      BY <2>7, <3>2 DEF StreamReceive
    <3>6. QED
      BY <2>7, <3>3, <3>4, <3>5 DEF StreamReceive
  <2>8. ASSUME NEW s \in Streams, StreamLeave(s) PROVE TypeOK'
    BY <2>8 DEF StreamLeave
  <2>9. ASSUME NEW s \in Streams, StreamUnsubscribe(s) PROVE TypeOK'
    BY <2>9 DEF StreamUnsubscribe, Unsubscribe, CloseAll
  <2>10. CASE Shutdown
    BY <2>10 DEF Shutdown, CloseAll
  <2>11. CASE UNCHANGED vars
    BY <2>11 DEF vars
  <2>12. QED
    BY <2>1, <2>2, <2>3, <2>4, <2>5, <2>6, <2>7, <2>8, <2>9, <2>10, <2>11
    DEF Next, Publishing, Streaming
<1>3. QED
  BY <1>1, <1>2, PTL DEF Spec
-----------------------------------------------------------------------------
(***************************************************************************)
(* The lock discipline.  NoSendOnClosedChannel is not inductive: it needs  *)
(* that a publisher's remaining range only names streams still in the map  *)
(* (nobody writes the map while a publisher holds the read lock) and that  *)
(* the map and the closed channels are disjoint.                           *)
(***************************************************************************)
LockInv ==
    /\ NoSendOnClosedChannel
    /\ MapHoldsOpenChannels
    /\ \A p \in Publishers : todo[p] \subseteq subscribers /\ (p \notin inflight => todo[p] = {})
    /\ \A s \in Streams : stream[s] \notin {"loop", "left", "ended"} => s \notin chClosed
    /\ \A s \in subscribers : stream[s] \in {"loop", "left"}

\* The lock discipline is kept by any number of concurrent publishers, streams
\* and shutdowns.
THEOREM LockKept == Spec => []LockInv
<1>1. Init => LockInv
  BY DEF Init, LockInv, NoSendOnClosedChannel, MapHoldsOpenChannels
<1>2. TypeOK /\ LockInv /\ [Next]_vars => LockInv'
  <2> SUFFICES ASSUME TypeOK, LockInv, [Next]_vars PROVE LockInv'
    OBVIOUS
  <2> USE DEF TypeOK, LockInv, NoSendOnClosedChannel, MapHoldsOpenChannels
  <2>1. ASSUME NEW p \in Publishers, PublishBegin(p) PROVE LockInv'
    BY <2>1 DEF PublishBegin
  <2>2. ASSUME NEW p \in Publishers, NEW s \in Streams, PublishSend(p, s) PROVE LockInv'
    BY <2>2 DEF PublishSend
  <2>3. ASSUME NEW p \in Publishers, PublishReturn(p) PROVE LockInv'
    BY <2>3 DEF PublishReturn
  <2>4. ASSUME NEW s \in Streams, StreamOpen(s) PROVE LockInv'
    <3>1. /\ subscribers' = subscribers \cup {s}
          /\ stream[s] = "none" /\ stream' = [stream EXCEPT ![s] = "loop"]
          /\ status = "open"
          /\ UNCHANGED <<status, chClosed, todo, inflight, panics>>
      BY <2>4 DEF StreamOpen, Subscribe
    <3>2. s \notin chClosed
      BY <3>1
    <3>3. MapHoldsOpenChannels'
      BY <3>1, <3>2
    <3>4. QED
      BY <3>1, <3>3
  <2>5. ASSUME NEW s \in Streams, StreamRejected(s) PROVE LockInv'
    BY <2>5 DEF StreamRejected
  <2>6. ASSUME NEW s \in Streams, ClientDisconnect(s) PROVE LockInv'
    BY <2>6 DEF ClientDisconnect
  <2>7. ASSUME NEW s \in Streams, StreamReceive(s) PROVE LockInv'
    BY <2>7 DEF StreamReceive
  <2>8. ASSUME NEW s \in Streams, StreamLeave(s) PROVE LockInv'
    BY <2>8 DEF StreamLeave
  <2>9. ASSUME NEW s \in Streams, StreamUnsubscribe(s) PROVE LockInv'
    BY <2>9 DEF StreamUnsubscribe, Unsubscribe, CloseAll, WriteLockFree
  <2>10. CASE Shutdown
    BY <2>10 DEF Shutdown, CloseAll, WriteLockFree
  <2>11. CASE UNCHANGED vars
    BY <2>11 DEF vars
  <2>12. QED
    BY <2>1, <2>2, <2>3, <2>4, <2>5, <2>6, <2>7, <2>8, <2>9, <2>10, <2>11
    DEF Next, Publishing, Streaming
<1>3. QED
  BY <1>1, <1>2, TypeCorrect, PTL DEF Spec

\* Publish never sends on a closed channel.
THEOREM LockDiscipline == Spec => []NoSendOnClosedChannel
BY LockKept, PTL DEF LockInv

\* The map holds exactly the open channels of the streams in their loop, and
\* none after Shutdown.
THEOREM MapIsExact == Spec => []MapHoldsOpenChannels
BY LockKept, PTL DEF LockInv
-----------------------------------------------------------------------------
(***************************************************************************)
(* Delivery order.  InPublicationOrder needs a bound on what a stream has  *)
(* accepted from a publisher: never beyond the publisher's counter, and    *)
(* strictly below it while the stream is still to be offered the current   *)
(* event.  Facts about the concatenation of written and buffered events    *)
(* come first.                                                             *)
(***************************************************************************)
Ordered(q) == \A i, j \in DOMAIN q : i < j /\ q[i].from = q[j].from => q[i].n < q[j].n

\* A send extends the accepted events at the end.
LEMMA AppendConcat ==
    ASSUME NEW w \in Seq(Event), NEW c \in Seq(Event), NEW e \in Event
    PROVE  w \o Append(c, e) = Append(w \o c, e)
OBVIOUS

\* Writing the received event to the client leaves the accepted events as they are.
LEMMA MoveHead ==
    ASSUME NEW w \in Seq(Event), NEW c \in Seq(Event), c # <<>>
    PROVE  Append(w, Head(c)) \o Tail(c) = w \o c
OBVIOUS

\* Skipping an event of another scope removes one accepted event.
LEMMA SkipHead ==
    ASSUME NEW w \in Seq(Event), NEW c \in Seq(Event), c # <<>>
    PROVE  /\ w \o Tail(c) \in Seq(Event)
           /\ w \o c \in Seq(Event)
           /\ Len(w \o Tail(c)) = Len(w \o c) - 1
           /\ \A i \in 1 .. Len(w \o Tail(c)) :
                (w \o Tail(c))[i] = (w \o c)[IF i <= Len(w) THEN i ELSE i + 1]
OBVIOUS

\* The buffered events come after the written ones.
LEMMA BehindPrefix ==
    ASSUME NEW w \in Seq(Event), NEW c \in Seq(Event)
    PROVE  \A i \in DOMAIN c : Len(w) + i \in DOMAIN (w \o c) /\ (w \o c)[Len(w) + i] = c[i]
OBVIOUS

\* An ordered sequence stays ordered when a newer event is appended.
LEMMA OrderedAppend ==
    ASSUME NEW q \in Seq(Event), NEW e \in Event, Ordered(q),
           \A i \in DOMAIN q : q[i].from = e.from => q[i].n < e.n
    PROVE  Ordered(Append(q, e))
BY DEF Ordered

\* What a stream may have accepted from each publisher.
Bounded(s, q) ==
    \A i \in DOMAIN q : /\ q[i].n <= sent[q[i].from]
                        /\ s \in todo[q[i].from] => q[i].n < sent[q[i].from]

OrderInv == \A s \in Streams : Ordered(Accepted(s)) /\ Bounded(s, Accepted(s))

\* Steps that leave a stream's accepted events, the counters and the ranges alone keep OrderInv.
LEMMA OrderFrame ==
    ASSUME OrderInv, UNCHANGED <<ch, written, sent, todo>>
    PROVE  OrderInv'
<1>1. \A s \in Streams : Accepted(s)' = Accepted(s)
  BY DEF Accepted
<1>2. QED
  BY <1>1 DEF OrderInv, Ordered, Bounded

\* The accepted events of a stream are events of known publishers.
LEMMA AcceptedTyped ==
    ASSUME TypeOK, NEW s \in Streams
    PROVE  /\ ch[s] \in Seq(Event) /\ written[s] \in Seq(Event)
           /\ Accepted(s) \in Seq(Event)
           /\ \A i \in DOMAIN Accepted(s) : /\ Accepted(s)[i].from \in Publishers
                                           /\ Accepted(s)[i].n \in Nat
<1>1. ch[s] \in Seq(Event) /\ written[s] \in Seq(Event)
  BY DEF TypeOK
<1>2. Accepted(s) \in Seq(Event)
  BY <1>1 DEF Accepted
<1>3. \A i \in DOMAIN Accepted(s) : Accepted(s)[i] \in Event
  BY <1>2
<1>4. QED
  BY <1>1, <1>2, <1>3 DEF Event

\* What a stream accepts stays ordered and bounded.
THEOREM OrderKept == Spec => []OrderInv
<1>1. Init => OrderInv
  BY DEF Init, OrderInv, Accepted, Ordered, Bounded
<1>2. TypeOK /\ OrderInv /\ [Next]_vars => OrderInv'
  <2> SUFFICES ASSUME TypeOK, OrderInv, [Next]_vars PROVE OrderInv'
    OBVIOUS
  <2>1. ASSUME NEW p \in Publishers, PublishBegin(p) PROVE OrderInv'
    <3> SUFFICES ASSUME NEW s \in Streams PROVE Ordered(Accepted(s))' /\ Bounded(s, Accepted(s))'
      BY DEF OrderInv
    <3>1. Accepted(s)' = Accepted(s)
      BY <2>1 DEF PublishBegin, Accepted
    <3>2. Ordered(Accepted(s))'
      BY <3>1 DEF OrderInv, Ordered
    <3>3. ASSUME NEW i \in DOMAIN Accepted(s)
          PROVE  LET e == Accepted(s)[i] IN
                 e.n <= sent'[e.from] /\ (s \in todo'[e.from] => e.n < sent'[e.from])
      <4> DEFINE e == Accepted(s)[i]
      <4>1. e.from \in Publishers /\ e.n \in Nat /\ sent[e.from] \in Nat
        BY AcceptedTyped, SentTyped
      <4>2. e.n <= sent[e.from] /\ (s \in todo[e.from] => e.n < sent[e.from])
        BY DEF OrderInv, Bounded
      <4>3. CASE e.from = p
        <5>1. sent'[p] = sent[p] + 1
          BY <2>1 DEF PublishBegin, TypeOK
        <5>2. QED
          BY <4>1, <4>2, <4>3, <5>1
      <4>4. CASE e.from # p
        <5>1. sent'[e.from] = sent[e.from] /\ todo'[e.from] = todo[e.from]
          BY <2>1, <4>1, <4>4 DEF PublishBegin, TypeOK
        <5>2. QED
          BY <4>2, <5>1
      <4>5. QED
        BY <4>3, <4>4
    <3>4. QED
      BY <3>1, <3>2, <3>3 DEF Bounded
  <2>2. ASSUME NEW p \in Publishers, NEW s \in Streams, PublishSend(p, s) PROVE OrderInv'
    <3> SUFFICES ASSUME NEW t \in Streams PROVE Ordered(Accepted(t))' /\ Bounded(t, Accepted(t))'
      BY DEF OrderInv
    <3>1. sent' = sent /\ written' = written /\ s \in todo[p] /\ todo' = [todo EXCEPT ![p] = @ \ {s}]
      BY <2>2 DEF PublishSend
    <3>2. \A q \in Publishers : todo'[q] \subseteq todo[q]
      BY <3>1 DEF TypeOK
    <3>3. CASE ch'[t] = ch[t]
      <4>1. Accepted(t)' = Accepted(t)
        BY <3>1, <3>3 DEF Accepted
      <4>2. Ordered(Accepted(t)) /\ Bounded(t, Accepted(t))
        BY DEF OrderInv
      <4>3. \A i \in DOMAIN Accepted(t) : t \in todo'[Accepted(t)[i].from] => t \in todo[Accepted(t)[i].from]
        BY <3>2, AcceptedTyped
      <4>4. QED
        BY <3>1, <4>1, <4>2, <4>3 DEF Ordered, Bounded
    <3>4. CASE t = s /\ ch'[s] = Append(ch[s], EventOf(p))
      <4> DEFINE q == Accepted(s)
      <4>1. EventOf(p) \in Event /\ EventOf(p).from = p /\ EventOf(p).n = sent[p]
        BY EventOfTyped DEF EventOf
      <4>2. Accepted(s)' = Append(q, EventOf(p))
        <5>1. ch[s] \in Seq(Event) /\ written[s] \in Seq(Event)
          BY AcceptedTyped
        <5>2. written[s] \o Append(ch[s], EventOf(p)) = Append(written[s] \o ch[s], EventOf(p))
          BY <4>1, <5>1, AppendConcat
        <5>3. QED
          BY <3>1, <3>4, <5>2 DEF Accepted
      <4>3. Ordered(q) /\ Bounded(s, q)
        BY DEF OrderInv
      <4>4. \A i \in DOMAIN q : q[i].from = p => q[i].n < sent[p]
        BY <3>1, <4>3 DEF Bounded
      <4>5. Ordered(Append(q, EventOf(p)))
        BY <4>1, <4>3, <4>4, AcceptedTyped, OrderedAppend
      <4>6. s \notin todo'[p]
        BY <3>1 DEF TypeOK
      <4>7. \A i \in DOMAIN q : s \in todo'[q[i].from] => s \in todo[q[i].from]
        BY <3>2, AcceptedTyped
      <4>8. sent[p] \in Nat
        BY SentTyped
      <4>9. ASSUME NEW i \in DOMAIN Append(q, EventOf(p))
            PROVE  LET e == Append(q, EventOf(p))[i] IN
                   e.n <= sent[e.from] /\ (s \in todo'[e.from] => e.n < sent[e.from])
        <5>1. q \in Seq(Event)
          BY AcceptedTyped
        <5>2. CASE i \in DOMAIN q
          <6>1. Append(q, EventOf(p))[i] = q[i]
            BY <4>1, <5>1, <5>2
          <6>2. QED
            BY <4>3, <4>7, <5>2, <6>1 DEF Bounded
        <5>3. CASE i \notin DOMAIN q
          <6>1. Append(q, EventOf(p))[i] = EventOf(p)
            BY <4>1, <5>1, <5>3
          <6>2. QED
            BY <4>1, <4>6, <4>8, <6>1
        <5>4. QED
          BY <5>2, <5>3
      <4>10. QED
        BY <3>1, <3>4, <4>2, <4>5, <4>9 DEF Ordered, Bounded
    <3>5. QED
      BY <2>2, <3>3, <3>4 DEF PublishSend, Offer, TypeOK
  <2>3. ASSUME NEW s \in Streams, StreamReceive(s) PROVE OrderInv'
    <3> SUFFICES ASSUME NEW t \in Streams PROVE Ordered(Accepted(t))' /\ Bounded(t, Accepted(t))'
      BY DEF OrderInv
    <3>1. /\ sent' = sent /\ todo' = todo /\ ch[s] # <<>>
          /\ ch' = [ch EXCEPT ![s] = Tail(ch[s])] /\ HandleEvent(s, Head(ch[s]))
      BY <2>3 DEF StreamReceive
    <3>2. Ordered(Accepted(t)) /\ Bounded(t, Accepted(t))
      BY DEF OrderInv
    <3>3. CASE Accepted(t)' = Accepted(t)
      BY <3>1, <3>2, <3>3 DEF Ordered, Bounded
    <3>4. CASE t = s /\ Accepted(s)' = written[s] \o Tail(ch[s])
      <4> DEFINE q == written[s] \o ch[s]
      <4> DEFINE r == written[s] \o Tail(ch[s])
      <4> DEFINE f(i) == IF i <= Len(written[s]) THEN i ELSE i + 1
      <4>1. /\ q \in Seq(Event) /\ r \in Seq(Event) /\ Len(written[s]) \in Nat
            /\ Len(r) = Len(q) - 1 /\ \A i \in 1 .. Len(r) : r[i] = q[f(i)]
        <5>1. ch[s] \in Seq(Event) /\ written[s] \in Seq(Event)
          BY AcceptedTyped
        <5>2. Len(written[s]) \in Nat
          BY <5>1
        <5>3. /\ q \in Seq(Event) /\ r \in Seq(Event) /\ Len(r) = Len(q) - 1
              /\ \A i \in 1 .. Len(r) : r[i] = q[f(i)]
          BY <3>1, <5>1, SkipHead, Zenon
        <5>4. QED
          BY <5>2, <5>3
      <4> HIDE DEF q, r
      <4>2. \A i \in DOMAIN r : f(i) \in DOMAIN q /\ r[i] = q[f(i)]
        BY <4>1
      <4>3. \A i, j \in DOMAIN r : i < j => f(i) < f(j)
        BY <4>1
      <4>4. q = Accepted(s)
        BY DEF Accepted, q
      <4> HIDE DEF f
      <4>5. Ordered(r) /\ Bounded(s, r)
        BY <3>2, <3>4, <4>2, <4>3, <4>4 DEF Ordered, Bounded
      <4>6. Accepted(t)' = r
        BY <3>4 DEF r
      <4>7. QED
        BY <3>1, <3>4, <4>5, <4>6 DEF Ordered, Bounded
    <3>5. Accepted(t)' = Accepted(t) \/ (t = s /\ Accepted(s)' = written[s] \o Tail(ch[s]))
      <4>1. CASE t # s
        BY <3>1, <4>1 DEF HandleEvent, Accepted, TypeOK
      <4>2. CASE t = s
        <5>1. ch'[s] = Tail(ch[s])
          BY <3>1 DEF TypeOK
        <5>2. written'[s] = written[s] \/ written'[s] = Append(written[s], Head(ch[s]))
          BY <3>1 DEF HandleEvent, TypeOK
        <5>3. Append(written[s], Head(ch[s])) \o Tail(ch[s]) = written[s] \o ch[s]
          <6>1. ch[s] \in Seq(Event) /\ written[s] \in Seq(Event)
            BY AcceptedTyped
          <6>2. QED
            BY <3>1, <6>1, MoveHead
        <5>4. QED
          BY <4>2, <5>1, <5>2, <5>3 DEF Accepted
      <4>3. QED
        BY <4>1, <4>2
    <3>6. QED
      BY <3>3, <3>4, <3>5
  <2>4. ASSUME UNCHANGED <<ch, written, sent, todo>> PROVE OrderInv'
    BY <2>4, OrderFrame
  <2>5. QED
    BY <2>1, <2>2, <2>3, <2>4
    DEF Next, Publishing, Streaming, PublishReturn, StreamOpen, Subscribe, StreamRejected,
        ClientDisconnect, StreamLeave, StreamUnsubscribe, Shutdown, vars
<1>3. QED
  BY <1>1, <1>2, TypeCorrect, PTL DEF Spec

\* Every client sees one publisher's events in publication order and none twice.
THEOREM DeliveryOrder == Spec => []InPublicationOrder
<1>1. OrderInv => InPublicationOrder
  BY DEF OrderInv, InPublicationOrder, Ordered
<1>2. QED
  BY <1>1, OrderKept, PTL
-----------------------------------------------------------------------------
(***************************************************************************)
(* Delivery.  Whatever is in a channel or about to be sent to it is owed   *)
(* to the stream, and all of it is different (delivery order), so a buffer *)
(* that is as large as what is owed has room for the event that is offered *)
(* to it: nothing is dropped.                                              *)
(***************************************************************************)
\* The event is still to be offered to the stream by a publisher on its way.
Coming(s, e) == \E p \in Publishers : s \in todo[p] /\ e = EventOf(p)

\* A stream only gets what it is owed, and only what is its own.
Owned(s) ==
    /\ IsFiniteSet(owed[s])
    /\ stream[s] \notin {"loop", "left", "ended"} => owed[s] = {}
    /\ Elems(ch[s]) \subseteq owed[s]
    /\ \A e : Coming(s, e) => e \in owed[s]
    /\ \A e \in Elems(written[s]) : e \in owed[s] /\ e.scope = scope[s]

\* Nothing of its own is lost while it is owed no more than its buffer holds.
Complete(s) ==
    stream[s] = "loop" /\ Cardinality(owed[s]) <= BufSize
        => \A e \in owed[s] : e.scope = scope[s]
              => e \in Elems(written[s]) \/ e \in Elems(ch[s]) \/ Coming(s, e)

DeliveryInv == \A s \in Streams : Owned(s) /\ Complete(s)

\* The elements of the sequences the broker builds.
LEMMA ElemsOf ==
    ASSUME NEW q \in Seq(Event), NEW e \in Event
    PROVE  /\ Elems(<<>>) = {}
           /\ Elems(Append(q, e)) = Elems(q) \cup {e}
           /\ q # <<>> => Elems(q) = {Head(q)} \cup Elems(Tail(q)) /\ Head(q) \in Event
<1>1. Elems(<<>>) = {}
  BY DEF Elems
<1>2. Elems(Append(q, e)) = Elems(q) \cup {e}
  <2>1. \A i \in 1 .. Len(q) : Append(q, e)[i] = q[i]
    OBVIOUS
  <2>2. Append(q, e)[Len(q) + 1] = e /\ DOMAIN Append(q, e) = 1 .. Len(q) + 1
    OBVIOUS
  <2>3. DOMAIN q = 1 .. Len(q) /\ 1 .. Len(q) + 1 = 1 .. Len(q) \cup {Len(q) + 1}
    OBVIOUS
  <2>4. QED
    BY <2>1, <2>2, <2>3 DEF Elems
<1>3. ASSUME q # <<>> PROVE Elems(q) = {Head(q)} \cup Elems(Tail(q)) /\ Head(q) \in Event
  <2>1. /\ Len(q) \in Nat /\ Len(q) >= 1 /\ Head(q) = q[1] /\ q[1] \in Event
        /\ DOMAIN q = 1 .. Len(q) /\ DOMAIN Tail(q) = 1 .. Len(q) - 1
    BY <1>3
  <2>2. \A i \in 1 .. Len(q) - 1 : Tail(q)[i] = q[i + 1] /\ i + 1 \in 1 .. Len(q)
    BY <1>3
  <2>3. \A i \in 1 .. Len(q) : i = 1 \/ \E j \in 1 .. Len(q) - 1 : i = j + 1
    <3> TAKE i \in 1 .. Len(q)
    <3>1. i # 1 => i - 1 \in 1 .. Len(q) - 1 /\ i = (i - 1) + 1
      BY <2>1
    <3>2. QED
      BY <3>1
  <2>4. 1 \in 1 .. Len(q)
    BY <2>1
  <2>5. Elems(Tail(q)) \subseteq Elems(q)
    <3> SUFFICES ASSUME NEW i \in 1 .. Len(q) - 1 PROVE Tail(q)[i] \in Elems(q)
      BY <2>1 DEF Elems
    <3>1. QED
      BY <2>1, <2>2 DEF Elems
  <2>6. Elems(q) \subseteq {Head(q)} \cup Elems(Tail(q))
    <3> SUFFICES ASSUME NEW i \in 1 .. Len(q), i # 1 PROVE q[i] \in Elems(Tail(q))
      BY <2>1 DEF Elems
    <3>1. PICK j \in 1 .. Len(q) - 1 : i = j + 1
      BY <2>3
    <3>2. QED
      BY <2>1, <2>2, <3>1 DEF Elems
  <2>7. Head(q) \in Elems(q)
    BY <2>1, <2>4 DEF Elems
  <2>8. QED
    BY <2>1, <2>5, <2>6, <2>7
<1>4. QED
  BY <1>1, <1>2, <1>3

\* The elements of a concatenation.
LEMMA ElemsConcat ==
    ASSUME NEW q \in Seq(Event), NEW r \in Seq(Event)
    PROVE  Elems(q \o r) = Elems(q) \cup Elems(r)
<1>1. /\ DOMAIN q = 1 .. Len(q) /\ DOMAIN r = 1 .. Len(r)
      /\ DOMAIN (q \o r) = 1 .. Len(q) + Len(r)
  OBVIOUS
<1>2. \A i \in 1 .. Len(q) : i \in 1 .. Len(q) + Len(r) /\ (q \o r)[i] = q[i]
  OBVIOUS
<1>3. \A i \in 1 .. Len(r) : Len(q) + i \in 1 .. Len(q) + Len(r) /\ (q \o r)[Len(q) + i] = r[i]
  OBVIOUS
<1>4. \A i \in 1 .. Len(q) + Len(r) : i \in 1 .. Len(q)
                                     \/ \E j \in 1 .. Len(r) : i = Len(q) + j
  <2> TAKE i \in 1 .. Len(q) + Len(r)
  <2>1. i \notin 1 .. Len(q) => i - Len(q) \in 1 .. Len(r) /\ i = Len(q) + (i - Len(q))
    OBVIOUS
  <2>2. QED
    BY <2>1, Zenon
<1>5. Elems(q \o r) \subseteq Elems(q) \cup Elems(r)
  <2> SUFFICES ASSUME NEW i \in DOMAIN (q \o r) PROVE (q \o r)[i] \in Elems(q) \cup Elems(r)
    BY DEF Elems
  <2>1. CASE i \in 1 .. Len(q)
    BY <1>1, <1>2, <2>1 DEF Elems
  <2>2. ASSUME NEW j \in 1 .. Len(r), i = Len(q) + j PROVE (q \o r)[i] \in Elems(r)
    BY <1>1, <1>3, <2>2 DEF Elems
  <2>3. QED
    BY <1>1, <1>4, <2>1, <2>2, Zenon
<1>6. Elems(q) \subseteq Elems(q \o r)
  BY <1>1, <1>2, Zenon DEF Elems
<1>7. Elems(r) \subseteq Elems(q \o r)
  BY <1>1, <1>3, Zenon DEF Elems
<1>8. QED
  BY <1>5, <1>6, <1>7

\* A sequence without repetitions is no longer than a set that holds its elements.
LEMMA NoRepetition ==
    ASSUME NEW q \in Seq(Event), NEW S, IsFiniteSet(S), Elems(q) \subseteq S,
           \A i, j \in DOMAIN q : i < j => q[i] # q[j]
    PROVE  Len(q) <= Cardinality(S)
<1>1. Len(q) \in Nat /\ DOMAIN q = 1 .. Len(q)
  OBVIOUS
<1>2. Cardinality(S) \in Nat
  BY FS_CardinalityType
<1>3. IsFiniteSet(1 .. Len(q)) /\ Cardinality(1 .. Len(q)) = Len(q)
  BY <1>1, FS_Interval
<1>4. q \in [1 .. Len(q) -> S]
  BY <1>1 DEF Elems
<1>5. SUFFICES ASSUME Cardinality(S) < Cardinality(1 .. Len(q)) PROVE FALSE
  BY <1>1, <1>2, <1>3
<1>6. \E i, j \in 1 .. Len(q) : i # j /\ q[i] = q[j]
  BY <1>3, <1>4, <1>5, FS_PigeonHole, Zenon
<1>7. QED
  BY <1>1, <1>6

\* Steps that neither send nor receive keep DeliveryInv.
LEMMA DeliveryFrame ==
    ASSUME DeliveryInv, UNCHANGED <<ch, written, owed, scope, todo, sent, current>>,
           \A s \in Streams :
              /\ stream'[s] = "loop" => stream[s] \in {"loop", "none"}
              /\ stream[s] \in {"loop", "left", "ended"} => stream'[s] \in {"loop", "left", "ended"}
    PROVE  DeliveryInv'
<1> SUFFICES ASSUME NEW s \in Streams PROVE Owned(s)' /\ Complete(s)'
  BY DEF DeliveryInv
<1>1. \A e : Coming(s, e)' <=> Coming(s, e)
  BY DEF Coming, EventOf
<1>2. Owned(s) /\ Complete(s)
  BY DEF DeliveryInv
<1>3. QED
  BY <1>1, <1>2 DEF Owned, Complete

\* The room in a buffer: an event that is still to be offered finds a free place.
LEMMA RoomForEvent ==
    ASSUME TypeOK, OrderInv, DeliveryInv, NEW s \in Streams, NEW p \in Publishers,
           s \in todo[p], Cardinality(owed[s]) <= BufSize
    PROVE  Len(ch[s]) < BufSize
<1> DEFINE e == EventOf(p)
           q == Accepted(s)
<1>1. ch[s] \in Seq(Event) /\ written[s] \in Seq(Event) /\ q \in Seq(Event)
  BY AcceptedTyped
<1>2. IsFiniteSet(owed[s]) /\ Elems(ch[s]) \subseteq owed[s] /\ e \in owed[s]
  BY DEF DeliveryInv, Owned, Coming
<1>3. \A i \in DOMAIN ch[s] : /\ Len(written[s]) + i \in DOMAIN q
                             /\ q[Len(written[s]) + i] = ch[s][i]
  BY <1>1, BehindPrefix DEF Accepted
<1>4. \A i \in DOMAIN q : q[i] # e
  <2>1. \A i \in DOMAIN q : q[i].from = p => q[i].n < sent[p]
    BY DEF OrderInv, Bounded
  <2>2. e.from = p /\ e.n = sent[p] /\ sent[p] \in Nat
    BY SentTyped DEF EventOf
  <2>3. QED
    BY <2>1, <2>2
<1>5. \A i, j \in DOMAIN q : i < j => q[i] # q[j]
  <2>1. \A i \in DOMAIN q : q[i].n \in Nat
    BY AcceptedTyped
  <2>2. Ordered(q)
    BY DEF OrderInv
  <2>3. QED
    BY <2>1, <2>2 DEF Ordered
<1> HIDE DEF e, q
<1>6. Elems(ch[s]) \subseteq owed[s] \ {e}
  BY <1>2, <1>3, <1>4 DEF Elems
<1>7. \A i, j \in DOMAIN ch[s] : i < j => ch[s][i] # ch[s][j]
  <2>1. Len(written[s]) \in Nat /\ \A i \in DOMAIN ch[s] : i \in Nat
    BY <1>1
  <2>2. \A i, j \in DOMAIN ch[s] : i < j => Len(written[s]) + i < Len(written[s]) + j
    BY <2>1
  <2>3. QED
    BY <1>3, <1>5, <2>2
<1>8. IsFiniteSet(owed[s] \ {e}) /\ Cardinality(owed[s] \ {e}) = Cardinality(owed[s]) - 1
  BY <1>2, FS_RemoveElement
<1>9. Len(ch[s]) <= Cardinality(owed[s] \ {e})
  BY <1>1, <1>6, <1>7, <1>8, NoRepetition
<1>10. Cardinality(owed[s]) \in Nat /\ Len(ch[s]) \in Nat
  BY <1>1, <1>2, FS_CardinalityType
<1>11. QED
  BY <1>8, <1>9, <1>10, BufSizeAssumption

\* A client is sent only what it is owed of its own project and environment, and
\* misses none of it while it is owed no more events than its buffer holds.
THEOREM Delivery == Spec => []ExactDelivery
<1>1. Init => DeliveryInv
  BY FS_EmptySet DEF Init, DeliveryInv, Owned, Complete, Coming, Elems
<1>2. TypeOK /\ LockInv /\ OrderInv /\ DeliveryInv /\ [Next]_vars => DeliveryInv'
  <2> SUFFICES ASSUME TypeOK, LockInv, OrderInv, DeliveryInv, [Next]_vars PROVE DeliveryInv'
    OBVIOUS
  <2>1. ASSUME NEW p \in Publishers, PublishBegin(p) PROVE DeliveryInv'
    <3> SUFFICES ASSUME NEW s \in Streams PROVE Owned(s)' /\ Complete(s)'
      BY DEF DeliveryInv
    <3>1. PICK c \in Scopes :
            /\ current' = [current EXCEPT ![p] = c]
            /\ owed' = [t \in Streams |-> IF t \in subscribers
                          THEN owed[t] \cup {[from |-> p, n |-> sent[p] + 1, scope |-> c]}
                          ELSE owed[t]]
      BY <2>1 DEF PublishBegin
    <3>2. /\ p \notin inflight /\ sent' = [sent EXCEPT ![p] = @ + 1]
          /\ todo' = [todo EXCEPT ![p] = subscribers]
          /\ UNCHANGED <<ch, written, stream, scope>>
      BY <2>1 DEF PublishBegin
    <3> DEFINE new == [from |-> p, n |-> sent[p] + 1, scope |-> c]
    <3>3. EventOf(p)' = new /\ \A q \in Publishers : q # p => EventOf(q)' = EventOf(q)
      BY <3>1, <3>2 DEF EventOf, TypeOK
    <3>4. owed'[s] = IF s \in subscribers THEN owed[s] \cup {new} ELSE owed[s]
      BY <3>1
    <3>5. todo[p] = {} /\ todo'[p] = subscribers /\ \A q \in Publishers : q # p => todo'[q] = todo[q]
      BY <3>2 DEF LockInv, TypeOK
    <3> HIDE DEF new
    <3>6. \A e : Coming(s, e)' <=> Coming(s, e) \/ (s \in subscribers /\ e = new)
      BY <3>3, <3>5 DEF Coming
    <3>7. s \in subscribers => stream[s] \in {"loop", "left"}
      BY DEF LockInv
    <3>8. Owned(s) /\ Complete(s)
      BY DEF DeliveryInv
    <3>9. IsFiniteSet(owed'[s]) /\ Cardinality(owed[s]) <= Cardinality(owed'[s])
      <4>1. IsFiniteSet(owed[s])
        BY <3>8 DEF Owned
      <4>2. IsFiniteSet(owed[s] \cup {new})
        BY <4>1, FS_AddElement
      <4>3. IsFiniteSet(owed'[s]) /\ owed[s] \in SUBSET owed'[s]
        BY <3>4, <4>1, <4>2
      <4>4. QED
        BY <4>3, FS_Subset
    <3>10. Cardinality(owed'[s]) <= BufSize => Cardinality(owed[s]) <= BufSize
      <4>1. Cardinality(owed'[s]) \in Nat /\ Cardinality(owed[s]) \in Nat
        BY <3>8, <3>9, FS_CardinalityType DEF Owned
      <4>2. QED
        BY <3>9, <4>1, BufSizeAssumption
    <3>11. Owned(s)'
      BY <3>2, <3>4, <3>6, <3>7, <3>8, <3>9 DEF Owned
    <3>12. Complete(s)'
      BY <3>2, <3>4, <3>6, <3>8, <3>10 DEF Complete
    <3>13. QED
      BY <3>11, <3>12
  <2>2. ASSUME NEW p \in Publishers, NEW u \in Streams, PublishSend(p, u) PROVE DeliveryInv'
    <3> SUFFICES ASSUME NEW s \in Streams PROVE Owned(s)' /\ Complete(s)'
      BY DEF DeliveryInv
    <3>1. /\ u \in todo[p] /\ todo' = [todo EXCEPT ![p] = @ \ {u}]
          /\ UNCHANGED <<sent, current, stream, scope, written, owed>>
          /\ u \notin chClosed => ch' = [ch EXCEPT ![u] = Offer(u, EventOf(p))]
      BY <2>2 DEF PublishSend
    <3>2. ch' = [ch EXCEPT ![u] = Offer(u, EventOf(p))]
      BY <3>1 DEF LockInv, MapHoldsOpenChannels
    <3>3. \A q \in Publishers : EventOf(q)' = EventOf(q)
      BY <3>1 DEF EventOf
    <3>4. Owned(s) /\ Complete(s)
      BY DEF DeliveryInv
    <3>5. CASE s # u
      <4>1. \A q \in Publishers : s \in todo'[q] <=> s \in todo[q]
        BY <3>1, <3>5 DEF TypeOK
      <4>2. \A e : Coming(s, e)' <=> Coming(s, e)
        BY <3>3, <4>1 DEF Coming
      <4>3. ch'[s] = ch[s]
        BY <3>2, <3>5 DEF TypeOK
      <4>4. QED
        BY <3>1, <3>4, <4>2, <4>3 DEF Owned, Complete
    <3>6. CASE s = u
      <4> DEFINE new == EventOf(p)
      <4>1. \A q \in Publishers : s \in todo'[q] <=> q # p /\ s \in todo[q]
        BY <3>1, <3>6 DEF TypeOK
      <4>2. \A e : /\ Coming(s, e)' => Coming(s, e)
                   /\ Coming(s, e) => Coming(s, e)' \/ e = new
        BY <3>3, <4>1 DEF Coming
      <4>3. new \in Event /\ ch[s] \in Seq(Event) /\ new \in owed[s]
        BY <3>1, <3>4, <3>6, EventOfTyped, AcceptedTyped DEF Owned, Coming
      <4>4. ch'[s] = Offer(s, new)
        BY <3>2, <3>6 DEF TypeOK
      <4> HIDE DEF new
      <4>5. Elems(Append(ch[s], new)) = Elems(ch[s]) \cup {new}
        BY <4>3, ElemsOf
      <4>6. Elems(ch'[s]) \subseteq Elems(ch[s]) \cup {new} /\ Elems(ch[s]) \subseteq Elems(ch'[s])
        BY <4>4, <4>5 DEF Offer
      <4>7. Cardinality(owed[s]) <= BufSize => new \in Elems(ch'[s])
        BY <3>1, <3>6, <4>4, <4>5, RoomForEvent DEF Offer
      <4>8. Owned(s)'
        BY <3>1, <3>4, <4>2, <4>3, <4>6 DEF Owned
      <4>9. Complete(s)'
        BY <3>1, <3>4, <4>2, <4>6, <4>7 DEF Complete
      <4>10. QED
        BY <4>8, <4>9
    <3>7. QED
      BY <3>5, <3>6
  <2>3. ASSUME NEW u \in Streams, StreamReceive(u) PROVE DeliveryInv'
    <3> SUFFICES ASSUME NEW s \in Streams PROVE Owned(s)' /\ Complete(s)'
      BY DEF DeliveryInv
    <3>1. /\ ch[u] # <<>> /\ ch' = [ch EXCEPT ![u] = Tail(ch[u])]
          /\ HandleEvent(u, Head(ch[u])) /\ UNCHANGED <<todo, sent, current, stream, scope, owed>>
      BY <2>3 DEF StreamReceive
    <3>2. \A e : Coming(s, e)' <=> Coming(s, e)
      BY <3>1 DEF Coming, EventOf
    <3>3. Owned(s) /\ Complete(s)
      BY DEF DeliveryInv
    <3>4. CASE s # u
      <4>1. ch'[s] = ch[s] /\ written'[s] = written[s]
        BY <3>1, <3>4 DEF HandleEvent, TypeOK
      <4>2. QED
        BY <3>1, <3>2, <3>3, <4>1 DEF Owned, Complete
    <3>5. CASE s = u
      <4> DEFINE h == Head(ch[s])
      <4>1. ch[s] \in Seq(Event) /\ written[s] \in Seq(Event)
        BY AcceptedTyped
      <4>2. h \in Event /\ Elems(ch[s]) = {h} \cup Elems(Tail(ch[s]))
        BY <3>1, <3>5, <4>1, ElemsOf
      <4>3. Elems(Append(written[s], h)) = Elems(written[s]) \cup {h}
        BY <4>1, <4>2, ElemsOf
      <4>4. Elems(ch'[s]) = Elems(Tail(ch[s]))
        BY <3>1, <3>5 DEF TypeOK
      <4>5. written'[s] = IF h.scope = scope[s] THEN Append(written[s], h) ELSE written[s]
        BY <3>1, <3>5 DEF HandleEvent, TypeOK
      <4> HIDE DEF h
      <4>6. Elems(written'[s]) = IF h.scope = scope[s] THEN Elems(written[s]) \cup {h}
                                 ELSE Elems(written[s])
        BY <4>3, <4>5
      <4>7. Owned(s)'
        BY <3>1, <3>2, <3>3, <4>2, <4>4, <4>6 DEF Owned
      <4>8. Complete(s)'
        BY <3>1, <3>2, <3>3, <4>2, <4>4, <4>6 DEF Complete
      <4>9. QED
        BY <4>7, <4>8
    <3>6. QED
      BY <3>4, <3>5
  <2>4. ASSUME NEW s \in Streams, StreamOpen(s) \/ StreamRejected(s) \/ StreamLeave(s)
                                  \/ StreamUnsubscribe(s)
        PROVE  DeliveryInv'
    <3>1. UNCHANGED <<ch, written, owed, scope, todo, sent, current>>
      BY <2>4 DEF StreamOpen, Subscribe, StreamRejected, StreamLeave, StreamUnsubscribe
    <3>2. \/ stream[s] = "none" /\ \E x \in {"loop", "refused", "unsupported"} :
                stream' = [stream EXCEPT ![s] = x]
          \/ stream[s] \in {"loop", "left"} /\ \E x \in {"left", "ended"} :
                stream' = [stream EXCEPT ![s] = x]
      BY <2>4 DEF StreamOpen, StreamRejected, StreamLeave, StreamUnsubscribe
    <3>3. QED
      BY <3>1, <3>2, DeliveryFrame DEF TypeOK
  <2>5. ASSUME UNCHANGED <<ch, written, owed, scope, todo, sent, current, stream>>
        PROVE  DeliveryInv'
    BY <2>5, DeliveryFrame
  <2>6. QED
    BY <2>1, <2>2, <2>3, <2>4, <2>5
    DEF Next, Publishing, Streaming, PublishReturn, ClientDisconnect, Shutdown, vars
<1>3. TypeOK /\ LockInv /\ DeliveryInv => ExactDelivery
  <2> SUFFICES ASSUME TypeOK, LockInv, DeliveryInv, NEW s \in Streams
      PROVE  LET mine == {e \in owed[s] : e.scope = scope[s]}
                 coming == {EventOf(p) : p \in {q \in inflight : s \in todo[q]}}
             IN  /\ Elems(written[s]) \subseteq mine
                 /\ stream[s] = "loop" /\ Cardinality(owed[s]) <= BufSize
                       => mine \subseteq Elems(Accepted(s)) \cup coming
    BY DEF ExactDelivery
  <2>1. Owned(s) /\ Complete(s)
    BY DEF DeliveryInv
  <2>2. Elems(Accepted(s)) = Elems(written[s]) \cup Elems(ch[s])
    BY AcceptedTyped, ElemsConcat DEF Accepted
  <2>3. \A e : Coming(s, e) => \E p \in inflight : s \in todo[p] /\ e = EventOf(p)
    BY DEF Coming, LockInv
  <2>4. QED
    BY <2>1, <2>2, <2>3 DEF Owned, Complete
<1>4. QED
  BY <1>1, <1>2, <1>3, TypeCorrect, LockKept, OrderKept, PTL DEF Spec
=============================================================================
