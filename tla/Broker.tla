------------------------------- MODULE Broker -------------------------------
(***************************************************************************)
(* The in-process event fan-out (internal/adapters/http/broker.go) and the *)
(* SSE stream handlers that consume it (sse_handler.go).                   *)
(*                                                                         *)
(* Publish holds the broker's RWMutex for reading while it walks the       *)
(* subscriber map, so several publishers walk it at once and their sends   *)
(* interleave; Subscribe, unsubscribe and Shutdown hold it for writing and *)
(* are one step each.  A stream handler subscribes, forwards the events of *)
(* its own project and environment, and unsubscribes in a deferred call,   *)
(* whatever made it leave its loop.                                        *)
(***************************************************************************)
EXTENDS Naturals, Sequences, FiniteSets

CONSTANTS
    Streams,       \* GET .../flags/stream requests, one identity per request
    Publishers,    \* goroutines that call Broker.Publish
    Scopes,        \* (project slug, environment slug) pairs
    BufSize,       \* NewBroker's bufferSize
    MaxPublish,    \* bound: events one publisher publishes
    Wrappers       \* ResponseWriter wrappers around the stream handler, outermost first

ASSUME BufSizeAssumption == BufSize \in Nat \ {0}
ASSUME ScopesAssumption == Scopes # {}
ASSUME MaxPublishAssumption == MaxPublish \in Nat
ASSUME WrappersAssumption == Wrappers \in Seq({"statusRecorder", "responseWriter"})

(***************************************************************************)
(* A published event carries its scope; from and n identify it (n-th event *)
(* of its publisher), which is all the properties need of its content.     *)
(***************************************************************************)
Event == [from : Publishers, n : Nat, scope : Scopes]

VARIABLES
    status,        \* Broker.closed: "open" until Shutdown, then "closed"
    subscribers,   \* Broker.subscribers: the streams whose channel is in the map
    ch,            \* channel buffers
    chClosed,      \* streams on whose channel close() has been called
    todo,          \* what is left of each publisher's range over the map
    inflight,      \* publishers inside Publish (they hold the read lock)
    sent,          \* events each publisher has started to publish
    current,       \* scope of the event each publisher is publishing
    stream,        \* progress of each stream request
    scope,         \* the project and environment of each stream's URL
    gone,          \* streams whose request context is done (client disconnected)
    written,       \* events written to each stream's client
    owed,          \* history: events whose fan-out started while the stream was subscribed
    panics         \* run-time panics: double close, send on closed channel

vars == <<status, subscribers, ch, chClosed, todo, inflight, sent, current,
          stream, scope, gone, written, owed, panics>>

TypeOK ==
    /\ status \in {"open", "closed"}
    /\ subscribers \in SUBSET Streams
    /\ ch \in [Streams -> Seq(Event)]
    /\ \A s \in Streams : Len(ch[s]) <= BufSize
    /\ chClosed \in SUBSET Streams
    /\ todo \in [Publishers -> SUBSET Streams]
    /\ inflight \in SUBSET Publishers
    /\ sent \in [Publishers -> Nat]
    /\ current \in [Publishers -> Scopes]
    /\ stream \in [Streams -> {"none", "loop", "left", "ended", "refused", "unsupported"}]
    /\ scope \in [Streams -> Scopes]
    /\ gone \in SUBSET Streams
    /\ written \in [Streams -> Seq(Event)]
    /\ owed \in [Streams -> SUBSET Event]
    /\ panics \in SUBSET {"double close", "send on closed channel"}

Init ==
    /\ status = "open"
    /\ subscribers = {}
    /\ ch = [s \in Streams |-> <<>>]
    /\ chClosed = {}
    /\ todo = [p \in Publishers |-> {}]
    /\ inflight = {}
    /\ sent = [p \in Publishers |-> 0]
    /\ current = [p \in Publishers |-> CHOOSE c \in Scopes : TRUE]
    /\ stream = [s \in Streams |-> "none"]
    /\ scope \in [Streams -> Scopes]
    /\ gone = {}
    /\ written = [s \in Streams |-> <<>>]
    /\ owed = [s \in Streams |-> {}]
    /\ panics = {}

-----------------------------------------------------------------------------
(* Broker.Publish *)

EventOf(p) == [from |-> p, n |-> sent[p], scope |-> current[p]]

PublishBegin(p) ==
    /\ p \notin inflight
    /\ sent[p] < MaxPublish
    /\ status = "open"
    /\ sent' = [sent EXCEPT ![p] = @ + 1]
    /\ \E c \in Scopes :
         /\ current' = [current EXCEPT ![p] = c]
         /\ owed' = [s \in Streams |-> IF s \in subscribers
                        THEN owed[s] \cup {[from |-> p, n |-> sent[p] + 1, scope |-> c]}
                        ELSE owed[s]]
    /\ inflight' = inflight \cup {p}
    /\ todo' = [todo EXCEPT ![p] = subscribers]
    /\ UNCHANGED <<status, subscribers, ch, chClosed, stream, scope, gone, written, panics>>

\* Mutant: an off-by-one in the capacity test.
OfferOneMore(s, e) == IF Len(ch[s]) <= BufSize THEN Append(ch[s], e) ELSE ch[s]

\* The select in Publish: the event goes into the buffer, or is dropped when it is full.
Offer(s, e) == IF Len(ch[s]) < BufSize THEN Append(ch[s], e) ELSE ch[s]

\* Mutant: the range does not advance, so a subscriber may be sent an event again.
PublishSendAgain(p, s) ==
    /\ p \in inflight
    /\ s \in todo[p]
    /\ ch' = [ch EXCEPT ![s] = Offer(s, EventOf(p))]
    /\ \/ todo' = todo
       \/ todo' = [todo EXCEPT ![p] = @ \ {s}]
    /\ UNCHANGED <<status, subscribers, chClosed, inflight, sent, current,
                   stream, scope, gone, written, owed, panics>>

PublishSend(p, s) ==
    /\ p \in inflight
    /\ s \in todo[p]
    /\ todo' = [todo EXCEPT ![p] = @ \ {s}]
    /\ IF s \in chClosed
       THEN /\ panics' = panics \cup {"send on closed channel"}
            /\ ch' = ch
       ELSE /\ ch' = [ch EXCEPT ![s] = Offer(s, EventOf(p))]
            /\ panics' = panics
    /\ UNCHANGED <<status, subscribers, chClosed, inflight, sent, current,
                   stream, scope, gone, written, owed>>

PublishReturn(p) ==
    /\ p \in inflight
    /\ todo[p] = {}
    /\ inflight' = inflight \ {p}
    /\ UNCHANGED <<status, subscribers, ch, chClosed, todo, sent, current,
                   stream, scope, gone, written, panics, owed>>

-----------------------------------------------------------------------------
(* Subscribe, the unsubscribe closure and Shutdown *)

\* Mutant: Shutdown and unsubscribe do not take the lock.
NoLock == TRUE

\* b.mu.Lock() is granted only when no publisher holds b.mu.RLock().
WriteLockFree == inflight = {}

\* close(sub.ch): closing a closed channel panics.
CloseAll(S) ==
    /\ chClosed' = chClosed \cup S
    /\ panics' = IF S \cap chClosed = {} THEN panics ELSE panics \cup {"double close"}

Subscribe(s) ==
    /\ subscribers' = subscribers \cup {s}
    /\ UNCHANGED <<status, ch, chClosed>>

\* Mutant: unsubscribe closes the channel but leaves it in the map.
UnsubscribeKeepsEntry(s) ==
    /\ WriteLockFree
    /\ subscribers' = subscribers
    /\ CloseAll({s})

\* once.Do runs the closure's body on the first call; stream calls it once, deferred.
Unsubscribe(s) ==
    /\ WriteLockFree
    /\ subscribers' = subscribers \ {s}
    /\ CloseAll({s})

\* Mutant: Shutdown empties the map without closing the channels.
ShutdownNoClose ==
    /\ WriteLockFree
    /\ status = "open"
    /\ status' = "closed"
    /\ subscribers' = {}
    /\ UNCHANGED <<chClosed, panics, ch, todo, inflight, sent, current, stream, scope, gone, written, owed>>

Shutdown ==
    /\ WriteLockFree
    /\ status = "open"
    /\ status' = "closed"
    /\ CloseAll(subscribers)
    /\ subscribers' = {}
    /\ UNCHANGED <<ch, todo, inflight, sent, current, stream, scope, gone, written, owed>>

-----------------------------------------------------------------------------
(* SSEHandler.stream *)

\* Only the connection itself has a Flush method: neither wrapper declares one.
HasFlush(w) == w = "conn"
IsFlusher == HasFlush((Wrappers \o <<"conn">>)[1])

StreamOpen(s) ==
    /\ stream[s] = "none"
    /\ IsFlusher
    /\ WriteLockFree
    /\ status = "open"
    /\ Subscribe(s)
    /\ stream' = [stream EXCEPT ![s] = "loop"]
    /\ UNCHANGED <<todo, inflight, sent, current, scope, gone, written, panics, owed>>

\* A request for an unknown project or environment is answered before it gets here.
\* 500 "streaming unsupported" (w.(http.Flusher) failed), or 500 "broker
\* unavailable" (Subscribe returned nil).
StreamRejected(s) ==
    /\ stream[s] = "none"
    /\ IsFlusher => status = "closed"
    /\ stream' = [stream EXCEPT ![s] = IF IsFlusher THEN "refused" ELSE "unsupported"]
    /\ UNCHANGED <<status, subscribers, ch, chClosed, todo, inflight, sent, current,
                   scope, gone, written, panics, owed>>

\* The client closes the connection: the request context is cancelled.
ClientDisconnect(s) ==
    /\ stream[s] = "loop"
    /\ s \notin gone
    /\ gone' = gone \cup {s}
    /\ UNCHANGED <<status, subscribers, ch, chClosed, todo, inflight, sent, current,
                   stream, scope, written, panics, owed>>

\* Mutant: no filter on project and environment.
HandleEveryEvent(s, e) == written' = [written EXCEPT ![s] = Append(@, e)]

\* handleEvent: events of other projects or environments are skipped.
HandleEvent(s, e) ==
    written' = IF e.scope = scope[s]
               THEN [written EXCEPT ![s] = Append(@, e)]
               ELSE written

\* streamLoop, case event := <-ch.  A closed channel still yields what it buffers.
StreamReceive(s) ==
    /\ stream[s] = "loop"
    /\ ch[s] # <<>>
    /\ ch' = [ch EXCEPT ![s] = Tail(@)]
    /\ HandleEvent(s, Head(ch[s]))
    /\ UNCHANGED <<status, subscribers, chClosed, todo, inflight, sent, current,
                   stream, scope, gone, panics, owed>>

\* streamLoop, case <-ctx.Done(), or case <-ch on a closed and drained channel.
StreamLeave(s) ==
    /\ stream[s] = "loop"
    /\ s \in gone \/ (s \in chClosed /\ ch[s] = <<>>)
    /\ stream' = [stream EXCEPT ![s] = "left"]
    /\ UNCHANGED <<status, subscribers, ch, chClosed, todo, inflight, sent, current,
                   scope, gone, written, panics, owed>>

\* defer unsub()
StreamUnsubscribe(s) ==
    /\ stream[s] = "left"
    /\ Unsubscribe(s)
    /\ stream' = [stream EXCEPT ![s] = "ended"]
    /\ UNCHANGED <<status, ch, todo, inflight, sent, current, scope, gone, written, owed>>

-----------------------------------------------------------------------------
Publishing(p) == PublishBegin(p) \/ (\E s \in Streams : PublishSend(p, s)) \/ PublishReturn(p)

Streaming(s) ==
    \/ StreamOpen(s) \/ StreamRejected(s)
    \/ ClientDisconnect(s) \/ StreamReceive(s) \/ StreamLeave(s) \/ StreamUnsubscribe(s)

Next ==
    \/ \E p \in Publishers : Publishing(p)
    \/ \E s \in Streams : Streaming(s)
    \/ Shutdown

(***************************************************************************)
(* A goroutine inside Publish or streamLoop keeps running.  A goroutine    *)
(* blocked in b.mu.Lock() is granted the lock even if publishers come and  *)
(* go for ever (sync.RWMutex holds back new readers): strong fairness.     *)
(***************************************************************************)
Fairness ==
    /\ \A p \in Publishers : WF_vars((\E s \in Streams : PublishSend(p, s)) \/ PublishReturn(p))
    /\ \A s \in Streams : /\ WF_vars(StreamReceive(s))
                          /\ WF_vars(StreamLeave(s))
                          /\ SF_vars(StreamUnsubscribe(s))

Spec == Init /\ [][Next]_vars
FairSpec == Spec /\ Fairness

-----------------------------------------------------------------------------
(* Properties *)

\* Publish never sends on a closed channel, although Shutdown and the
\* unsubscribe closures close channels while other goroutines publish.
NoSendOnClosedChannel == "send on closed channel" \notin panics

\* The map holds exactly the open channels: a stream in its loop is either
\* subscribed or has been closed by Shutdown, and never neither (it would
\* wait for ever) nor both (Publish would panic).
MapHoldsOpenChannels ==
    /\ subscribers \cap chClosed = {}
    /\ \A s \in Streams : stream[s] = "loop" => (s \in subscribers <=> s \notin chClosed)
    /\ status = "closed" => subscribers = {}

\* What was written to a stream's client and what its channel still buffers.
Accepted(s) == written[s] \o ch[s]

\* A client sees the events of one publisher in publication order and none
\* twice, whatever drops and interleavings of fan-outs happened.
InPublicationOrder ==
    \A s \in Streams : \A i, j \in DOMAIN Accepted(s) :
        i < j /\ Accepted(s)[i].from = Accepted(s)[j].from => Accepted(s)[i].n < Accepted(s)[j].n

\* Elements of a sequence.
Elems(q) == {q[i] : i \in DOMAIN q}

\* A client is sent only events of its own project and environment that were
\* published while it was subscribed, and, as long as no more than BufSize events
\* were owed to it (events of every scope fill the same buffer), it misses none.
ExactDelivery ==
    \A s \in Streams :
        LET mine == {e \in owed[s] : e.scope = scope[s]}
            coming == {EventOf(p) : p \in {q \in inflight : s \in todo[q]}}
        IN  /\ Elems(written[s]) \subseteq mine
            /\ stream[s] = "loop" /\ Cardinality(owed[s]) <= BufSize
                  => mine \subseteq Elems(Accepted(s)) \cup coming

\* No step of the broker panics (doc comments of Broker and Subscribe: all
\* methods are safe for concurrent use, unsubscribe is safe to call).
NoPanic == panics = {}

\* Shutdown and client disconnects end every stream, and its subscription goes.
EveryStreamEnds ==
    \A s \in Streams : stream[s] = "loop" /\ (status = "closed" \/ s \in gone)
                           ~> stream[s] = "ended" /\ s \notin subscribers
=============================================================================
