--------------------------- MODULE JsCachedClient ---------------------------
(***************************************************************************)
(* createCachedClient of the JavaScript SDK (sdk/js/src/cached-client.ts)  *)
(* over connectStream (streaming.ts): an in-memory copy of the flags of    *)
(* one environment, seeded by one bulk evaluation ("hydration"), kept      *)
(* fresh by one SSE connection, and fetched again whenever the connection  *)
(* is re-established.                                                      *)
(*                                                                         *)
(* The client is single-threaded: every callback and every continuation of *)
(* an await is one step.  The server side is what FlagFeed promises: the   *)
(* state of a flag and its event change together, and a subscribed         *)
(* connection carries every event, in order.                               *)
(***************************************************************************)
EXTENDS Naturals, Sequences, FiniteSets

CONSTANTS
    Flags,         \* flags of the environment, all present at hydration time
    HasStore,      \* options.store is given and holds entries of an earlier run
    MaxAttempts,   \* bound: reconnects of the SSE connection
    MaxChanges     \* bound: flag changes on the server

ASSUME HasStoreAssumption == HasStore \in BOOLEAN
ASSUME BoundsAssumption == MaxAttempts \in Nat /\ MaxChanges \in Nat

Enabled == {"enabled", "disabled"}
Event == [flag : Flags, enabled : Enabled]
CacheValue == Enabled \cup {"none"}          \* "none": no entry for the key
NoEntries == [f \in Flags |-> "none"]

(***************************************************************************)
(* HTTP requests: 0 is the hydration, k > 0 the re-hydration that the k-th *)
(* reconnect starts.                                                       *)
(***************************************************************************)
Requests == 0 .. MaxAttempts
Nobody == MaxAttempts + 1                    \* no request has filled the cache

VARIABLES
    row,                \* server: state of each flag
    changes,            \* server: number of changes so far
    conn,               \* the SSE connection
    attempt,            \* runConnectionLoop's attempt
    pipe,               \* events on their way to the client
    req,                \* progress of each HTTP request
    answer,             \* status and flags of each answer
    closed, hydrationComplete, sseBuffer, cache,
    ready,              \* the ready promise
    store,              \* what store.load() would return
    told,               \* last value passed to the subscribers of each key
    filler,             \* history: the request that filled the cache last
    gapless             \* history: requests answered while their connection was
                        \* subscribed, with no event received since

server == <<row, changes>>
stream == <<conn, attempt, pipe>>
http == <<req, answer>>
client == <<closed, hydrationComplete, sseBuffer, cache, ready, store, told, filler>>
vars == <<server, stream, http, client, gapless>>

TypeOK ==
    /\ row \in [Flags -> Enabled]
    /\ changes \in 0 .. MaxChanges
    /\ conn \in {"dialing", "accepted", "open", "backoff", "stopped"}
    /\ attempt \in 0 .. MaxAttempts
    /\ pipe \in Seq(Event)
    /\ req \in [Requests -> {"idle", "sent", "answered", "body", "loading", "done"}]
    /\ answer \in [Requests -> [status : {"none", "ok", "auth", "failed"},
                                flags : [Flags -> CacheValue]]]
    /\ closed \in BOOLEAN
    /\ hydrationComplete \in BOOLEAN
    /\ sseBuffer \in Seq(Event)
    /\ cache \in [Flags -> CacheValue]
    /\ ready \in {"pending", "resolved", "rejected"}
    /\ store \in [Flags -> CacheValue]
    /\ told \in [Flags -> CacheValue]
    /\ filler \in Requests \cup {Nobody}
    /\ gapless \in SUBSET Requests
    /\ conn \notin {"accepted", "open"} => pipe = <<>>

\* connectStream and the hydration fetch have both been called.
Init ==
    /\ row \in [Flags -> Enabled]
    /\ changes = 0
    /\ conn = "dialing"
    /\ attempt = 0
    /\ pipe = <<>>
    /\ req = [k \in Requests |-> IF k = 0 THEN "sent" ELSE "idle"]
    /\ answer = [k \in Requests |-> [status |-> "none", flags |-> NoEntries]]
    /\ closed = FALSE
    /\ hydrationComplete = FALSE
    /\ sseBuffer = <<>>
    /\ cache = NoEntries
    /\ ready = "pending"
    /\ store \in IF HasStore THEN [Flags -> Enabled] ELSE {NoEntries}
    /\ told = NoEntries
    /\ filler = Nobody
    /\ gapless = {}

-----------------------------------------------------------------------------
(* The server *)

Subscribed == conn \in {"accepted", "open"}

\* FlagFeed's Toggle: the state changes and its event is sent.
Change(f, v) ==
    /\ changes < MaxChanges
    /\ changes' = changes + 1
    /\ row' = [row EXCEPT ![f] = v]
    /\ pipe' = IF Subscribed THEN Append(pipe, [flag |-> f, enabled |-> v]) ELSE pipe
    /\ UNCHANGED <<conn, attempt, http, client, gapless>>

\* The stream handler subscribes to the broker and sends its headers.
Accept ==
    /\ conn = "dialing"
    /\ conn' = "accepted"
    /\ UNCHANGED <<server, attempt, pipe, http, client, gapless>>

\* The bulk evaluation reads the flags and answers, or answers with an error.
Answer(k) ==
    /\ req[k] = "sent"
    /\ req' = [req EXCEPT ![k] = "answered"]
    /\ \E status \in {"ok", "auth", "failed"} :
         answer' = [answer EXCEPT ![k] =
             [status |-> status, flags |-> IF status = "ok" THEN row ELSE NoEntries]]
    /\ gapless' = IF Subscribed /\ k = attempt THEN gapless \cup {k} ELSE gapless
    /\ UNCHANGED <<server, stream, client>>

-----------------------------------------------------------------------------
(* The cache *)

\* Positions of the events of a flag, and the newest of them.
EventsOf(q, f) == {i \in DOMAIN q : q[i].flag = f}
Newest(q, f) == CHOOSE i \in EventsOf(q, f) : \A j \in EventsOf(q, f) : j <= i

\* A cache after the events q: the newest event of a key wins, unknown keys are ignored.
Replay(c, q) ==
    [f \in Flags |-> IF c[f] = "none" \/ EventsOf(q, f) = {} THEN c[f]
                     ELSE q[Newest(q, f)].enabled]

\* What subscribers have been told after the events q were applied to c.
Notify(c, q) ==
    [f \in Flags |-> IF c[f] = "none" \/ EventsOf(q, f) = {} THEN told[f]
                     ELSE q[Newest(q, f)].enabled]

\* store.save is the no-op store's unless the caller brought a store.
Save(c) == store' = IF HasStore THEN c ELSE store

\* populateCache: the cache holds the answer and nothing else.
PopulateCache(k) == cache' = answer[k].flags /\ filler' = k

ApplyCacheEvent(e) ==
    /\ cache' = Replay(cache, <<e>>)
    /\ told' = Notify(cache, <<e>>)
    /\ IF cache[e.flag] = "none" THEN store' = store ELSE Save(cache')

\* Mutant: events are not buffered during hydration.
ApplyAtOnce(e) ==
    IF closed
    THEN UNCHANGED client
    ELSE /\ ApplyCacheEvent(e)
         /\ UNCHANGED <<closed, hydrationComplete, sseBuffer, ready, filler>>

OnFlagChange(e) ==
    IF closed
    THEN UNCHANGED client
    ELSE IF ~hydrationComplete
    THEN /\ sseBuffer' = Append(sseBuffer, e)
         /\ UNCHANGED <<closed, hydrationComplete, cache, ready, store, told, filler>>
    ELSE /\ ApplyCacheEvent(e)
         /\ UNCHANGED <<closed, hydrationComplete, sseBuffer, ready, filler>>

-----------------------------------------------------------------------------
(* runConnectionLoop and attemptStream *)

\* onConnected: a reconnect starts a re-hydration.
Connected ==
    /\ conn = "accepted"
    /\ conn' = "open"
    /\ req' = IF attempt > 0 /\ ~closed THEN [req EXCEPT ![attempt] = "sent"] ELSE req
    /\ UNCHANGED <<server, attempt, pipe, answer, client, gapless>>

\* Mutant: the new connection reads on in the body of the old one.
DisconnectKeepsPipe ==
    /\ conn \in {"dialing", "accepted", "open"}
    /\ attempt < MaxAttempts
    /\ conn' = "backoff"
    /\ attempt' = attempt + 1
    /\ UNCHANGED <<server, pipe, http, client, gapless>>

\* The fetch fails or its status is not ok, the stream ends, or no heartbeat came
\* for 90 s: whatever the connection still carried is lost.
Disconnect ==
    /\ conn \in {"dialing", "accepted", "open"}
    /\ attempt < MaxAttempts
    /\ conn' = "backoff"
    /\ attempt' = attempt + 1
    /\ pipe' = <<>>
    /\ UNCHANGED <<server, http, client, gapless>>

\* The backoff timer fires.
Redial ==
    /\ conn = "backoff"
    /\ conn' = "dialing"
    /\ UNCHANGED <<server, attempt, pipe, http, client, gapless>>

\* 401 or 403: onError is called and the loop ends; the client stays open.
Terminal ==
    /\ conn = "dialing"
    /\ conn' = "stopped"
    /\ UNCHANGED <<server, attempt, pipe, http, client, gapless>>

\* processSSEBlock: an event overtakes the answers that are still under way.
Receive ==
    /\ conn = "open"
    /\ pipe # <<>>
    /\ pipe' = Tail(pipe)
    /\ OnFlagChange(Head(pipe))
    /\ gapless' = {k \in gapless : k = 0 \/ req[k] # "answered"}
    /\ UNCHANGED <<server, conn, attempt, http>>

-----------------------------------------------------------------------------
(* Hydration *)

HydrationGoes(label) == req' = [req EXCEPT ![0] = label]

\* sseConnection.close(): the abort signal ends the loop wherever it waits.
CloseStream == conn' = "stopped" /\ pipe' = <<>> /\ attempt' = attempt

\* ready settles once; later calls of resolve or reject do nothing.
Settle(outcome) == ready' = IF ready = "pending" THEN outcome ELSE ready

\* Mutant: the SSE connection stays open when hydration fails.
FailHydrationOpen ==
    /\ Settle("rejected")
    /\ HydrationGoes("done")
    /\ UNCHANGED <<stream, closed, hydrationComplete, sseBuffer, cache, store, told, filler>>

FailHydration ==
    /\ CloseStream
    /\ closed' = TRUE
    /\ Settle("rejected")
    /\ HydrationGoes("done")
    /\ UNCHANGED <<hydrationComplete, sseBuffer, cache, store, told, filler>>

\* Mutant: a closed client returns without settling ready.
RejectClosedSilently ==
    /\ HydrationGoes("done")
    /\ UNCHANGED <<stream, client>>

\* rejectReady of a client that was closed meanwhile.
RejectClosed ==
    /\ Settle("rejected")
    /\ HydrationGoes("done")
    /\ UNCHANGED <<stream, closed, hydrationComplete, sseBuffer, cache, store, told, filler>>

\* tryStoreFallback calls store.load() and returns.
TryStoreFallback == HydrationGoes("loading") /\ UNCHANGED <<stream, client>>

\* The fetch promise settles: .then with a response, up to await res.json().
HydrationHeaders ==
    /\ req[0] = "answered"
    /\ IF closed THEN RejectClosed
       ELSE CASE answer[0].status = "auth"   -> FailHydration
              [] answer[0].status = "failed" -> TryStoreFallback
              [] answer[0].status = "ok"     -> HydrationGoes("body") /\ UNCHANGED <<stream, client>>
    /\ UNCHANGED <<server, answer, gapless>>

\* Mutant: the buffer is drained before the answer is put into the cache.
DrainFirst ==
    /\ PopulateCache(0)
    /\ hydrationComplete' = TRUE
    /\ told' = Notify(answer[0].flags, sseBuffer)
    /\ sseBuffer' = <<>>
    /\ Save(cache')
    /\ Settle("resolved")
    /\ HydrationGoes("done")
    /\ UNCHANGED <<stream, closed>>

\* Step 3: populate the cache, drain the buffer on top, save, resolve ready.
Hydrate ==
    /\ cache' = Replay(answer[0].flags, sseBuffer)
    /\ filler' = 0
    /\ hydrationComplete' = TRUE
    /\ told' = Notify(answer[0].flags, sseBuffer)
    /\ sseBuffer' = <<>>
    /\ Save(cache')
    /\ Settle("resolved")
    /\ HydrationGoes("done")
    /\ UNCHANGED <<stream, closed>>

\* res.json() resolves.
HydrationBody ==
    /\ req[0] = "body"
    /\ IF closed THEN RejectClosed ELSE Hydrate
    /\ UNCHANGED <<server, answer, gapless>>

\* res.json() rejects: no valid JSON, the connection broke, or close() aborted it.
HydrationBodyFails ==
    /\ req[0] = "body"
    /\ TryStoreFallback
    /\ UNCHANGED <<server, answer, gapless>>

\* The fetch rejects before the headers are processed: the timeout fired, the
\* network failed, or close() aborted it.
HydrationFails ==
    /\ req[0] \in {"sent", "answered"}
    /\ IF closed THEN RejectClosed ELSE TryStoreFallback
    /\ UNCHANGED <<server, answer, gapless>>

\* store.load() settles; closed is not looked at and the buffer is not drained.
StoreLoaded ==
    /\ req[0] = "loading"
    /\ \/ /\ store # NoEntries
          /\ cache' = store
          /\ filler' = Nobody
          /\ hydrationComplete' = TRUE
          /\ Settle("resolved")
          /\ HydrationGoes("done")
          /\ UNCHANGED <<stream, closed, sseBuffer, store, told>>
       \/ FailHydration
    /\ UNCHANGED <<server, answer, gapless>>

-----------------------------------------------------------------------------
(* Re-hydration, close() *)

RehydrationGoes(k, label) == req' = [req EXCEPT ![k] = label]

\* Mutant: closed is not looked at when the answer arrives.
RehydrateClosed(k) ==
    IF answer[k].status = "ok"
    THEN PopulateCache(k) /\ UNCHANGED <<closed, hydrationComplete, sseBuffer, ready, store, told>>
    ELSE UNCHANGED client

\* The answer is used unless the client was closed or its status is not ok.
Rehydrate(k) ==
    IF ~closed /\ answer[k].status = "ok"
    THEN PopulateCache(k) /\ UNCHANGED <<closed, hydrationComplete, sseBuffer, ready, store, told>>
    ELSE UNCHANGED client

Rehydrated(k) ==
    /\ k > 0
    /\ req[k] = "answered"
    /\ Rehydrate(k)
    /\ RehydrationGoes(k, "done")
    /\ UNCHANGED <<server, stream, answer, gapless>>

\* .catch: a timeout or a network error leaves the cache as it is.
RehydrationFails(k) ==
    /\ k > 0
    /\ req[k] \in {"sent", "answered"}
    /\ RehydrationGoes(k, "done")
    /\ UNCHANGED <<server, stream, answer, client, gapless>>

Close ==
    /\ ~closed
    /\ closed' = TRUE
    /\ CloseStream
    /\ UNCHANGED <<server, http, hydrationComplete, sseBuffer, cache, ready, store, told, filler, gapless>>

-----------------------------------------------------------------------------
Hydration == HydrationHeaders \/ HydrationBody \/ HydrationBodyFails \/ HydrationFails \/ StoreLoaded

Next ==
    \/ \E f \in Flags, v \in Enabled : Change(f, v)
    \/ \E k \in Requests : Answer(k) \/ Rehydrated(k) \/ RehydrationFails(k)
    \/ Accept \/ Connected \/ Disconnect \/ Redial \/ Terminal \/ Receive
    \/ Hydration
    \/ Close

Spec == Init /\ [][Next]_vars

(***************************************************************************)
(* The hydration timer fires until the headers are there, continuations    *)
(* run, store.load() settles, and a body that close() aborts ends.  Whether *)
(* the server answers, or the rest of an answer arrives at an open client,  *)
(* is up to the network: no timer runs any more (cached-client.ts 298).     *)
(***************************************************************************)
Fairness ==
    /\ WF_vars(HydrationFails \/ HydrationHeaders)
    /\ WF_vars(StoreLoaded)
    /\ WF_vars(closed /\ (HydrationBody \/ HydrationBodyFails))

FairSpec == Spec /\ Fairness

-----------------------------------------------------------------------------
(* Properties *)

\* The request that filled the cache last was answered while the current
\* connection was subscribed, and no event has overtaken its answer.
Covered == hydrationComplete /\ Subscribed /\ filler = attempt /\ filler \in gapless

\* Then the cache and the events under way are exactly the state of the server:
\* nothing was lost between the snapshot and the stream, and nothing older
\* overwrote anything newer, during hydration and after every reconnect.
ExactCache == Covered => Replay(cache, pipe) = row

\* ready can be relied on, whatever hydration, store and close() did before it
\* settled and whatever happens after: once it is resolved the cache has an entry
\* for every flag, and it is rejected only by a client whose SSE connection is
\* closed for good (the doc comments of CachedClient and of ready).
ReadyIsReliable ==
    /\ ready = "resolved" => \A f \in Flags : cache[f] # "none"
    /\ ready = "rejected" => closed /\ conn = "stopped" /\ pipe = <<>>

\* Subscribers and cache agree: unless a re-hydration replaced the cache, the last
\* value a subscriber was told is the value evaluate() returns.
ToldIsCached ==
    filler \in {0, Nobody} => \A f \in Flags : told[f] # "none" => told[f] = cache[f]

\* The doc comment of close(): cached values are retained after close.  Only a
\* store.load() that was under way may still replace them: its continuation does
\* not look at closed.
RetainedAfterClose == [][closed /\ req[0] # "loading" => cache' = cache]_vars

\* Whoever awaits ready is not left hanging by the client: timeouts, errors, the
\* store and close() all settle it, also when close() finds the body of the answer
\* half read.  Only an open client may wait, and only for the rest of a body.
ReadySettlesOrReads ==
    ready = "pending" ~> ready # "pending" \/ (req[0] = "body" /\ ~closed)

\* What the doc comment of ready promises: it resolves when hydration completes and
\* rejects on a timeout during hydration (cached-client.ts 54-57).
ReadySettles == ready = "pending" ~> ready # "pending"
=============================================================================
