------------------------ MODULE JsCachedClientProofs ------------------------
(***************************************************************************)
(* Proofs about JsCachedClient for any set of flags, any number of         *)
(* reconnects and any number of changes.                                   *)
(***************************************************************************)
EXTENDS JsCachedClient, WellFoundedInduction, TLAPS

-----------------------------------------------------------------------------
(* What a sequence of events does to the entry of one flag. *)

\* A nonempty set of positions has a largest one.
LEMMA LargestPosition ==
    ASSUME NEW n \in Nat, NEW S \in SUBSET (1 .. n), S # {}
    PROVE  \E x \in S : \A y \in S : y <= x
<1> DEFINE T == {n - x : x \in S}
<1>1. T \subseteq Nat /\ T # {}
  <2>1. \A x \in 1 .. n : n - x \in Nat
    OBVIOUS
  <2>2. QED
    BY <2>1
<1>2. PICK m \in T : \A k \in T : ~(<<k, m>> \in OpToRel(<, Nat))
  BY <1>1, NatLessThanWellFounded, WFMin
<1>3. \A k \in T : m <= k
  <2> SUFFICES ASSUME NEW k \in T, k < m PROVE FALSE
    BY <1>1
  <2>1. <<k, m>> \in OpToRel(<, Nat)
    BY <1>1 DEF OpToRel
  <2>2. QED
    BY <1>2, <2>1
<1>4. PICK x \in S : m = n - x
  BY <1>2
<1>5. \A y \in S : n - x <= n - y
  BY <1>3, <1>4
<1>6. QED
  BY <1>5

\* CHOOSE in Newest finds the newest event of the flag.
LEMMA NewestIsLast ==
    ASSUME NEW q \in Seq(Event), NEW f, EventsOf(q, f) # {}
    PROVE  /\ Newest(q, f) \in EventsOf(q, f)
           /\ \A j \in EventsOf(q, f) : j <= Newest(q, f)
<1>1. EventsOf(q, f) \in SUBSET (1 .. Len(q)) /\ Len(q) \in Nat
  BY DEF EventsOf
<1>2. \E x \in EventsOf(q, f) : \A j \in EventsOf(q, f) : j <= x
  BY <1>1, LargestPosition
<1>3. QED
  BY <1>2 DEF Newest

\* And it is the only one that is behind all others.
LEMMA NewestIsUnique ==
    ASSUME NEW q \in Seq(Event), NEW f, NEW x \in EventsOf(q, f),
           \A j \in EventsOf(q, f) : j <= x
    PROVE  Newest(q, f) = x
<1>1. Newest(q, f) \in EventsOf(q, f) /\ x <= Newest(q, f) /\ Newest(q, f) <= x
  BY NewestIsLast
<1>2. EventsOf(q, f) \subseteq Nat
  BY DEF EventsOf
<1>3. QED
  BY <1>1, <1>2

\* The entry of flag f, v before the events q, after them.
After(v, q, f) == IF v = "none" \/ EventsOf(q, f) = {} THEN v ELSE q[Newest(q, f)].enabled

\* An event leaves an entry an entry, and does not make one.
LEMMA AfterTyped ==
    ASSUME NEW q \in Seq(Event), NEW f, NEW v \in CacheValue
    PROVE  /\ After(v, q, f) \in CacheValue
           /\ v = "none" <=> After(v, q, f) = "none"
<1>1. CASE v = "none" \/ EventsOf(q, f) = {}
  BY <1>1 DEF After
<1>2. CASE v # "none" /\ EventsOf(q, f) # {}
  <2>1. Newest(q, f) \in DOMAIN q
    BY <1>2, NewestIsLast DEF EventsOf
  <2>2. q[Newest(q, f)] \in Event
    BY <2>1
  <2>3. q[Newest(q, f)].enabled \in Enabled
    BY <2>2 DEF Event
  <2>4. QED
    BY <1>2, <2>3 DEF After, CacheValue, Enabled
<1>3. QED
  BY <1>1, <1>2

LEMMA AfterNothing == ASSUME NEW v, NEW f PROVE After(v, <<>>, f) = v
BY DEF After, EventsOf

LEMMA AfterOne ==
    ASSUME NEW v, NEW f, NEW e \in Event
    PROVE  After(v, <<e>>, f) = IF v = "none" \/ e.flag # f THEN v ELSE e.enabled
<1>1. <<e>> \in Seq(Event) /\ DOMAIN <<e>> = {1} /\ <<e>>[1] = e
  OBVIOUS
<1>2. CASE e.flag = f
  <2>1. EventsOf(<<e>>, f) = {1}
    BY <1>1, <1>2 DEF EventsOf
  <2>2. Newest(<<e>>, f) \in {1}
    BY <1>1, <2>1, NewestIsLast
  <2>3. QED
    BY <1>1, <1>2, <2>1, <2>2 DEF After
<1>3. CASE e.flag # f
  BY <1>1, <1>3 DEF After, EventsOf
<1>4. QED
  BY <1>2, <1>3

\* The events of one sequence, then those of another: the events of both.
LEMMA AfterConcat ==
    ASSUME NEW v \in CacheValue, NEW f, NEW a \in Seq(Event), NEW b \in Seq(Event)
    PROVE  After(v, a \o b, f) = After(After(v, a, f), b, f)
<1> DEFINE c == a \o b
<1>1. /\ c \in Seq(Event) /\ Len(a) \in Nat /\ Len(b) \in Nat
      /\ DOMAIN a = 1 .. Len(a) /\ DOMAIN b = 1 .. Len(b) /\ DOMAIN c = 1 .. Len(a) + Len(b)
  OBVIOUS
<1>2. \A i \in 1 .. Len(a) : c[i] = a[i] /\ i \in 1 .. Len(a) + Len(b)
  OBVIOUS
<1>3. \A j \in 1 .. Len(b) : c[Len(a) + j] = b[j] /\ Len(a) + j \in 1 .. Len(a) + Len(b)
  OBVIOUS
<1>4. \A i \in 1 .. Len(a) + Len(b) : i \notin 1 .. Len(a) =>
         i - Len(a) \in 1 .. Len(b) /\ i = Len(a) + (i - Len(a))
  BY <1>1
<1> HIDE DEF c
<1>5. CASE v = "none"
  BY <1>5 DEF After
<1>6. CASE v # "none" /\ EventsOf(b, f) # {}
  <2> DEFINE n == Newest(b, f)
  <2>1. n \in EventsOf(b, f) /\ \A j \in EventsOf(b, f) : j <= n
    BY <1>6, NewestIsLast
  <2>2. n \in 1 .. Len(b) /\ b[n].flag = f
    BY <1>1, <2>1 DEF EventsOf
  <2> HIDE DEF n
  <2>3. Len(a) + n \in EventsOf(c, f)
    BY <1>1, <1>3, <2>2 DEF EventsOf
  <2>4. ASSUME NEW i \in EventsOf(c, f) PROVE i <= Len(a) + n
    <3>1. i \in 1 .. Len(a) + Len(b) /\ c[i].flag = f
      BY <1>1 DEF EventsOf
    <3>2. CASE i \in 1 .. Len(a)
      BY <1>1, <2>2, <3>2
    <3>3. CASE i \notin 1 .. Len(a)
      <4>1. i - Len(a) \in EventsOf(b, f)
        BY <1>1, <1>3, <1>4, <3>1, <3>3 DEF EventsOf
      <4>2. i - Len(a) <= n
        BY <2>1, <4>1
      <4>3. QED
        BY <1>1, <2>2, <3>1, <4>2
    <3>4. QED
      BY <3>2, <3>3
  <2>5. Newest(c, f) = Len(a) + n
    BY <1>1, <2>3, <2>4, NewestIsUnique
  <2>6. After(v, c, f) = b[n].enabled
    BY <1>3, <1>6, <2>2, <2>3, <2>5 DEF After
  <2>7. After(v, a, f) # "none"
    BY <1>6, AfterTyped
  <2>8. QED
    BY <1>6, <2>6, <2>7 DEF After, n, c
<1>7. CASE v # "none" /\ EventsOf(b, f) = {}
  <2>1. EventsOf(c, f) = EventsOf(a, f)
    <3>1. ASSUME NEW i \in EventsOf(c, f) PROVE i \in EventsOf(a, f)
      <4>1. i \in 1 .. Len(a) + Len(b) /\ c[i].flag = f
        BY <1>1 DEF EventsOf
      <4>2. i \in 1 .. Len(a)
        <5> SUFFICES ASSUME i \notin 1 .. Len(a) PROVE FALSE
          OBVIOUS
        <5>1. i - Len(a) \in EventsOf(b, f)
          BY <1>1, <1>3, <1>4, <4>1 DEF EventsOf
        <5>2. QED
          BY <1>7, <5>1
      <4>3. QED
        BY <1>1, <1>2, <4>1, <4>2 DEF EventsOf
    <3>2. ASSUME NEW i \in EventsOf(a, f) PROVE i \in EventsOf(c, f)
      BY <1>1, <1>2 DEF EventsOf
    <3>3. QED
      BY <3>1, <3>2
  <2>2. After(v, c, f) = After(v, a, f)
    <3>1. CASE EventsOf(a, f) = {}
      BY <2>1, <3>1 DEF After
    <3>2. CASE EventsOf(a, f) # {}
      <4>1. Newest(c, f) = Newest(a, f)
        BY <2>1 DEF Newest
      <4>2. Newest(a, f) \in 1 .. Len(a)
        BY <1>1, <3>2, NewestIsLast DEF EventsOf
      <4>3. QED
        BY <1>2, <2>1, <4>1, <4>2 DEF After
    <3>3. QED
      BY <3>1, <3>2
  <2>3. QED
    BY <1>7, <2>2 DEF After, c
<1>8. QED
  BY <1>5, <1>6, <1>7

\* What events leave behind depends on the entry before only if none is the flag's.
LEMMA AfterForgets ==
    ASSUME NEW v, NEW w, NEW f, NEW q, v # "none", w # "none"
    PROVE  After(v, q, f) = After(w, q, f) \/ After(v, q, f) = v
BY DEF After

\* One more event at the end.
LEMMA AfterAppend ==
    ASSUME NEW v \in CacheValue, NEW f, NEW q \in Seq(Event), NEW e \in Event
    PROVE  After(v, Append(q, e), f) =
             IF v = "none" \/ e.flag # f THEN After(v, q, f) ELSE e.enabled
<1>1. Append(q, e) = q \o <<e>> /\ <<e>> \in Seq(Event)
  OBVIOUS
<1>2. After(v, q \o <<e>>, f) = After(After(v, q, f), <<e>>, f)
  BY <1>1, AfterConcat, Zenon
<1>3. After(v, Append(q, e), f) = After(After(v, q, f), <<e>>, f)
  BY <1>1, <1>2, Zenon
<1>4. QED
  BY <1>3, AfterOne, AfterTyped

\* The first event, then the others.
LEMMA AfterHead ==
    ASSUME NEW v \in CacheValue, NEW f, NEW q \in Seq(Event), q # <<>>
    PROVE  After(v, q, f) = After(After(v, <<Head(q)>>, f), Tail(q), f)
<1>1. q = <<Head(q)>> \o Tail(q) /\ <<Head(q)>> \in Seq(Event) /\ Tail(q) \in Seq(Event)
  OBVIOUS
<1>2. After(v, <<Head(q)>> \o Tail(q), f) = After(After(v, <<Head(q)>>, f), Tail(q), f)
  BY <1>1, AfterConcat, Zenon
<1>3. QED
  BY <1>1, <1>2, Zenon

\* Replay does this to every entry of the cache.
LEMMA ReplayIsAfter ==
    ASSUME NEW c, NEW q
    PROVE  Replay(c, q) = [f \in Flags |-> After(c[f], q, f)]
BY DEF Replay, After

-----------------------------------------------------------------------------
(* Types. *)

LEMMA ReplayTyped ==
    ASSUME NEW c \in [Flags -> CacheValue], NEW q \in Seq(Event)
    PROVE  /\ Replay(c, q) \in [Flags -> CacheValue]
           /\ \A f \in Flags : Replay(c, q)[f] = After(c[f], q, f)
<1>1. Replay(c, q) = [f \in Flags |-> After(c[f], q, f)]
  BY ReplayIsAfter
<1>2. \A f \in Flags : After(c[f], q, f) \in CacheValue
  BY AfterTyped
<1>3. QED
  BY <1>1, <1>2

\* Subscribers are told the new entry, or what they knew if it is the old one.
Told(c, q, f) ==
    \/ Notify(c, q)[f] = After(c[f], q, f)
    \/ Notify(c, q)[f] = told[f] /\ After(c[f], q, f) = c[f]

\* Subscribers are told what the cache holds after the events that concern it.
LEMMA NotifyTyped ==
    ASSUME told \in [Flags -> CacheValue], NEW c \in [Flags -> CacheValue], NEW q \in Seq(Event)
    PROVE  /\ Notify(c, q) \in [Flags -> CacheValue]
           /\ \A f \in Flags : Told(c, q, f)
<1>1. ASSUME NEW f \in Flags PROVE Told(c, q, f)
  <2>1. Notify(c, q)[f] = IF c[f] = "none" \/ EventsOf(q, f) = {} THEN told[f]
                          ELSE q[Newest(q, f)].enabled
    BY DEF Notify
  <2>2. CASE c[f] = "none" \/ EventsOf(q, f) = {}
    BY <2>1, <2>2 DEF After, Told
  <2>3. CASE ~(c[f] = "none" \/ EventsOf(q, f) = {})
    <3>1. After(c[f], q, f) = q[Newest(q, f)].enabled
      BY <2>3 DEF After
    <3>2. Notify(c, q)[f] = q[Newest(q, f)].enabled
      BY <2>1, <2>3
    <3>3. QED
      BY <3>1, <3>2 DEF Told
  <2>4. QED
    BY <2>2, <2>3
<1>2. \A f \in Flags : After(c[f], q, f) \in CacheValue
  BY AfterTyped
<1>3. \A f \in Flags : Notify(c, q)[f] \in CacheValue
  BY <1>1, <1>2 DEF Told
<1>4. QED
  BY <1>1, <1>3 DEF Notify

\* Receiving takes an event off the pipe.
LEMMA PipeTyped ==
    ASSUME NEW q \in Seq(Event), q # <<>>
    PROVE  Head(q) \in Event /\ Tail(q) \in Seq(Event) /\ <<Head(q)>> \in Seq(Event)
OBVIOUS

LEMMA NoEntriesTyped == NoEntries \in [Flags -> CacheValue]
BY DEF NoEntries, CacheValue

\* What the actions of the client do to its own variables has the right types.
ClientTypeOK ==
    /\ closed \in BOOLEAN
    /\ hydrationComplete \in BOOLEAN
    /\ sseBuffer \in Seq(Event)
    /\ cache \in [Flags -> CacheValue]
    /\ ready \in {"pending", "resolved", "rejected"}
    /\ store \in [Flags -> CacheValue]
    /\ told \in [Flags -> CacheValue]
    /\ filler \in Requests \cup {Nobody}

LEMMA OnFlagChangeTyped ==
    ASSUME ClientTypeOK, NEW e \in Event, OnFlagChange(e)
    PROVE  ClientTypeOK'
<1>1. CASE closed
  BY <1>1 DEF OnFlagChange, client, ClientTypeOK
<1>2. CASE ~closed /\ ~hydrationComplete
  BY <1>2 DEF OnFlagChange, ClientTypeOK
<1>3. CASE ~closed /\ hydrationComplete
  <2>1. <<e>> \in Seq(Event)
    OBVIOUS
  <2>2. cache' = Replay(cache, <<e>>) /\ told' = Notify(cache, <<e>>)
    BY <1>3 DEF OnFlagChange, ApplyCacheEvent
  <2>3. cache' \in [Flags -> CacheValue] /\ told' \in [Flags -> CacheValue]
    BY <2>1, <2>2, ReplayTyped, NotifyTyped DEF ClientTypeOK
  <2>4. store' \in [Flags -> CacheValue]
    BY <1>3, <2>3 DEF OnFlagChange, ApplyCacheEvent, Save, ClientTypeOK
  <2>5. QED
    BY <1>3, <2>3, <2>4 DEF OnFlagChange, ClientTypeOK
<1>4. QED
  BY <1>1, <1>2, <1>3

\* An answer that has arrived has a status.
Answered == \A k \in Requests : req[k] = "answered" => answer[k].status # "none"

\* The fallback to what the store held.
UseStore ==
    /\ store # NoEntries
    /\ cache' = store
    /\ filler' = Nobody
    /\ hydrationComplete' = TRUE
    /\ Settle("resolved")
    /\ HydrationGoes("done")
    /\ UNCHANGED <<stream, closed, sseBuffer, store, told>>

\* The ways a continuation of the hydration can go on.
LEMMA HydrationCases ==
    ASSUME TypeOK, Answered, Hydration
    PROVE  /\ UNCHANGED <<server, answer, gapless>>
           /\ req[0] \in {"sent", "answered", "body", "loading"}
           /\ \/ closed /\ RejectClosed
              \/ FailHydration
              \/ TryStoreFallback
              \/ /\ answer[0].status = "ok" /\ HydrationGoes("body")
                 /\ UNCHANGED <<stream, client>>
              \/ req[0] = "body" /\ ~closed /\ Hydrate
              \/ req[0] = "loading" /\ UseStore
<1>1. CASE HydrationHeaders
  <2>1. req[0] = "answered" /\ UNCHANGED <<server, answer, gapless>>
    BY <1>1 DEF HydrationHeaders
  <2>2. 0 \in Requests
    BY BoundsAssumption DEF Requests
  <2>3. answer[0].status \in {"ok", "auth", "failed"}
    BY <2>1, <2>2 DEF Answered, TypeOK
  <2>4. CASE closed
    BY <1>1, <2>1, <2>4 DEF HydrationHeaders
  <2>5. CASE ~closed
    <3>1. CASE answer[0].status = "ok"
      BY <1>1, <2>1, <2>5, <3>1 DEF HydrationHeaders
    <3>2. CASE answer[0].status = "auth"
      BY <1>1, <2>1, <2>5, <3>2 DEF HydrationHeaders
    <3>3. CASE answer[0].status = "failed"
      BY <1>1, <2>1, <2>5, <3>3 DEF HydrationHeaders
    <3>4. QED
      BY <2>3, <3>1, <3>2, <3>3
  <2>6. QED
    BY <2>4, <2>5
<1>2. CASE HydrationBody
  BY <1>2 DEF HydrationBody
<1>3. CASE HydrationBodyFails \/ HydrationFails
  BY <1>3 DEF HydrationBodyFails, HydrationFails
<1>4. CASE StoreLoaded
  BY <1>4 DEF StoreLoaded, UseStore
<1>5. QED
  BY <1>1, <1>2, <1>3, <1>4 DEF Hydration

\* Every value has its type, and a connection that is not up carries nothing.
THEOREM TypeCorrect == Spec => [](TypeOK /\ Answered)
<1>1. Init => TypeOK /\ Answered
  <2> SUFFICES ASSUME Init PROVE TypeOK /\ Answered
    OBVIOUS
  <2>1. 0 \in 0 .. MaxAttempts /\ 0 \in 0 .. MaxChanges
    BY BoundsAssumption
  <2>2. store \in [Flags -> CacheValue]
    BY NoEntriesTyped DEF Init, CacheValue
  <2>3. Answered
    BY DEF Init, Answered
  <2>4. req \in [Requests -> {"idle", "sent", "answered", "body", "loading", "done"}]
    BY DEF Init
  <2>5. answer \in [Requests -> [status : {"none", "ok", "auth", "failed"},
                                 flags : [Flags -> CacheValue]]]
    BY NoEntriesTyped DEF Init
  <2>6. TypeOK
    <3>1. <<>> \in Seq(Event)
      OBVIOUS
    <3>2. ClientTypeOK
      BY <2>2, <3>1, NoEntriesTyped DEF Init, ClientTypeOK
    <3>3. changes \in 0 .. MaxChanges /\ attempt \in 0 .. MaxAttempts
      BY <2>1 DEF Init
    <3>4. /\ row \in [Flags -> Enabled] /\ conn = "dialing" /\ pipe = <<>> /\ gapless = {}
      BY DEF Init
    <3>5. QED
      BY <2>4, <2>5, <3>1, <3>2, <3>3, <3>4 DEF TypeOK, ClientTypeOK
  <2>7. QED
    BY <2>3, <2>6
<1>2. TypeOK /\ Answered /\ [Next]_vars => TypeOK'
  <2> SUFFICES ASSUME TypeOK, Answered, [Next]_vars PROVE TypeOK'
    OBVIOUS
  <2>0. ClientTypeOK
    BY DEF TypeOK, ClientTypeOK
  <2>1. ASSUME NEW f \in Flags, NEW v \in Enabled, Change(f, v) PROVE TypeOK'
    <3>1. [flag |-> f, enabled |-> v] \in Event
      BY DEF Event
    <3>2. changes' \in 0 .. MaxChanges
      <4>1. changes \in 0 .. MaxChanges /\ changes < MaxChanges /\ changes' = changes + 1
        BY <2>1 DEF Change, TypeOK
      <4>2. QED
        BY <4>1, BoundsAssumption
    <3>3. /\ row' = [row EXCEPT ![f] = v] /\ UNCHANGED <<conn, attempt, http, client, gapless>>
          /\ pipe' = IF conn \in {"accepted", "open"}
                     THEN Append(pipe, [flag |-> f, enabled |-> v]) ELSE pipe
      BY <2>1 DEF Change, Subscribed
    <3>4. pipe' \in Seq(Event)
      BY <3>1, <3>3 DEF TypeOK
    <3>5. QED
      BY <3>2, <3>3, <3>4 DEF TypeOK, http, client
  <2>2. ASSUME NEW k \in Requests, Answer(k) PROVE TypeOK'
    <3>1. PICK status \in {"ok", "auth", "failed"} : answer' = [answer EXCEPT ![k] =
             [status |-> status, flags |-> IF status = "ok" THEN row ELSE NoEntries]]
      BY <2>2 DEF Answer
    <3>2. (IF status = "ok" THEN row ELSE NoEntries) \in [Flags -> CacheValue]
      BY NoEntriesTyped DEF TypeOK, CacheValue
    <3>3. answer' \in [Requests -> [status : {"none", "ok", "auth", "failed"},
                                    flags : [Flags -> CacheValue]]]
      BY <3>1, <3>2 DEF TypeOK
    <3>4. QED
      BY <2>2, <3>3 DEF Answer, TypeOK, server, stream, client
  <2>3. ASSUME NEW k \in Requests, Rehydrated(k) PROVE TypeOK'
    <3>1. \/ UNCHANGED client
          \/ /\ cache' = answer[k].flags /\ filler' = k
             /\ UNCHANGED <<closed, hydrationComplete, sseBuffer, ready, store, told>>
      BY <2>3 DEF Rehydrated, Rehydrate, PopulateCache
    <3>2. answer[k].flags \in [Flags -> CacheValue]
      BY DEF TypeOK
    <3>3. ClientTypeOK'
      BY <2>0, <3>1, <3>2 DEF ClientTypeOK, client
    <3>4. req' = [req EXCEPT ![k] = "done"] /\ UNCHANGED <<server, stream, answer, gapless>>
      BY <2>3 DEF Rehydrated, RehydrationGoes
    <3>5. QED
      BY <3>3, <3>4 DEF TypeOK, ClientTypeOK, server, stream
  <2>4. ASSUME NEW k \in Requests, RehydrationFails(k) PROVE TypeOK'
    BY <2>4 DEF RehydrationFails, RehydrationGoes, TypeOK, server, stream, client
  <2>5. CASE Accept \/ Redial \/ Terminal
    BY <2>5 DEF Accept, Redial, Terminal, TypeOK, server, http, client
  <2>6. CASE Connected
    BY <2>6, BoundsAssumption DEF Connected, TypeOK, server, client, Requests
  <2>7. CASE Disconnect
    <3>1. attempt' \in 0 .. MaxAttempts
      <4>1. attempt \in 0 .. MaxAttempts /\ attempt < MaxAttempts /\ attempt' = attempt + 1
        BY <2>7 DEF Disconnect, TypeOK
      <4>2. QED
        BY <4>1, BoundsAssumption
    <3>2. QED
      BY <2>7, <3>1 DEF Disconnect, TypeOK, server, http, client
  <2>8. CASE Receive
    <3>1. /\ pipe # <<>> /\ conn = "open" /\ pipe' = Tail(pipe) /\ OnFlagChange(Head(pipe))
          /\ gapless' \subseteq gapless /\ UNCHANGED <<server, conn, attempt, http>>
      BY <2>8 DEF Receive
    <3>2. Head(pipe) \in Event /\ Tail(pipe) \in Seq(Event)
      BY <3>1, PipeTyped DEF TypeOK
    <3>3. ClientTypeOK'
      BY <2>0, <3>1, <3>2, OnFlagChangeTyped
    <3>4. QED
      BY <3>1, <3>2, <3>3 DEF TypeOK, ClientTypeOK, server, http
  <2>9. CASE Hydration
    <3>1. /\ UNCHANGED <<server, answer, gapless>>
          /\ \E label \in {"body", "loading", "done"} : req' = [req EXCEPT ![0] = label]
          /\ UNCHANGED stream \/ CloseStream
      BY <2>9, HydrationCases
      DEF RejectClosed, FailHydration, TryStoreFallback, Hydrate, UseStore, HydrationGoes
    <3>2. ClientTypeOK'
      <4>1. CASE Hydrate
        <5>1. answer[0].flags \in [Flags -> CacheValue] /\ 0 \in Requests
          BY BoundsAssumption DEF TypeOK, Requests
        <5>2. cache' \in [Flags -> CacheValue] /\ told' \in [Flags -> CacheValue]
          BY <2>0, <4>1, <5>1, ReplayTyped, NotifyTyped DEF Hydrate, ClientTypeOK
        <5>3. store' \in [Flags -> CacheValue]
          BY <2>0, <4>1, <5>2 DEF Hydrate, Save, ClientTypeOK
        <5>4. QED
          BY <2>0, <4>1, <5>1, <5>2, <5>3 DEF Hydrate, Settle, ClientTypeOK
      <4>2. CASE UseStore
        BY <2>0, <4>2 DEF ClientTypeOK, UseStore, Settle
      <4>3. CASE UNCHANGED client
        BY <2>0, <4>3 DEF ClientTypeOK, client
      <4>4. CASE RejectClosed \/ FailHydration
        BY <2>0, <4>4 DEF ClientTypeOK, RejectClosed, FailHydration, Settle
      <4>5. QED
        BY <2>9, <4>1, <4>2, <4>3, <4>4, HydrationCases DEF TryStoreFallback
    <3>3. /\ conn' \in {"dialing", "accepted", "open", "backoff", "stopped"}
          /\ attempt' \in 0 .. MaxAttempts /\ pipe' \in Seq(Event)
          /\ conn' \notin {"accepted", "open"} => pipe' = <<>>
      <4>1. CASE UNCHANGED stream
        BY <4>1 DEF TypeOK, stream
      <4>2. CASE CloseStream
        BY <4>2 DEF TypeOK, CloseStream
      <4>3. QED
        BY <3>1, <4>1, <4>2
    <3>4. /\ req' \in [Requests -> {"idle", "sent", "answered", "body", "loading", "done"}]
          /\ UNCHANGED <<row, changes, answer, gapless>>
      BY <3>1 DEF TypeOK, server
    <3>5. QED
      BY <3>2, <3>3, <3>4 DEF TypeOK, ClientTypeOK
  <2>10. CASE Close
    BY <2>10 DEF Close, CloseStream, TypeOK, server, http
  <2>11. CASE UNCHANGED vars
    BY <2>11 DEF vars, TypeOK, server, stream, http, client
  <2>12. QED
    BY <2>1, <2>2, <2>3, <2>4, <2>5, <2>6, <2>7, <2>8, <2>9, <2>10, <2>11 DEF Next
<1>3. TypeOK /\ Answered /\ [Next]_vars => Answered'
  <2> SUFFICES ASSUME TypeOK, Answered, [Next]_vars PROVE Answered'
    OBVIOUS
  <2>1. ASSUME NEW k \in Requests, Answer(k) PROVE Answered'
    <3>1. PICK status \in {"ok", "auth", "failed"} : answer' = [answer EXCEPT ![k] =
             [status |-> status, flags |-> IF status = "ok" THEN row ELSE NoEntries]]
      BY <2>1 DEF Answer
    <3>2. answer'[k].status # "none" /\ \A l \in Requests : l # k => answer'[l] = answer[l]
      BY <3>1 DEF TypeOK
    <3>3. req' = [req EXCEPT ![k] = "answered"]
      BY <2>1 DEF Answer
    <3>4. QED
      BY <3>2, <3>3 DEF Answered, TypeOK
  <2>2. ASSUME UNCHANGED answer, \A k \in Requests : req'[k] = "answered" => req[k] = "answered"
        PROVE  Answered'
    BY <2>2 DEF Answered
  <2>3. CASE Hydration
    <3>1. PICK label \in {"body", "loading", "done"} : req' = [req EXCEPT ![0] = label]
      BY <2>3, HydrationCases
      DEF RejectClosed, FailHydration, TryStoreFallback, Hydrate, UseStore, HydrationGoes
    <3>2. UNCHANGED answer
      BY <2>3, HydrationCases
    <3>3. QED
      BY <2>2, <3>1, <3>2 DEF TypeOK
  <2>4. ASSUME NEW k \in Requests, Rehydrated(k) \/ RehydrationFails(k) PROVE Answered'
    BY <2>2, <2>4 DEF Rehydrated, RehydrationFails, RehydrationGoes, TypeOK
  <2>5. CASE Connected
    BY <2>2, <2>5 DEF Connected, TypeOK
  <2>6. CASE UNCHANGED http
    BY <2>2, <2>6 DEF http
  <2>7. QED
    BY <2>1, <2>3, <2>4, <2>5, <2>6
    DEF Next, vars, Change, Accept, Disconnect, Redial, Terminal, Receive, Close
<1>4. QED
  BY <1>1, <1>2, <1>3, PTL DEF Spec

-----------------------------------------------------------------------------
(***************************************************************************)
(* Which request belongs to which connection.  A closed client has no      *)
(* connection; the re-hydration of an attempt starts when its connection   *)
(* is open; an answer counts as gapless only on the connection it belongs  *)
(* to; and a request that has filled the cache is done.                    *)
(***************************************************************************)
NotStarted(k) == k > attempt \/ (k = attempt /\ conn \in {"dialing", "accepted", "backoff"})

PhaseInv ==
    /\ closed => conn = "stopped"
    /\ \A k \in Requests : k > 0 /\ NotStarted(k) => req[k] = "idle"
    /\ \A k \in gapless : k <= attempt
    /\ conn \in {"dialing", "backoff"} => attempt \notin gapless
    /\ filler \in Requests => req[filler] = "done"
    /\ hydrationComplete => req[0] = "done"
    /\ req[0] = "body" => answer[0].status = "ok"

LEMMA Numbers ==
    ASSUME TypeOK
    PROVE  /\ attempt \in Nat /\ attempt \in Requests /\ 0 \in Requests
           /\ \A k \in Requests : k \in Nat
           /\ Nobody \notin Requests
BY BoundsAssumption DEF TypeOK, Requests, Nobody

\* The hydration moves on and leaves the other requests alone.
LEMMA HydrationMoves ==
    ASSUME TypeOK, NEW label, HydrationGoes(label)
    PROVE  req'[0] = label /\ \A k \in Requests : k # 0 => req'[k] = req[k]
BY Numbers DEF HydrationGoes, TypeOK

LEMMA PhasesKept ==
    ASSUME TypeOK, Answered, PhaseInv, [Next]_vars
    PROVE  PhaseInv'
<1> USE DEF PhaseInv
<1>0. /\ attempt \in Nat /\ attempt \in Requests /\ 0 \in Requests
      /\ \A k \in Requests : k \in Nat
  BY Numbers
<1>1. ASSUME NEW f \in Flags, NEW v \in Enabled, Change(f, v) PROVE PhaseInv'
  BY <1>1 DEF Change, http, client, NotStarted
<1>2. ASSUME NEW k \in Requests, Answer(k) PROVE PhaseInv'
  <2>1. /\ req[k] = "sent" /\ req' = [req EXCEPT ![k] = "answered"]
        /\ UNCHANGED <<conn, attempt, closed, filler, hydrationComplete>>
        /\ gapless' = IF Subscribed /\ k = attempt THEN gapless \cup {k} ELSE gapless
    BY <1>2 DEF Answer, stream, client
  <2>2. req'[k] = "answered" /\ \A l \in Requests : l # k => req'[l] = req[l]
    BY <2>1 DEF TypeOK
  <2>3. answer'[0].status = answer[0].status \/ k = 0
    BY <1>0, <1>2 DEF Answer, TypeOK
  <2>4. \A l \in gapless' : l <= attempt
    BY <1>0, <2>1
  <2>5. conn \in {"dialing", "backoff"} => attempt \notin gapless'
    BY <2>1 DEF Subscribed
  <2>6. \A l \in Requests : l > 0 /\ NotStarted(l)' => req'[l] = "idle"
    <3>1. \A l \in Requests : NotStarted(l)' <=> NotStarted(l)
      BY <2>1 DEF NotStarted
    <3>2. k > 0 => ~NotStarted(k)
      BY <2>1
    <3>3. QED
      BY <2>2, <3>1, <3>2
  <2>7. QED
    BY <1>0, <2>1, <2>2, <2>3, <2>4, <2>5, <2>6
<1>3. ASSUME NEW k \in Requests, Rehydrated(k) \/ RehydrationFails(k) PROVE PhaseInv'
  <2>1. /\ k > 0 /\ req[k] \in {"sent", "answered"} /\ req' = [req EXCEPT ![k] = "done"]
        /\ UNCHANGED <<conn, attempt, closed, hydrationComplete, gapless, answer>>
        /\ filler' \in {filler, k}
    BY <1>3
    DEF Rehydrated, RehydrationFails, RehydrationGoes, Rehydrate, PopulateCache, stream, client
  <2>2. req'[k] = "done" /\ \A l \in Requests : l # k => req'[l] = req[l]
    BY <2>1 DEF TypeOK
  <2>3. \A l \in Requests : NotStarted(l)' <=> NotStarted(l)
    BY <2>1 DEF NotStarted
  <2>4. ~NotStarted(k)
    BY <2>1
  <2>5. QED
    BY <1>0, <2>1, <2>2, <2>3, <2>4
<1>4. CASE Accept \/ Redial \/ Terminal
  BY <1>4 DEF Accept, Redial, Terminal, http, client, NotStarted
<1>5. CASE Connected
  <2>1. /\ conn = "accepted" /\ conn' = "open" /\ UNCHANGED <<attempt, answer, gapless>>
        /\ UNCHANGED <<closed, hydrationComplete, filler>>
        /\ req' = req \/ (attempt > 0 /\ req' = [req EXCEPT ![attempt] = "sent"])
    BY <1>5 DEF Connected, client
  <2>2. attempt > 0 => req[attempt] = "idle"
    BY <1>0, <2>1 DEF NotStarted
  <2>3. \A l \in Requests : l # attempt => req'[l] = req[l]
    BY <2>1 DEF TypeOK
  <2>4. \A l \in Requests : NotStarted(l)' => l # attempt /\ NotStarted(l)
    BY <1>0, <2>1 DEF NotStarted
  <2>5. req'[0] = req[0]
    BY <1>0, <2>1 DEF TypeOK
  <2>6. ASSUME filler \in Requests PROVE req'[filler] = "done"
    <3>1. req[filler] = "done"
      BY <2>6
    <3>2. CASE filler = attempt
      BY <1>0, <2>2, <2>5, <3>1, <3>2
    <3>3. CASE filler # attempt
      BY <2>3, <2>6, <3>1, <3>3
    <3>4. QED
      BY <3>2, <3>3
  <2>7. QED
    BY <2>1, <2>3, <2>4, <2>5, <2>6
<1>6. CASE Disconnect
  <2>1. /\ conn' = "backoff" /\ attempt' = attempt + 1 /\ conn # "stopped"
        /\ UNCHANGED <<closed, hydrationComplete, filler, req, answer, gapless>>
    BY <1>6 DEF Disconnect, http, client
  <2>2. ASSUME NEW l \in Requests, NotStarted(l)' PROVE NotStarted(l)
    <3>1. l > attempt + 1 \/ l = attempt + 1
      BY <2>1, <2>2 DEF NotStarted
    <3>2. l > attempt
      BY <1>0, <3>1
    <3>3. QED
      BY <3>2 DEF NotStarted
  <2>3. \A l \in gapless : l \in Nat /\ l <= attempt
    BY <1>0 DEF TypeOK
  <2>4. (\A l \in gapless : l <= attempt + 1) /\ attempt + 1 \notin gapless
    BY <1>0, <2>3
  <2>5. QED
    BY <2>1, <2>2, <2>4
<1>7. CASE Receive
  <2>1. /\ conn = "open" /\ gapless' \subseteq gapless
        /\ UNCHANGED <<conn, attempt, req, answer, closed, hydrationComplete, filler>>
    BY <1>7 DEF Receive, OnFlagChange, ApplyCacheEvent, client, http
  <2>2. QED
    BY <2>1 DEF NotStarted
<1>8. CASE Hydration
  <2>1. UNCHANGED <<answer, gapless>> /\ ~hydrationComplete /\ filler # 0
    BY <1>0, <1>8, HydrationCases
  <2>2. ASSUME NEW label, HydrationGoes(label), attempt' = attempt,
               conn' = conn \/ conn' = "stopped",
               closed' => conn' = "stopped",
               hydrationComplete' \/ filler' = 0 => label = "done",
               filler' \in {filler, 0, Nobody},
               label = "body" => answer[0].status = "ok"
        PROVE  PhaseInv'
    <3>1. req'[0] = label /\ \A l \in Requests : l # 0 => req'[l] = req[l]
      BY <2>2, HydrationMoves
    <3>2. \A l \in Requests : l > 0 /\ NotStarted(l)' => req'[l] = "idle"
      <4>1. \A l \in Requests : NotStarted(l)' => NotStarted(l)
        BY <2>2 DEF NotStarted
      <4>2. \A l \in Requests : l > 0 => l # 0
        OBVIOUS
      <4>3. QED
        BY <3>1, <4>1, <4>2
    <3>3. filler' \in Requests => req'[filler'] = "done"
      BY <2>2, <3>1, Numbers
    <3>4. conn' \in {"dialing", "backoff"} => attempt' \notin gapless'
      BY <2>1, <2>2
    <3>5. \A l \in gapless' : l <= attempt'
      BY <2>1, <2>2
    <3>6. QED
      BY <2>1, <2>2, <3>1, <3>2, <3>3, <3>4, <3>5
  <2>3. CASE closed /\ RejectClosed
    BY <2>1, <2>2, <2>3 DEF RejectClosed, stream
  <2>4. CASE FailHydration
    BY <2>1, <2>2, <2>4 DEF FailHydration, CloseStream
  <2>5. CASE TryStoreFallback
    BY <2>1, <2>2, <2>5 DEF TryStoreFallback, stream, client
  <2>6. CASE answer[0].status = "ok" /\ HydrationGoes("body") /\ UNCHANGED <<stream, client>>
    BY <2>1, <2>2, <2>6 DEF stream, client
  <2>7. CASE Hydrate
    BY <2>1, <2>2, <2>7 DEF Hydrate, stream
  <2>8. CASE UseStore
    BY <2>1, <2>2, <2>8 DEF UseStore, stream
  <2>9. QED
    BY <1>8, <2>3, <2>4, <2>5, <2>6, <2>7, <2>8, HydrationCases
<1>9. CASE Close
  BY <1>9 DEF Close, CloseStream, http, NotStarted
<1>10. CASE UNCHANGED vars
  BY <1>10 DEF vars, stream, http, client, NotStarted
<1>11. QED
  BY <1>1, <1>2, <1>3, <1>4, <1>5, <1>6, <1>7, <1>8, <1>9, <1>10 DEF Next

\* Requests and connections stay matched.
LEMMA PhasesHold == Spec => []PhaseInv
<1>1. Init => PhaseInv
  BY BoundsAssumption DEF Init, PhaseInv, NotStarted, Requests, Nobody
<1>2. TypeOK /\ Answered /\ PhaseInv /\ [Next]_vars => PhaseInv'
  BY PhasesKept
<1>3. QED
  BY <1>1, <1>2, TypeCorrect, PTL DEF Spec

-----------------------------------------------------------------------------
(***************************************************************************)
(* What the cache holds.  Every answer and every store a cache is filled   *)
(* from has an entry for every flag, so a cache that was filled once keeps *)
(* one for every flag; subscribers are told nothing before that.           *)
(***************************************************************************)
Full(c) == \A f \in Flags : c[f] # "none"

ValueInv ==
    /\ \A k \in Requests : answer[k].status = "ok" => Full(answer[k].flags)
    /\ store = NoEntries \/ Full(store)
    /\ hydrationComplete => Full(cache)
    /\ ready = "resolved" => hydrationComplete
    /\ ready = "rejected" => closed
    /\ ~hydrationComplete => told = NoEntries
    /\ ToldIsCached

\* What an event does to a cache that is filled.
LEMMA EventApplied ==
    ASSUME TypeOK, NEW e \in Event, ~closed, hydrationComplete, OnFlagChange(e)
    PROVE  /\ \A f \in Flags : cache'[f] = After(cache[f], <<e>>, f)
           /\ told' = Notify(cache, <<e>>) /\ \A f \in Flags : Told(cache, <<e>>, f)
           /\ store' \in {store, cache'}
           /\ UNCHANGED <<closed, hydrationComplete, sseBuffer, ready, filler>>
<1>1. <<e>> \in Seq(Event)
  OBVIOUS
<1>2. /\ cache' = Replay(cache, <<e>>) /\ told' = Notify(cache, <<e>>)
      /\ store' \in {store, cache'}
      /\ UNCHANGED <<closed, hydrationComplete, sseBuffer, ready, filler>>
  BY DEF OnFlagChange, ApplyCacheEvent, Save
<1>3. \A f \in Flags : cache'[f] = After(cache[f], <<e>>, f)
  BY <1>1, <1>2, ReplayTyped DEF TypeOK
<1>4. \A f \in Flags : Told(cache, <<e>>, f)
  BY <1>1, NotifyTyped DEF TypeOK
<1>5. QED
  BY <1>2, <1>3, <1>4

\* Events leave a full cache full.
LEMMA FullAfter ==
    ASSUME NEW c \in [Flags -> CacheValue], Full(c), NEW q \in Seq(Event)
    PROVE  \A f \in Flags : After(c[f], q, f) # "none"
<1> SUFFICES ASSUME NEW f \in Flags PROVE After(c[f], q, f) # "none"
  OBVIOUS
<1>1. c[f] \in CacheValue /\ c[f] # "none"
  BY DEF Full
<1>2. QED
  BY <1>1, AfterTyped

LEMMA ValuesKept ==
    ASSUME TypeOK, Answered, PhaseInv, ValueInv, [Next]_vars
    PROVE  ValueInv'
<1> USE DEF ValueInv
<1>0. ToldIsCached /\ 0 \in Requests
  BY Numbers
<1>1. ASSUME NEW k \in Requests, Answer(k) PROVE ValueInv'
  <2>1. PICK status \in {"ok", "auth", "failed"} : answer' = [answer EXCEPT ![k] =
             [status |-> status, flags |-> IF status = "ok" THEN row ELSE NoEntries]]
    BY <1>1 DEF Answer
  <2>2. Full(row)
    BY DEF Full, TypeOK, Enabled
  <2>3. /\ answer'[k].status = "ok" => Full(answer'[k].flags)
        /\ \A l \in Requests : l # k => answer'[l] = answer[l]
    BY <2>1, <2>2 DEF TypeOK
  <2>4. QED
    BY <1>1, <2>3 DEF Answer, client, ToldIsCached
<1>2. ASSUME NEW k \in Requests, Rehydrated(k) PROVE ValueInv'
  <2>1. CASE UNCHANGED client
    BY <1>2, <2>1 DEF Rehydrated, client, ToldIsCached
  <2>2. CASE ~closed /\ answer[k].status = "ok"
    <3>1. /\ cache' = answer[k].flags /\ filler' = k /\ k > 0
          /\ UNCHANGED <<closed, hydrationComplete, sseBuffer, ready, store, told, answer>>
      BY <1>2, <2>2 DEF Rehydrated, Rehydrate, PopulateCache
    <3>2. filler' \notin {0, Nobody}
      BY <3>1, Numbers
    <3>3. ToldIsCached'
      BY <3>2 DEF ToldIsCached
    <3>4. QED
      BY <2>2, <3>1, <3>3
  <2>3. QED
    BY <1>2, <2>1, <2>2 DEF Rehydrated, Rehydrate
<1>3. CASE Receive
  <2>1. pipe # <<>> /\ OnFlagChange(Head(pipe)) /\ UNCHANGED answer
    BY <1>3 DEF Receive, http
  <2>2. Head(pipe) \in Event /\ <<Head(pipe)>> \in Seq(Event)
    BY <2>1, PipeTyped DEF TypeOK
  <2>3. CASE closed
    BY <2>1, <2>3 DEF OnFlagChange, client, ToldIsCached
  <2>4. CASE ~closed /\ ~hydrationComplete
    BY <2>1, <2>4 DEF OnFlagChange, ToldIsCached
  <2>5. CASE ~closed /\ hydrationComplete
    <3> DEFINE e == Head(pipe)
    <3>1. /\ \A f \in Flags : cache'[f] = After(cache[f], <<e>>, f)
          /\ told' = Notify(cache, <<e>>) /\ \A f \in Flags : Told(cache, <<e>>, f)
          /\ store' \in {store, cache'}
          /\ UNCHANGED <<closed, hydrationComplete, sseBuffer, ready, filler>>
      BY <2>1, <2>2, <2>5, EventApplied
    <3>2. cache \in [Flags -> CacheValue] /\ Full(cache)
      BY <2>5 DEF TypeOK
    <3>3. \A f \in Flags : After(cache[f], <<e>>, f) # "none"
      BY <2>2, <3>2, FullAfter
    <3>4. Full(cache')
      BY <3>1, <3>3 DEF Full
    <3>5. ToldIsCached'
      <4> SUFFICES ASSUME filler' \in {0, Nobody}, NEW f \in Flags, told'[f] # "none"
                   PROVE  told'[f] = cache'[f]
        BY DEF ToldIsCached
      <4>1. Told(cache, <<e>>, f) /\ told' = Notify(cache, <<e>>)
        BY <3>1
      <4>2. told[f] # "none" => told[f] = cache[f]
        BY <1>0, <3>1 DEF ToldIsCached
      <4>3. QED
        BY <3>1, <4>1, <4>2 DEF Told
    <3>6. QED
      BY <2>1, <2>5, <3>1, <3>4, <3>5
  <2>6. QED
    BY <2>3, <2>4, <2>5
<1>4. CASE Hydration
  <2>1. UNCHANGED answer /\ ~hydrationComplete /\ told = NoEntries
    BY <1>4, HydrationCases DEF PhaseInv
  <2>2. \A f \in Flags : told[f] = "none"
    BY <2>1 DEF NoEntries
  <2>3. CASE closed /\ RejectClosed
    BY <2>1, <2>3 DEF RejectClosed, Settle, ToldIsCached
  <2>4. CASE FailHydration
    BY <2>1, <2>4 DEF FailHydration, Settle, ToldIsCached
  <2>5. CASE UNCHANGED client
    BY <2>1, <2>5 DEF client, ToldIsCached
  <2>6. CASE req[0] = "body" /\ Hydrate
    <3> DEFINE a == answer[0].flags
    <3>1. a \in [Flags -> CacheValue] /\ sseBuffer \in Seq(Event) /\ told \in [Flags -> CacheValue]
      BY <1>0 DEF TypeOK
    <3>2. Full(a)
      BY <1>0, <2>6 DEF PhaseInv
    <3> HIDE DEF a
    <3>3. /\ cache' = Replay(a, sseBuffer) /\ told' = Notify(a, sseBuffer)
          /\ store' \in {store, cache'} /\ hydrationComplete' = TRUE
          /\ ready' \in {ready, "resolved"} /\ closed' = closed
      BY <2>6 DEF Hydrate, Save, Settle, a
    <3>4. /\ \A f \in Flags : cache'[f] = After(a[f], sseBuffer, f)
          /\ \A f \in Flags : Told(a, sseBuffer, f)
      BY <3>1, <3>3, ReplayTyped, NotifyTyped
    <3>5. Full(cache')
      BY <3>1, <3>2, <3>4, FullAfter DEF Full
    <3>6. ToldIsCached'
      <4> SUFFICES ASSUME NEW f \in Flags, told'[f] # "none" PROVE told'[f] = cache'[f]
        BY DEF ToldIsCached
      <4>1. QED
        BY <2>2, <3>3, <3>4 DEF Told
    <3>7. QED
      BY <2>1, <3>3, <3>5, <3>6
  <2>7. CASE UseStore
    <3>1. /\ cache' = store /\ hydrationComplete' = TRUE /\ store # NoEntries
          /\ UNCHANGED <<closed, store, told>> /\ ready' \in {ready, "resolved"}
      BY <2>7 DEF UseStore, Settle
    <3>2. ToldIsCached'
      BY <2>2, <3>1 DEF ToldIsCached
    <3>3. QED
      BY <2>1, <3>1, <3>2
  <2>8. QED
    BY <1>4, <2>3, <2>4, <2>5, <2>6, <2>7, HydrationCases DEF TryStoreFallback
<1>5. CASE Close
  BY <1>5 DEF Close, http, ToldIsCached
<1>6. CASE UNCHANGED <<client, answer>>
  BY <1>6 DEF client, ToldIsCached
<1>7. QED
  BY <1>1, <1>2, <1>3, <1>4, <1>5, <1>6
  DEF Next, vars, http, Change, RehydrationFails, Accept, Connected, Disconnect, Redial, Terminal

LEMMA ValuesHold == Spec => []ValueInv
<1>1. Init => ValueInv
  <2> SUFFICES ASSUME Init PROVE ValueInv
    OBVIOUS
  <2>1. store = NoEntries \/ Full(store)
    BY DEF Init, Full, Enabled
  <2>2. told = NoEntries /\ ~hydrationComplete /\ ready = "pending" /\ ToldIsCached
    BY DEF Init, ToldIsCached, NoEntries
  <2>3. \A k \in Requests : answer[k].status # "ok"
    BY DEF Init
  <2>4. QED
    BY <2>1, <2>2, <2>3 DEF ValueInv
<1>2. TypeOK /\ Answered /\ PhaseInv /\ ValueInv /\ [Next]_vars => ValueInv'
  BY ValuesKept
<1>3. QED
  BY <1>1, <1>2, TypeCorrect, PhasesHold, PTL DEF Spec

\* Once ready is resolved the cache has an entry for every flag, whatever happens
\* after; and it is rejected only by a client whose connection is closed for good.
THEOREM ReadyHolds == Spec => []ReadyIsReliable
<1>1. TypeOK /\ PhaseInv /\ ValueInv => ReadyIsReliable
  BY DEF TypeOK, PhaseInv, ValueInv, ReadyIsReliable, Full
<1>2. QED
  BY <1>1, TypeCorrect, PhasesHold, ValuesHold, PTL

\* The last value subscribers of a flag were told is the one evaluate() returns,
\* unless a re-hydration replaced the cache since.
THEOREM ToldHolds == Spec => []ToldIsCached
BY ValuesHold, PTL DEF ValueInv

\* After close() only a store.load() that was under way may change the cache.
THEOREM Retained == Spec => RetainedAfterClose
<1>1. ASSUME TypeOK, Answered, [Next]_vars, closed, req[0] # "loading"
      PROVE  cache' = cache
  <2>1. ASSUME NEW k \in Requests, Rehydrated(k) PROVE cache' = cache
    BY <1>1, <2>1 DEF Rehydrated, Rehydrate, client
  <2>2. CASE Receive
    BY <1>1, <2>2 DEF Receive, OnFlagChange, client
  <2>3. CASE Hydration
    BY <1>1, <2>3, HydrationCases DEF RejectClosed, FailHydration, TryStoreFallback, client
  <2>4. CASE UNCHANGED client \/ Close
    BY <2>4 DEF client, Close
  <2>5. QED
    BY <1>1, <2>1, <2>2, <2>3, <2>4
    DEF Next, vars, Answer, Change, RehydrationFails, Accept, Connected, Disconnect, Redial, Terminal
<1>2. TypeOK /\ Answered /\ [Next]_vars => [closed /\ req[0] # "loading" => cache' = cache]_vars
  BY <1>1
<1>3. QED
  BY <1>2, TypeCorrect, PTL DEF Spec, RetainedAfterClose

-----------------------------------------------------------------------------
(***************************************************************************)
(* Why no change is lost between a snapshot and the stream.  The events    *)
(* that are still to be applied turn what they are applied to into the     *)
(* state of the server:                                                    *)
(*   - the events under way, applied to the server's own state, change     *)
(*     nothing, for the newest event of a flag is its state;               *)
(*   - on the first connection the same is true of the buffered events     *)
(*     followed by those under way, and they bring an answer that was      *)
(*     taken while the connection was subscribed up to date;               *)
(*   - on a later connection the events under way do that for the answer   *)
(*     of its re-hydration, until one of them overtakes the answer;        *)
(*   - and so they do for the cache that was filled from such an answer.   *)
(***************************************************************************)
StreamCurrent(f) == Subscribed => After(row[f], pipe, f) = row[f]

BufferCurrent(f) ==
    attempt = 0 /\ Subscribed /\ ~hydrationComplete => After(row[f], sseBuffer \o pipe, f) = row[f]

BufferEmpty == attempt = 0 /\ conn \in {"dialing", "backoff"} => sseBuffer = <<>>

HydrationCurrent(f) ==
    attempt = 0 /\ Subscribed /\ ~hydrationComplete /\ 0 \in gapless /\ answer[0].status = "ok"
        => After(answer[0].flags[f], sseBuffer \o pipe, f) = row[f]

RehydrationCurrent(f) ==
    /\ attempt > 0 /\ attempt \in gapless /\ Subscribed
    /\ req[attempt] = "answered" /\ answer[attempt].status = "ok"
    => After(answer[attempt].flags[f], pipe, f) = row[f]

CacheCurrent(f) == Covered => After(cache[f], pipe, f) = row[f]

SyncInv ==
    /\ BufferEmpty
    /\ \A f \in Flags : /\ StreamCurrent(f)
                        /\ BufferCurrent(f)
                        /\ HydrationCurrent(f)
                        /\ RehydrationCurrent(f)
                        /\ CacheCurrent(f)

\* Dropping the first event from events that end in v leaves events that end in v.
LEMMA TailKeeps ==
    ASSUME NEW v \in Enabled, NEW f, NEW q \in Seq(Event), q # <<>>, After(v, q, f) = v
    PROVE  After(v, Tail(q), f) = v
<1> DEFINE w == After(v, <<Head(q)>>, f)
<1>1. v \in CacheValue /\ v # "none"
  BY DEF CacheValue, Enabled
<1>2. <<Head(q)>> \in Seq(Event)
  BY PipeTyped
<1>3. w # "none"
  BY <1>1, <1>2, AfterTyped
<1>4. After(w, Tail(q), f) = v
  BY <1>1, AfterHead
<1> HIDE DEF w
<1>5. QED
  BY <1>1, <1>3, <1>4, AfterForgets

\* An event that moves from the pipe to the buffer stays in its place.
LEMMA MoveHead ==
    ASSUME NEW b \in Seq(Event), NEW q \in Seq(Event), q # <<>>
    PROVE  Append(b, Head(q)) \o Tail(q) = b \o q
OBVIOUS

\* A change is the newest event of its flag.
LEMMA ChangeTells ==
    ASSUME NEW v \in CacheValue, v # "none", NEW q \in Seq(Event), NEW f, NEW g \in Flags,
           NEW w \in Enabled, NEW old, NEW new,
           After(v, q, f) = old, new = IF f = g THEN w ELSE old
    PROVE  After(v, Append(q, [flag |-> g, enabled |-> w]), f) = new
<1>1. [flag |-> g, enabled |-> w] \in Event
  BY DEF Event
<1>2. QED
  BY <1>1, AfterAppend

LEMMA SyncKept ==
    ASSUME TypeOK, Answered, PhaseInv, ValueInv, SyncInv, [Next]_vars
    PROVE  SyncInv'
<1>0. /\ attempt \in Nat /\ attempt \in Requests /\ 0 \in Requests
      /\ \A k \in Requests : k \in Nat
  BY Numbers
<1>a. /\ BufferEmpty
      /\ \A f \in Flags : /\ StreamCurrent(f) /\ BufferCurrent(f) /\ HydrationCurrent(f)
                          /\ RehydrationCurrent(f) /\ CacheCurrent(f)
  BY DEF SyncInv
<1>b. pipe \in Seq(Event) /\ sseBuffer \in Seq(Event)
  BY DEF TypeOK
<1>c. ASSUME ~Subscribed', BufferEmpty' PROVE SyncInv'
  BY <1>c DEF SyncInv, StreamCurrent, BufferCurrent, HydrationCurrent, RehydrationCurrent,
     CacheCurrent, Covered
<1>d. ASSUME UNCHANGED <<row, pipe, attempt, answer, hydrationComplete, sseBuffer, cache, filler, gapless>>,
             Subscribed' => Subscribed, conn' \in {"dialing", "backoff"} => conn' = conn,
             \A k \in Requests : k > 0 /\ req'[k] = "answered" => req[k] = "answered"
      PROVE  SyncInv'
  <2>1. BufferEmpty'
    BY <1>a, <1>d DEF BufferEmpty
  <2>2. Covered' => Covered
    BY <1>d DEF Covered
  <2>3. ASSUME NEW f \in Flags
        PROVE  StreamCurrent(f)' /\ BufferCurrent(f)' /\ HydrationCurrent(f)'
    BY <1>a, <1>d DEF StreamCurrent, BufferCurrent, HydrationCurrent
  <2>4. ASSUME NEW f \in Flags PROVE RehydrationCurrent(f)'
    BY <1>0, <1>a, <1>d DEF RehydrationCurrent
  <2>5. ASSUME NEW f \in Flags PROVE CacheCurrent(f)'
    BY <1>a, <1>d, <2>2 DEF CacheCurrent
  <2>6. QED
    BY <2>1, <2>3, <2>4, <2>5 DEF SyncInv
<1>1. ASSUME NEW g \in Flags, NEW w \in Enabled, Change(g, w) PROVE SyncInv'
  <2> DEFINE e == [flag |-> g, enabled |-> w]
  <2>1. /\ row' = [row EXCEPT ![g] = w]
        /\ pipe' = IF Subscribed THEN Append(pipe, e) ELSE pipe
        /\ UNCHANGED <<conn, attempt, req, answer, hydrationComplete, sseBuffer, cache, filler, gapless>>
    BY <1>1 DEF Change, http, client
  <2> HIDE DEF e
  <2>2. Subscribed' = Subscribed /\ Covered' = Covered
    BY <2>1 DEF Subscribed, Covered
  <2>3. BufferEmpty'
    BY <1>a, <2>1 DEF BufferEmpty
  <2>4. ASSUME NEW f \in Flags, Subscribed
        PROVE  /\ StreamCurrent(f)' /\ BufferCurrent(f)' /\ HydrationCurrent(f)'
               /\ RehydrationCurrent(f)' /\ CacheCurrent(f)'
    <3>1. /\ row'[f] = (IF f = g THEN w ELSE row[f]) /\ pipe' = Append(pipe, e)
          /\ row[f] \in Enabled /\ row'[f] \in Enabled
      BY <2>1, <2>4 DEF TypeOK
    <3>2. ASSUME NEW v \in CacheValue, v # "none", NEW q \in Seq(Event), After(v, q, f) = row[f]
          PROVE  After(v, Append(q, e), f) = row'[f]
      BY <3>1, <3>2, ChangeTells DEF e
    <3>3. ASSUME NEW v \in CacheValue, v # "none", After(v, pipe, f) = row[f]
          PROVE  After(v, pipe', f) = row'[f]
      BY <1>b, <3>1, <3>2, <3>3
    <3>4. ASSUME NEW v \in CacheValue, v # "none", After(v, sseBuffer \o pipe, f) = row[f]
          PROVE  After(v, sseBuffer' \o pipe', f) = row'[f]
      <4>1. sseBuffer \o pipe \in Seq(Event) /\ sseBuffer' = sseBuffer
        BY <1>b, <2>1
      <4>2. sseBuffer \o Append(pipe, e) = Append(sseBuffer \o pipe, e)
        <5>1. e \in Event
          BY DEF e, Event
        <5>2. QED
          BY <1>b, <5>1
      <4>3. After(v, Append(sseBuffer \o pipe, e), f) = row'[f]
        BY <3>2, <3>4, <4>1
      <4>4. QED
        BY <3>1, <4>1, <4>2, <4>3, Zenon
    <3>5. /\ After(row[f], pipe, f) = row[f]
          /\ row[f] \in CacheValue /\ row[f] # "none"
      BY <1>a, <2>4, <3>1 DEF StreamCurrent, CacheValue, Enabled
    <3>6. StreamCurrent(f)'
      <4>1. After(row'[f], pipe', f) = row'[f]
        <5>1. After(row[f], pipe', f) = row'[f]
          BY <3>3, <3>5
        <5>2. row'[f] \in CacheValue /\ row'[f] # "none"
          BY <3>1 DEF CacheValue, Enabled
        <5>3. QED
          BY <3>5, <5>1, <5>2, AfterForgets
      <4>2. QED
        BY <4>1 DEF StreamCurrent
    <3>7. BufferCurrent(f)'
      <4> SUFFICES ASSUME attempt = 0, ~hydrationComplete
                   PROVE  After(row'[f], sseBuffer' \o pipe', f) = row'[f]
        BY <2>1 DEF BufferCurrent
      <4>1. After(row[f], sseBuffer \o pipe, f) = row[f]
        BY <1>a, <2>4 DEF BufferCurrent
      <4>2. After(row[f], sseBuffer' \o pipe', f) = row'[f]
        BY <3>4, <3>5, <4>1
      <4>3. row'[f] # "none"
        BY <3>1 DEF Enabled
      <4>4. QED
        BY <3>5, <4>2, <4>3, AfterForgets
    <3>8. HydrationCurrent(f)'
      <4> SUFFICES ASSUME attempt = 0, ~hydrationComplete, 0 \in gapless, answer[0].status = "ok"
                   PROVE  After(answer[0].flags[f], sseBuffer' \o pipe', f) = row'[f]
        BY <2>1 DEF HydrationCurrent
      <4>1. After(answer[0].flags[f], sseBuffer \o pipe, f) = row[f]
        BY <1>a, <2>4 DEF HydrationCurrent
      <4>2. answer[0].flags[f] \in CacheValue /\ answer[0].flags[f] # "none"
        BY <1>0 DEF TypeOK, ValueInv, Full
      <4>3. QED
        BY <3>4, <4>1, <4>2
    <3>9. RehydrationCurrent(f)'
      <4> SUFFICES ASSUME attempt > 0, attempt \in gapless, req[attempt] = "answered",
                          answer[attempt].status = "ok"
                   PROVE  After(answer[attempt].flags[f], pipe', f) = row'[f]
        BY <2>1 DEF RehydrationCurrent
      <4>1. After(answer[attempt].flags[f], pipe, f) = row[f]
        BY <1>a, <2>4 DEF RehydrationCurrent
      <4>2. answer[attempt].flags[f] \in CacheValue /\ answer[attempt].flags[f] # "none"
        BY <1>0 DEF TypeOK, ValueInv, Full
      <4>3. QED
        BY <3>3, <4>1, <4>2
    <3>10. CacheCurrent(f)'
      <4> SUFFICES ASSUME Covered PROVE After(cache[f], pipe', f) = row'[f]
        BY <2>1, <2>2 DEF CacheCurrent
      <4>1. After(cache[f], pipe, f) = row[f]
        BY <1>a DEF CacheCurrent
      <4>2. cache[f] \in CacheValue /\ cache[f] # "none"
        BY DEF TypeOK, ValueInv, Full, Covered
      <4>3. QED
        BY <3>3, <4>1, <4>2
    <3>11. QED
      BY <3>6, <3>7, <3>8, <3>9, <3>10
  <2>5. ASSUME NEW f \in Flags, ~Subscribed
        PROVE  /\ StreamCurrent(f)' /\ BufferCurrent(f)' /\ HydrationCurrent(f)'
               /\ RehydrationCurrent(f)' /\ CacheCurrent(f)'
    BY <2>2, <2>5
    DEF StreamCurrent, BufferCurrent, HydrationCurrent, RehydrationCurrent, CacheCurrent, Covered
  <2>6. QED
    BY <2>3, <2>4, <2>5 DEF SyncInv
<1>2. ASSUME NEW k \in Requests, Answer(k) PROVE SyncInv'
  <2>1. /\ req[k] = "sent" /\ req' = [req EXCEPT ![k] = "answered"]
        /\ gapless' = IF Subscribed /\ k = attempt THEN gapless \cup {k} ELSE gapless
        /\ UNCHANGED <<row, pipe, conn, attempt, hydrationComplete, sseBuffer, cache, filler>>
    BY <1>2 DEF Answer, server, stream, client
  <2>2. PICK status \in {"ok", "auth", "failed"} : answer' = [answer EXCEPT ![k] =
             [status |-> status, flags |-> IF status = "ok" THEN row ELSE NoEntries]]
    BY <1>2 DEF Answer
  <2>3. /\ answer'[k].status = "ok" => answer'[k].flags = row
        /\ \A l \in Requests : l # k => answer'[l] = answer[l] /\ req'[l] = req[l]
    BY <2>1, <2>2 DEF TypeOK
  <2>4. Subscribed' = Subscribed
    BY <2>1 DEF Subscribed
  <2>5. CASE ~Subscribed
    <3>1. BufferEmpty'
      BY <1>a, <2>1 DEF BufferEmpty
    <3>2. QED
      BY <1>c, <2>4, <2>5, <3>1
  <2>6. CASE Subscribed
    <3>1. BufferEmpty' /\ \A f \in Flags : StreamCurrent(f)' /\ BufferCurrent(f)'
      BY <1>a, <2>1, <2>4 DEF BufferEmpty, StreamCurrent, BufferCurrent
    <3>2. filler = attempt => k # attempt
      BY <1>0, <2>1 DEF PhaseInv
    <3>3. Covered' => Covered
      BY <2>1, <2>4, <3>2 DEF Covered
    <3>4. \A f \in Flags : CacheCurrent(f)'
      BY <1>a, <2>1, <3>3 DEF CacheCurrent
    <3>5. ASSUME NEW f \in Flags PROVE HydrationCurrent(f)'
      <4> SUFFICES ASSUME attempt = 0, ~hydrationComplete, 0 \in gapless', answer'[0].status = "ok"
                   PROVE  After(answer'[0].flags[f], sseBuffer \o pipe, f) = row[f]
        BY <2>1 DEF HydrationCurrent
      <4>1. CASE k = 0
        BY <1>a, <2>3, <2>6, <4>1 DEF BufferCurrent
      <4>2. CASE k # 0
        BY <1>0, <1>a, <2>1, <2>3, <2>6, <4>2 DEF HydrationCurrent
      <4>3. QED
        BY <4>1, <4>2
    <3>6. ASSUME NEW f \in Flags PROVE RehydrationCurrent(f)'
      <4> SUFFICES ASSUME attempt > 0, attempt \in gapless', req'[attempt] = "answered",
                          answer'[attempt].status = "ok"
                   PROVE  After(answer'[attempt].flags[f], pipe, f) = row[f]
        BY <2>1 DEF RehydrationCurrent
      <4>1. CASE k = attempt
        BY <1>a, <2>3, <2>6, <4>1 DEF StreamCurrent
      <4>2. CASE k # attempt
        BY <1>0, <1>a, <2>1, <2>3, <2>6, <4>2 DEF RehydrationCurrent
      <4>3. QED
        BY <4>1, <4>2
    <3>7. QED
      BY <3>1, <3>4, <3>5, <3>6 DEF SyncInv
  <2>7. QED
    BY <2>5, <2>6
<1>3. ASSUME NEW k \in Requests, Rehydrated(k) PROVE SyncInv'
  <2>1. /\ k > 0 /\ req[k] = "answered" /\ req' = [req EXCEPT ![k] = "done"]
        /\ UNCHANGED <<row, pipe, conn, attempt, answer, gapless>>
    BY <1>3 DEF Rehydrated, RehydrationGoes, server, stream
  <2>2. \A l \in Requests : req'[l] = "answered" => req[l] = "answered"
    BY <2>1 DEF TypeOK
  <2>3. CASE UNCHANGED client
    BY <1>d, <2>1, <2>2, <2>3 DEF client, Subscribed
  <2>4. CASE answer[k].status = "ok" /\ PopulateCache(k) /\ UNCHANGED <<hydrationComplete, sseBuffer>>
    <3>1. cache' = answer[k].flags /\ filler' = k /\ UNCHANGED <<hydrationComplete, sseBuffer>>
      BY <2>4 DEF PopulateCache
    <3>2. Subscribed' = Subscribed
      BY <2>1 DEF Subscribed
    <3>3. BufferEmpty' /\ \A f \in Flags : StreamCurrent(f)' /\ BufferCurrent(f)'
      BY <1>a, <2>1, <3>1, <3>2 DEF BufferEmpty, StreamCurrent, BufferCurrent
    <3>4. \A f \in Flags : HydrationCurrent(f)'
      BY <1>a, <2>1, <3>1, <3>2 DEF HydrationCurrent
    <3>5. \A f \in Flags : RehydrationCurrent(f)'
      BY <1>0, <1>a, <2>1, <2>2, <3>2 DEF RehydrationCurrent
    <3>6. ASSUME NEW f \in Flags PROVE CacheCurrent(f)'
      <4> SUFFICES ASSUME Covered' PROVE After(cache'[f], pipe', f) = row'[f]
        BY DEF CacheCurrent
      <4>1. k = attempt /\ Subscribed /\ attempt \in gapless
        BY <2>1, <3>1, <3>2 DEF Covered
      <4>2. After(answer[k].flags[f], pipe, f) = row[f]
        BY <1>a, <2>1, <2>4, <4>1 DEF RehydrationCurrent
      <4>3. QED
        BY <2>1, <3>1, <4>2
    <3>7. QED
      BY <3>3, <3>4, <3>5, <3>6 DEF SyncInv
  <2>5. QED
    BY <1>3, <2>3, <2>4 DEF Rehydrated, Rehydrate
<1>4. ASSUME NEW k \in Requests, RehydrationFails(k) PROVE SyncInv'
  <2>1. /\ req' = [req EXCEPT ![k] = "done"] /\ conn' = conn
        /\ UNCHANGED <<row, pipe, attempt, answer, hydrationComplete, sseBuffer, cache, filler, gapless>>
    BY <1>4 DEF RehydrationFails, RehydrationGoes, server, stream, client
  <2>2. \A l \in Requests : req'[l] = "answered" => req[l] = "answered"
    BY <2>1 DEF TypeOK
  <2>3. QED
    BY <1>d, <2>1, <2>2 DEF Subscribed
<1>5. CASE Accept
  <2>1. /\ conn = "dialing" /\ conn' = "accepted" /\ pipe = <<>> /\ attempt \notin gapless
        /\ UNCHANGED <<row, pipe, attempt, req, answer, hydrationComplete, sseBuffer, cache, filler, gapless>>
    BY <1>5 DEF Accept, TypeOK, PhaseInv, server, http, client
  <2>2. attempt = 0 => sseBuffer \o pipe = <<>>
    BY <1>a, <2>1 DEF BufferEmpty
  <2>3. BufferEmpty' /\ ~Covered'
    BY <2>1 DEF BufferEmpty, Covered
  <2>4. \A f \in Flags : StreamCurrent(f)' /\ BufferCurrent(f)'
    BY <2>1, <2>2, AfterNothing DEF StreamCurrent, BufferCurrent
  <2>5. \A f \in Flags : HydrationCurrent(f)' /\ RehydrationCurrent(f)' /\ CacheCurrent(f)'
    BY <2>1, <2>3 DEF HydrationCurrent, RehydrationCurrent, CacheCurrent
  <2>6. QED
    BY <2>3, <2>4, <2>5 DEF SyncInv
<1>6. CASE Connected
  <2>1. /\ conn = "accepted" /\ conn' = "open"
        /\ req' \in {req, [req EXCEPT ![attempt] = "sent"]}
        /\ UNCHANGED <<row, pipe, attempt, answer, hydrationComplete, sseBuffer, cache, filler, gapless>>
    BY <1>6 DEF Connected, server, client
  <2>2. \A l \in Requests : req'[l] = "answered" => req[l] = "answered"
    BY <1>0, <2>1 DEF TypeOK
  <2>3. QED
    BY <1>d, <2>1, <2>2 DEF Subscribed
<1>7. CASE Disconnect \/ Redial \/ Terminal
  <2>1. /\ conn' \in {"backoff", "dialing", "stopped"} /\ sseBuffer' = sseBuffer
        /\ \/ attempt' = attempt + 1
           \/ attempt' = attempt /\ conn = "backoff"
           \/ conn' = "stopped"
    BY <1>7 DEF Disconnect, Redial, Terminal, client
  <2>2. attempt + 1 # 0
    BY <1>0
  <2>3. BufferEmpty'
    BY <1>a, <2>1, <2>2 DEF BufferEmpty
  <2>4. ~Subscribed'
    BY <2>1 DEF Subscribed
  <2>5. QED
    BY <1>c, <2>3, <2>4
<1>8. CASE Receive
  <2> DEFINE h == Head(pipe)
  <2>1. /\ conn = "open" /\ conn' = conn /\ pipe # <<>> /\ pipe' = Tail(pipe) /\ OnFlagChange(h)
        /\ gapless' = {k \in gapless : k = 0 \/ req[k] # "answered"}
        /\ UNCHANGED <<row, attempt, req, answer>>
    BY <1>8 DEF Receive, server, http
  <2>2. h \in Event /\ Tail(pipe) \in Seq(Event) /\ <<h>> \in Seq(Event)
    BY <1>b, <2>1, PipeTyped
  <2>3. Subscribed /\ Subscribed' /\ ~closed
    BY <2>1 DEF Subscribed, PhaseInv
  <2>4. BufferEmpty'
    BY <2>1 DEF BufferEmpty
  <2>5. ASSUME NEW f \in Flags PROVE StreamCurrent(f)'
    <3>1. After(row[f], pipe, f) = row[f] /\ row[f] \in Enabled
      BY <1>a, <2>3 DEF StreamCurrent, TypeOK
    <3>2. After(row[f], Tail(pipe), f) = row[f]
      BY <1>b, <2>1, <3>1, TailKeeps
    <3>3. QED
      BY <2>1, <3>2 DEF StreamCurrent
  <2>6. \A f \in Flags : RehydrationCurrent(f)'
    BY <2>1 DEF RehydrationCurrent
  <2>7. CASE hydrationComplete
    <3>1. /\ \A f \in Flags : cache'[f] = After(cache[f], <<h>>, f)
          /\ UNCHANGED <<hydrationComplete, sseBuffer, filler>>
      BY <2>1, <2>2, <2>3, <2>7, EventApplied
    <3>2. \A f \in Flags : BufferCurrent(f)' /\ HydrationCurrent(f)'
      BY <2>7, <3>1 DEF BufferCurrent, HydrationCurrent
    <3>3. ASSUME NEW f \in Flags PROVE CacheCurrent(f)'
      <4> SUFFICES ASSUME Covered' PROVE After(cache'[f], pipe', f) = row'[f]
        BY DEF CacheCurrent
      <4>1. Covered
        BY <2>1, <2>3, <3>1 DEF Covered
      <4>2. After(cache[f], pipe, f) = row[f] /\ cache[f] \in CacheValue
        BY <1>a, <4>1 DEF CacheCurrent, TypeOK
      <4>3. After(cache[f], pipe, f) = After(After(cache[f], <<h>>, f), Tail(pipe), f)
        BY <1>b, <2>1, <4>2, AfterHead
      <4>4. QED
        BY <2>1, <3>1, <4>2, <4>3
    <3>4. QED
      BY <2>4, <2>5, <2>6, <3>2, <3>3 DEF SyncInv
  <2>8. CASE ~hydrationComplete
    <3>1. sseBuffer' = Append(sseBuffer, h) /\ hydrationComplete' = hydrationComplete
      BY <2>1, <2>3, <2>8 DEF OnFlagChange
    <3>2. sseBuffer' \o pipe' = sseBuffer \o pipe
      BY <1>b, <2>1, <3>1, MoveHead
    <3>3. \A f \in Flags : BufferCurrent(f)' /\ HydrationCurrent(f)'
      BY <1>a, <2>1, <2>3, <3>1, <3>2 DEF BufferCurrent, HydrationCurrent
    <3>4. \A f \in Flags : CacheCurrent(f)'
      BY <2>8, <3>1 DEF CacheCurrent, Covered
    <3>5. QED
      BY <2>4, <2>5, <2>6, <3>3, <3>4 DEF SyncInv
  <2>9. QED
    BY <2>7, <2>8
<1>9. CASE Hydration
  <2>1. /\ UNCHANGED <<row, answer, gapless>> /\ ~hydrationComplete
    BY <1>9, HydrationCases DEF server, PhaseInv
  <2>2. ASSUME NEW label, HydrationGoes(label),
               UNCHANGED <<stream, hydrationComplete, sseBuffer, cache, filler>>
        PROVE  SyncInv'
    <3>1. \A k \in Requests : k # 0 => req'[k] = req[k]
      BY <2>2, HydrationMoves
    <3>2. \A k \in Requests : k > 0 /\ req'[k] = "answered" => req[k] = "answered"
      BY <1>0, <3>1
    <3>3. QED
      BY <1>d, <2>1, <2>2, <3>2 DEF stream, Subscribed
  <2>3. CASE RejectClosed
    BY <2>2, <2>3 DEF RejectClosed
  <2>4. CASE FailHydration
    BY <1>c, <2>4 DEF FailHydration, CloseStream, BufferEmpty, Subscribed
  <2>5. CASE TryStoreFallback
    BY <2>2, <2>5 DEF TryStoreFallback, client
  <2>6. CASE HydrationGoes("body") /\ UNCHANGED <<stream, client>>
    BY <2>2, <2>6 DEF client
  <2>7. ASSUME NEW label, HydrationGoes(label), UNCHANGED <<stream, closed>>, hydrationComplete' = TRUE,
               BufferEmpty', \A f \in Flags : CacheCurrent(f)'
        PROVE  SyncInv'
    <3>1. \A k \in Requests : k # 0 => req'[k] = req[k]
      BY <2>7, HydrationMoves
    <3>2. UNCHANGED <<conn, attempt, pipe>> /\ Subscribed' = Subscribed
      BY <2>7 DEF stream, Subscribed
    <3>3. attempt > 0 => req'[attempt] = req[attempt]
      BY <1>0, <3>1
    <3>4. \A f \in Flags : RehydrationCurrent(f)'
      BY <1>a, <2>1, <3>2, <3>3 DEF RehydrationCurrent
    <3>5. \A f \in Flags : StreamCurrent(f)' /\ BufferCurrent(f)' /\ HydrationCurrent(f)'
      BY <1>a, <2>1, <2>7, <3>2 DEF StreamCurrent, BufferCurrent, HydrationCurrent
    <3>6. QED
      BY <2>7, <3>4, <3>5 DEF SyncInv
  <2>8. CASE req[0] = "body" /\ Hydrate
    <3> DEFINE a == answer[0].flags
    <3>1. /\ cache' = Replay(a, sseBuffer) /\ filler' = 0 /\ hydrationComplete' = TRUE
          /\ sseBuffer' = <<>> /\ HydrationGoes("done") /\ UNCHANGED <<stream, closed>>
      BY <2>8 DEF Hydrate
    <3>2. a \in [Flags -> CacheValue] /\ answer[0].status = "ok"
      BY <1>0, <2>8 DEF TypeOK, PhaseInv
    <3>3. UNCHANGED <<conn, attempt, pipe>> /\ BufferEmpty'
      BY <3>1 DEF stream, BufferEmpty
    <3>4. ASSUME NEW f \in Flags PROVE CacheCurrent(f)'
      <4> SUFFICES ASSUME Covered' PROVE After(cache'[f], pipe', f) = row'[f]
        BY DEF CacheCurrent
      <4>1. Subscribed /\ attempt = 0 /\ 0 \in gapless
        BY <2>1, <3>1, <3>3 DEF Covered, Subscribed
      <4>2. After(a[f], sseBuffer \o pipe, f) = row[f]
        BY <1>a, <2>1, <3>2, <4>1 DEF HydrationCurrent
      <4>3. a[f] \in CacheValue
        BY <3>2
      <4>4. After(a[f], sseBuffer \o pipe, f) = After(After(a[f], sseBuffer, f), pipe, f)
        BY <1>b, <4>3, AfterConcat
      <4>5. cache'[f] = After(a[f], sseBuffer, f)
        BY <1>b, <3>1, <3>2, ReplayTyped
      <4>6. QED
        BY <2>1, <3>3, <4>2, <4>4, <4>5
    <3>5. QED
      BY <2>7, <3>1, <3>3, <3>4
  <2>9. CASE UseStore
    <3>1. /\ filler' = Nobody /\ hydrationComplete' = TRUE /\ HydrationGoes("done")
          /\ UNCHANGED <<stream, closed, sseBuffer>>
      BY <2>9 DEF UseStore
    <3>2. UNCHANGED <<conn, attempt>>
      BY <3>1 DEF stream
    <3>3. BufferEmpty'
      BY <1>a, <3>1, <3>2 DEF BufferEmpty
    <3>4. ~Covered'
      BY <3>1, <3>2, Numbers DEF Covered
    <3>5. \A f \in Flags : CacheCurrent(f)'
      BY <3>4 DEF CacheCurrent
    <3>6. QED
      BY <2>7, <3>1, <3>3, <3>5
  <2>10. QED
    BY <1>9, <2>3, <2>4, <2>5, <2>6, <2>8, <2>9, HydrationCases
<1>10. CASE Close
  BY <1>c, <1>10 DEF Close, CloseStream, BufferEmpty, Subscribed
<1>11. CASE UNCHANGED vars
  BY <1>d, <1>11 DEF vars, server, stream, http, client, Subscribed
<1>12. QED
  BY <1>1, <1>2, <1>3, <1>4, <1>5, <1>6, <1>7, <1>8, <1>9, <1>10, <1>11 DEF Next

LEMMA SyncHolds == Spec => []SyncInv
<1>1. Init => SyncInv
  BY DEF Init, SyncInv, BufferEmpty, StreamCurrent, BufferCurrent, HydrationCurrent,
     RehydrationCurrent, CacheCurrent, Covered, Subscribed
<1>2. TypeOK /\ Answered /\ PhaseInv /\ ValueInv /\ SyncInv /\ [Next]_vars => SyncInv'
  BY SyncKept
<1>3. QED
  BY <1>1, <1>2, TypeCorrect, PhasesHold, ValuesHold, PTL DEF Spec

\* A cache that was filled by an answer taken while its connection was subscribed,
\* and overtaken by no event, is together with the events under way exactly the
\* state of the server: during hydration and after every reconnect.
THEOREM CacheIsExact == Spec => []ExactCache
<1>1. ASSUME TypeOK, SyncInv, Covered PROVE Replay(cache, pipe) = row
  <2>1. \A f \in Flags : After(cache[f], pipe, f) = row[f]
    BY <1>1 DEF SyncInv, CacheCurrent
  <2>2. Replay(cache, pipe) = [f \in Flags |-> After(cache[f], pipe, f)]
    BY ReplayIsAfter
  <2>3. QED
    BY <1>1, <2>1, <2>2 DEF TypeOK
<1>2. TypeOK /\ SyncInv => ExactCache
  BY <1>1 DEF ExactCache
<1>3. QED
  BY <1>2, TypeCorrect, SyncHolds, PTL
=============================================================================
