-------------------------- MODULE FlagToggleProofs --------------------------
(***************************************************************************)
(* Proofs about FlagToggle for any number of calls and flags and every     *)
(* combination of failures.                                                *)
(***************************************************************************)
EXTENDS FlagToggle, TLAPS

FeedEntry == [flag : Flags, enabled : Enabled, call : Calls]
Changing(c) == pc[c] \in {"upserted", "published", "replied"}

\* The event SetEnabled publishes is a feed entry of its call.
LEMMA EntryTyped ==
    ASSUME NEW f \in Flags, NEW v \in Enabled, NEW c \in Calls
    PROVE  LET e == [flag |-> f, enabled |-> v, call |-> c] IN e \in FeedEntry /\ e.call = c
BY DEF FeedEntry

\* A published event stays in the feed, and the one published last is in it.
LEMMA AppendKeeps ==
    ASSUME NEW q \in Seq(FeedEntry), NEW e \in FeedEntry
    PROVE  /\ Append(q, e) \in Seq(FeedEntry)
           /\ HasEvent(Append(q, e), e.call)
           /\ \A c : HasEvent(q, c) => HasEvent(Append(q, e), c)
<1>1. Append(q, e) \in Seq(FeedEntry)
  OBVIOUS
<1>2. Len(q) + 1 \in DOMAIN Append(q, e) /\ Append(q, e)[Len(q) + 1] = e
  OBVIOUS
<1>3. \A i \in DOMAIN q : i \in DOMAIN Append(q, e) /\ Append(q, e)[i] = q[i]
  OBVIOUS
<1>4. QED
  BY <1>1, <1>2, <1>3 DEF HasEvent

\* A call is past its upsert only if it was permitted: TypeOK needs this, because
\* the commit writes the row of a flag that was looked up several steps earlier.
PermittedInv == \A c \in Calls : Changing(c) => Permitted(c)

\* SetEnabled only inserts rows of flags that exist, and every value has its type.
THEOREM TypeCorrect == Spec => [](TypeOK /\ PermittedInv)
<1> USE CallsAssumption, FlagsAssumption
<1>1. Init => TypeOK /\ PermittedInv
  BY DEF Init, TypeOK, RowValue, PermittedInv, Changing
<1>2. TypeOK /\ PermittedInv /\ [Next]_vars => TypeOK'
  <2> SUFFICES ASSUME TypeOK, PermittedInv, [Next]_vars PROVE TypeOK'
    OBVIOUS
  <2> USE DEF TypeOK, Goto, Reply, inputs
  <2>1. ASSUME NEW c \in Calls, Begin(c) PROVE TypeOK'
    BY <2>1 DEF Begin
  <2>2. ASSUME NEW c \in Calls, Reject(c) PROVE TypeOK'
    BY <2>2 DEF Reject
  <2>3. ASSUME NEW c \in Calls, HttpUpsert(c) PROVE TypeOK'
    BY <2>3 DEF HttpUpsert
  <2>4. ASSUME NEW c \in Calls, McpUpsert(c) PROVE TypeOK'
    BY <2>4 DEF McpUpsert, Permitted, RowValue
  <2>5. ASSUME NEW c \in Calls, UpsertFails(c) PROVE TypeOK'
    BY <2>5 DEF UpsertFails
  <2>6. ASSUME NEW c \in Calls, Publish(c) PROVE TypeOK'
    <3>1. [flag |-> target[c], enabled |-> want[c], call |-> c] \in FeedEntry
      BY EntryTyped
    <3>2. feed \in Seq(FeedEntry)
      BY DEF FeedEntry
    <3>3. feed' \in Seq(FeedEntry)
      BY <2>6, <3>1, <3>2, AppendKeeps DEF Publish
    <3>4. QED
      BY <2>6, <3>3 DEF Publish, FeedEntry
  <2>7. ASSUME NEW c \in Calls, AuditAndReply(c) PROVE TypeOK'
    BY <2>7 DEF AuditAndReply
  <2>8. ASSUME NEW c \in Calls, AuditFails(c) PROVE TypeOK'
    BY <2>8 DEF AuditFails
  <2>9. ASSUME NEW c \in Calls, Commit(c) PROVE TypeOK'
    <3>1. target[c] \in KnownFlags
      BY <2>9 DEF Commit, PermittedInv, Changing, Permitted
    <3>2. QED
      BY <2>9, <3>1 DEF Commit, Unlock, RowValue
  <2>10. ASSUME NEW c \in Calls, CommitFails(c) \/ Cancel(c) PROVE TypeOK'
    BY <2>10 DEF CommitFails, Cancel, Unlock
  <2>11. ASSUME BrokerShutdown PROVE TypeOK'
    BY <2>11 DEF BrokerShutdown
  <2>12. ASSUME UNCHANGED vars PROVE TypeOK'
    BY <2>12 DEF vars
  <2>13. QED
    BY <2>1, <2>2, <2>3, <2>4, <2>5, <2>6, <2>7, <2>8, <2>9, <2>10, <2>11, <2>12
    DEF Next, Step, HttpBegin, McpBegin
<1>3. TypeOK /\ PermittedInv /\ [Next]_vars => PermittedInv'
  <2> SUFFICES ASSUME TypeOK, PermittedInv, [Next]_vars, NEW d \in Calls, Changing(d)'
               PROVE  Permitted(d)'
    BY DEF PermittedInv
  <2>1. target' = target /\ role' = role
    BY DEF Next, Step, HttpBegin, McpBegin, Begin, Reject, HttpUpsert, McpUpsert, UpsertFails,
           Publish, AuditAndReply, AuditFails, Commit, CommitFails, Cancel, BrokerShutdown,
           inputs, vars
  <2>2. Changing(d) \/ HttpUpsert(d) \/ McpUpsert(d)
    <3>1. ASSUME NEW c \in Calls, Step(c) PROVE Changing(d) \/ HttpUpsert(d) \/ McpUpsert(d)
      BY <3>1 DEF TypeOK, Changing, Step, HttpBegin, McpBegin, Begin, Reject, HttpUpsert,
                  McpUpsert, UpsertFails, Publish, AuditAndReply, AuditFails, Commit,
                  CommitFails, Goto
    <3>2. ASSUME pc' = pc PROVE Changing(d)
      BY <3>2 DEF Changing
    <3>3. QED
      BY <3>1, <3>2 DEF Next, Cancel, BrokerShutdown, vars
  <2>3. Permitted(d)
    BY <2>2 DEF PermittedInv, HttpUpsert, McpUpsert
  <2>4. QED
    BY <2>1, <2>3 DEF Permitted
<1>4. QED
  BY <1>1, <1>2, <1>3, PTL DEF Spec

-----------------------------------------------------------------------------
\* The calls that hold a row lock: HTTP calls between upsert and commit whose
\* context is not cancelled.
Holds(c) == c \in HttpCalls \ cancelled /\ Changing(c)

\* Locks and their holders determine each other.
LockInv ==
    /\ \A f \in Flags : lock[f] # NoCall => Holds(lock[f]) /\ target[lock[f]] = f
    /\ \A c \in HttpCalls : Holds(c) => lock[target[c]] = c

\* Row locks are held by exactly the HTTP calls that have written and not finished.
THEOREM LocksOwned == Spec => [](LockInv /\ LocksAreOwned)
<1> USE CallsAssumption DEF Calls
<1>1. Init => LockInv
  BY DEF Init, LockInv, Holds, Changing
<1>2. TypeOK /\ LockInv /\ [Next]_vars => LockInv'
  <2> SUFFICES ASSUME TypeOK, LockInv, [Next]_vars PROVE LockInv'
    OBVIOUS
  <2> USE DEF LockInv, Holds, Changing, TypeOK
  <2>1. ASSUME NEW c \in Calls, Begin(c) PROVE LockInv'
    BY <2>1 DEF Begin, Goto, inputs
  <2>2. ASSUME NEW c \in Calls, Reject(c) PROVE LockInv'
    BY <2>2 DEF Reject, Goto, inputs
  <2>3. ASSUME NEW c \in Calls, HttpUpsert(c) PROVE LockInv'
    BY <2>3 DEF HttpUpsert, Goto, inputs
  <2>4. ASSUME NEW c \in Calls, McpUpsert(c) PROVE LockInv'
    BY <2>4 DEF McpUpsert, Goto, inputs
  <2>5. ASSUME NEW c \in Calls, UpsertFails(c) PROVE LockInv'
    BY <2>5 DEF UpsertFails, Goto, inputs
  <2>6. ASSUME NEW c \in Calls, Publish(c) PROVE LockInv'
    BY <2>6 DEF Publish, Goto, inputs
  <2>7. ASSUME NEW c \in Calls, AuditAndReply(c) \/ AuditFails(c) PROVE LockInv'
    BY <2>7 DEF AuditAndReply, AuditFails, Goto, inputs
  <2>8. ASSUME NEW c \in Calls, Commit(c) \/ CommitFails(c) PROVE LockInv'
    BY <2>8 DEF Commit, CommitFails, Unlock, Goto, inputs
  <2>9. ASSUME NEW c \in Calls, Cancel(c) PROVE LockInv'
    BY <2>9 DEF Cancel, Unlock, inputs
  <2>10. ASSUME UNCHANGED <<lock, pc, target, cancelled>> PROVE LockInv'
    BY <2>10
  <2>11. QED
    BY <2>1, <2>2, <2>3, <2>4, <2>5, <2>6, <2>7, <2>8, <2>9, <2>10
    DEF Next, Step, HttpBegin, McpBegin, BrokerShutdown, inputs, vars
<1>3. LockInv => LocksAreOwned
  BY DEF LockInv, LocksAreOwned, Holds, Changing
<1>4. QED
  BY <1>1, <1>2, <1>3, TypeCorrect, PTL DEF Spec

-----------------------------------------------------------------------------
\* An MCP call between its upsert, which commits, and publisher.Publish.
Late(c) == c \in McpCalls /\ pc[c] = "upserted"

\* Calls past publisher.Publish, those whose change is stored included.
Announcing(c) == pc[c] \in {"published", "replied"} \/ (c \in stored /\ ~Late(c))

\* While the broker is open, the event of every announcing call is in the feed; an
\* MCP call past its upsert is stored; one that was told of its success is over,
\* stored and audited; nobody is answered before the audit step; and only HTTP calls
\* have a transaction left to commit.
AnnouncedInv ==
    \A c \in Calls :
        /\ Announcing(c) => (broker = "open" => HasEvent(feed, c))
        /\ c \in McpCalls /\ pc[c] \in {"upserted", "published"} => c \in stored
        /\ c \in McpCalls /\ reply[c] = "ok" => c \in audit /\ c \in stored /\ pc[c] = "done"
        /\ pc[c] \in {"new", "begun", "upserted", "published"} => reply[c] = "none"
        /\ pc[c] = "replied" => c \in HttpCalls

\* A row that a call has written holds the value of a stored call.
StoredInv == \A c \in stored : \E d \in stored : target[d] = target[c] /\ row[target[c]] = want[d]

\* Publish adds the event of its call and removes none.
LEMMA PublishAnnounces ==
    ASSUME TypeOK, NEW c \in Calls, Publish(c)
    PROVE  /\ broker = "open" => HasEvent(feed', c)
           /\ \A d : HasEvent(feed, d) => HasEvent(feed', d)
<1> DEFINE e == [flag |-> target[c], enabled |-> want[c], call |-> c]
<1>1. e \in FeedEntry /\ e.call = c
  BY EntryTyped DEF TypeOK
<1>2. feed \in Seq(FeedEntry)
  BY DEF TypeOK, FeedEntry
<1>3. feed' = IF broker = "open" THEN Append(feed, e) ELSE feed
  BY DEF Publish
<1> HIDE DEF e
<1>4. QED
  BY <1>1, <1>2, <1>3, AppendKeeps

\* Events are published before the row is committed and before MCP reports success.
THEOREM EventsAnnounced == Spec => []AnnouncedInv
<1> USE CallsAssumption
<1>1. Init => AnnouncedInv
  BY DEF Init, AnnouncedInv, Announcing, Late
<1>2. TypeOK /\ AnnouncedInv /\ [Next]_vars => AnnouncedInv'
  <2> SUFFICES ASSUME TypeOK, AnnouncedInv, [Next]_vars PROVE AnnouncedInv'
    OBVIOUS
  <2>1. ASSUME NEW c \in Calls, Publish(c) PROVE AnnouncedInv'
    <3>1. /\ broker = "open" => HasEvent(feed', c)
          /\ \A d : HasEvent(feed, d) => HasEvent(feed', d)
      BY <2>1, PublishAnnounces
    <3>2. QED
      BY <2>1, <3>1 DEF Publish, Goto, AnnouncedInv, Announcing, Late, TypeOK
  <2> USE DEF AnnouncedInv, Announcing, Late, TypeOK
  <2>2. ASSUME NEW c \in Calls, Begin(c) PROVE AnnouncedInv'
    BY <2>2 DEF Begin, Goto
  <2>3. ASSUME NEW c \in Calls, Reject(c) \/ UpsertFails(c) PROVE AnnouncedInv'
    BY <2>3 DEF Reject, UpsertFails, Goto, Reply
  <2>4. ASSUME NEW c \in Calls, HttpUpsert(c) \/ McpUpsert(c) PROVE AnnouncedInv'
    BY <2>4 DEF HttpUpsert, McpUpsert, Goto
  <2>5. ASSUME NEW c \in Calls, AuditAndReply(c) PROVE AnnouncedInv'
    BY <2>5 DEF AuditAndReply, Goto, Reply
  <2>6. ASSUME NEW c \in Calls, AuditFails(c) PROVE AnnouncedInv'
    BY <2>6 DEF AuditFails, Goto, Reply
  <2>7. ASSUME NEW c \in Calls, Commit(c) \/ CommitFails(c) PROVE AnnouncedInv'
    BY <2>7 DEF Commit, CommitFails, Goto
  <2>8. ASSUME NEW c \in Calls, Cancel(c) PROVE AnnouncedInv'
    BY <2>8 DEF Cancel
  <2>9. ASSUME BrokerShutdown PROVE AnnouncedInv'
    BY <2>9 DEF BrokerShutdown
  <2>10. ASSUME UNCHANGED vars PROVE AnnouncedInv'
    BY <2>10 DEF vars
  <2>11. QED
    BY <2>1, <2>2, <2>3, <2>4, <2>5, <2>6, <2>7, <2>8, <2>9, <2>10
    DEF Next, Step, HttpBegin, McpBegin
<1>3. QED
  BY <1>1, <1>2, TypeCorrect, PTL DEF Spec

\* The row of a flag that some call has written is the value of one of them.
THEOREM RowsAreStored == Spec => []StoredInv
<1>1. Init => StoredInv
  BY DEF Init, StoredInv
<1>2. TypeOK /\ StoredInv /\ [Next]_vars => StoredInv'
  <2> SUFFICES ASSUME TypeOK, StoredInv, [Next]_vars PROVE StoredInv'
    OBVIOUS
  <2>1. ASSUME NEW c \in Calls, row' = [row EXCEPT ![target[c]] = want[c]],
               stored' = stored \cup {c}, UNCHANGED <<target, want>>
        PROVE  StoredInv'
    BY <2>1 DEF StoredInv, TypeOK
  <2>2. ASSUME NEW c \in Calls, McpUpsert(c) \/ Commit(c) PROVE StoredInv'
    BY <2>1, <2>2 DEF McpUpsert, Commit, inputs
  <2>3. ASSUME UNCHANGED <<row, stored, target, want>> PROVE StoredInv'
    BY <2>3 DEF StoredInv
  <2>4. ASSUME NEW c \in Calls, Step(c), ~McpUpsert(c), ~Commit(c)
        PROVE  UNCHANGED <<row, stored, target, want>>
    BY <2>4 DEF Step, HttpBegin, McpBegin, Begin, Reject, HttpUpsert, UpsertFails, Publish,
                AuditAndReply, AuditFails, CommitFails, inputs
  <2>5. QED
    BY <2>2, <2>3, <2>4 DEF Next, Cancel, BrokerShutdown, inputs, vars
<1>3. QED
  BY <1>1, <1>2, TypeCorrect, PTL DEF Spec

\* MCP reports success only for a change that is stored, published and audited.
THEOREM McpSuccess == Spec => []McpSuccessIsComplete
<1>1. TypeOK /\ AnnouncedInv /\ StoredInv => McpSuccessIsComplete
  <2> SUFFICES ASSUME TypeOK, AnnouncedInv, StoredInv, NEW c \in McpCalls, reply[c] = "ok"
               PROVE  /\ c \in stored /\ c \in audit
                      /\ \E d \in stored : target[d] = target[c] /\ row[target[c]] = want[d]
                      /\ broker = "open" => HasEvent(feed, c)
    BY DEF McpSuccessIsComplete
  <2>1. c \in audit /\ c \in stored /\ pc[c] = "done"
    BY DEF AnnouncedInv, Calls
  <2>2. Announcing(c)
    BY <2>1 DEF Announcing, Late
  <2>3. QED
    BY <2>1, <2>2 DEF AnnouncedInv, StoredInv, Calls
<1>2. QED
  BY <1>1, TypeCorrect, EventsAnnounced, RowsAreStored, PTL

\* No stored change stays silent: HTTP calls publish before they commit, and an MCP
\* call, whose upsert commits, does nothing else before it publishes.
THEOREM ChangesAnnounced == Spec => []NoSilentChange
<1>1. TypeOK /\ AnnouncedInv => NoSilentChange
  BY DEF TypeOK, AnnouncedInv, NoSilentChange, Announcing, Late
<1>2. QED
  BY <1>1, TypeCorrect, EventsAnnounced, PTL
-----------------------------------------------------------------------------
(* The refinement of FlagFeed. RowBar and FeedBar are what the mapping of    *)
(* Feed substitutes for row and feed.                                        *)
Entry(e) == [flag |-> e.flag, enabled |-> e.enabled]
RowBar == [f \in Flags |-> Announced(f)]
FeedBar == [i \in DOMAIN feed |-> Entry(feed[i])]

\* What the assumptions of the refinement keep from happening.
CalmInv == cancelled = {} /\ broker = "open"

\* A step that leaves the announced states and the feed alone is a stutter.
LEMMA Stutter ==
    ASSUME UNCHANGED feed, \A f \in Flags : Announced(f)' = Announced(f)
    PROVE  UNCHANGED <<RowBar, FeedBar>>
BY DEF RowBar, FeedBar

\* The mapped feed grows by the mapped event.
LEMMA FeedBarAppend ==
    ASSUME NEW q \in Seq(FeedEntry), NEW e \in FeedEntry
    PROVE  [i \in DOMAIN Append(q, e) |-> Entry(Append(q, e)[i])]
             = Append([i \in DOMAIN q |-> Entry(q[i])], Entry(e))
<1> DEFINE E == [flag : Flags, enabled : Enabled]
<1> DEFINE bar == [i \in DOMAIN q |-> Entry(q[i])]
<1>1. \A d \in FeedEntry : Entry(d) \in E
  BY DEF Entry, FeedEntry
<1>2. \A i \in 1 .. Len(q) : q[i] \in FeedEntry
  OBVIOUS
<1>3. bar \in Seq(E) /\ Len(bar) = Len(q)
  <2>1. bar = [i \in 1 .. Len(q) |-> Entry(q[i])]
    OBVIOUS
  <2>2. \A i \in 1 .. Len(q) : Entry(q[i]) \in E
    BY <1>1, <1>2
  <2> HIDE DEF E
  <2>3. QED
    BY <2>1, <2>2
<1>4. QED
  BY <1>1, <1>3

\* The steps that write no row and publish nothing do not change what is announced.
LEMMA QuietSteps ==
    ASSUME McpCalls = {}, TypeOK, LockInv, CalmInv, NEW c \in Calls,
           \/ Begin(c) \/ Reject(c) \/ HttpUpsert(c)
           \/ AuditAndReply(c) \/ AuditFails(c) \/ Commit(c)
    PROVE  UNCHANGED <<RowBar, FeedBar>>
<1> USE CallsAssumption
<1> USE DEF LockInv, Holds, Changing, Announced, Calls, TypeOK, CalmInv
<1>1. feed' = feed
  BY DEF Begin, Reject, HttpUpsert, AuditAndReply, AuditFails, Commit
<1>2. SUFFICES ASSUME NEW f \in Flags PROVE Announced(f)' = Announced(f)
  BY <1>1, Stutter
<1>3. CASE Begin(c) \/ Reject(c)
  BY <1>3 DEF Begin, Reject, Goto, inputs
<1>4. CASE HttpUpsert(c)
  BY <1>4 DEF HttpUpsert, Goto, inputs
<1>5. CASE AuditAndReply(c) \/ AuditFails(c)
  BY <1>5 DEF AuditAndReply, AuditFails, Goto, inputs
<1>6. CASE Commit(c)
  <2>1. lock[target[c]] = c /\ c # NoCall
    BY <1>6 DEF Commit
  <2>2. CASE f = target[c]
    BY <1>6, <2>1, <2>2 DEF Commit, Unlock, Goto, inputs
  <2>3. CASE f # target[c]
    BY <1>6, <2>1, <2>3 DEF Commit, Unlock, Goto, inputs
  <2>4. QED
    BY <2>2, <2>3
<1>7. QED
  BY <1>3, <1>4, <1>5, <1>6

\* Publishing is the step of the feed: the row lock makes the call the only one
\* that has announced a state for its flag.
LEMMA PublishToggles ==
    ASSUME McpCalls = {}, TypeOK, LockInv, CalmInv, NEW c \in Calls, Publish(c)
    PROVE  /\ RowBar' = [RowBar EXCEPT ![target[c]] = want[c]]
           /\ FeedBar' = Append(FeedBar, [flag |-> target[c], enabled |-> want[c]])
<1> USE CallsAssumption
<1>1. lock[target[c]] = c /\ c # NoCall /\ c \in HttpCalls
  BY DEF LockInv, Holds, Changing, Publish, CalmInv, Calls
<1>2. \A f \in Flags \ {target[c]} : lock[f] # c
  BY <1>1 DEF LockInv
<1>3. /\ lock' = lock /\ row' = row /\ want' = want /\ pc' = [pc EXCEPT ![c] = "published"]
      /\ target[c] \in Flags
  BY DEF Publish, Goto, inputs, TypeOK
<1>4. \A f \in Flags : Announced(f)' = IF f = target[c] THEN want[c] ELSE Announced(f)
  BY <1>1, <1>2, <1>3 DEF Announced, TypeOK, Calls
<1>5. RowBar' = [RowBar EXCEPT ![target[c]] = want[c]]
  BY <1>3, <1>4 DEF RowBar
<1> DEFINE e == [flag |-> target[c], enabled |-> want[c], call |-> c]
<1>6. feed' = Append(feed, e)
  BY DEF Publish, CalmInv
<1>7. e \in FeedEntry /\ Entry(e) = [flag |-> target[c], enabled |-> want[c]]
  BY EntryTyped DEF TypeOK, Entry
<1>8. feed \in Seq(FeedEntry)
  BY DEF TypeOK, FeedEntry
<1> HIDE DEF e
<1>9. FeedBar' = Append(FeedBar, Entry(e))
  BY <1>6, <1>7, <1>8, FeedBarAppend DEF FeedBar
<1>10. QED
  BY <1>5, <1>7, <1>9

\* HTTP calls implement FlagFeed: although an event is published before its
\* transaction commits and the reply is sent in between, the announced states and
\* the feed change together. Audits may fail; a commit that fails or a client
\* that goes away after the event would not be announced, and MCP calls commit
\* before they publish.
THEOREM FeedRefinement ==
    ASSUME McpCalls = {}, Failures \subseteq {"audit"}
    PROVE  Spec => ImplementsFeed
<1>1. Init => CalmInv
  BY DEF Init, CalmInv
<1>2. CalmInv /\ [Next]_vars => CalmInv'
  BY DEF CalmInv, Next, Step, HttpBegin, McpBegin, Begin, Reject, HttpUpsert, McpUpsert,
         UpsertFails, Publish, AuditAndReply, AuditFails, Commit, CommitFails, Cancel,
         BrokerShutdown, vars
<1>3. Init => Feed!FeedInit
  <2> SUFFICES ASSUME Init PROVE Feed!FeedInit
    OBVIOUS
  <2>1. \A f \in Flags : Announced(f) = row[f] /\ row[f] \in RowValue
    BY CallsAssumption DEF Init, Announced
  <2>2. DOMAIN feed = {}
    BY DEF Init
  <2>3. QED
    BY <2>1, <2>2 DEF Feed!FeedInit, Feed!RowValue, Feed!Enabled, RowValue, Enabled
<1>4. TypeOK /\ LockInv /\ CalmInv /\ [Next]_vars => [Feed!FeedNext]_(Feed!feedVars)
  <2> SUFFICES ASSUME TypeOK, LockInv, CalmInv, [Next]_vars
               PROVE  Feed!FeedNext \/ UNCHANGED <<RowBar, FeedBar>>
    BY DEF Feed!feedVars, RowBar, FeedBar, Entry
  <2>1. ASSUME NEW c \in Calls, Publish(c) PROVE Feed!FeedNext
    <3>1. /\ RowBar' = [RowBar EXCEPT ![target[c]] = want[c]]
          /\ FeedBar' = Append(FeedBar, [flag |-> target[c], enabled |-> want[c]])
          /\ target[c] \in Flags /\ want[c] \in Enabled
      BY <2>1, PublishToggles DEF TypeOK
    <3>2. QED
      BY <3>1 DEF Feed!FeedNext, Feed!Toggle, Feed!Enabled, Enabled, RowBar, FeedBar, Entry
  <2>2. ASSUME NEW c \in Calls, \/ Begin(c) \/ Reject(c) \/ HttpUpsert(c)
                                \/ AuditAndReply(c) \/ AuditFails(c) \/ Commit(c)
        PROVE  UNCHANGED <<RowBar, FeedBar>>
    BY <2>2, QuietSteps
  <2>3. ASSUME UNCHANGED vars PROVE UNCHANGED <<RowBar, FeedBar>>
    BY <2>3 DEF vars, RowBar, FeedBar, Announced
  <2>4. \A c \in Calls : ~McpUpsert(c) /\ ~UpsertFails(c) /\ ~CommitFails(c) /\ ~Cancel(c)
    BY DEF McpUpsert, UpsertFails, CommitFails, Cancel, CalmInv
  <2>5. ~BrokerShutdown
    BY DEF BrokerShutdown
  <2>6. QED
    BY <2>1, <2>2, <2>3, <2>4, <2>5 DEF Next, Step, HttpBegin, McpBegin
<1>5. QED
  BY <1>1, <1>2, <1>3, <1>4, TypeCorrect, LocksOwned, PTL
  DEF Spec, ImplementsFeed, Feed!FeedSpec

\* The newest event of a flag in the feed q carries its state in r.
Current(r, q) ==
    \A f \in Flags : \A i \in DOMAIN q :
        q[i].flag = f /\ (\A j \in DOMAIN q : q[j].flag = f => j <= i) => q[i].enabled = r[f]

LEMMA ToggleKeepsCurrent ==
    ASSUME NEW r, DOMAIN r = Flags, NEW q \in Seq([flag : Flags, enabled : Enabled]),
           Current(r, q), NEW f \in Flags, NEW v \in Enabled
    PROVE  Current([r EXCEPT ![f] = v], Append(q, [flag |-> f, enabled |-> v]))
<1> DEFINE e == [flag |-> f, enabled |-> v]
<1> DEFINE E == [flag : Flags, enabled : Enabled]
<1>1. e \in E /\ e.flag = f /\ e.enabled = v
  OBVIOUS
<1> HIDE DEF e, E
<1>2. /\ q \in Seq(E) /\ Len(q) \in Nat /\ DOMAIN q = 1 .. Len(q)
      /\ DOMAIN Append(q, e) = 1 .. Len(q) + 1
      /\ Append(q, e)[Len(q) + 1] = e
      /\ \A i \in DOMAIN q : Append(q, e)[i] = q[i]
  BY <1>1 DEF E
<1>3. SUFFICES ASSUME NEW g \in Flags, NEW i \in DOMAIN Append(q, e), Append(q, e)[i].flag = g,
                      \A j \in DOMAIN Append(q, e) : Append(q, e)[j].flag = g => j <= i
               PROVE  Append(q, e)[i].enabled = [r EXCEPT ![f] = v][g]
  BY DEF Current, e
<1>4. CASE g = f
  BY <1>1, <1>2, <1>3, <1>4
<1>5. CASE g # f
  <2>1. i \in DOMAIN q /\ q[i].flag = g
    BY <1>1, <1>2, <1>3, <1>5
  <2>2. \A j \in DOMAIN q : q[j].flag = g => j <= i
    BY <1>2, <1>3
  <2>3. q[i].enabled = r[g]
    BY <2>1, <2>2 DEF Current
  <2>4. QED
    BY <1>2, <1>5, <2>1, <2>3
<1>6. QED
  BY <1>4, <1>5

\* Replaying the feed ends in the announced states: under the assumptions of the
\* refinement the newest event of a flag always carries the state of its row, or
\* of the transaction that is about to write it (FlagFeed!FeedMatchesRow).
THEOREM FeedIsCurrent ==
    ASSUME McpCalls = {}, Failures \subseteq {"audit"}
    PROVE  Spec => []Feed!FeedMatchesRow
<1> DEFINE I == FeedBar \in Seq([flag : Flags, enabled : Enabled]) /\ Current(RowBar, FeedBar)
<1>1. Feed!FeedInit => I
  <2> SUFFICES ASSUME Feed!FeedInit PROVE I
    OBVIOUS
  <2>1. FeedBar = <<>>
    BY DEF Feed!FeedInit, FeedBar, Entry
  <2>2. QED
    BY <2>1 DEF Current
<1>2. I /\ [Feed!FeedNext]_(Feed!feedVars) => I'
  <2> SUFFICES ASSUME I, [Feed!FeedNext]_(Feed!feedVars) PROVE I'
    OBVIOUS
  <2>1. ASSUME NEW f \in Flags, NEW v \in Enabled, Feed!Toggle(f, v) PROVE I'
    <3>1. /\ RowBar' = [RowBar EXCEPT ![f] = v]
          /\ FeedBar' = Append(FeedBar, [flag |-> f, enabled |-> v])
      BY <2>1 DEF Feed!Toggle, RowBar, FeedBar, Entry
    <3>2. DOMAIN RowBar = Flags
      BY DEF RowBar
    <3>3. Current([RowBar EXCEPT ![f] = v], Append(FeedBar, [flag |-> f, enabled |-> v]))
      BY <3>2, ToggleKeepsCurrent
    <3>4. FeedBar' \in Seq([flag : Flags, enabled : Enabled])
      BY <3>1
    <3>5. Current(RowBar', FeedBar')
      BY <3>1, <3>3
    <3>6. QED
      BY <3>4, <3>5 DEF Current
  <2>2. ASSUME UNCHANGED <<RowBar, FeedBar>> PROVE I'
    BY <2>2 DEF Current
  <2>3. Feed!FeedNext \/ UNCHANGED <<RowBar, FeedBar>>
    BY DEF Feed!feedVars, RowBar, FeedBar, Entry
  <2>4. QED
    BY <2>1, <2>2, <2>3 DEF Feed!FeedNext, Feed!Enabled, Enabled
<1>3. I => Feed!FeedMatchesRow
  BY DEF Current, Feed!FeedMatchesRow, Feed!EventsOf, RowBar, FeedBar, Entry
<1> HIDE DEF I
<1>4. QED
  BY <1>1, <1>2, <1>3, FeedRefinement, PTL DEF ImplementsFeed, Feed!FeedSpec
=============================================================================
