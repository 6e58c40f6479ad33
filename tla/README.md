# A verification project for Cuttlegate

Cuttlegate is a feature-flag server (Go, Postgres) with a web UI (React) and
SDKs for JavaScript, Go and Python. This directory holds TLA+ models of its
core, TLC configurations that check them on small instances, and TLAPS proofs of
the most important properties for every instance. `PROJECT.json` ties everything together: which
source lines each definition stands for, what each run checks, a mutation of the
code that each property catches, the disagreements with the documentation that
were found, and the hazards of the code with the properties that cover them.

To check a model: `tlc -config MCBroker.cfg MCBroker`. To check proofs:
`tlapm BrokerProofs.tla`.

## 1. The system

### 1.1 Components

| Component | State it keeps | Operations | Modelled in |
|---|---|---|---|
| Event broker (`internal/adapters/http/broker.go`) | subscriber map, a buffered channel per subscriber, `closed`, an RWMutex | Publish, Subscribe, unsubscribe closure, Shutdown | `Broker` |
| SSE stream handler (`sse_handler.go`) | one goroutine per open stream | subscribe, select loop with filter, disconnect, deferred unsubscribe | `Broker` |
| Flag toggling (`flag_service.go` SetEnabled and its two callers) | `flag_environment_states` | upsert, publish, audit, reply | `FlagToggle` |
| Tenant transaction middleware (`tenant_middleware.go`) | one transaction per request | begin, commit below status 400, else roll back | `FlagToggle`, `FlagEnvironments`, `FlagVariants` |
| MCP server (`internal/adapters/mcp`) | sessions, tool calls on the pool | enable_flag, disable_flag (others: read only or planned) | `FlagToggle` (partly) |
| JavaScript cached client and SSE client (`sdk/js/src`) | cache, event buffer, `ready`, connection, optional store | hydrate, buffer, drain, reconnect and re-hydrate, fall back to the store, close | `JsCachedClient` |
| Flag evaluator (`internal/domain/evaluator.go`) | none (pure) | Evaluate | `Evaluator` |
| Projects and members (`project_service.go`, `project_member_service.go`) | `projects`, `project_members` | Create, DeleteBySlug, AddMember, UpdateRole, RemoveMember | `ProjectMembers` |
| Web UI: segments page (`$slug.segments.tsx`) | the cached list, three dialogs, the members dialog with its own copy | create, rename, delete, add, remove and replace members | `WebSegments`, `WebSegmentMembers` |
| Web UI: API keys page (`$slug.api-keys.tsx`) | a cached list per environment, the plaintext shown once | create, revoke, change tier, select environment | `WebApiKeys` |
| Web UI: members page (`$slug.members.tsx`) | the cached list, the remove dialog, the add form | change role, remove, add | `WebMembers` |
| Web UI: environments page (`$slug.settings.environments.tsx`, `CreateEnvironmentDialog.tsx`) | the cached list, a field per row, two dialogs | rename in place, create, delete | `WebEnvironments` |
| Web UI: flag page (`...flags.$key.tsx`, `useFlagSSE.ts`) | the cached flag and its rows, the draft, the SSE connection | edit, delete, toggle, react to events | `WebFlagCard`, `WebFlagLive` |
| Web UI: flag lists (`...flags.tsx`, `$slug.flags.tsx`, `flag-create-modal.tsx`) | a cached list, and one slice per page, search and order | toggle, delete, create, search, sort, page | `WebFlagList`, `WebProjectFlags`, `FlagCreateModal` |
| Web UI: rules page (`...flags.$key.rules.tsx`) | the cached rules, an optimistic order, a draft per row | add, edit, delete, drag, write conditions and rollouts | `WebRules`, `WebRuleEditor` |
| Targeting rules (`rule_service.go`) | `rules` | Create, Update, Delete, List with the priority check; patched by variant deletion | `WebRules`, `FlagVariants` |
| Flag lifecycle (`flag_service.go`, `flag_handler.go`) | `flags` with their variants, `flag_environment_states` | Create, DeleteByKey; Update, AddVariant, RenameVariant, DeleteVariant | `FlagEnvironments`, `FlagVariants`; as single steps in the `Web*` modules |
| Environments (`environment_service.go`) | `environments`, `flag_environment_states` | Create with its backfill, DeleteBySlug; UpdateName | `FlagEnvironments`; `WebEnvironments` |
| Segments, API keys (services) | segments, keys | create, update, rename, delete | as single steps in the `Web*` modules |
| Evaluation service, evaluation audit, retention | evaluation events | evaluate, record, delete old | planned |
| Rate limiter, server shutdown | windows, listeners | count; drain | planned |
| Go and Python cached clients | as the JavaScript one | bootstrap, SSE loop | planned |
| Audit log reading, unit of work, plain SDK clients, React and OpenFeature bindings, the web UI's read-only pages, CLI | none of their own, or unused | queries, rendering | not modelled (section 8) |

### 1.2 How they interact

A request over HTTP passes the bearer or API-key middleware and `TenantRLS`,
which opens a transaction for the request and puts it in the context; the
services and repositories below use it if it is there and the pool otherwise.
MCP tool calls reach the same services without such a transaction.
`FlagService.SetEnabled` writes the row, hands an event to the broker, writes an
audit event (always on the pool) and returns; the handler then writes its reply,
and only after that the middleware commits. The broker copies the event into the
channel of every open stream; each stream handler filters by project and
environment and writes to its client. An SDK client evaluates everything once
over HTTP, and from then on applies events to its copy.

So a flag change crosses five boundaries - transaction, broker lock, channel
buffer, network, event loop - and at each of them order or atomicity can be
lost. The models follow it from end to end: `FlagToggle` (row and feed),
`Broker` (feed to stream), `JsCachedClient` (stream and snapshot to cache), with
`FlagFeed` as the contract between the server and the clients.

The web UI is the other client. It keeps answers of the REST API in a cache
(TanStack Query), one entry per query key, shows what is in the cache, and after
a change either asks again (most pages), writes the answer into the cache (the
rename of a segment) or shows the outcome beforehand (dragging a rule). The flag
page also listens to the event stream and asks again on every event. A request
is read by the server and answered to the tab at different times, mutations
overlap, dialogs are closed and reopened on something else while a reply is
under way, and pages are left and entered again.

### 1.3 What is hard

- The event is published before its transaction commits, and the reply is sent
  before the commit too. Only the row lock keeps events in commit order.
- Publishers send under a read lock while other goroutines close the channels.
- A full buffer drops events silently; the buffer is shared by all tenants.
- Check-then-write in separate statements at READ COMMITTED (admin guard, rule
  priorities, variants, the flag/environment matrix).
- Two statements without a transaction (project and its first admin).
- In the SDK, a snapshot request, a stream, a timer, a store and `close()` race,
  and each continuation may find the world changed.
- In the web UI, an answer that was read before a change may arrive after the
  reply to the change; a callback runs on whatever the component shows by then;
  `isPending` speaks of the latest request of a mutation only.
- Shutdown order: the HTTP server drains before the broker closes its streams.

`PROJECT.json` lists these under `hazards`, one entry per place in the code.

### 1.4 What makes each component correct

- **Broker**: no send on a closed channel; the map holds exactly the open
  channels; per publisher, a client sees events in order, none twice, none of
  another scope, and none missing unless its buffer overflowed; streams end.
- **Toggling**: the feed replayed over an older state ends in the current state;
  no stored change stays silent, over HTTP or MCP; success over MCP means stored,
  published and audited; no failure leaves a row lock; every call ends.
- **Cached client**: snapshot plus stream equals the server's state whenever the
  two overlap; `ready` settles unless a body stalls, resolves only with a filled
  cache and rejects only with a closed connection; a closed client does not change.
- **Members**: a project keeps an admin; a call that resolved a slug never
  touches a later project of the same slug.
- **Flags and environments**: every flag has a state row in every environment;
  what a flag's default and its rules serve is a variant of the flag.
- **Web pages**: at rest - nothing in flight - a page shows what the server has
  stored, whatever overlapped before. Each page has its exceptions, and the
  property names them.
- **Rules**: no two rules of a flag have one priority; what the form sends is a
  rule whose values fit its operator and which serves something.
- **Evaluator**: an applicable rule of least priority decides, whatever order
  the rules arrive in; a weight is a percentage of the buckets.

## 2. The modules

`MC*` modules give constants their values for TLC; `*Proofs` modules hold
theorems. A definition marked `Mutant` in a comment is a plausible bug that a
property must catch; no specification uses it.

```
FlagFeed  <--- refinement --- FlagToggle <--- FlagToggleProofs
   ^                              ^---------- MCFlagToggle
   '-- assumed of the server --- JsCachedClient <--- JsCachedClientProofs
Broker <--- BrokerProofs, MCBroker
ProjectMembers, FlagEnvironments, FlagVariants <--- MCProject <--- ProjectProofs
Evaluator <--- EvaluatorProofs; MCRules, with the values of MCEvaluator

ReactQuery <--- WebSegments, WebSegmentMembers, WebApiKeys, WebMembers <--- MCWebAdmin
           <--- FlagCreateModal <--- WebFlagList, WebProjectFlags     <--- MCWebFlags
           <--- WebFlagCard, WebFlagLive, WebEnvironments             <--- MCWebFlags
           <--- WebRules                                <--- MCWebRules <--- MCRules
WebRuleEditor                                           <--- MCWebRules <--- MCRules
       (each of these three <--- WebAdminProofs, WebFlagsProofs, WebRulesProofs)
```

**Broker.** The mutex is modelled by its effect: `WriteLockFree` (no publisher
is inside `Publish`) guards the actions that take it for writing, each of which
is one step; `Publish` is a step to take the read lock and copy the map's keys
(`todo`), one step per send in any order (Go's map iteration), and a step to
return, so the fan-outs of several publishers interleave. `ch` and `chClosed`
are the Go channels: a send blocks never (select with default drops), closing
twice or sending after a close is recorded in `panics`. A stream handler goes
`none -> loop -> left -> ended`; `Wrappers` are the ResponseWriter wrappers its
`http.Flusher` assertion has to see through. `owed` is a history variable.

**FlagFeed.** The promise: a row and the feed change together.

**FlagToggle.** One SetEnabled call per element of `HttpCalls` and `McpCalls`,
with `pc` as the point between two effects visible outside the call. The tenant
transaction is the row lock and the pending write of an HTTP call; `Commit`
makes it visible, `Cancel` (request context cancelled: database/sql rolls back)
and `CommitFails` drop it. An MCP call commits its upsert at once. `stored` is the
history of the calls whose change has reached the row. `Failures`
says which failures the instance has. Initial states include flags without a
state row. The refinement mapping takes as a flag's state the value of the call
that has published and not yet committed, or else the row.

**JsCachedClient.** One step per callback or continuation of the event loop.
Requests are numbered by the reconnect that started them. The server changes a
flag and puts the event on the subscribed connection in one step, which is what
`FlagFeed` and `ExactDelivery` allow it to assume as long as no buffer
overflows; a connection that is not subscribed misses the event. `filler` and
`gapless` are history variables for `ExactCache`.

**ProjectMembers.** `Check` is everything a call reads before its write, `Write`
and `WriteFails` its last statement; calls in different `Slots` interleave
between the two. `stale` and `accidents` are history variables.

**FlagEnvironments.** The matrix of flags and environments of a project. A
request goes `inserted -> listed -> stored` to create and `found -> deleted` to
delete, each a statement in its tenant transaction, and ends with `Commit` or,
from anywhere, `Fail`. What it has written is in `request` until its commit and
invisible to others (READ COMMITTED), but not without effect: an insert waits for
another of the same name, a deletion for state rows being inserted that refer to
the row, a state row for a deletion (foreign keys). Flags and environments are
treated alike, because the two services do the same with their roles exchanged.
A row is identified by its name and its life, as two creations of a name have
two ids. `missed` is the history of what was uncommitted while somebody listed.

**FlagVariants.** One flag, its variants and its rules. A change of the flag is
`read -> updated` or, for DeleteVariant, `read -> listed -> updated`: it works on
the copy it has read, and the update writes the copy back whole, behind the row
lock. The rule repository uses the pool, so `PatchRule` takes effect at once and
stays when the request fails. A rule has a variant and a rollout, of which the
evaluator uses the rollout if there is one. A rollout is a function from places
to entries: taking an entry out leaves its place empty, since only the weights
and the variants matter and not the places. The copies a forced deletion has
listed are upserted one by one. `astray` becomes true where a rule comes to name
a variant the flag does not have in one of the ways nobody checks (section 6).

**Evaluator.** `Evaluate` as a loop over the sorted rules; the sort is any
permutation ascending in priority (`sort.Slice` is not stable), the FNV bucket is
any element of `Buckets`. Strings are sequences of characters only where
`contains`, `starts_with` and `ends_with` look inside them.

**ReactQuery.** What the pages rely on of TanStack Query, a library outside the
repository: cache entries, requests in two steps (the server's read, the
arrival), invalidation, and mutations as requests with callbacks. Its comment
lists the assumptions. The two that matter most: invalidating a query that is
being refetched drops the answer in flight, but a *first* load is left alone;
and leaving a page aborts nothing.

**Web pages.** A page module has the server's rows as one variable, the cache
entries, what the components keep in `useState`, and `calls`, the mutations in
flight. One action per control (with the condition under which it is enabled),
one per server operation (`Serve...`, which may also fail and change nothing),
one per reply (`...Reply`: the callbacks of the mutation), the arrival of each
query, and `Focus`. `WebSegments`, `WebSegmentMembers`, `WebApiKeys`,
`WebEnvironments`, `WebFlagCard` and `WebFlagLive` also have `Leave` and `Enter`
(or `Select`, or the members dialog's own two); `WebMembers`, `WebRules`, `WebFlagList` and
`WebProjectFlags` are about one visit of their page. A reply can be lost after the
server has applied the request; the tab then takes it for a failure. The opposite,
a 200 whose commit then fails (section 6), is not a reply of these modules: there
a change that is answered with success is stored. Two tabs are not
modelled as such: what another tab or user does is an action of the server where
a page reacts to it (`WebFlagLive`, `WebFlagCard`). Every module has one history
variable (`doubt`, `unsure`, `missed`, `unseen`, `apart`, ...) that becomes true
when the page has no way to know that what it shows is old; it is set at exactly
the places listed in section 6 and never reset, except in `WebFlagLive` and
`WebProjectFlags`, where it is kept per row or view and lifted by a new answer.

- *WebSegments, WebSegmentMembers*: two modules for one page, because the
  members dialog works on queries of its own. It edits a copy of the list; an
  effect overwrites the copy when the cached list changes, and an equal answer
  is no change.
- *WebApiKeys*: `phase` is the create dialog, which stays mounted; the list is
  invalidated by its Done button and not by the reply (`owed`).
- *WebMembers*: the role selectors share one mutation (`latest`).
- *WebEnvironments*: a name field saves on Enter and on blur; `focus` decides
  which of them can happen. The project switcher shows the same query on every
  page of the project, so a reply asks for it again when the page has been left;
  outside the project the switcher disables it (`ProjectSwitcher.tsx:56`) and a
  reply asks for nothing. `place` tells the three apart.
- *WebFlagCard, WebFlagLive*: the card with its draft, and the toggles of all
  environments with the stream of the page's own. `tx` is a change that is
  published and not yet committed, which is what `FlagToggle` allows.
- *WebFlagList, WebProjectFlags*: both use `FlagCreateModal`, whose panel names
  what is in the key field when the reply comes, and does not appear if the field
  was emptied. `WebProjectFlags` keeps a cache entry per
  view (page, search, order) and the previous view shown as placeholder.
- *WebRules*: also the server's rule service: `CheckRule` reads the priorities,
  `WriteRule` writes; an update of a rule that was deleted in between inserts
  it again. The requests of one drag share a number, as `Promise.all` does.
- *WebRuleEditor*: conditions, variant and rollout of one draft, and the
  variants that may be loaded after the form is opened.

A tab shows one page at a time and pages share no cache entry that a property is
about, so `MCWebAdmin`, `MCWebFlags` and `MCWebRules` are sums: the first state
chooses a page, and the others stand still. This makes one run of
several page modules without multiplying their states. `MCProject` is such a sum
too: members, the matrix and the variants of a flag share no row. `MCRules` adds
the evaluation of rules to the page and the form that edit them: a behaviour of
it is one of the page, one of the form or one evaluation.

## 3. The runs

| Run | Instance | Shows |
|---|---|---|
| `broker_locks` | 2 streams, 2 publishers, one event each, buffer 1 | `NoSendOnClosedChannel`, `MapHoldsOpenChannels`, and under fairness `EveryStreamEnds` |
| `broker_delivery` | 1 stream, 2 publishers with 3 events each, 2 scopes, buffer 2 | `InPublicationOrder`, `ExactDelivery` |
| `broker_panic` | 1 stream | the double close (section 6) |
| `toggle_http` | 3 HTTP calls, 2 flags and an unknown one, no failures | `ImplementsFeed` (refinement of `FlagFeed`) |
| `toggle_failures` | 2 HTTP calls and an MCP call on one row, every failure | `LocksAreOwned`, `NoSilentChange`, `McpSuccessIsComplete`, and under fairness `EveryCallEnds` |
| `jscache` | 1 flag, 2 reconnects, 2 changes, a store | `ExactCache`, `ReadyIsReliable` (resolved means seeded, rejected means disconnected), `ToldIsCached`, `RetainedAfterClose`, and under fairness `ReadySettlesOrReads` (nothing but a stalled body leaves `ready` pending) |
| `jscache_stall` | 1 flag, no reconnect, no change | a body that stalls leaves `ready` pending for ever (section 6) |
| `project` | 2 requests at a time; 3 users and 2 lives of the slug; 1 flag and 2 environments with 2 lives each; 3 variants and a rule | `ProjectHasAdmin`, `WritesStayInProject`, `EveryPairHasState`, `OnlyVariantsAreServed`, and `RowsAreWellFormed` (the types; weights still add up to 100 when a variant is taken from a rollout) |
| `web_admin` | 2 segments, names, keys, tiers and environments; 2 requests, 3 on the members page | `SegmentListAtRest`, `SegmentMembersAtRest`, `ApiKeysAtRest`, `MemberListAtRest` |
| `web_flags` | 2 flags or variants, 2 environments, pages of 1 flag, 2 to 3 requests | `TogglesAtRest`, `CardAtRest`, `EnvironmentFlagsAtRest`, `ProjectFlagsAtRest`, `EnvironmentListAtRest` |
| `rules` | 3 rules, 2 requests; 2 variants, 2 conditions; evaluations of up to 2 of 28 rules in 12 contexts and 3 buckets | `RulesAtRest`, `PrioritiesAreDistinct`, `RuleDraftIsCoherent`, `LeastPriorityWins`, `RolloutIsExact` (over all 100 buckets) |
| `rules_drop` | as `rules`, the page only | a drag is never stored (section 6) |

The passing runs also check the `TypeOK` of their modules (`RowsAreWellFormed` in
`project`, `DraftsAreWellTyped` in `rules`), where another run of the same module
does not; the evaluator's properties would not survive an ill-typed state.

**Bounds and why they are enough.**

- *Broker*: two publishers are what it takes to hold the read lock twice and to
  interleave two fan-outs; a second stream is closed while the first is being
  sent to. Buffer 1 overflows with two events. In `broker_delivery` three events
  per publisher overflow a buffer of two, drain it and overflow it again.
  Safety is also proved for every instance, which covers what bounds cannot.
- *FlagToggle*: interference is between calls on one row; with three calls one
  can overtake two others. In `toggle_http` two rows are there so that calls on
  different rows may interleave freely; in `toggle_failures` all calls meet on
  one row, where failures matter.
- *JsCachedClient*: flags are handled one by one, so one is enough for the
  cache; two reconnects let a late answer of the first overwrite the second's,
  and two changes let an old value come back (ABA).
- *ProjectMembers*: three users make "two admins and a target" possible; two
  project ids are two lives of a slug; a third concurrent call adds no new
  conflict because every conflict is between one read and one write.
- *FlagEnvironments*: the property is about a flag and an environment; a second
  environment gives the flag rows of different origin, and two lives of each name
  let a request meet a row that has been deleted and created again. Every
  conflict is between two transactions, so there are two slots.
- *FlagVariants*: rules are looked at and patched each by itself, and the
  property is about each rule, so one is enough. Three variants leave a default
  beside two that are being deleted at once. The drafts are single variants and
  rollouts over one or two, beside a variant that is not used.
- *`NotAstray`* (a CONSTRAINT of `project`): as `Undoubted` below, for `astray`.
- *Evaluator*: two rules decide any question of precedence; the conditions cover
  every operator with a match and a mismatch.
- *Web pages*: two requests are what it takes for one to overtake the other, or
  for a reply to meet a dialog that was reopened; the members page needs three
  (`MaxRoles`), because its selectors can only be outwitted by way of a second
  row. Refetches, focus, leaving and entering are not bounded. `MaxMoves` bounds
  searches and page changes: two lead away and back. `PerPage = 1` puts two
  flags on two pages, so a deletion empties the last one. Three rules let a drag
  send two requests while a third rule is edited.
- *`Undoubted`* (a CONSTRAINT of `web_admin` and `web_flags`): once the history
  variable of a page is true its property claims nothing any more, and it is
  never reset, so TLC does not go on from there. What has been checked at that
  point is every state up to it. The toggles of `WebFlagLive` and the slices of
  `WebProjectFlags`, whose doubt is per row or view and is lifted by the next
  answer, are not cut.
- *Symmetry* is used in runs without a liveness property only (`broker_delivery`,
  `toggle_http`, `project`, the web runs), for values no definition tells apart.

`CHECK_DEADLOCK FALSE` is set everywhere: the calls, streams and events of an
instance are finite and all behaviours end.

## 4. Fairness

- *Broker*: goroutines run (weak fairness of each step inside `Publish` and the
  stream loop). `StreamUnsubscribe` has strong fairness, because `sync.RWMutex`
  holds back new readers once a writer waits, so a stream is granted the lock
  although publishers keep coming. Nothing is assumed of clients or publishers.
- *FlagToggle*: weak fairness of the steps of each call: goroutines run, and
  Postgres grants a row lock when its holder ends. It is weak fairness because
  every holder gives its lock up for good. `Cancel` and `BrokerShutdown` are
  never forced.
- *JsCachedClient*: until the headers arrive the hydration timer fires
  (`setTimeout`) or they do, continuations run and `store.load()` settles. Nothing
  is assumed of the body of an answer, for which no timer runs any more, unless
  the client is closed: `close()` aborts the request, and reading the body then
  ends. So `ReadySettlesOrReads` holds and `ReadySettles` does not (section 6).

## 5. The proofs

All theorems are about the specification of their module, for every value of the
constants that satisfies the `ASSUME`s of the module, which TLC evaluates on the
runs. Six theorems have hypotheses of their own in their statements:
`FeedRefinement`, `FeedIsCurrent`, `Distinctness`, `RulesShown`, and
`EvaluateIsRight` and `RolloutsAreExact`, whose `StoredRulesAreValid` is what
`Rule.Validate` lets into the table and is evaluated by the run `rules`. Each property
below is the definition its run checks. Proofs do not know the CONSTRAINTs of the
runs (`Undoubted`, `NotAstray`): the theorems also hold of the behaviours TLC cuts
off there. In the sums `MCProject`, `MCWebAdmin`, `MCWebFlags` and `MCWebRules` a
part that is not in use stands still in a state where its properties hold.

**BrokerProofs**
- `TypeCorrect`: types, and the bound on each buffer.
- `LockDiscipline` and `MapIsExact`: no send on a closed channel, and a stream in
  its loop is either in the map or closed. Neither is inductive: a publisher
  sends to what is left of the range it took earlier (`todo`), so `LockInv` adds
  that `todo` stays inside the map while the publisher holds the read lock, that
  only a stream that has been opened has a closed channel, and that only live
  streams are in the map.
- `DeliveryOrder`: a client sees the events of one publisher in publication
  order and none twice. `OrderInv` speaks of what was written and what is
  buffered together, and bounds the numbers in it by the publisher's counter -
  strictly while the stream is still in its range, which is what keeps the event
  under way from being sent twice.
- `Delivery`: `ExactDelivery`. `DeliveryInv` says that whatever is written,
  buffered or about to be sent to a stream is owed to it, and that what is owed
  has been accepted or is coming. The step that could break it is a drop. By
  `OrderInv` the buffered events are all different and none is the one being
  offered; all of them are owed; so a full buffer would mean more than `BufSize`
  events owed (`RoomForEvent`, a counting argument on finite sets).

**FlagToggleProofs**
- `TypeCorrect`: includes that only existing flags have rows. The commit writes
  what was looked up several steps before, so this needs `PermittedInv`: a call
  past its upsert was permitted.
- `LocksOwned`: `LockInv` says that locks and holders determine each other (the
  converse direction is needed to show that a commit frees the right row).
- `ChangesAnnounced`: from `AnnouncedInv`, that a call past its publication has its
  event in the feed, unless the broker was shut down, and that a call whose change
  is stored is past it, or an MCP call about to publish.
- `McpSuccess`: from `AnnouncedInv`, which also says that a call that has reported
  success has stored its change and its audit event, and `StoredInv`: the row of a
  flag that some call has changed holds what one of these asked for.
- `FeedRefinement`: `Spec => ImplementsFeed`, assuming that there are no MCP calls
  and that nothing but an audit write fails. Both are needed: MCP calls publish
  without a lock, and a commit that fails, a cancellation or a shutdown leaves
  row and feed apart (section 6). The initial states map to initial states; a
  `Publish` that changes the announced state is the abstract change, and every
  other step, the later `Commit` included, is a stutter, because the lock lets no
  second call announce a value for the row in between.
- `FeedIsCurrent`: the invariant of `FlagFeed`, proved of the abstract
  specification and carried over the refinement.

**JsCachedClientProofs**
- `TypeCorrect`, with `Answered`: a request has an answer while it is being
  handled.
- `ReadyHolds` and `ToldHolds`: from `PhaseInv`, which says which request belongs
  to which connection, and `ValueInv`: everything a cache is ever filled from -
  an answer or a stored copy - has an entry for every flag.
- `Retained`: no continuation but that of `store.load()` writes the cache of a
  closed client, step by step from `TypeCorrect`.
- `CacheIsExact`: `ExactCache`, the property the client exists for. `SyncInv` says
  what the events that are still to be applied do to whatever they will be
  applied to: the buffered events and then those under way turn a snapshot taken
  on the subscribed connection into the server's state; those under way do so
  for the answer of a re-hydration until one overtakes it, and for the cache that
  was filled from such an answer. Replay is a function of the newest event of
  each flag (`Newest`), so it is reasoned about without induction; that a newest
  event exists comes from a largest position (`LargestPosition`).

**ProjectProofs**, on `MCProject` and the three modules it sums up
- `TypeCorrect`, of the members, with `CallsInv`: a call under way names a project
  that was created.
- `AdminKept`: `GuardInv` says that what a call has counted before it demotes or
  removes somebody is still so when it writes, unless the call is stale; the
  property lists a stale call's write among the accidents.
- `WritesStay`: an action property, step by step from `TypeCorrect`.
- `MatrixCorrect`, the types of flags, environments and state rows, with
  `LockInv`: what the row locks and foreign keys give between two transactions.
- `PairsHaveStates`: `CoverInv` follows the requests. One that has listed the
  other kind holds a row for each one there is by now, or the pair is excused;
  two that have both listed have excused each other, since the second to list
  knows of the first. The property itself says nothing of rows not committed.
- `ServesVariants`: `CopyInv` says what a change holds (its copy is what it read,
  and a deletion never takes the default); `ServedInv` adds to the property that
  a deletion leaves no rule behind that serves its variant: such a rule is still
  among the copies it has to patch. So none is left when the flag is written
  without the variant.
- `RowsStayWellFormed`: `RowsAreWellFormed` for the three of them. The part that is
  not obvious is that the weights of a rollout still add up to 100 after a forced
  deletion took some of its entries out and gave their weight to the first of the
  others (`PatchedIsRule`), in the rules as well as in the copies a deletion holds
  (`RulesInv`). A sum of weights is written as the number of its units
  (`Weight`, the size of a set of pairs of an entry and a number up to its
  weight), so that this is a statement about finite sets and needs no induction.
  That the rules which are written are valid (`DraftsAssumption`) is what
  `Rule.Validate` sees to.

**EvaluatorProofs**
- `EvaluateIsRight`: `LeastPriorityWins` by a loop invariant: all rules are in the
  sorted order, ascending in priority, and those the loop has passed do not
  apply. It does not depend on which of the permitted permutations the unstable
  sort returns.
- `RolloutsAreExact`: `RolloutIsExact`. Lay the units of the weights out one after
  the other: unit u of entry n becomes bucket `Cumulative(n - 1) + u - 1`. This is
  a bijection of the 100 units and the 100 buckets (`BucketsAreUnits`), under
  which a bucket is resolved to the entry its unit belongs to (`BucketsResolve`);
  so the buckets of a variant are as many as the units of its entries. It holds
  for any number of entries, also when two name one variant.

**WebRulesProofs**, for finitely many rule ids other than `NoData`
- `Distinctness`: `PrioritiesAreDistinct`. `PrioInv` adds that what a request has
  passed the check with is still free when it writes, as long as no write fell in
  between.
- `RulesShown`: `RulesAtRest`. `ListInv`: the list, or the answer on its way to
  it, is the stored one unless a success is on its way to the page or was lost.
  `PageInv`: an optimistic order is on display only while a drag has a request
  the page still waits for. For this the requests of one drag have to be told
  from all others, so a request that is sent needs a number of its own; that
  there is a free one is a pigeonhole argument (`FreeIsFresh`).
- `DraftStaysCoherent`: `RuleDraftIsCoherent`. `FormInv` says it of sequences: all
  conditions fit their operators, and all entries name a variant unless the form
  was early; so it is kept under removals, which shift the places the later
  changes refer to. The keys of a flag's variants are not empty
  (`KeysAssumption`), and the weights are percentages that include the three the
  form sets by itself (`WeightsAssumption`).
- `DraftsStayWellTyped`: `DraftsAreWellTyped`. The page's part needs that a next
  priority exists, as `nextPriority` takes the largest of those there are
  (`LargestExists`, by the least number of larger ones), and that a drag gives
  every rule a place counted from 1 (`ReorderedIsTable`). The form's part adds
  `FormSize`, its bounds, to `FormInv`. Priorities are integers that users type
  (`TypedAssumption`); `ConditionsAssumption` is about the model's own bound.

**WebAdminProofs** and **WebFlagsProofs** have one theorem per page, and all but
the types rest on one idea. A cache entry is *current* if what it shows, and the
answer on its way to it, are what the server has now. It is, unless a change that
the server has applied is still to be answered, and then the reply will ask
again; or unless that reply was lost or could not be taken in, which is what the
property excepts. What each page adds to this is what makes its proof:
- `MembersShown` (`MbrInv`): nothing more; all successes ask for the list. A change
  is made from a list on display, so its reply never meets a first load, which an
  invalidation would not restart.
- `EnvironmentsShown` (`EnvInv`): the same inside the project. Outside, a reply
  asks for nothing, so a list at rest may be old there, and coming back asks for
  it; a request the server has not read yet will be newer than the change; and
  one it has read is what the property excepts.
- `SegmentsShown` (`SegInv`): a rename is written into the list instead. Until it
  is answered the list may be one of before it, and so may an answer on its way;
  there is at most one such rename of a visit.
- `SegmentMembersShown` (`MemInv`): the dialog's own copy. As long as no save
  failed, overlapped another or was answered elsewhere there is at most one save,
  and the copy is the list whenever the list is what is stored, or will be by
  that save; so nothing is lost where the dialog ignores an equal answer.
- `ApiKeysShown` (`ApiInv`): the list is also behind while the dialog shows a new
  key of its environment, because it is asked for when that is closed. No second
  key is created meanwhile, and a card belongs to the environment it is shown in.
- `FlagListShown` (`ListInv`): the same of the panel of a new flag, which a failed
  refresh may drop; then the failure is on display until a newer answer comes. A
  creation without a panel is what the property excepts.
- `ProjectFlagsShown` (`ProjInv`): nothing is said of what hidden views hold, but
  an answer on its way to any view is of the flags there are, or the view is
  among those the property names as behind.
- `TogglesShown` (`LiveInv`): a change that is published and not committed belongs
  to a request in flight, to an event not yet handled, or to a row in doubt.
  Requests are told apart by their numbers, or one commit could be taken for
  another's.
- `CardShown` (`CardInv`): the draft of a card that is not being edited is the
  stored flag. A save stores the draft, which does not change until the reply; a
  deletion takes the card away; and away from the page an answer on its way is
  the stored flag, or the page will find the two set apart.
- `PagesAreWellTyped` and `PartsAreWellTyped`: `TypeOK`, which says among other
  things that what is sent to be stored has a name, a key, an environment or a
  tier, that an edited flag keeps its default among its variants, and that no more
  events are on their way than changes were made. These need invariants about
  which dialog is open on what (a field with the focus is being edited, a dialog
  of a segment has one) and a count of the requests still to be published.

Hypotheses: the user of the tab is one of the users (`MeAssumption`), the first
environments are of the project (`FirstEnvAssumption`, `PageEnvAssumption`), a
search result and a page are what `ViewsAssumption` says, `NoData` is none of the
data (`NoDataAssumption`), and the bounds of the models are numbers
(`BoundsAssumption`).

**Only model-checked.** Everything under fairness (`EveryStreamEnds`,
`EveryCallEnds`, `ReadySettlesOrReads`), which this prover does not treat. Every other
property of a passing run is a theorem. `NoPanic`, `ReadySettles` and
`DropIsStored` are violated, as section 6 says.

## 6. Where the code and what is said of it differ

Shown by a run (`findings` in `PROJECT.json`):
- `Shutdown` and the deferred unsubscribe both close a stream's channel
  (`broker_panic`), although `broker.go:16` calls all methods safe.
- The hydration timer is cleared when the headers arrive (`cached-client.ts:298`):
  a body that stalls leaves `ready` pending for ever (`jscache_stall`), although
  the doc comment promises a rejection on timeout (`cached-client.ts:56`).
- Dragging a rule sends `{priority}` alone, which the handler refuses with 400,
  so every drag is rolled back (`rules_drop`); the page's test expects exactly
  these requests and answers them with success.

Reachable in the models, and visible in how the properties had to be stated:
- The stream handler's `http.Flusher` assertion (`sse_handler.go:66`) fails under
  the two production wrappers, so streams are answered with 500; the comment at
  `metrics.go:99` says the wrapper keeps streaming working (`IsFlusher` in
  `Broker`; the runs use a flushable writer).
- A commit that fails after the 200 and after the event is only logged
  (`tenant_middleware.go:60`): the change was announced and is not stored.
- A change between the hydration's snapshot and the acceptance of the first SSE
  connection is in neither (`cached-client.ts:285`, against ADR 0025).
- Two calls that both counted two admins can leave a project with none
  (`project_member_service.go:148`; `ProjectHasAdmin` lists it as an accident).
- The audit event of SetEnabled is written on the pool and survives the rollback
  of the change (ADR 0013 asks for one transaction).
- SetEnabled of a flag without a state row inserts it; the doc comment
  (`flag_service.go:371`) speaks of ErrNotFound.
- An event applied while a re-hydration is under way is overwritten by its older
  answer (`ExactCache` is about answers that were not overtaken).
- `store.load()` that settles after `close()` replaces the cache
  (`RetainedAfterClose` excepts it).
- A Create whose second statement fails leaves a project without members; the
  statement also fails if somebody adds the creator in between
  (`ProjectHasAdmin` lists both as accidents).
- Rules of equal priority are ordered arbitrarily (`LeastPriorityWins` allows
  either).
- Two MCP calls may commit in one order and publish in the other, so MCP calls
  do not implement `FlagFeed`.

In `FlagEnvironments` and `FlagVariants`:
- A flag and an environment that are created side by side have no state row
  (`flag_service.go:97`, `environment_service.go:48`): neither sees the other's
  uncommitted row. The comment at `environment_service.go:47` speaks of every
  existing flag.
- The compensating delete in both Create functions (`flag_service.go:99, 115`)
  has no effect in a tenant transaction: after a failed statement Postgres
  refuses all others, and the rollback does what the delete was meant to.
- Nobody looks up the variants a rule names: a rule may be written with an
  unknown one, or with one that is being deleted (`rule_service.go:23-88`), and a
  PATCH of the flag may drop a variant that rules use (`flag_handler.go:242-251`);
  only DeleteVariant looks for rules.
- AddVariant, RenameVariant, DeleteVariant and PATCH write back the copy they
  have read: of two additions one is lost, and a rename may bring back a variant
  that was deleted (`flag_service.go:189`). The default stays one of the variants
  all the same, because both are in the copy.
- A forced deletion upserts the rules as it has read them
  (`flag_service.go:307`): it overwrites newer edits and brings back deleted
  rules; and it does so on the pool, so the patches stay when the deletion fails.

On the web pages, each with the place in the page's source:
- *Rules.* Two requests that read the priorities before either writes store
  equal ones; an update of a rule deleted meanwhile inserts it again; a failed
  drag rolls back without asking again (197-200), and drops the order of a later
  drag with its own. A form opened before the variants are loaded keeps an empty
  variant (540). `addEntry` starts at weight 0, which the server refuses, and the
  form offers `lt`, `lte`, `gt`, `gte` and `not_contains`, which it refuses too,
  but not `starts_with` and `ends_with`.
- *Segments.* A rename is lost from the list if an older answer is under way
  (121). Members: Enter adds while a save is pending (601) and whole-list saves
  may then be stored in the other order; a failed save is not rolled back (538);
  an equal refetch does not run the effect that would (523); the bulk editor
  survives being reopened on another segment and saves there.
- *API keys.* The list is asked for on Done only, for the environment selected
  then (179-182); the key's plaintext survives the closing of the modal, which
  the comment at 337 rules out.
- *Members.* The reply to a removal closes the dialog of whichever member it is
  open on (84-86).
- *Environments.* Enter and blur can send the same or two different names at
  once, and a reply closes the field on what was typed since (176-187, 242); the
  navigation after a deletion cannot happen, because the page's own route has no
  environment (36-40, 67-69); a late reply to a creation closes or blocks a form
  that was reopened. A change that is answered outside the project does not drop
  an older answer of the list that is under way, and coming back before it arrives
  joins it: the old list is shown at rest (`ProjectSwitcher.tsx:56`).
- *Flag page.* The draft is copied at mount and on Cancel only (162-164), so an
  edit may write back values that are no longer stored; the deletion of a flag
  navigates to the list from wherever the tab is (81).
- *Events.* One connection per visit, never reopened; an event may come before
  its commit or during a first load, and the row then stays old
  (`useFlagSSE.ts:85`).
- *Flag lists.* A toggle or creation whose reply is lost is not asked for
  (105-108); a flag created after its form was closed is not listed, and neither
  is one whose key field was empty when the reply came, since the empty key counts
  as none (`flag-create-modal.tsx` 184, 233, 236); a change
  invalidates only the slice on display (`$slug.flags.tsx:133`); deleting the
  last flag of the last page leaves an empty page without a way back.

## 7. Plan

Done: the path of a flag change from the service to the JavaScript cache, the
member guards, the evaluator, the pages of the web UI that change anything, the
rule service, flags, environments and variants statement by statement, and the
proofs of section 5.

Next, in this order:
1. `EvaluationService`: EvaluateAll as its separate reads, segments, and the
   fire-and-forget events with their retention; composed with
   `FlagVariants`.
2. `GoCachedClient` and `PyCachedClient`: bootstrap, SSE loop, reconnects and
   repeated bootstrap, against `FlagFeed`.
3. `ServerShutdown`: srv.Shutdown, its 10 s limit, open streams with their
   transactions, broker.Shutdown.
4. `ApiKeys` with `McpSession`, and `RateLimiter`.

Runs are few on purpose: each new module gets one passing run, and a run of
section 3 that a stronger one subsumes goes.

With each new module come theorems in the style of section 5: the types, and the
safety properties from an invariant that accounts for what is in flight.

## 8. Not modelled

- Audit log reading, statistics queries: no state changes.
- `UnitOfWork`: constructed nowhere outside tests.
- Plain SDK clients, React binding, OpenFeature provider: one request per call,
  or thin adapters over the cached client.
- Web UI: the dashboard, comparison, audit and project list pages, badges,
  statistics and history panels display answers and keep nothing else; the
  creation of a project and sign-in (`queryClient.ts`: a 401 leads to a silent
  sign-in and then asks everything again, or to the login page) are left out.
- CLI, migration and seed tools: sequential clients of the REST API.
- Token verification (OIDC), hashing of keys, the distribution of FNV: libraries
  and number theory.
- Row-level security: database configuration; the models assume that a statement
  in a tenant transaction sees the tenant's rows.
- SSE wire format and JSON: one event per block. A write to a slow client that
  blocks is not modelled: the handler's write is one step.
- Details of the web modules that no property tells apart: an administrator and a
  member of any other role are the two roles of `WebMembers`; Retry, whose
  `refetch()` drops a request in flight, is a `Focus`, which waits until none is (a
  request that is dropped and sent again can only be answered with newer data); a
  commit that fails in `WebFlagLive` is an error to the tab, where the
  real reply has been sent and asks for the row again.
