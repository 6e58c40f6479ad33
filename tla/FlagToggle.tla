----------------------------- MODULE FlagToggle -----------------------------
(***************************************************************************)
(* Enabling and disabling flags: FlagService.SetEnabled as it runs below   *)
(* the HTTP handler, inside the per-request transaction of the TenantRLS   *)
(* middleware, and below the MCP tools enable_flag and disable_flag, which *)
(* have no transaction: each statement commits by itself.                  *)
(*                                                                         *)
(* One call is: begin, upsert the state row, publish the event, record the *)
(* audit event (always on the pool, never in the transaction), reply, and  *)
(* then, for HTTP, commit.  Any step may fail the way the constant         *)
(* Failures allows, and a client that goes away cancels the request        *)
(* context, on which database/sql rolls the transaction back.              *)
(***************************************************************************)
EXTENDS Naturals, Sequences

CONSTANTS
    Flags,         \* flag keys that callers name
    KnownFlags,    \* those that exist in the project
    HttpCalls,     \* SetEnabled calls that arrive over HTTP
    McpCalls,      \* SetEnabled calls that arrive over MCP
    NoCall,        \* the holder of a row lock nobody holds
    Failures       \* which of "audit", "commit", "cancel", "shutdown" may happen

Calls == HttpCalls \cup McpCalls

ASSUME FlagsAssumption == KnownFlags \subseteq Flags
ASSUME CallsAssumption == HttpCalls \cap McpCalls = {} /\ NoCall \notin HttpCalls \cup McpCalls
ASSUME FailuresAssumption == Failures \subseteq {"audit", "commit", "cancel", "shutdown"}

Enabled == {"enabled", "disabled"}
RowValue == Enabled \cup {"absent"}
Roles == {"viewer", "editor"}

VARIABLES
    row,           \* committed flag_environment_states of one environment
    lock,          \* row locks held by open transactions
    pc,            \* progress of each call
    target,        \* flag key each call names
    want,          \* enabled value each call asks for
    role,          \* role of each caller (for MCP: roleForTier of the key's tier)
    cancelled,     \* calls whose request context is cancelled
    feed,          \* events handed to the broker, oldest first
    broker,        \* Broker.closed
    audit,         \* calls whose audit event is stored
    reply,         \* the reply each caller was sent
    stored         \* history: calls whose change has reached the row

vars == <<row, lock, pc, target, want, role, cancelled, feed, broker, audit, reply, stored>>
inputs == <<target, want, role>>

TypeOK ==
    /\ row \in [Flags -> RowValue]
    /\ lock \in [Flags -> Calls \cup {NoCall}]
    /\ pc \in [Calls -> {"new", "begun", "upserted", "published", "replied", "done"}]
    /\ target \in [Calls -> Flags]
    /\ want \in [Calls -> Enabled]
    /\ role \in [Calls -> Roles]
    /\ cancelled \in SUBSET Calls
    /\ feed \in Seq([flag : Flags, enabled : Enabled, call : Calls])
    /\ broker \in {"open", "closed"}
    /\ audit \in SUBSET Calls
    /\ reply \in [Calls -> {"none", "ok", "error"}]
    /\ stored \in SUBSET Calls
    /\ \A f \in Flags \ KnownFlags : row[f] = "absent"

\* A known flag may lack a state row: creating flags and environments is not atomic.
Init ==
    /\ row \in {r \in [Flags -> RowValue] : \A f \in Flags \ KnownFlags : r[f] = "absent"}
    /\ lock = [f \in Flags |-> NoCall]
    /\ pc = [c \in Calls |-> "new"]
    /\ target \in [Calls -> Flags]
    /\ want \in [Calls -> Enabled]
    /\ role \in [Calls -> Roles]
    /\ cancelled = {}
    /\ feed = <<>>
    /\ broker = "open"
    /\ audit = {}
    /\ reply = [c \in Calls |-> "none"]
    /\ stored = {}

Goto(c, label) == pc' = [pc EXCEPT ![c] = label]
Reply(c, r) == reply' = [reply EXCEPT ![c] = r]

-----------------------------------------------------------------------------
(* Below, the transaction of call c is open while c \in HttpCalls, pc[c] is *)
(* past "new" and c is not cancelled.                                       *)

Begin(c) ==
    /\ pc[c] = "new"
    /\ Goto(c, "begun")
    /\ UNCHANGED <<row, lock, inputs, cancelled, feed, broker, audit, reply, stored>>

\* TenantRLS resolves the project, begins the transaction and calls the handler.
HttpBegin(c) == c \in HttpCalls /\ Begin(c)

\* handleMessage looks the key up and takes the caller's role from its tier.
McpBegin(c) == c \in McpCalls /\ Begin(c)

\* Mutant: the flag key is not looked up.
PermittedByRole(c) == role[c] = "editor"

\* requireRole(editor) and repo.GetByKey.
Permitted(c) == role[c] = "editor" /\ target[c] \in KnownFlags

\* 403 or 404; the middleware rolls back a transaction that wrote nothing.
Reject(c) ==
    /\ pc[c] = "begun"
    /\ ~Permitted(c)
    /\ Reply(c, "error")
    /\ Goto(c, "done")
    /\ UNCHANGED <<row, lock, inputs, cancelled, feed, broker, audit, stored>>

\* Mutant: the upsert of a tenant transaction takes no row lock.
HttpUpsertUnlocked(c) ==
    /\ pc[c] = "begun"
    /\ Permitted(c)
    /\ c \in HttpCalls \ cancelled
    /\ Goto(c, "upserted")
    /\ UNCHANGED <<row, lock, inputs, cancelled, feed, broker, audit, reply, stored>>

\* stateRepo.SetEnabled in the tenant transaction: takes the row lock.
HttpUpsert(c) ==
    /\ pc[c] = "begun"
    /\ Permitted(c)
    /\ c \in HttpCalls \ cancelled
    /\ lock[target[c]] = NoCall
    /\ lock' = [lock EXCEPT ![target[c]] = c]
    /\ Goto(c, "upserted")
    /\ UNCHANGED <<row, inputs, cancelled, feed, broker, audit, reply, stored>>

\* stateRepo.SetEnabled on the pool: waits for the row lock, commits at once.
McpUpsert(c) ==
    /\ pc[c] = "begun"
    /\ Permitted(c)
    /\ c \in McpCalls \ cancelled
    /\ lock[target[c]] = NoCall
    /\ row' = [row EXCEPT ![target[c]] = want[c]]
    /\ stored' = stored \cup {c}
    /\ Goto(c, "upserted")
    /\ UNCHANGED <<lock, inputs, cancelled, feed, broker, audit, reply>>

\* The statement fails because the request context is done.
UpsertFails(c) ==
    /\ pc[c] = "begun"
    /\ Permitted(c)
    /\ c \in cancelled
    /\ Reply(c, "error")
    /\ Goto(c, "done")
    /\ UNCHANGED <<row, lock, inputs, cancelled, feed, broker, audit, stored>>

\* Mutant: only the MCP path has a publisher.
PublishMcpOnly(c) ==
    /\ pc[c] = "upserted"
    /\ feed' = IF broker = "open" /\ c \in McpCalls
               THEN Append(feed, [flag |-> target[c], enabled |-> want[c], call |-> c])
               ELSE feed
    /\ Goto(c, "published")
    /\ UNCHANGED <<row, lock, inputs, cancelled, broker, audit, reply, stored>>

\* publisher.Publish: ErrBrokerClosed is logged and ignored, the context is not consulted.
Publish(c) ==
    /\ pc[c] = "upserted"
    /\ feed' = IF broker = "open"
               THEN Append(feed, [flag |-> target[c], enabled |-> want[c], call |-> c])
               ELSE feed
    /\ Goto(c, "published")
    /\ UNCHANGED <<row, lock, inputs, cancelled, broker, audit, reply, stored>>

AuditCanFail(c) == "audit" \in Failures \/ c \in cancelled

\* recordAudit, then the reply: 200 for HTTP, success for MCP.
AuditAndReply(c) ==
    /\ pc[c] = "published"
    /\ c \notin cancelled
    /\ audit' = audit \cup {c}
    /\ Reply(c, "ok")
    /\ Goto(c, IF c \in HttpCalls THEN "replied" ELSE "done")
    /\ UNCHANGED <<row, lock, inputs, cancelled, feed, broker, stored>>

\* Mutant: MCP treats the audit as best effort too.
AuditFailsSoftly(c) ==
    /\ pc[c] = "published"
    /\ AuditCanFail(c)
    /\ Reply(c, "ok")
    /\ Goto(c, IF c \in HttpCalls THEN "replied" ELSE "done")
    /\ UNCHANGED <<row, lock, inputs, cancelled, feed, broker, audit, stored>>

\* The audit insert fails: logged for HTTP, returned as an error for MCP.
AuditFails(c) ==
    /\ pc[c] = "published"
    /\ AuditCanFail(c)
    /\ Reply(c, IF c \in HttpCalls THEN "ok" ELSE "error")
    /\ Goto(c, IF c \in HttpCalls THEN "replied" ELSE "done")
    /\ UNCHANGED <<row, lock, inputs, cancelled, feed, broker, audit, stored>>

Unlock(c) == lock' = [f \in Flags |-> IF lock[f] = c THEN NoCall ELSE lock[f]]

\* The middleware saw a status below 400 and commits.
Commit(c) ==
    /\ pc[c] = "replied"
    /\ c \notin cancelled
    /\ row' = [row EXCEPT ![target[c]] = want[c]]
    /\ stored' = stored \cup {c}
    /\ Unlock(c)
    /\ Goto(c, "done")
    /\ UNCHANGED <<inputs, cancelled, feed, broker, audit, reply>>

\* Mutant: no deferred rollback after a failed commit.
CommitFailsOpen(c) ==
    /\ pc[c] = "replied"
    /\ "commit" \in Failures \/ c \in cancelled
    /\ Goto(c, "done")
    /\ UNCHANGED <<row, lock, inputs, cancelled, feed, broker, audit, reply, stored>>

\* tx.Commit returns an error, which is only logged: the handler has written its 200.
CommitFails(c) ==
    /\ pc[c] = "replied"
    /\ "commit" \in Failures \/ c \in cancelled
    /\ Unlock(c)
    /\ Goto(c, "done")
    /\ UNCHANGED <<row, inputs, cancelled, feed, broker, audit, reply, stored>>

\* The client goes away: the request context is cancelled and database/sql rolls back.
Cancel(c) ==
    /\ "cancel" \in Failures
    /\ pc[c] \notin {"new", "done"}
    /\ c \notin cancelled
    /\ cancelled' = cancelled \cup {c}
    /\ Unlock(c)
    /\ UNCHANGED <<row, pc, inputs, feed, broker, audit, reply, stored>>

\* main: broker.Shutdown while MCP calls, or HTTP calls past the 10 s grace, still run.
BrokerShutdown ==
    /\ "shutdown" \in Failures
    /\ broker = "open"
    /\ broker' = "closed"
    /\ UNCHANGED <<row, lock, pc, inputs, cancelled, feed, audit, reply, stored>>

-----------------------------------------------------------------------------
Step(c) ==
    \/ HttpBegin(c) \/ McpBegin(c) \/ Reject(c) \/ HttpUpsert(c) \/ McpUpsert(c) \/ UpsertFails(c)
    \/ Publish(c) \/ AuditAndReply(c) \/ AuditFails(c) \/ Commit(c) \/ CommitFails(c)

Next == (\E c \in Calls : Step(c) \/ Cancel(c)) \/ BrokerShutdown

\* A goroutine that serves a call keeps running; Postgres grants a row lock in the end.
Fairness == \A c \in Calls : WF_vars(Step(c))

Spec == Init /\ [][Next]_vars
FairSpec == Spec /\ Fairness

-----------------------------------------------------------------------------
(* Properties *)

\* What a consumer of the feed has to take for the state of a flag: the value of
\* the call that has published but not committed yet, or else the committed row.
Announced(f) ==
    IF \E c \in HttpCalls : lock[f] = c /\ pc[c] \in {"published", "replied"}
    THEN want[lock[f]] ELSE row[f]

Feed == INSTANCE FlagFeed WITH row <- [f \in Flags |-> Announced(f)],
                               feed <- [i \in DOMAIN feed |->
                                          [flag |-> feed[i].flag, enabled |-> feed[i].enabled]]

\* HTTP calls without infrastructure failures implement the promise of FlagFeed:
\* although the event is published before the transaction commits, the row lock
\* makes the order of events the order of commits.
ImplementsFeed == Feed!FeedSpec

\* Whether the event of a call has been handed to the broker.
HasEvent(q, c) == \E i \in DOMAIN q : q[i].call = c

\* No stored change stays silent, whatever fails and whoever goes away in between
\* (SetEnabled's doc comment: on success, publishes a FlagStateChangedEvent): over
\* HTTP the event comes before the commit; over MCP, where the upsert commits by
\* itself, it is the next thing the call does.  A broker that is shut down takes none.
NoSilentChange ==
    broker = "open" =>
        \A c \in stored : HasEvent(feed, c) \/ (c \in McpCalls /\ pc[c] = "upserted")

\* MCP reports success only for a change that is stored, published and audited
\* (internal/adapters/mcp/doc.go: not reported as successful if audit fails): the
\* row holds what the call asked for, or what another stored call for the flag did.
McpSuccessIsComplete ==
    \A c \in McpCalls : reply[c] = "ok" =>
        /\ c \in stored /\ c \in audit
        /\ \E d \in stored : target[d] = target[c] /\ row[target[c]] = want[d]
        /\ broker = "open" => HasEvent(feed, c)

\* A rejected or failed call leaves no row lock behind, and at most one call
\* that has not finished holds each row.
LocksAreOwned ==
    \A f \in Flags : lock[f] # NoCall =>
        /\ pc[lock[f]] \in {"upserted", "published", "replied"}
        /\ target[lock[f]] = f /\ lock[f] \notin cancelled

\* Every call that began ends and gives up its lock, whatever fails.
EveryCallEnds == \A c \in Calls : pc[c] = "begun" ~> pc[c] = "done" /\ \A f \in Flags : lock[f] # c
=============================================================================
