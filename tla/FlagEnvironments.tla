-------------------------- MODULE FlagEnvironments --------------------------
(***************************************************************************)
(* Which flags have a state row in which environments: FlagService.Create   *)
(* and DeleteByKey, EnvironmentService.Create and DeleteBySlug, over one    *)
(* project.                                                                 *)
(*                                                                          *)
(* A call runs in the tenant transaction of its request (TenantRLS) and     *)
(* reads at READ COMMITTED: what it has inserted nobody else sees before    *)
(* its commit. Flags and environments are created and deleted alike: insert *)
(* the row, list the other kind, insert a state row for each of them. What  *)
(* was created twice under one name has two ids.                            *)
(*                                                                          *)
(* A statement that fails ends the transaction, whatever the code does      *)
(* then: the compensating delete of Create fails too. A call that is        *)
(* refused before it writes is not a step. SetEnabled, which adds a row     *)
(* that is missing, is the subject of FlagToggle.                           *)
(***************************************************************************)
EXTENDS Naturals

CONSTANTS
  Tasks,       \* requests that can be under way at the same time
  Keys, Slugs, \* the names of flags and of environments
  Lives        \* bound: how often a name is used again

\* The rows, by id: a name and which of its lives it is.
Flags == {"flag"} \X Keys \X Lives
Environments == {"environment"} \X Slugs \X Lives
Ids == Flags \cup Environments
Pair(x, y) == IF x \in Flags THEN <<x, y>> ELSE <<y, x>>
OtherKind(x) == IF x \in Flags THEN Environments ELSE Flags

VARIABLES
  live,     \* the committed rows of flags and environments
  states,   \* the committed rows of flag_environment_states
  request,  \* per task: how far its call has come, and with what
  used,     \* the ids given out
  missed    \* history: <<x, y>> if x listed the others while y was not committed

matrixVars == <<live, states, request, used, missed>>

NoRequest == [pc |-> "idle"]
Request == [pc : {"inserted", "listed", "stored", "found", "deleted"},
            id : Ids, others : SUBSET Ids]

MatrixTypeOK ==
  /\ live \subseteq used /\ used \subseteq Ids
  /\ states \subseteq (Flags \cap live) \X (Environments \cap live)
  /\ request \in [Tasks -> Request \cup {NoRequest}]
  /\ \A s \in Tasks : request[s] # NoRequest => request[s].others \subseteq OtherKind(request[s].id)
  /\ missed \subseteq used \X used

MatrixInit ==
  /\ live = {} /\ states = {} /\ used = {} /\ missed = {}
  /\ request = [s \in Tasks |-> NoRequest]

-----------------------------------------------------------------------------
(* Pending writes of the transactions, and the locks they hold on rows.     *)
Pending(pcs) == {request[s].id : s \in {t \in Tasks : request[t].pc \in pcs}}
Inserting == Pending({"inserted", "listed", "stored"})
Deleting == Pending({"deleted"})

\* A state row keeps the rows it refers to from being deleted.
Referred == UNION {request[s].others : s \in {t \in Tasks : request[t].pc = "stored"}}

Step(s, pc, id, others) ==
  request' = [request EXCEPT ![s] = [pc |-> pc, id |-> id, others |-> others]]

\* INSERT waits for a transaction that inserts or deletes the same name, and
\* finds the name taken if it is (ErrConflict).
InsertRow(s, x) ==
  /\ request[s] = NoRequest
  /\ x \notin used /\ \A n \in Lives : n < x[3] => <<x[1], x[2], n>> \in used
  /\ \A y \in live \cup Inserting : <<y[1], y[2]>> # <<x[1], x[2]>>
  /\ used' = used \cup {x}
  /\ Step(s, "inserted", x, {})
  /\ UNCHANGED <<live, states, missed>>

CreateFlag(s, f) == f \in Flags /\ InsertRow(s, f)

CreateEnvironment(s, e) == e \in Environments /\ InsertRow(s, e)

\* Mutant: only the flags of a project get rows, not its environments.
BackfillFlagsOnly(x) == IF x \in Flags THEN live \cap Environments ELSE {}

\* The rows of the other kind there are, each of which is to get a state row.
Backfill(x) == live \cap OtherKind(x)

ListOthers(s) ==
  LET x == request[s].id IN
  /\ request[s].pc = "inserted"
  /\ Step(s, "listed", x, Backfill(x))
  /\ missed' = missed \cup {<<x, y>> : y \in Inserting \cap OtherKind(x)}
  /\ UNCHANGED <<live, states, used>>

\* The foreign keys wait for a deletion under way, and fail on a row that is
\* gone (Fail).
CreateBatch(s) ==
  /\ request[s].pc = "listed"
  /\ request[s].others \subseteq live \ Deleting
  /\ Step(s, "stored", request[s].id, request[s].others)
  /\ UNCHANGED <<live, states, used, missed>>

\* GetByKey and GetBySlug.
Find(s, x) ==
  /\ request[s] = NoRequest /\ x \in live
  /\ Step(s, "found", x, {})
  /\ UNCHANGED <<live, states, used, missed>>

\* DELETE by id waits for other deletions of the row and for state rows that
\* are being inserted. If the row is gone it is ErrNotFound (Fail).
Delete(s) ==
  LET x == request[s].id IN
  /\ request[s].pc = "found"
  /\ x \in live /\ x \notin Deleting \cup Referred
  /\ Step(s, "deleted", x, {})
  /\ UNCHANGED <<live, states, used, missed>>

\* The history of a row that is no more is forgotten.
Of(x, pairs) == {p \in pairs : x \in {p[1], p[2]}}
EndRequest(s) ==
  /\ request' = [request EXCEPT ![s] = NoRequest]
  /\ missed' = IF request[s].id \in live' THEN missed
               ELSE missed \ Of(request[s].id, missed)
  /\ UNCHANGED used

\* The middleware commits once the handler has replied. A deletion takes the
\* state rows with it (ON DELETE CASCADE).
Commit(s) ==
  LET x == request[s].id IN
  /\ \/ /\ request[s].pc = "stored"
        /\ live' = live \cup {x}
        /\ states' = states \cup {Pair(x, y) : y \in request[s].others}
     \/ /\ request[s].pc = "deleted"
        /\ live' = live \ {x}
        /\ states' = states \ Of(x, states)
  /\ EndRequest(s)

\* A statement or the commit fails, or the client goes away: rollback.
Fail(s) ==
  /\ request[s] # NoRequest
  /\ UNCHANGED <<live, states>>
  /\ EndRequest(s)

MatrixNext ==
  \E s \in Tasks :
    \/ \E x \in Ids : CreateFlag(s, x) \/ CreateEnvironment(s, x) \/ Find(s, x)
    \/ ListOthers(s) \/ CreateBatch(s) \/ Delete(s) \/ Commit(s) \/ Fail(s)

MatrixSpec == MatrixInit /\ [][MatrixNext]_matrixVars
-----------------------------------------------------------------------------
\* Every flag has a state row in every environment: Create makes one for each
\* environment there is, and a new environment one for each flag ("Backfill"),
\* through deletions, names used again and transactions that roll back. The one
\* exception is a flag and an environment one of which listed the other kind
\* while the other was inserted and not committed (flag_service.go 94-117,
\* environment_service.go 44-66).
EveryPairHasState ==
  \A f \in live \cap Flags, e \in live \cap Environments :
    <<f, e>> \in states \/ {<<f, e>>, <<e, f>>} \cap missed # {}
=============================================================================
