--------------------------- MODULE ProjectMembers ---------------------------
(***************************************************************************)
(* Projects and their members: ProjectService.Create and DeleteBySlug, and *)
(* AddMember, UpdateRole and RemoveMember of ProjectMemberService, all     *)
(* naming one project slug.                                                *)
(*                                                                         *)
(* Each call first resolves the slug and, when it could take the admin     *)
(* role from somebody, reads the member list (Check); it writes later, in  *)
(* a statement that names the project by id and the member by user id      *)
(* (Write).  A write of a tenant transaction holds its row until the       *)
(* commit, so a write and its commit are one step.  The two statements of  *)
(* Create are not in a transaction: each commits by itself.  A call that   *)
(* is refused changes nothing and is not a step.                           *)
(***************************************************************************)
EXTENDS Naturals, FiniteSets

CONSTANTS
    Users,           \* OIDC subjects
    Slots,           \* calls that can be under way at the same time
    InsertCanFail,   \* the second statement of Create may fail
    MaxProjects      \* bound: projects ever created under the slug

ASSUME UsersAssumption == IsFiniteSet(Users)
ASSUME InsertCanFailAssumption == InsertCanFail \in BOOLEAN
ASSUME MaxProjectsAssumption == MaxProjects \in Nat

Roles == {"viewer", "editor", "admin"}
NoProject == 0

\* A call under way: the project id it resolved, and what it is about to write.
Idle == [op |-> "idle"]
Call == [op : {"create", "delete", "add", "update", "remove"},
         project : Nat, user : Users, role : Roles]

VARIABLES
    project,         \* id of the project that has the slug, or NoProject
    lastId,          \* the id given out last
    role,            \* project_members of that project: user -> role, or "none"
    call,            \* the call in each slot
    stale,           \* history: calls that have checked before another call changed
                     \* who is an admin
    accidents        \* history: what befell the project that no guard can see

vars == <<project, lastId, role, call, stale, accidents>>

TypeOK ==
    /\ project \in Nat
    /\ lastId \in Nat
    /\ project <= lastId
    /\ role \in [Users -> Roles \cup {"none"}]
    /\ call \in [Slots -> Call \cup {Idle}]
    /\ stale \in SUBSET Slots
    /\ accidents \in SUBSET {"failed create", "stale write"}
    /\ project = NoProject => \A u \in Users : role[u] = "none"

Init ==
    /\ project = NoProject
    /\ lastId = 0
    /\ role = [u \in Users |-> "none"]
    /\ call = [s \in Slots |-> Idle]
    /\ stale = {}
    /\ accidents = {}

-----------------------------------------------------------------------------
(* requireRole and the last-admin guard *)

RoleLevel(r) == CASE r = "viewer" -> 1 [] r = "editor" -> 2 [] r = "admin" -> 3
RequireRole(auth, min) == RoleLevel(auth) >= RoleLevel(min)

Admins == {u \in Users : role[u] = "admin"}

\* Mutant: the guard counts the members of every role.
OnlyMember(u) == role[u] = "admin" /\ Cardinality({v \in Users : role[v] # "none"}) = 1

\* targetIsAdmin && adminCount == 1
IsLastAdmin(u) == role[u] = "admin" /\ Cardinality(Admins) = 1

\* What lets a call with the caller's token role auth through to its write.
Allowed(auth, q) ==
    /\ RequireRole(auth, "admin")
    /\ q.op \in {"add", "update"} => RoleLevel(q.role) <= RoleLevel(auth)
    /\ q.op = "update" => q.role = "admin" \/ ~IsLastAdmin(q.user)
    /\ q.op = "remove" => role[q.user] # "none" /\ ~IsLastAdmin(q.user)

Check(s) ==
    /\ call[s] = Idle
    /\ project # NoProject
    /\ \E auth \in Roles, q \in [op : {"delete", "add", "update", "remove"},
                                 project : {project}, user : Users, role : Roles] :
         /\ Allowed(auth, q)
         /\ call' = [call EXCEPT ![s] = q]
    /\ stale' = stale \ {s}
    /\ UNCHANGED <<project, lastId, role, accidents>>

-----------------------------------------------------------------------------
(* The writes *)

\* Mutant: the statements name the project by slug.
HitsSlug(q) ==
    /\ project # NoProject
    /\ q.op \in {"update", "remove"} => role[q.user] # "none"
    /\ q.op \in {"create", "add"} => role[q.user] = "none"

\* The statement finds its rows: the project still exists under the id that was
\* resolved, the member to change is there, the member to add is not.
Hits(q) ==
    /\ project = q.project
    /\ q.op \in {"update", "remove"} => role[q.user] # "none"
    /\ q.op \in {"create", "add"} => role[q.user] = "none"

\* Mutant: the members of a deleted project stay.
RolesAfterNoCascade(q) ==
    IF q.op = "delete" THEN role
    ELSE [role EXCEPT ![q.user] = IF q.op = "remove" THEN "none" ELSE q.role]

\* The members after the write; deleting a project cascades to its members.
RolesAfter(q) ==
    IF q.op = "delete" THEN [u \in Users |-> "none"]
    ELSE [role EXCEPT ![q.user] = IF q.op = "remove" THEN "none" ELSE q.role]

Finish(s) == call' = [call EXCEPT ![s] = Idle]

Write(s) ==
    /\ call[s] # Idle
    /\ Hits(call[s])
    /\ role' = RolesAfter(call[s])
    /\ project' = IF call[s].op = "delete" THEN NoProject ELSE project
    /\ Finish(s)
    /\ stale' = IF Admins' = Admins THEN stale \ {s} ELSE Slots \ {s}
    /\ accidents' = IF s \in stale /\ call[s].op \in {"update", "remove"}
                    THEN accidents \cup {"stale write"} ELSE accidents
    /\ UNCHANGED lastId

\* No row matched (ErrNotFound), the key is taken (ErrConflict), the project is
\* gone; or the second statement of Create failed, and the project row stays.
WriteFails(s) ==
    /\ call[s] # Idle
    /\ ~Hits(call[s]) \/ (InsertCanFail /\ call[s].op = "create")
    /\ Finish(s)
    /\ accidents' = IF call[s].op = "create" /\ call[s].project = project
                    THEN accidents \cup {"failed create"} ELSE accidents
    /\ stale' = stale \ {s}
    /\ UNCHANGED <<project, lastId, role>>

\* ProjectService.Create: the project row, then (Write) the caller as its admin.
InsertProject(s) ==
    /\ call[s] = Idle
    /\ project = NoProject
    /\ lastId < MaxProjects
    /\ lastId' = lastId + 1
    /\ project' = lastId + 1
    /\ \E auth \in Roles, u \in Users :
         /\ RequireRole(auth, "editor")
         /\ call' = [call EXCEPT ![s] =
                [op |-> "create", project |-> lastId + 1, user |-> u, role |-> "admin"]]
    /\ accidents' = {}
    /\ UNCHANGED <<role, stale>>

-----------------------------------------------------------------------------
Next == \E s \in Slots : Check(s) \/ Write(s) \/ WriteFails(s) \/ InsertProject(s)

Spec == Init /\ [][Next]_vars

-----------------------------------------------------------------------------
(* Properties *)

\* The call in slot s is about to make the creator of the current project its admin.
Creating(s) == call[s].op = "create" /\ call[s].project = project

\* A project has an admin: Create adds the creator as one, and the guards of
\* UpdateRole and RemoveMember refuse to take the last one away.  It can be
\* without one only if the second statement of its Create failed, or a call wrote
\* although another one had changed the admins since it read the members.
ProjectHasAdmin ==
    \/ project = NoProject
    \/ Admins # {}
    \/ \E s \in Slots : Creating(s)
    \/ accidents # {}

\* A call that checked one project never changes another one that has been
\* created under the same slug since.
WritesStayInProject ==
    [][\A s \in Slots : call[s] # Idle /\ call'[s] = Idle /\ call[s].project # project
          => role' = role /\ project' = project]_vars
=============================================================================
