--------------------------- MODULE ProjectProofs ---------------------------
(***************************************************************************)
(* Proofs about the administration of a project on the server, a component  *)
(* after the other: the members, for any finite set of users and any number *)
(* of calls under way; the flags and environments, for any sets of names    *)
(* and any number of requests; and the variants and rules of a flag, for    *)
(* any number of changes under way.                                         *)
(***************************************************************************)
EXTENDS MCProject, FiniteSetTheorems, WellFoundedInduction, TLAPS

\* A call under way names a project that was created, and a Create is about to
\* make its user an admin.
CallsInv ==
    \A s \in Slots : call[s] # Idle =>
        /\ call[s] \in Call
        /\ call[s].project \in 1 .. lastId
        /\ call[s].op = "create" => call[s].role = "admin"

\* A write only ever adds members to a project that exists, and every value has
\* its type: a call writes to the project it has resolved, by id.
THEOREM TypeCorrect == Spec => [](TypeOK /\ CallsInv)
<1> USE DEF NoProject, Idle
<1>1. Init => TypeOK /\ CallsInv
  BY DEF Init, TypeOK, CallsInv
<1>2. TypeOK /\ CallsInv /\ [Next]_vars => TypeOK' /\ CallsInv'
  <2> SUFFICES ASSUME TypeOK, CallsInv, [Next]_vars PROVE TypeOK' /\ CallsInv'
    OBVIOUS
  <2>0. project \in Nat /\ lastId \in Nat /\ project <= lastId
    BY DEF TypeOK
  <2>1. ASSUME NEW s \in Slots, Check(s) PROVE TypeOK' /\ CallsInv'
    <3>1. PICK q \in [op : {"delete", "add", "update", "remove"}, project : {project},
                      user : Users, role : Roles] : call' = [call EXCEPT ![s] = q]
      BY <2>1 DEF Check
    <3>2. project \in 1 .. lastId
      <4>1. project # 0
        BY <2>1 DEF Check
      <4>2. QED
        BY <2>0, <4>1
    <3>3. q \in Call /\ q.project = project /\ q.op # "create"
      BY DEF Call, TypeOK
    <3>4. UNCHANGED <<project, lastId, role, accidents>> /\ stale' = stale \ {s}
      BY <2>1 DEF Check
    <3>5. TypeOK'
      BY <3>1, <3>3, <3>4 DEF TypeOK
    <3>6. CallsInv'
      BY <3>1, <3>2, <3>3, <3>4 DEF CallsInv, TypeOK
    <3>7. QED
      BY <3>5, <3>6
  <2>2. ASSUME NEW s \in Slots, Write(s) PROVE TypeOK' /\ CallsInv'
    <3>1. /\ call[s] \in Call /\ call[s].project \in 1 .. lastId /\ project = call[s].project
          /\ call' = [call EXCEPT ![s] = Idle] /\ lastId' = lastId
      BY <2>2 DEF Write, Hits, Finish, CallsInv
    <3>2. /\ role' \in [Users -> Roles \cup {"none"}]
          /\ call[s].op = "delete" => \A u \in Users : role'[u] = "none"
      BY <2>2, <3>1 DEF Write, RolesAfter, Call, TypeOK
    <3>3. project' \in Nat /\ project' <= lastId /\ (project' = 0 => call[s].op = "delete")
      <4>1. project' = IF call[s].op = "delete" THEN 0 ELSE project
        BY <2>2 DEF Write
      <4>2. QED
        BY <2>0, <3>1, <4>1
    <3>4. stale' \in SUBSET Slots /\ accidents' \in SUBSET {"failed create", "stale write"}
      BY <2>2 DEF Write, TypeOK
    <3>5. QED
      BY <3>1, <3>2, <3>3, <3>4 DEF TypeOK, CallsInv
  <2>3. ASSUME NEW s \in Slots, WriteFails(s) PROVE TypeOK' /\ CallsInv'
    BY <2>3 DEF WriteFails, Finish, TypeOK, CallsInv
  <2>4. ASSUME NEW s \in Slots, InsertProject(s) PROVE TypeOK' /\ CallsInv'
    <3>1. PICK u \in Users : call' = [call EXCEPT ![s] =
             [op |-> "create", project |-> lastId + 1, user |-> u, role |-> "admin"]]
      BY <2>4 DEF InsertProject
    <3> DEFINE q == [op |-> "create", project |-> lastId + 1, user |-> u, role |-> "admin"]
    <3>2. lastId + 1 \in Nat /\ lastId + 1 \in 1 .. lastId + 1 /\ 1 .. lastId \subseteq 1 .. lastId + 1
      BY <2>0
    <3>3. q \in Call /\ q.project = lastId + 1 /\ q.role = "admin"
      BY <3>2 DEF Call, Roles
    <3>4. /\ project' = lastId + 1 /\ lastId' = lastId + 1 /\ accidents' = {}
          /\ UNCHANGED <<role, stale>>
      BY <2>4 DEF InsertProject
    <3> HIDE DEF q
    <3>5. call' = [call EXCEPT ![s] = q]
      BY <3>1 DEF q
    <3>6. TypeOK'
      <4>1. project' \in Nat /\ lastId' \in Nat /\ project' <= lastId' /\ project' # 0
        BY <2>0, <3>4
      <4>2. QED
        BY <3>3, <3>4, <3>5, <4>1 DEF TypeOK
    <3>7. CallsInv'
      BY <3>2, <3>3, <3>4, <3>5 DEF CallsInv, TypeOK
    <3>8. QED
      BY <3>6, <3>7
  <2>5. ASSUME UNCHANGED vars PROVE TypeOK' /\ CallsInv'
    BY <2>5 DEF vars, TypeOK, CallsInv
  <2>6. QED
    BY <2>1, <2>2, <2>3, <2>4, <2>5 DEF Next
<1>3. QED
  BY <1>1, <1>2, PTL DEF Spec

-----------------------------------------------------------------------------
\* The calls that take the admin role from a user if they find him in it.
Demotes(q) == q.op = "remove" \/ (q.op = "update" /\ q.role # "admin")

\* What the guard has established still holds for every call that is not stale.
GuardInv ==
    \A s \in Slots \ stale :
        call[s] # Idle /\ call[s].project = project /\ Demotes(call[s])
            => Admins # {call[s].user}

AdminInv == GuardInv /\ ProjectHasAdmin

\* What the guard establishes: taking the role from somebody who is not the last
\* admin leaves an admin.
LEMMA NotLastAdmin ==
    ASSUME NEW u \in Users, ~IsLastAdmin(u)
    PROVE  Admins # {u}
<1> SUFFICES ASSUME Admins = {u} PROVE FALSE
  OBVIOUS
<1>1. Cardinality({u}) = 1
  BY FS_Singleton
<1>2. role[u] = "admin"
  BY DEF Admins
<1>3. QED
  BY <1>1, <1>2 DEF IsLastAdmin

\* The admins after a write of each kind.
LEMMA AdminsAfterWrite ==
    ASSUME TypeOK, CallsInv, NEW s \in Slots, Write(s), call[s].op # "delete"
    PROVE  /\ Admins \ {call[s].user} \subseteq Admins'
           /\ ~Demotes(call[s]) /\ call[s].op # "add" => call[s].user \in Admins'
           /\ call[s].op = "add" => Admins \subseteq Admins'
<1>1. call[s] \in Call /\ (call[s].op = "create" => call[s].role = "admin")
  BY DEF Write, CallsInv
<1>2. role' = [role EXCEPT ![call[s].user] = IF call[s].op = "remove" THEN "none" ELSE call[s].role]
  BY DEF Write, RolesAfter
<1>3. call[s].op \in {"create", "add", "update", "remove"} /\ call[s].user \in Users
  BY <1>1 DEF Call
<1>4. call[s].op = "add" => role[call[s].user] = "none"
  BY DEF Write, Hits
<1>5. QED
  BY <1>1, <1>2, <1>3, <1>4 DEF Admins, Demotes, TypeOK

\* A project keeps an admin through every interleaving of the guards and the
\* writes, but for the two accidents.
THEOREM AdminKept == Spec => []ProjectHasAdmin
<1> USE DEF NoProject
<1>1. Init => AdminInv
  BY DEF Init, AdminInv, GuardInv, ProjectHasAdmin, NoProject
<1>2. TypeOK /\ CallsInv /\ AdminInv /\ [Next]_vars => AdminInv'
  <2> SUFFICES ASSUME TypeOK, CallsInv, AdminInv, [Next]_vars PROVE AdminInv'
    OBVIOUS
  <2>1. ASSUME NEW s \in Slots, Check(s) PROVE AdminInv'
    <3>1. PICK q \in [op : {"delete", "add", "update", "remove"}, project : {project},
                      user : Users, role : Roles], auth \in Roles :
             Allowed(auth, q) /\ call' = [call EXCEPT ![s] = q]
      BY <2>1 DEF Check
    <3>2. /\ UNCHANGED <<project, role, accidents>> /\ stale' = stale \ {s}
          /\ call[s] = Idle
      BY <2>1 DEF Check
    <3>3. Admins' = Admins
      BY <3>2 DEF Admins
    <3>4. Demotes(q) => Admins # {q.user}
      BY <3>1, NotLastAdmin DEF Allowed, Demotes
    <3>5. GuardInv'
      <4> SUFFICES ASSUME NEW t \in Slots, t \notin stale', call'[t] # Idle,
                          call'[t].project = project', Demotes(call'[t])
                   PROVE  Admins' # {call'[t].user}
        BY DEF GuardInv, Demotes
      <4>1. CASE t = s
        <5>1. call'[t] = q
          BY <3>1, <4>1 DEF TypeOK
        <5>2. QED
          BY <3>3, <3>4, <5>1
      <4>2. CASE t # s
        <5>1. call'[t] = call[t] /\ call[t] # Idle /\ t \notin stale
          BY <3>1, <3>2, <4>2 DEF TypeOK
        <5>2. QED
          BY <3>2, <3>3, <5>1 DEF AdminInv, GuardInv
      <4>3. QED
        BY <4>1, <4>2
    <3>6. ProjectHasAdmin'
      <4>1. ASSUME NEW t \in Slots, Creating(t) PROVE Creating(t)'
        <5>1. t # s
          BY <3>2, <4>1 DEF Creating, Idle
        <5>2. call'[t] = call[t]
          BY <3>1, <5>1 DEF TypeOK
        <5>3. QED
          BY <3>2, <4>1, <5>2 DEF Creating
      <4>2. QED
        BY <3>2, <3>3, <4>1 DEF AdminInv, ProjectHasAdmin
    <3>7. QED
      BY <3>5, <3>6 DEF AdminInv
  <2>2. ASSUME NEW s \in Slots, Write(s) PROVE AdminInv'
    <3>1. /\ call[s] \in Call /\ project = call[s].project /\ call' = [call EXCEPT ![s] = Idle]
          /\ \A t \in Slots : call[t] # Idle => call[t].project \in 1 .. lastId
          /\ call[s].user \in Users
      BY <2>2 DEF Write, Hits, Finish, CallsInv, Call
    <3>2. project' = IF call[s].op = "delete" THEN NoProject ELSE project
      BY <2>2 DEF Write
    <3>3. GuardInv'
      <4> SUFFICES ASSUME NEW t \in Slots, t \notin stale', call'[t] # Idle,
                          call'[t].project = project', Demotes(call'[t])
                   PROVE  Admins' # {call'[t].user}
        BY DEF GuardInv, Demotes
      <4>1. t # s /\ call'[t] = call[t]
        BY <3>1 DEF TypeOK
      <4>2. Admins' = Admins /\ t \notin stale
        BY <2>2, <4>1 DEF Write
      <4>3. project' = project
        BY <3>1, <3>2, <4>1
      <4>4. QED
        BY <4>1, <4>2, <4>3 DEF AdminInv, GuardInv
    <3>4. ProjectHasAdmin'
      <4>1. CASE call[s].op = "delete"
        BY <3>2, <4>1 DEF ProjectHasAdmin
      <4>2. CASE call[s].op # "delete"
        <5>1. project' = project
          BY <3>2, <4>2
        <5>2. ASSUME NEW t \in Slots, t # s, Creating(t) PROVE Creating(t)'
          BY <3>1, <5>1, <5>2 DEF Creating, TypeOK
        <5>3. CASE ~Demotes(call[s])
          <6>1. call[s].user \in Admins' \/ Admins \subseteq Admins'
            BY <2>2, <4>2, <5>3, AdminsAfterWrite
          <6>2. Creating(s) => call[s].user \in Admins'
            BY <2>2, <4>2, <5>3, AdminsAfterWrite DEF Creating
          <6>3. accidents \subseteq accidents'
            BY <2>2 DEF Write
          <6>4. QED
            BY <5>1, <5>2, <6>1, <6>2, <6>3 DEF AdminInv, ProjectHasAdmin
        <5>4. CASE Demotes(call[s])
          <6>1. call[s].op \in {"update", "remove"} /\ ~Creating(s)
            BY <5>4 DEF Demotes, Creating
          <6>2. accidents \subseteq accidents' /\ (s \in stale => accidents' # {})
            BY <2>2, <6>1 DEF Write
          <6>3. s \notin stale => Admins # {call[s].user}
            BY <2>2, <3>1, <5>4 DEF AdminInv, GuardInv, Write
          <6>4. s \notin stale /\ Admins # {} => Admins' # {}
            BY <2>2, <4>2, <6>3, AdminsAfterWrite
          <6>5. QED
            BY <5>1, <5>2, <6>1, <6>2, <6>4 DEF AdminInv, ProjectHasAdmin
        <5>5. QED
          BY <5>3, <5>4
      <4>3. QED
        BY <4>1, <4>2
    <3>5. QED
      BY <3>3, <3>4 DEF AdminInv
  <2>3. ASSUME NEW s \in Slots, WriteFails(s) PROVE AdminInv'
    <3>1. /\ UNCHANGED <<project, role>> /\ call' = [call EXCEPT ![s] = Idle]
          /\ stale' = stale \ {s}
          /\ accidents \subseteq accidents' /\ (Creating(s) => accidents' # {})
      BY <2>3 DEF WriteFails, Finish, Creating
    <3>2. \A t \in Slots : t # s => call'[t] = call[t]
      BY <3>1 DEF TypeOK
    <3>3. call'[s] = Idle
      BY <3>1 DEF TypeOK
    <3>4. Admins' = Admins
      BY <3>1 DEF Admins
    <3>5. GuardInv'
      <4> SUFFICES ASSUME NEW t \in Slots, t \notin stale', call'[t] # Idle,
                          call'[t].project = project', Demotes(call'[t])
                   PROVE  Admins' # {call'[t].user}
        BY DEF GuardInv, Demotes
      <4>1. call'[t] = call[t] /\ t \notin stale
        BY <3>1, <3>2, <3>3
      <4>2. QED
        BY <3>1, <3>4, <4>1 DEF AdminInv, GuardInv
    <3>6. ProjectHasAdmin'
      BY <3>1, <3>2, <3>4 DEF AdminInv, ProjectHasAdmin, Creating
    <3>7. QED
      BY <3>5, <3>6 DEF AdminInv
  <2>4. ASSUME NEW s \in Slots, InsertProject(s) PROVE AdminInv'
    <3>1. PICK u \in Users : call' = [call EXCEPT ![s] =
             [op |-> "create", project |-> lastId + 1, user |-> u, role |-> "admin"]]
      BY <2>4 DEF InsertProject
    <3>2. project' = lastId + 1 /\ lastId \in Nat /\ stale' = stale
      BY <2>4 DEF InsertProject, TypeOK
    <3>3. Creating(s)'
      BY <3>1, <3>2 DEF Creating, TypeOK
    <3>4. ASSUME NEW t \in Slots, t # s, call'[t] # Idle PROVE call'[t].project # project'
      <4>1. call'[t] = call[t]
        BY <3>1, <3>4 DEF TypeOK
      <4>2. call[t].project \in 1 .. lastId
        BY <3>4, <4>1 DEF CallsInv
      <4>3. QED
        BY <3>2, <4>1, <4>2
    <3>5. ~Demotes(call'[s])
      BY <3>1 DEF Demotes, TypeOK
    <3>6. GuardInv'
      BY <3>4, <3>5 DEF GuardInv, Demotes
    <3>7. QED
      BY <3>3, <3>6 DEF AdminInv, ProjectHasAdmin
  <2>5. ASSUME UNCHANGED vars PROVE AdminInv'
    BY <2>5 DEF vars, AdminInv, GuardInv, ProjectHasAdmin, IsLastAdmin, Admins, Creating, Demotes
  <2>6. QED
    BY <2>1, <2>2, <2>3, <2>4, <2>5 DEF Next
<1>3. QED
  BY <1>1, <1>2, TypeCorrect, PTL DEF Spec, AdminInv

\* A call never writes to a project created under the slug after it had resolved
\* it: the statements name the project by id.
THEOREM WritesStay == Spec => WritesStayInProject
<1> DEFINE A == \A s \in Slots : call[s] # Idle /\ call'[s] = Idle /\ call[s].project # project
                                    => role' = role /\ project' = project
<1>1. TypeOK /\ [Next]_vars => A
  <2> SUFFICES ASSUME TypeOK, [Next]_vars, NEW s \in Slots, call[s] # Idle, call'[s] = Idle,
                      call[s].project # project
               PROVE  role' = role /\ project' = project
    OBVIOUS
  <2>1. PICK t \in Slots : Check(t) \/ Write(t) \/ WriteFails(t) \/ InsertProject(t)
    BY DEF Next, vars
  <2>2. t = s
    BY <2>1 DEF Check, Write, WriteFails, InsertProject, Finish, TypeOK
  <2>3. QED
    BY <2>1, <2>2 DEF Check, Write, WriteFails, InsertProject, Hits
<1>2. QED
  BY <1>1, TypeCorrect, PTL DEF Spec, WritesStayInProject

-----------------------------------------------------------------------------
(***************************************************************************)
(* FlagEnvironments: a state row belongs to a flag and an environment there *)
(* are, and every pair of them has one unless the two were created side by  *)
(* side.                                                                    *)
(***************************************************************************)
Inserts(s) == request[s].pc \in {"inserted", "listed", "stored"}
Listed(s) == request[s].pc \in {"listed", "stored"}

\* What the locks on rows give: an id that is being inserted is known to nobody
\* else, a row that is being deleted is there and deleted once, and no row a
\* state row refers to goes away before the commit.
LockInv ==
  /\ \A s \in Tasks : request[s] # NoRequest => request[s].id \in used
  /\ \A s \in Tasks : Inserts(s) => request[s].id \notin live
  /\ \A s, t \in Tasks : s # t /\ Inserts(s) /\ request[t] # NoRequest
                           => request[t].id # request[s].id
  /\ \A s \in Tasks : request[s].pc = "deleted" => request[s].id \in live
  /\ \A s, t \in Tasks : s # t /\ request[s].pc = "deleted" /\ request[t].pc = "deleted"
                           => request[t].id # request[s].id
  /\ \A s \in Tasks : request[s].pc = "stored" => request[s].others \subseteq live
  /\ \A s, t \in Tasks : request[s].pc = "stored" /\ request[t].pc = "deleted"
                           => request[t].id \notin request[s].others

\* One of the two listed the other kind while the other was not committed.
Excused(pairs, x, y) == <<x, y>> \in pairs \/ <<y, x>> \in pairs

\* A request that has listed the other kind stores a row for every one there is
\* by now, or is excused; and two such requests have not seen each other, but
\* the second to list knows of the first.
CoverInv ==
  /\ \A f \in live \cap Flags, e \in live \cap Environments :
       <<f, e>> \in states \/ Excused(missed, f, e)
  /\ \A s \in Tasks : Listed(s) =>
       \A y \in live \cap OtherKind(request[s].id) :
         y \in request[s].others \/ Excused(missed, request[s].id, y)
  /\ \A s, t \in Tasks : Listed(s) /\ Listed(t) /\ request[t].id \in OtherKind(request[s].id)
       => Excused(missed, request[s].id, request[t].id)

-----------------------------------------------------------------------------
\* No row is both a flag and an environment, so each is of the other one's other
\* kind, and Pair puts the flag first.
LEMMA Kinds ==
  /\ Flags \cap Environments = {}
  /\ \A x \in Ids : \A y \in OtherKind(x) :
       /\ y \in Ids /\ x \in OtherKind(y) /\ x # y
       /\ Pair(x, y) \in Flags \X Environments
       /\ Pair(x, y) \in {<<x, y>>, <<y, x>>}
<1>1. Flags \cap Environments = {}
  BY DEF Flags, Environments
<1>2. QED
  BY <1>1 DEF Ids, OtherKind, Pair

LEMMA IdlePc ==
  ASSUME MatrixTypeOK, NEW s \in Tasks
  PROVE  /\ request[s] = NoRequest <=> request[s].pc = "idle"
         /\ request[s] # NoRequest => /\ request[s] \in Request /\ request[s].id \in Ids
                                      /\ request[s].others \subseteq OtherKind(request[s].id)
BY DEF MatrixTypeOK, Request, NoRequest

\* The slots an action of slot s leaves alone.
LEMMA OneSlot ==
  ASSUME MatrixTypeOK, NEW s \in Tasks, NEW r, request' = [request EXCEPT ![s] = r]
  PROVE  request'[s] = r /\ \A t \in Tasks : t # s => request'[t] = request[t]
BY DEF MatrixTypeOK

LEMMA PendingRows ==
  ASSUME NEW s \in Tasks
  PROVE  /\ Inserts(s) => request[s].id \in Inserting
         /\ request[s].pc = "deleted" => request[s].id \in Deleting
         /\ request[s].pc = "stored" => request[s].others \subseteq Referred
BY DEF Inserts, Inserting, Deleting, Referred, Pending

LEMMA InsertingIsUsed ==
  ASSUME MatrixTypeOK, LockInv, NEW y \in Inserting
  PROVE  y \in used
<1>1. PICK s \in Tasks : Inserts(s) /\ y = request[s].id
  BY DEF Inserting, Pending, Inserts
<1>2. QED
  BY <1>1, IdlePc DEF Inserts, LockInv

-----------------------------------------------------------------------------
\* A state row belongs to a flag and an environment there are, whatever is
\* created and deleted at the same time (the foreign keys and the cascade), and
\* the locks keep what they are for.
THEOREM MatrixCorrect == MatrixSpec => [](MatrixTypeOK /\ LockInv)
<1>1. MatrixInit => MatrixTypeOK /\ LockInv
  BY DEF MatrixInit, MatrixTypeOK, LockInv, Inserts, NoRequest
<1>2. MatrixTypeOK /\ LockInv /\ [MatrixNext]_matrixVars => MatrixTypeOK' /\ LockInv'
  <2> SUFFICES ASSUME MatrixTypeOK, LockInv, [MatrixNext]_matrixVars PROVE MatrixTypeOK' /\ LockInv'
    OBVIOUS
  <2>1. ASSUME NEW s \in Tasks, NEW x \in Ids, InsertRow(s, x) PROVE MatrixTypeOK' /\ LockInv'
    <3> DEFINE r == [pc |-> "inserted", id |-> x, others |-> {}]
    <3>1. /\ request' = [request EXCEPT ![s] = r] /\ x \notin used /\ used' = used \cup {x}
          /\ UNCHANGED <<live, states, missed>>
      BY <2>1 DEF InsertRow, Step
    <3>2. r \in Request /\ r # NoRequest /\ r.id = x /\ r.pc = "inserted" /\ r.others = {}
      BY DEF Request, NoRequest
    <3> HIDE DEF r
    <3>3. request'[s] = r /\ \A t \in Tasks : t # s => request'[t] = request[t]
      BY <3>1, OneSlot
    <3>4. MatrixTypeOK'
      BY <3>1, <3>2, <3>3 DEF MatrixTypeOK
    <3>5. LockInv'
      BY <3>1, <3>2, <3>3, IdlePc DEF LockInv, Inserts, MatrixTypeOK
    <3>6. QED
      BY <3>4, <3>5
  <2>2. ASSUME NEW s \in Tasks, ListOthers(s) PROVE MatrixTypeOK' /\ LockInv'
    <3> DEFINE x == request[s].id
               r == [pc |-> "listed", id |-> x, others |-> Backfill(x)]
    <3>1. /\ request' = [request EXCEPT ![s] = r] /\ request[s].pc = "inserted"
          /\ UNCHANGED <<live, states, used>>
          /\ missed' = missed \cup {<<x, y>> : y \in Inserting \cap OtherKind(x)}
      BY <2>2 DEF ListOthers, Step
    <3>2. request[s] # NoRequest /\ x \in Ids /\ x \in used
      BY <3>1, IdlePc DEF LockInv
    <3>3. /\ r \in Request /\ r # NoRequest /\ r.id = x /\ r.pc = "listed"
          /\ r.others \subseteq OtherKind(x)
      BY <3>2 DEF Request, NoRequest, Backfill, OtherKind, Ids
    <3>4. missed' \subseteq used \X used
      BY <3>1, <3>2, InsertingIsUsed DEF MatrixTypeOK
    <3> HIDE DEF r
    <3>5. request'[s] = r /\ \A t \in Tasks : t # s => request'[t] = request[t]
      BY <3>1, OneSlot
    <3>6. MatrixTypeOK'
      BY <3>1, <3>3, <3>4, <3>5 DEF MatrixTypeOK
    <3>7. LockInv'
      BY <3>1, <3>2, <3>3, <3>5, IdlePc DEF LockInv, Inserts
    <3>8. QED
      BY <3>6, <3>7
  <2>3. ASSUME NEW s \in Tasks, CreateBatch(s) PROVE MatrixTypeOK' /\ LockInv'
    <3> DEFINE r == [pc |-> "stored", id |-> request[s].id, others |-> request[s].others]
    <3>1. /\ request' = [request EXCEPT ![s] = r] /\ request[s].pc = "listed"
          /\ request[s].others \subseteq live \ Deleting
          /\ UNCHANGED <<live, states, used, missed>>
      BY <2>3 DEF CreateBatch, Step
    <3>2. request[s] # NoRequest /\ request[s] \in Request
      BY <3>1, IdlePc
    <3>3. /\ r \in Request /\ r # NoRequest /\ r.id = request[s].id /\ r.pc = "stored"
          /\ r.others = request[s].others
      BY <3>2 DEF Request, NoRequest
    <3> HIDE DEF r
    <3>4. request'[s] = r /\ \A t \in Tasks : t # s => request'[t] = request[t]
      BY <3>1, OneSlot
    <3>5. MatrixTypeOK'
      BY <3>1, <3>2, <3>3, <3>4 DEF MatrixTypeOK
    <3>6. LockInv'
      BY <3>1, <3>2, <3>3, <3>4, IdlePc, PendingRows DEF LockInv, Inserts
    <3>7. QED
      BY <3>5, <3>6
  <2>4. ASSUME NEW s \in Tasks, NEW x \in Ids, Find(s, x) PROVE MatrixTypeOK' /\ LockInv'
    <3> DEFINE r == [pc |-> "found", id |-> x, others |-> {}]
    <3>1. /\ request' = [request EXCEPT ![s] = r] /\ x \in live
          /\ UNCHANGED <<live, states, used, missed>>
      BY <2>4 DEF Find, Step
    <3>2. r \in Request /\ r # NoRequest /\ r.id = x /\ r.pc = "found" /\ r.others = {}
      BY DEF Request, NoRequest
    <3> HIDE DEF r
    <3>3. request'[s] = r /\ \A t \in Tasks : t # s => request'[t] = request[t]
      BY <3>1, OneSlot
    <3>4. MatrixTypeOK'
      BY <3>1, <3>2, <3>3 DEF MatrixTypeOK
    <3>5. LockInv'
      BY <3>1, <3>2, <3>3, IdlePc DEF LockInv, Inserts, MatrixTypeOK
    <3>6. QED
      BY <3>4, <3>5
  <2>5. ASSUME NEW s \in Tasks, Delete(s) PROVE MatrixTypeOK' /\ LockInv'
    <3> DEFINE x == request[s].id
               r == [pc |-> "deleted", id |-> x, others |-> {}]
    <3>1. /\ request' = [request EXCEPT ![s] = r] /\ request[s].pc = "found"
          /\ x \in live /\ x \notin Deleting /\ x \notin Referred
          /\ UNCHANGED <<live, states, used, missed>>
      BY <2>5 DEF Delete, Step
    <3>2. request[s] # NoRequest /\ x \in Ids
      BY <3>1, IdlePc
    <3>3. r \in Request /\ r # NoRequest /\ r.id = x /\ r.pc = "deleted" /\ r.others = {}
      BY <3>2 DEF Request, NoRequest
    <3> HIDE DEF r
    <3>4. request'[s] = r /\ \A t \in Tasks : t # s => request'[t] = request[t]
      BY <3>1, OneSlot
    <3>5. MatrixTypeOK'
      BY <3>1, <3>3, <3>4 DEF MatrixTypeOK
    <3>6. LockInv'
      BY <3>1, <3>2, <3>3, <3>4, IdlePc, PendingRows DEF LockInv, Inserts
    <3>7. QED
      BY <3>5, <3>6
  <2>6. ASSUME NEW s \in Tasks, Commit(s) \/ Fail(s) PROVE MatrixTypeOK' /\ LockInv'
    <3> DEFINE x == request[s].id
    <3>1. /\ request' = [request EXCEPT ![s] = NoRequest] /\ used' = used
          /\ missed' \subseteq missed /\ request[s] # NoRequest
      BY <2>6, IdlePc DEF Commit, Fail, EndRequest
    <3>2. request'[s] = NoRequest /\ \A t \in Tasks : t # s => request'[t] = request[t]
      BY <3>1, OneSlot
    <3>3. \/ UNCHANGED <<live, states>>
          \/ /\ request[s].pc = "stored" /\ live' = live \cup {x}
             /\ states' = states \cup {Pair(x, y) : y \in request[s].others}
          \/ /\ request[s].pc = "deleted" /\ live' = live \ {x}
             /\ states' = states \ Of(x, states)
      BY <2>6 DEF Commit, Fail
    <3>4. x \in used /\ x \in Ids /\ request[s].others \subseteq OtherKind(x)
      BY <3>1, IdlePc DEF LockInv
    <3>5. states' \subseteq (Flags \cap live') \X (Environments \cap live')
      <4>1. CASE UNCHANGED <<live, states>>
        BY <4>1 DEF MatrixTypeOK
      <4>2. CASE /\ request[s].pc = "stored" /\ live' = live \cup {x}
                 /\ states' = states \cup {Pair(x, y) : y \in request[s].others}
        <5>1. \A y \in request[s].others :
                 Pair(x, y) \in (Flags \cap live') \X (Environments \cap live')
          BY <3>4, <4>2, Kinds DEF LockInv
        <5>2. QED
          BY <4>2, <5>1 DEF MatrixTypeOK
      <4>3. CASE /\ request[s].pc = "deleted" /\ live' = live \ {x}
                 /\ states' = states \ Of(x, states)
        BY <4>3 DEF MatrixTypeOK, Of
      <4>4. QED
        BY <3>3, <4>1, <4>2, <4>3
    <3>6. live' \subseteq used'
      BY <3>1, <3>3, <3>4 DEF MatrixTypeOK
    <3>7. MatrixTypeOK'
      BY <3>1, <3>2, <3>5, <3>6 DEF MatrixTypeOK
    <3>8. LockInv'
      <4>0. NoRequest.pc = "idle"
        BY DEF NoRequest
      <4>1. CASE UNCHANGED <<live, states>>
        BY <3>1, <3>2, <4>0, <4>1 DEF LockInv, Inserts
      <4>2. CASE request[s].pc = "stored" /\ live' = live \cup {x}
        <5>1. Inserts(s)
          BY <4>2 DEF Inserts
        <5>2. QED
          BY <3>1, <3>2, <4>0, <4>2, <5>1, IdlePc DEF LockInv, Inserts
      <4>3. CASE request[s].pc = "deleted" /\ live' = live \ {x}
        BY <3>1, <3>2, <4>0, <4>3 DEF LockInv, Inserts
      <4>4. QED
        BY <3>3, <4>1, <4>2, <4>3
    <3>9. QED
      BY <3>7, <3>8
  <2>7. ASSUME UNCHANGED matrixVars PROVE MatrixTypeOK' /\ LockInv'
    BY <2>7 DEF matrixVars, MatrixTypeOK, LockInv, Inserts
  <2>8. QED
    BY <2>1, <2>2, <2>3, <2>4, <2>5, <2>6, <2>7 DEF MatrixNext, CreateFlag, CreateEnvironment
<1>3. QED
  BY <1>1, <1>2, PTL DEF MatrixSpec

-----------------------------------------------------------------------------
\* A flag and an environment share a state row unless one of them was created
\* while the other one was being created.
THEOREM PairsHaveStates == MatrixSpec => []EveryPairHasState
<1>1. MatrixInit => CoverInv
  BY DEF MatrixInit, CoverInv, Listed, NoRequest
<1>2. MatrixTypeOK /\ LockInv /\ CoverInv /\ [MatrixNext]_matrixVars => CoverInv'
  <2> SUFFICES ASSUME MatrixTypeOK, LockInv, CoverInv, [MatrixNext]_matrixVars PROVE CoverInv'
    OBVIOUS
  <2>1. ASSUME NEW s \in Tasks, NEW r, request' = [request EXCEPT ![s] = r],
               r.pc \notin {"listed", "stored"}, UNCHANGED <<live, states, missed>>
        PROVE  CoverInv'
    <3>1. request'[s] = r /\ \A t \in Tasks : t # s => request'[t] = request[t]
      BY <2>1, OneSlot
    <3>2. QED
      BY <2>1, <3>1 DEF CoverInv, Listed
  <2>2. ASSUME NEW s \in Tasks,
               Delete(s) \/ \E x \in Ids : InsertRow(s, x) \/ Find(s, x)
        PROVE  CoverInv'
    BY <2>1, <2>2 DEF InsertRow, Find, Delete, Step
  <2>3. ASSUME NEW s \in Tasks, ListOthers(s) PROVE CoverInv'
    <3> DEFINE x == request[s].id
    <3>1. /\ request[s].pc = "inserted" /\ UNCHANGED <<live, states>>
          /\ request' = [request EXCEPT ![s] =
                            [pc |-> "listed", id |-> x, others |-> live \cap OtherKind(x)]]
          /\ missed' = missed \cup {<<x, y>> : y \in Inserting \cap OtherKind(x)}
      BY <2>3 DEF ListOthers, Step, Backfill
    <3>2. /\ request'[s] = [pc |-> "listed", id |-> x, others |-> live \cap OtherKind(x)]
          /\ \A t \in Tasks : t # s => request'[t] = request[t]
      BY <3>1, OneSlot
    <3>3. x \in Ids
      BY <3>1, IdlePc
    <3>4. \A y, z : Excused(missed, y, z) => Excused(missed', y, z)
      BY <3>1 DEF Excused
    <3>5. ASSUME NEW t \in Tasks, t # s, Listed(t), request[t].id \in OtherKind(x)
          PROVE  Excused(missed', x, request[t].id) /\ Excused(missed', request[t].id, x)
      <4>1. request[t].id \in Inserting
        BY <3>5, PendingRows DEF Listed, Inserts
      <4>2. <<x, request[t].id>> \in missed'
        BY <3>1, <3>5, <4>1
      <4>3. QED
        BY <3>1, <4>2, <3>2, <3>5 DEF Excused
    <3>6. \A t \in Tasks : Listed(t)' => t = s \/ Listed(t)
      BY <3>2 DEF Listed
    <3>7. \A t \in Tasks : Listed(t) /\ x \in OtherKind(request[t].id) => request[t].id \in OtherKind(x)
      BY IdlePc, Kinds DEF Listed
    <3>8. x \notin OtherKind(x)
      BY <3>3, Kinds
    <3>9. \A f \in live' \cap Flags, e \in live' \cap Environments :
             <<f, e>> \in states' \/ Excused(missed', f, e)
      BY <3>1, <3>4 DEF CoverInv
    <3>10. ASSUME NEW t \in Tasks, Listed(t)', NEW y \in live' \cap OtherKind(request'[t].id)
           PROVE  y \in request'[t].others \/ Excused(missed', request'[t].id, y)
      <4>1. CASE t = s
        BY <3>1, <3>2, <3>10, <4>1
      <4>2. CASE t # s
        BY <3>1, <3>2, <3>4, <3>6, <3>10, <4>2 DEF CoverInv
      <4>3. QED
        BY <4>1, <4>2
    <3>11. ASSUME NEW t \in Tasks, NEW u \in Tasks, Listed(t)', Listed(u)',
                  request'[u].id \in OtherKind(request'[t].id)
           PROVE  Excused(missed', request'[t].id, request'[u].id)
      <4>1. CASE t = s /\ u # s
        BY <3>2, <3>5, <3>6, <3>11, <4>1
      <4>2. CASE t # s /\ u = s
        BY <3>2, <3>5, <3>6, <3>7, <3>11, <4>2
      <4>3. CASE t # s /\ u # s
        BY <3>2, <3>4, <3>6, <3>11, <4>3 DEF CoverInv
      <4>4. QED
        BY <3>2, <3>8, <3>11, <4>1, <4>2, <4>3
    <3>12. QED
      BY <3>9, <3>10, <3>11 DEF CoverInv
  <2>4. ASSUME NEW s \in Tasks, CreateBatch(s) PROVE CoverInv'
    <3>1. /\ request[s].pc = "listed" /\ UNCHANGED <<live, states, missed>>
          /\ request' = [request EXCEPT ![s] = [pc |-> "stored", id |-> request[s].id,
                                                others |-> request[s].others]]
      BY <2>4 DEF CreateBatch, Step
    <3>2. ASSUME NEW t \in Tasks, Listed(t)'
          PROVE  /\ Listed(t) /\ request'[t].id = request[t].id
                 /\ request'[t].others = request[t].others
      <4>1. CASE t = s
        BY <3>1, <4>1, OneSlot DEF Listed
      <4>2. CASE t # s
        <5>1. request'[t] = request[t]
          BY <3>1, <4>2, OneSlot
        <5>2. QED
          BY <3>2, <5>1 DEF Listed
      <4>3. QED
        BY <4>1, <4>2
    <3>3. QED
      BY <3>1, <3>2 DEF CoverInv
  <2>5. ASSUME NEW s \in Tasks, Commit(s) \/ Fail(s) PROVE CoverInv'
    <3> DEFINE x == request[s].id
    <3>1. request' = [request EXCEPT ![s] = NoRequest] /\ EndRequest(s) /\ request[s] # NoRequest
      BY <2>5, IdlePc DEF Commit, Fail, EndRequest
    <3>2. request'[s] = NoRequest /\ \A t \in Tasks : t # s => request'[t] = request[t]
      BY <3>1, OneSlot
    <3>3. \A t \in Tasks : Listed(t)' => t # s /\ Listed(t) /\ request[t].id # x
      BY <3>1, <3>2 DEF Listed, Inserts, LockInv, NoRequest
    <3>4. \A y, z : Excused(missed, y, z) /\ (x \in live' \/ (y # x /\ z # x)) => Excused(missed', y, z)
      <4> SUFFICES ASSUME NEW y, NEW z, Excused(missed, y, z), x \in live' \/ (y # x /\ z # x)
                   PROVE  Excused(missed', y, z)
        OBVIOUS
      <4>1. missed' = missed \/ (x \notin live' /\ missed' = missed \ Of(x, missed))
        BY <3>1 DEF EndRequest
      <4>2. QED
        BY <4>1 DEF Excused, Of
    <3>5. \/ UNCHANGED <<live, states>>
          \/ /\ request[s].pc = "stored" /\ live' = live \cup {x}
             /\ states' = states \cup {Pair(x, y) : y \in request[s].others}
          \/ /\ request[s].pc = "deleted" /\ live' = live \ {x}
             /\ states' = states \ Of(x, states)
      BY <2>5 DEF Commit, Fail
    <3>6. CASE live' \subseteq live
      <4>1. \A y, z : y \in live' /\ z \in live' /\ <<y, z>> \in states => <<y, z>> \in states'
        BY <3>5, <3>6 DEF Of
      <4>2. \A f \in live' \cap Flags, e \in live' \cap Environments :
               <<f, e>> \in states' \/ Excused(missed', f, e)
        BY <3>4, <3>6, <4>1 DEF CoverInv
      <4>3. ASSUME NEW t \in Tasks, Listed(t)', NEW y \in live' \cap OtherKind(request'[t].id)
            PROVE  y \in request'[t].others \/ Excused(missed', request'[t].id, y)
        BY <3>2, <3>3, <3>4, <3>6, <4>3 DEF CoverInv
      <4>4. ASSUME NEW t \in Tasks, NEW u \in Tasks, Listed(t)', Listed(u)',
                   request'[u].id \in OtherKind(request'[t].id)
            PROVE  Excused(missed', request'[t].id, request'[u].id)
        BY <3>2, <3>3, <3>4, <4>4 DEF CoverInv
      <4>5. QED
        BY <4>2, <4>3, <4>4 DEF CoverInv
    <3>7. CASE /\ request[s].pc = "stored" /\ live' = live \cup {x}
               /\ states' = states \cup {Pair(x, y) : y \in request[s].others}
      <4>1. Listed(s) /\ x \in Ids
        BY <3>1, <3>7, IdlePc DEF Listed
      <4>2. \A y, z : Excused(missed, y, z) => Excused(missed', y, z)
        BY <3>4, <3>7
      <4>3. ASSUME NEW y \in live, y \in OtherKind(x) PROVE Pair(x, y) \in states' \/ Excused(missed', x, y)
        BY <3>7, <4>1, <4>2, <4>3 DEF CoverInv
      <4>4. \A f \in live' \cap Flags, e \in live' \cap Environments :
               <<f, e>> \in states' \/ Excused(missed', f, e)
        <5> SUFFICES ASSUME NEW f \in live' \cap Flags, NEW e \in live' \cap Environments
                     PROVE  <<f, e>> \in states' \/ Excused(missed', f, e)
          OBVIOUS
        <5>1. CASE f = x /\ e # x
          <6>1. e \in OtherKind(x) /\ Pair(x, e) = <<f, e>>
            BY <5>1 DEF OtherKind, Pair
          <6>2. QED
            BY <3>7, <4>3, <5>1, <6>1
        <5>2. CASE e = x /\ f # x
          <6>1. f \in OtherKind(x) /\ Pair(x, f) = <<f, e>>
            BY <5>2, Kinds DEF OtherKind, Pair
          <6>2. Excused(missed', x, f) => Excused(missed', f, e)
            BY <5>2 DEF Excused
          <6>3. QED
            BY <3>7, <4>3, <5>2, <6>1, <6>2
        <5>3. CASE e # x /\ f # x
          BY <3>7, <4>2, <5>3 DEF CoverInv
        <5>4. QED
          BY <5>1, <5>2, <5>3, Kinds
      <4>5. ASSUME NEW t \in Tasks, Listed(t)', NEW y \in live' \cap OtherKind(request'[t].id)
            PROVE  y \in request'[t].others \/ Excused(missed', request'[t].id, y)
        BY <3>2, <3>3, <3>7, <4>1, <4>2, <4>5 DEF CoverInv
      <4>6. ASSUME NEW t \in Tasks, NEW u \in Tasks, Listed(t)', Listed(u)',
                   request'[u].id \in OtherKind(request'[t].id)
            PROVE  Excused(missed', request'[t].id, request'[u].id)
        BY <3>2, <3>3, <4>2, <4>6 DEF CoverInv
      <4>7. QED
        BY <4>4, <4>5, <4>6 DEF CoverInv
    <3>8. QED
      BY <3>5, <3>6, <3>7
  <2>6. ASSUME UNCHANGED matrixVars PROVE CoverInv'
    BY <2>6 DEF matrixVars, CoverInv, Listed, Excused
  <2>7. QED
    BY <2>2, <2>3, <2>4, <2>5, <2>6 DEF MatrixNext, CreateFlag, CreateEnvironment
<1>3. CoverInv => EveryPairHasState
  BY DEF CoverInv, EveryPairHasState, Excused
<1>4. QED
  BY <1>1, <1>2, <1>3, MatrixCorrect, PTL DEF MatrixSpec

-----------------------------------------------------------------------------
(***************************************************************************)
(* FlagVariants: what a flag's default and its rules serve is a variant of  *)
(* the flag.                                                                *)
(***************************************************************************)
\* A forced deletion leaves a rule that serves what it served before, but the
\* default in the place of the variant.
LEMMA PatchedServes ==
  ASSUME NEW r, r # NoRule, NEW v, NEW d
  PROVE  Serves(Patched(r, v, d)) \subseteq (Serves(r) \ {v}) \cup {d}
<1> DEFINE kept == {i \in DOMAIN r.rollout : r.rollout[i].key # v}
           removed == DOMAIN r.rollout \ kept
           p == Patched(r, v, d)
<1>1. /\ p.variant = IF r.variant = v \/ (removed # {} /\ kept = {}) THEN d ELSE r.variant
      /\ DOMAIN p.rollout = kept
      /\ \A i \in kept : p.rollout[i].key = r.rollout[i].key
  BY DEF Patched
<1> HIDE DEF p
<1> SUFFICES ASSUME NEW x \in Serves(p), x # d PROVE x \in Serves(r) \ {v}
  BY DEF p
<1>2. CASE kept = {}
  <2>1. x = p.variant
    BY <1>1, <1>2 DEF Serves
  <2>2. r.variant # v /\ removed = {} /\ x = r.variant
    BY <1>1, <1>2, <2>1
  <2>3. DOMAIN r.rollout = {}
    BY <1>2, <2>2
  <2>4. QED
    BY <2>2, <2>3 DEF Serves
<1>3. CASE kept # {}
  <2>1. x \in KeysOf(p.rollout)
    BY <1>1, <1>3 DEF Serves
  <2>2. PICK i \in kept : x = r.rollout[i].key
    BY <1>1, <2>1 DEF KeysOf
  <2>3. x # v /\ x \in KeysOf(r.rollout) /\ DOMAIN r.rollout # {}
    BY <2>2 DEF KeysOf
  <2>4. QED
    BY <2>3 DEF Serves
<1>4. QED
  BY <1>2, <1>3

\* Whatever a rule serves is something the deletion looks for.
LEMMA ServesUses ==
  ASSUME NEW r, NEW v \in Serves(r)
  PROVE  r # NoRule /\ Uses(r, v)
BY DEF Serves, Uses

-----------------------------------------------------------------------------
(***************************************************************************)
(* What a change holds. Its copy of the flag is what it read, until the     *)
(* UPDATE; a deletion then writes it without the variant, which is not the  *)
(* default, and has no rule left to patch.                                  *)
(***************************************************************************)
Copy(c) ==
  /\ DOMAIN c = {"pc", "flag", "old", "variant", "rules"}
  /\ c.pc \in {"read", "listed", "updated"}
  /\ c.flag \in Flag
  /\ DOMAIN c.rules = RuleIds
  /\ c.pc = "read" => c.variant = "none" /\ c.rules = NoRules
  /\ c.pc \in {"read", "listed"} => c.flag = c.old
  /\ c.pc = "listed" => c.variant # c.flag.default
  /\ c.pc = "updated" => c.rules = NoRules
  /\ c.pc = "updated" /\ c.variant # "none" => c.flag.variants = c.old.variants \ {c.variant}

CopyInv ==
  /\ flag \in Flag
  /\ DOMAIN rules = RuleIds
  /\ DOMAIN change = Edits
  /\ \A s \in Edits : change[s] = NoChange \/ Copy(change[s])

\* The UPDATE puts a copy of the flag into the change.
LEMMA UpdateCopies ==
  ASSUME CopyInv, NEW s \in Edits, NEW f, Copy(change[s]), Update(s, f)
  PROVE  /\ DOMAIN change' = Edits /\ \A t \in Edits : t # s => change'[t] = change[t]
         /\ DOMAIN change'[s] = {"pc", "flag", "old", "variant", "rules"}
         /\ change'[s].pc = "updated" /\ change'[s].flag = f /\ change'[s].old = change[s].old
         /\ change'[s].variant = change[s].variant /\ change'[s].rules = change[s].rules
         /\ UNCHANGED <<flag, rules, astray>>
BY DEF Update, CopyInv, Copy

LEMMA CopiesKept ==
  ASSUME CopyInv, [VariantNext]_variantVars
  PROVE  CopyInv'
<1> USE DEF CopyInv
<1>0. ASSUME NEW s \in Edits, change[s].pc \in {"read", "listed", "updated"} PROVE Copy(change[s])
  BY <1>0 DEF NoChange
<1>1. ASSUME NEW s \in Edits, NEW f \in Flag, Update(s, f), change[s].pc = "read" PROVE CopyInv'
  <2>1. Copy(change[s])
    BY <1>0, <1>1
  <2>2. Copy(change'[s])
    BY <1>1, <2>1, UpdateCopies DEF Copy
  <2>3. QED
    BY <1>1, <2>1, <2>2, UpdateCopies
<1>2. ASSUME NEW s \in Edits, NEW c, change' = [change EXCEPT ![s] = c], c = NoChange \/ Copy(c),
             UNCHANGED rules, flag' \in Flag
      PROVE  CopyInv'
  BY <1>2
<1>3. ASSUME NEW s \in Edits, GetByKey(s) PROVE CopyInv'
  <2> DEFINE c == [pc |-> "read", flag |-> flag, old |-> flag, variant |-> "none", rules |-> NoRules]
  <2>1. Copy(c)
    BY DEF Copy, NoRules
  <2>2. QED
    BY <1>2, <1>3, <2>1 DEF GetByKey
<1>4. ASSUME NEW s \in Edits, RenameVariant(s) PROVE CopyInv'
  <2>1. change[s].pc = "read" /\ Update(s, change[s].flag)
    BY <1>4 DEF RenameVariant
  <2>2. change[s].flag \in Flag
    BY <1>0, <2>1 DEF Copy
  <2>3. QED
    BY <1>1, <2>1, <2>2
<1>5. ASSUME NEW s \in Edits, NEW v \in Variants, AddVariant(s, v) PROVE CopyInv'
  <2> DEFINE f == [change[s].flag EXCEPT !.variants = @ \cup {v}]
  <2>1. change[s].pc = "read" /\ Update(s, f)
    BY <1>5 DEF AddVariant
  <2>2. change[s].flag \in Flag
    BY <1>0, <2>1 DEF Copy
  <2>3. f \in Flag
    BY <2>2 DEF Flag
  <2>4. QED
    BY <1>1, <2>1, <2>3
<1>6. ASSUME NEW s \in Edits, NEW vs \in SUBSET Variants, NEW d \in Variants, PatchFlag(s, vs, d)
      PROVE  CopyInv'
  <2> DEFINE f == [variants |-> vs, default |-> d]
  <2>1. change[s].pc = "read" /\ Update(s, f) /\ Validate(f)
    BY <1>6 DEF PatchFlag
  <2>2. f \in Flag
    BY <2>1 DEF Flag, Validate
  <2>3. QED
    BY <1>1, <2>1, <2>2
<1>7. ASSUME NEW s \in Edits, NEW v \in Variants, NEW force \in BOOLEAN, ListRules(s, v, force)
      PROVE  CopyInv'
  <2>1. PICK affected : /\ DOMAIN affected = RuleIds
                        /\ change' = [change EXCEPT ![s].pc = "listed", ![s].variant = v, ![s].rules = affected]
    BY <1>7 DEF ListRules
  <2>2. /\ change[s].pc = "read" /\ v # change[s].flag.default
        /\ UNCHANGED <<flag, rules, astray>>
    BY <1>7 DEF ListRules
  <2>3. Copy(change[s])
    BY <1>0, <2>2
  <2>4. /\ DOMAIN change' = Edits /\ \A t \in Edits : t # s => change'[t] = change[t]
        /\ DOMAIN change'[s] = {"pc", "flag", "old", "variant", "rules"}
        /\ change'[s].pc = "listed" /\ change'[s].variant = v /\ change'[s].rules = affected
        /\ change'[s].flag = change[s].flag /\ change'[s].old = change[s].old
    BY <2>1, <2>3 DEF Copy
  <2>5. Copy(change'[s])
    BY <2>1, <2>2, <2>3, <2>4 DEF Copy
  <2>6. QED
    BY <2>2, <2>4, <2>5
<1>8. ASSUME NEW s \in Edits, NEW r \in RuleIds, PatchRule(s, r) PROVE CopyInv'
  <2>1. /\ change[s].pc = "listed" /\ change' = [change EXCEPT ![s].rules[r] = NoRule]
        /\ UNCHANGED flag /\ DOMAIN rules' = DOMAIN rules
    BY <1>8 DEF PatchRule
  <2>2. Copy(change[s])
    BY <1>0, <2>1
  <2>3. /\ DOMAIN change' = Edits /\ \A t \in Edits : t # s => change'[t] = change[t]
        /\ DOMAIN change'[s] = {"pc", "flag", "old", "variant", "rules"}
        /\ change'[s].pc = "listed" /\ change'[s].variant = change[s].variant
        /\ change'[s].flag = change[s].flag /\ change'[s].old = change[s].old
        /\ DOMAIN change'[s].rules = RuleIds
    BY <2>1, <2>2 DEF Copy
  <2>4. Copy(change'[s])
    BY <2>1, <2>2, <2>3 DEF Copy
  <2>5. QED
    BY <2>1, <2>3, <2>4
<1>9. ASSUME NEW s \in Edits, DropVariant(s) PROVE CopyInv'
  <2> DEFINE f == [change[s].flag EXCEPT !.variants = @ \ {change[s].variant}]
  <2>1. change[s].pc = "listed" /\ change[s].rules = NoRules /\ Update(s, f)
    BY <1>9 DEF DropVariant
  <2>2. Copy(change[s])
    BY <1>0, <2>1
  <2>3. f \in Flag /\ f.variants = change[s].flag.variants \ {change[s].variant}
    BY <2>1, <2>2 DEF Copy, Flag
  <2> HIDE DEF f
  <2>4. Copy(change'[s])
    BY <2>1, <2>2, <2>3, UpdateCopies DEF Copy
  <2>5. QED
    BY <2>1, <2>2, <2>4, UpdateCopies
<1>10. ASSUME NEW s \in Edits, CommitChange(s) PROVE CopyInv'
  <2>1. change[s].flag \in Flag
    BY <1>0, <1>10 DEF CommitChange, Copy
  <2>2. QED
    BY <1>2, <1>10, <2>1 DEF CommitChange
<1>11. ASSUME NEW s \in Edits, FailChange(s) PROVE CopyInv'
  BY <1>2, <1>11 DEF FailChange
<1>12. ASSUME NEW r \in RuleIds, NEW rule, DeleteRule(r) \/ WriteRule(r, rule) PROVE CopyInv'
  BY <1>12 DEF DeleteRule, WriteRule
<1>13. CASE UNCHANGED variantVars
  BY <1>13 DEF variantVars
<1>14. QED
  BY <1>3, <1>4, <1>5, <1>6, <1>7, <1>8, <1>9, <1>10, <1>11, <1>12, <1>13 DEF VariantNext

LEMMA CopiesHold == VariantSpec => []CopyInv
<1>1. VariantInit => CopyInv
  BY DEF VariantInit, CopyInv, NoRules
<1>2. CopyInv /\ [VariantNext]_variantVars => CopyInv'
  BY CopiesKept
<1>3. QED
  BY <1>1, <1>2, PTL DEF VariantSpec

-----------------------------------------------------------------------------
(***************************************************************************)
(* What the rules serve. As long as no rule has gone astray they serve      *)
(* variants of the flag, and a deletion leaves behind no rule that serves   *)
(* its variant: such a rule is among the copies it still has to patch. So   *)
(* none is left when the flag is written without the variant.               *)
(***************************************************************************)
Done(c, r) == c.pc \in {"listed", "updated"} /\ c.variant # "none" /\ c.rules[r] = NoRule

ServedInv ==
  ~astray =>
    /\ \A r \in RuleIds : Serves(rules[r]) \subseteq flag.variants
    /\ \A s \in Edits, r \in RuleIds : Done(change[s], r) => change[s].variant \notin Serves(rules[r])

LEMMA ServedKept ==
  ASSUME CopyInv, ServedInv, [VariantNext]_variantVars
  PROVE  ServedInv'
<1> USE DEF CopyInv
<1>0. ASSUME NEW s \in Edits, change[s].pc \in {"read", "listed", "updated"} PROVE Copy(change[s])
  BY <1>0 DEF NoChange
<1>a. ASSUME astray' PROVE ServedInv'
  BY <1>a DEF ServedInv
<1>b. ASSUME NEW s \in Edits, ~astray', ~astray, UNCHANGED rules, DOMAIN change' = Edits,
             \A r \in RuleIds : Serves(rules[r]) \subseteq flag'.variants,
             \A t \in Edits : t # s => change'[t] = change[t],
             \A r \in RuleIds : Done(change'[s], r) => change'[s].variant \notin Serves(rules[r])
      PROVE  ServedInv'
  <2>1. ASSUME NEW t \in Edits, NEW r \in RuleIds, Done(change'[t], r)
        PROVE  change'[t].variant \notin Serves(rules[r])
    <3>1. CASE t = s
      BY <1>b, <2>1, <3>1
    <3>2. CASE t # s
      BY <1>b, <2>1, <3>2 DEF ServedInv
    <3>3. QED
      BY <3>1, <3>2
  <2>2. QED
    BY <1>b, <2>1 DEF ServedInv
<1>c. ASSUME NEW s \in Edits, NEW f, Update(s, f), change[s].pc = "read" PROVE ServedInv'
  <2>1. Copy(change[s]) /\ change[s].variant = "none"
    BY <1>0, <1>c DEF Copy
  <2>2. \A r \in RuleIds : ~Done(change'[s], r)
    BY <1>c, <2>1, UpdateCopies DEF Done
  <2>3. CASE astray
    BY <1>a, <1>c, <2>1, <2>3, UpdateCopies
  <2>4. CASE ~astray
    BY <1>b, <1>c, <2>1, <2>2, <2>4, UpdateCopies DEF ServedInv
  <2>5. QED
    BY <2>3, <2>4
<1>d. ASSUME NEW s \in Edits, change' = [change EXCEPT ![s] = NoChange], UNCHANGED rules,
             ~astray' => ~astray /\ \A r \in RuleIds : Serves(rules[r]) \subseteq flag'.variants
      PROVE  ServedInv'
  <2>1. change'[s] = NoChange /\ DOMAIN change' = Edits /\ \A t \in Edits : t # s => change'[t] = change[t]
    BY <1>d
  <2>2. \A r \in RuleIds : ~Done(change'[s], r)
    BY <2>1 DEF Done, NoChange
  <2>3. CASE astray'
    BY <1>a, <2>3
  <2>4. CASE ~astray'
    BY <1>b, <1>d, <2>1, <2>2, <2>4
  <2>5. QED
    BY <2>3, <2>4
<1>1. ASSUME NEW s \in Edits, GetByKey(s) PROVE ServedInv'
  <2> DEFINE c == [pc |-> "read", flag |-> flag, old |-> flag, variant |-> "none", rules |-> NoRules]
  <2>1. change' = [change EXCEPT ![s] = c] /\ UNCHANGED <<flag, rules, astray>>
    BY <1>1 DEF GetByKey
  <2>2. /\ change'[s] = c /\ DOMAIN change' = Edits
        /\ \A t \in Edits : t # s => change'[t] = change[t]
    BY <2>1
  <2>3. \A r \in RuleIds : ~Done(change'[s], r)
    BY <2>2 DEF Done
  <2>4. CASE astray
    BY <1>a, <2>1, <2>4
  <2>5. CASE ~astray
    BY <1>b, <2>1, <2>2, <2>3, <2>5 DEF ServedInv
  <2>6. QED
    BY <2>4, <2>5
<1>2. ASSUME NEW s \in Edits,
             \/ RenameVariant(s)
             \/ \E v \in Variants : AddVariant(s, v)
             \/ \E vs \in SUBSET Variants, d \in Variants : PatchFlag(s, vs, d)
      PROVE  ServedInv'
  BY <1>2, <1>c DEF RenameVariant, AddVariant, PatchFlag
<1>3. ASSUME NEW s \in Edits, NEW v \in Variants, NEW force \in BOOLEAN, ListRules(s, v, force)
      PROVE  ServedInv'
  <2> DEFINE affected == [r \in RuleIds |-> IF rules[r] # NoRule /\ Uses(rules[r], v)
                                            THEN rules[r] ELSE NoRule]
  <2>1. /\ change[s].pc = "read" /\ UNCHANGED <<flag, rules, astray>>
        /\ change' = [change EXCEPT ![s].pc = "listed", ![s].variant = v, ![s].rules = affected]
    BY <1>3 DEF ListRules
  <2>2. \A r \in RuleIds : v \in Serves(rules[r]) => affected[r] # NoRule
    BY ServesUses
  <2> HIDE DEF affected
  <2>3. Copy(change[s])
    BY <1>0, <2>1
  <2>4. /\ DOMAIN change' = Edits /\ \A t \in Edits : t # s => change'[t] = change[t]
        /\ change'[s].variant = v /\ change'[s].rules = affected
    BY <2>1, <2>3 DEF Copy
  <2>5. \A r \in RuleIds : Done(change'[s], r) => change'[s].variant \notin Serves(rules[r])
    BY <2>2, <2>4 DEF Done
  <2>6. CASE astray
    BY <1>a, <2>1, <2>6
  <2>7. CASE ~astray
    BY <1>b, <2>1, <2>4, <2>5, <2>7 DEF ServedInv
  <2>8. QED
    BY <2>6, <2>7
<1>4. ASSUME NEW s \in Edits, DropVariant(s) PROVE ServedInv'
  <2> DEFINE f == [change[s].flag EXCEPT !.variants = @ \ {change[s].variant}]
  <2>1. change[s].pc = "listed" /\ change[s].rules = NoRules /\ Update(s, f)
    BY <1>4 DEF DropVariant
  <2> HIDE DEF f
  <2>2. Copy(change[s])
    BY <1>0, <2>1
  <2>3. \A r \in RuleIds : Done(change'[s], r) => Done(change[s], r)
    BY <2>1, <2>2, UpdateCopies DEF Done
  <2>4. CASE astray
    BY <1>a, <2>1, <2>2, <2>4, UpdateCopies
  <2>5. CASE ~astray
    BY <1>b, <2>1, <2>2, <2>3, <2>5, UpdateCopies DEF ServedInv
  <2>6. QED
    BY <2>4, <2>5
<1>5. ASSUME NEW s \in Edits, CommitChange(s) PROVE ServedInv'
  <2>1. /\ change[s].pc = "updated" /\ flag' = change[s].flag /\ UNCHANGED rules
        /\ change' = [change EXCEPT ![s] = NoChange]
        /\ astray' = (astray \/ /\ change[s].variant = "none" \/ change[s].old # flag
                                /\ \E r \in RuleIds : ~(Serves(rules[r]) \subseteq flag'.variants))
    BY <1>5 DEF CommitChange
  <2>2. CASE astray'
    BY <1>a, <2>2
  <2>3. CASE ~astray'
    <3>1. ~astray
      BY <2>1, <2>3
    <3>2. Copy(change[s])
      BY <1>0, <2>1
    <3>3. ASSUME NEW r \in RuleIds PROVE Serves(rules[r]) \subseteq flag'.variants
      <4>1. CASE change[s].variant = "none" \/ change[s].old # flag
        BY <2>1, <2>3, <4>1
      <4>2. CASE change[s].variant # "none" /\ change[s].old = flag
        <5>1. flag'.variants = flag.variants \ {change[s].variant} /\ change[s].rules = NoRules
          BY <2>1, <3>2, <4>2 DEF Copy
        <5>2. Done(change[s], r)
          BY <2>1, <4>2, <5>1 DEF Done, NoRules
        <5>3. QED
          BY <3>1, <5>1, <5>2 DEF ServedInv
      <4>3. QED
        BY <4>1, <4>2
    <3>4. QED
      BY <1>d, <2>1, <3>1, <3>3
  <2>4. QED
    BY <2>2, <2>3
<1>6. ASSUME NEW s \in Edits, FailChange(s) PROVE ServedInv'
  BY <1>6, <1>d DEF FailChange, ServedInv
<1>7. ASSUME NEW r \in RuleIds, NEW new, NEW others \in SUBSET Edits,
             rules' = [rules EXCEPT ![r] = new], UNCHANGED flag,
             astray' = (astray \/ Unchecked(new, others)),
             DOMAIN change' = Edits, \A t \in others : change'[t] = change[t],
             \A t \in Edits \ others, q \in RuleIds :
               Done(change'[t], q) => /\ change'[t].variant \notin Serves(new) \/ q # r
                                      /\ q # r => Done(change[t], q) /\ change'[t].variant = change[t].variant
      PROVE  ServedInv'
  <2>1. CASE astray'
    BY <1>a, <2>1
  <2>2. CASE ~astray'
    <3>1. ~astray /\ Serves(new) \subseteq flag.variants
             \ {change[t].variant : t \in {u \in others : change[u].pc \in {"listed", "updated"}}}
      BY <1>7, <2>2 DEF Unchecked
    <3>2. \A q \in RuleIds : rules'[q] = IF q = r THEN new ELSE rules[q]
      BY <1>7
    <3>3. \A q \in RuleIds : Serves(rules'[q]) \subseteq flag'.variants
      BY <1>7, <3>1, <3>2 DEF ServedInv
    <3>4. ASSUME NEW t \in Edits, NEW q \in RuleIds, Done(change'[t], q)
          PROVE  change'[t].variant \notin Serves(rules'[q])
      <4>1. CASE t \in others /\ q = r
        BY <1>7, <3>1, <3>2, <3>4, <4>1 DEF Done
      <4>2. CASE t \in others /\ q # r
        BY <1>7, <3>1, <3>2, <3>4, <4>2 DEF ServedInv
      <4>3. CASE t \notin others
        BY <1>7, <3>1, <3>2, <3>4, <4>3 DEF ServedInv
      <4>4. QED
        BY <4>1, <4>2, <4>3
    <3>5. QED
      BY <3>3, <3>4 DEF ServedInv
  <2>3. QED
    BY <2>1, <2>2
<1>8. ASSUME NEW s \in Edits, NEW r \in RuleIds, PatchRule(s, r) PROVE ServedInv'
  <2> DEFINE c == change[s]
             new == Patched(c.rules[r], c.variant, c.flag.default)
  <2>1. /\ c.pc = "listed" /\ c.rules[r] # NoRule /\ rules' = [rules EXCEPT ![r] = new]
        /\ astray' = (astray \/ Unchecked(new, Edits \ {s})) /\ UNCHANGED flag
        /\ change' = [change EXCEPT ![s].rules[r] = NoRule]
    BY <1>8 DEF PatchRule
  <2>2. Copy(c)
    BY <1>0, <2>1
  <2> HIDE DEF c
  <2>3. c.variant \notin Serves(new)
    <3>1. Serves(new) \subseteq (Serves(c.rules[r]) \ {c.variant}) \cup {c.flag.default}
      BY <2>1, PatchedServes DEF new
    <3>2. c.variant # c.flag.default
      BY <2>1, <2>2 DEF Copy
    <3>3. QED
      BY <3>1, <3>2
  <2>4. /\ DOMAIN change' = Edits /\ \A t \in Edits : t # s => change'[t] = change[t]
        /\ change'[s].pc = c.pc /\ change'[s].variant = c.variant
        /\ \A q \in RuleIds : q # r => change'[s].rules[q] = c.rules[q]
    BY <2>1, <2>2 DEF Copy, c
  <2>5. \A q \in RuleIds : q # r /\ Done(change'[s], q) => Done(c, q)
    BY <2>4 DEF Done
  <2> DEFINE others == Edits \ {s}
  <2> HIDE DEF new
  <2>6. \A t \in Edits \ others, q \in RuleIds :
          Done(change'[t], q) => /\ change'[t].variant \notin Serves(new) \/ q # r
                                 /\ q # r => Done(change[t], q) /\ change'[t].variant = change[t].variant
    BY <2>3, <2>4, <2>5 DEF c
  <2>7. others \in SUBSET Edits /\ \A t \in others : change'[t] = change[t]
    BY <2>4
  <2>8. /\ rules' = [rules EXCEPT ![r] = new] /\ UNCHANGED flag
        /\ astray' = (astray \/ Unchecked(new, others)) /\ DOMAIN change' = Edits
    BY <2>1, <2>4
  <2> HIDE DEF others
  <2>9. QED
    BY <1>7, <2>6, <2>7, <2>8
<1>9. ASSUME NEW r \in RuleIds, NEW rule, WriteRule(r, rule) PROVE ServedInv'
  BY <1>7, <1>9 DEF WriteRule
<1>10. ASSUME NEW r \in RuleIds, DeleteRule(r) PROVE ServedInv'
  <2>1. rules' = [rules EXCEPT ![r] = NoRule] /\ UNCHANGED <<flag, change, astray>>
    BY <1>10 DEF DeleteRule
  <2>2. \A q \in RuleIds : Serves(rules'[q]) \subseteq Serves(rules[q])
    BY <2>1 DEF Serves
  <2>3. QED
    BY <2>1, <2>2 DEF ServedInv
<1>11. CASE UNCHANGED variantVars
  BY <1>11 DEF variantVars, ServedInv
<1>12. QED
  BY <1>1, <1>2, <1>3, <1>4, <1>5, <1>6, <1>8, <1>9, <1>10, <1>11 DEF VariantNext

\* What can be served is a variant of the flag: the default always, and what the
\* rules name unless one of them went astray, whatever the overlapping changes of
\* the flag, forced deletions that fail half way and writes of rules.
THEOREM ServesVariants == VariantSpec => []OnlyVariantsAreServed
<1>1. VariantInit => ServedInv
  BY DEF VariantInit, ServedInv, NoRules, NoChange, Done, Serves
<1>2. CopyInv /\ ServedInv /\ [VariantNext]_variantVars => ServedInv'
  BY ServedKept
<1>3. CopyInv /\ ServedInv => OnlyVariantsAreServed
  BY DEF CopyInv, ServedInv, OnlyVariantsAreServed, Flag
<1>4. QED
  BY <1>1, <1>2, <1>3, CopiesHold, PTL DEF VariantSpec
-----------------------------------------------------------------------------
(***************************************************************************)
(* What is stored of the rules. The weights of a rollout still add up to    *)
(* 100 when a variant was taken from it: the weight of the entries that go  *)
(* is what the first of those that stay gains.                              *)
(***************************************************************************)
LEMMA UnitsAreFinite ==
  ASSUME NEW entries, NEW P, IsFiniteSet(P), \A i \in P : entries[i].weight \in 1 .. 100
  PROVE  IsFiniteSet(Units(entries, P)) /\ Weight(entries, P) \in Nat
<1>1. IsFiniteSet(1 .. 100)
  <2>1. 1 \in Int /\ 100 \in Int
    OBVIOUS
  <2>2. QED
    BY ONLY <2>1, FS_Interval, Zenon
<1>2. IsFiniteSet(P \X (1 .. 100))
  BY <1>1, FS_Product
<1>3. Units(entries, P) \in SUBSET (P \X (1 .. 100))
  BY DEF Units
<1>4. IsFiniteSet(Units(entries, P))
  BY <1>2, <1>3, FS_Subset
<1>5. QED
  BY <1>4, FS_CardinalityType DEF Weight

\* Weights of different places add up.
LEMMA WeightAdds ==
  ASSUME NEW entries, NEW P, NEW Q, IsFiniteSet(P), IsFiniteSet(Q), P \cap Q = {},
         \A i \in P \cup Q : entries[i].weight \in 1 .. 100
  PROVE  /\ Weight(entries, P \cup Q) = Weight(entries, P) + Weight(entries, Q)
         /\ Weight(entries, P) \in Nat /\ Weight(entries, Q) \in Nat
<1> DEFINE S == Units(entries, P)
           T == Units(entries, Q)
<1>1. IsFiniteSet(S) /\ IsFiniteSet(T) /\ Cardinality(S) \in Nat /\ Cardinality(T) \in Nat
  BY UnitsAreFinite DEF Weight
<1>2. Units(entries, P \cup Q) = S \cup T /\ S \cap T = {}
  BY DEF Units
<1> HIDE DEF S, T
<1>3. Cardinality(S \cup T) = Cardinality(S) + Cardinality(T) - Cardinality(S \cap T)
  BY <1>1, FS_Union
<1>4. Cardinality(S \cap T) = 0
  BY <1>2, FS_EmptySet
<1>5. Cardinality(S \cup T) = Cardinality(S) + Cardinality(T)
  BY <1>1, <1>3, <1>4
<1>6. QED
  BY <1>1, <1>2, <1>5 DEF Weight, S, T

\* The weight of one place is that of its entry.
LEMMA WeightOfOne ==
  ASSUME NEW entries, NEW i, entries[i].weight \in 1 .. 100
  PROVE  Weight(entries, {i}) = entries[i].weight
<1> DEFINE w == entries[i].weight
<1>1. w \in Int /\ 1 \in Int /\ ~(1 > w) /\ w - 1 + 1 = w /\ 1 * w = w
  OBVIOUS
<1>2. IsFiniteSet(1 .. w) /\ Cardinality(1 .. w) = IF 1 > w THEN 0 ELSE w - 1 + 1
  BY ONLY <1>1, FS_Interval, Zenon
<1>3. IsFiniteSet(1 .. w) /\ Cardinality(1 .. w) = w
  BY <1>1, <1>2
<1>4. IsFiniteSet({i}) /\ Cardinality({i}) = 1
  BY FS_Singleton
<1>5. Units(entries, {i}) = {i} \X (1 .. w)
  BY DEF Units
<1> HIDE DEF w
<1>6. Cardinality({i} \X (1 .. w)) = 1 * w
  <2> DEFINE W == 1 .. w
             I == {i}
  <2>1. IsFiniteSet(I) /\ IsFiniteSet(W) /\ Cardinality(W) = w /\ Cardinality(I) = 1
    BY <1>3, <1>4
  <2> HIDE DEF W, I
  <2>2. Cardinality(I \X W) = Cardinality(I) * Cardinality(W)
    BY <2>1, FS_Product
  <2>3. QED
    BY <2>1, <2>2 DEF W, I
<1>7. QED
  BY <1>1, <1>5, <1>6 DEF Weight, w

\* The first of some positions is one of them.
LEMMA FirstIsOne ==
  ASSUME NEW P, P \subseteq Nat, P # {}
  PROVE  (CHOOSE i \in P : \A j \in P : i <= j) \in P
<1>1. PICK i \in P : \A j \in P : ~(<<j, i>> \in OpToRel(<, Nat))
  BY NatLessThanWellFounded, WFMin
<1>2. ASSUME NEW j \in P, j < i PROVE FALSE
  <2>1. <<j, i>> \in OpToRel(<, Nat)
    BY <1>2 DEF OpToRel
  <2>2. QED
    BY <1>1, <2>1
<1>3. \A j \in P : i <= j
  BY <1>2
<1>4. QED
  BY <1>3

\* A forced deletion leaves a valid rule.
LEMMA PatchedIsRule ==
  ASSUME NEW r, IsRule(r), NEW v, NEW d \in Variants
  PROVE  IsRule(Patched(r, v, d))
<1> DEFINE old == r.rollout
           D == DOMAIN old
           kept == {i \in D : old[i].key # v}
           removed == D \ kept
           first == CHOOSE i \in kept : \A j \in kept : i <= j
           gain == old[first].weight + Weight(old, removed)
           p == Patched(r, v, d)
           new == p.rollout
<1>1. /\ r.variant \in Variants /\ D \subseteq Nat /\ IsFiniteSet(D)
      /\ \A i \in D : old[i] \in Entry
      /\ D # {} => Weight(old, D) = 100
  BY DEF IsRule
<1>2. /\ p.variant \in {r.variant, d}
      /\ new = [i \in kept |-> IF i # first THEN old[i] ELSE [key |-> old[i].key, weight |-> gain]]
  BY DEF Patched
<1>3. \A i \in D : old[i].key \in Variants /\ old[i].weight \in 1 .. 100
  BY <1>1 DEF Entry
<1>4. kept \subseteq D /\ removed \subseteq D /\ IsFiniteSet(kept) /\ IsFiniteSet(removed)
  BY <1>1, FS_Subset
<1>5. DOMAIN new = kept
  BY <1>2
<1>6. CASE kept = {}
  BY <1>1, <1>2, <1>4, <1>5, <1>6, Zenon DEF IsRule
<1>7. CASE kept # {}
  <2>1. first \in kept
    BY <1>1, <1>4, <1>7, FirstIsOne, Zenon
  <2> DEFINE rest == kept \ {first}
  <2>2. D = (rest \cup {first}) \cup removed /\ kept = rest \cup {first}
    BY <2>1
  <2>3. /\ IsFiniteSet(rest) /\ rest \cap {first} = {} /\ first \notin rest
        /\ IsFiniteSet(kept) /\ kept \cap removed = {}
        /\ IsFiniteSet({first})
        /\ rest \subseteq kept /\ D # {}
    <3>1. rest \subseteq kept /\ D # {} /\ kept \cap removed = {} /\ rest \cap {first} = {}
      BY <2>1
    <3>2. IsFiniteSet(rest) /\ IsFiniteSet({first})
      BY <1>4, <3>1, FS_Subset, FS_Singleton, Zenon
    <3>3. QED
      BY <1>4, <3>1, <3>2, Zenon
  <2> HIDE DEF first, gain, p, kept, removed, rest, D, old
  <2>4. \A i \in rest : new[i] = old[i]
    BY <1>2, <2>3
  <2>5. new[first] = [key |-> old[first].key, weight |-> gain]
    BY <1>2, <2>1
  <2>6. \A i \in kept \cup removed : old[i].weight \in 1 .. 100
    BY <1>3, <1>4
  <2>7. /\ Weight(old, kept \cup removed) = Weight(old, kept) + Weight(old, removed)
        /\ Weight(old, kept) \in Nat /\ Weight(old, removed) \in Nat
    BY <1>4, <2>3, <2>6, WeightAdds
  <2>8. /\ Weight(old, rest \cup {first}) = Weight(old, rest) + Weight(old, {first})
        /\ Weight(old, rest) \in Nat /\ Weight(old, {first}) \in Nat
    BY <2>2, <2>3, <2>6, WeightAdds
  <2>9. Weight(old, {first}) = old[first].weight
    BY <2>1, <2>6, WeightOfOne
  <2>10. D = kept \cup removed /\ Weight(old, D) = 100
    BY <1>1, <2>2, <2>3
  <2>11. Weight(old, rest) + old[first].weight + Weight(old, removed) = 100
    BY <2>2, <2>7, <2>8, <2>9, <2>10
  <2>12. old[first].weight \in 1 .. 100
    BY <2>1, <2>6
  <2>13. gain \in 1 .. 100 /\ Weight(old, rest) + gain = 100
    <3> DEFINE a == Weight(old, rest)
               b == old[first].weight
               c == Weight(old, removed)
    <3>1. a \in Nat /\ c \in Nat /\ b \in 1 .. 100 /\ a + b + c = 100 /\ gain = b + c
      BY <2>7, <2>8, <2>11, <2>12 DEF gain
    <3> HIDE DEF a, b, c
    <3>2. gain \in 1 .. 100 /\ a + gain = 100
      BY <3>1
    <3>3. QED
      BY <3>2 DEF a
  <2>14. \A i \in kept : new[i] \in Entry
    <3>1. new[first] \in Entry
      BY <1>3, <1>4, <2>1, <2>5, <2>13 DEF Entry
    <3>2. QED
      BY <1>1, <1>4, <2>2, <2>4, <3>1
  <2>15. \A i \in rest \cup {first} : new[i].weight \in 1 .. 100
    BY <2>2, <2>14 DEF Entry
  <2>16. Units(new, rest) = Units(old, rest)
    BY <2>4 DEF Units
  <2>17. Weight(new, {first}) = gain
    <3>1. new[first].weight = gain
      BY <2>5
    <3>2. QED
      BY <2>13, <3>1, WeightOfOne
  <2>18. Weight(new, rest \cup {first}) = Weight(new, rest) + Weight(new, {first})
    BY <2>3, <2>15, WeightAdds
  <2>19. Weight(new, kept) = 100
    BY <2>2, <2>13, <2>16, <2>17, <2>18 DEF Weight
  <2>20. p.variant \in Variants /\ DOMAIN new \subseteq Nat /\ IsFiniteSet(DOMAIN new)
    BY <1>1, <1>2, <1>4, <1>5
  <2>21. IsRule(p)
    BY <1>5, <2>14, <2>19, <2>20 DEF IsRule
  <2>22. QED
    BY <2>21 DEF p
<1>8. QED
  BY <1>6, <1>7
\* The rules and the copies of them that deletions hold are valid, and what a
\* change keeps beside its copy of the flag has its type.
RulesInv ==
  /\ AreRules(rules) /\ astray \in BOOLEAN
  /\ \A s \in Edits : change[s] # NoChange =>
       /\ change[s].old \in Flag /\ change[s].variant \in Variants \cup {"none"}
       /\ AreRules(change[s].rules)

LEMMA RulesKept ==
  ASSUME CopyInv, RulesInv, [VariantNext]_variantVars
  PROVE  RulesInv'
<1>0. ASSUME NEW s \in Edits, change[s].pc \in {"read", "listed", "updated"}
      PROVE  /\ Copy(change[s]) /\ change[s].old \in Flag /\ AreRules(change[s].rules)
             /\ change[s].variant \in Variants \cup {"none"}
  BY <1>0 DEF NoChange, CopyInv, RulesInv
<1>1. ASSUME NEW s \in Edits, AreRules(rules'), astray' \in BOOLEAN,
             \A t \in Edits : t # s => change'[t] = change[t],
             change'[s] # NoChange =>
               /\ change'[s].old \in Flag /\ change'[s].variant \in Variants \cup {"none"}
               /\ AreRules(change'[s].rules)
      PROVE  RulesInv'
  <2> SUFFICES ASSUME NEW t \in Edits, change'[t] # NoChange
               PROVE  /\ change'[t].old \in Flag /\ change'[t].variant \in Variants \cup {"none"}
                      /\ AreRules(change'[t].rules)
    BY <1>1 DEF RulesInv, AreRules, IsRule
  <2>1. CASE t = s
    BY <1>1, <2>1
  <2>2. CASE t # s
    BY <1>1, <2>2 DEF RulesInv
  <2>3. QED
    BY <2>1, <2>2
<1>2. AreRules(rules) /\ astray \in BOOLEAN /\ AreRules(NoRules)
  BY DEF RulesInv, AreRules, NoRules
<1>3. ASSUME NEW s \in Edits, NEW f, change[s].pc \in {"read", "listed"}, Update(s, f)
      PROVE  RulesInv'
  <2>1. /\ Copy(change[s]) /\ change[s].old \in Flag /\ AreRules(change[s].rules)
        /\ change[s].variant \in Variants \cup {"none"}
    BY <1>0, <1>3
  <2>2. /\ \A t \in Edits : t # s => change'[t] = change[t]
        /\ change'[s].old = change[s].old /\ change'[s].variant = change[s].variant
        /\ change'[s].rules = change[s].rules /\ rules' = rules /\ astray' = astray
    BY <1>3, <2>1, UpdateCopies
  <2>3. QED
    BY <1>1, <1>2, <2>1, <2>2
<1>4. ASSUME NEW s \in Edits, change' = [change EXCEPT ![s] = NoChange], UNCHANGED rules,
             astray' \in BOOLEAN
      PROVE  RulesInv'
  <2>1. change'[s] = NoChange /\ \A t \in Edits : t # s => change'[t] = change[t]
    BY <1>4 DEF CopyInv
  <2>2. QED
    BY <1>1, <1>2, <1>4, <2>1
<1>5. ASSUME NEW r \in RuleIds, NEW new, new = NoRule \/ IsRule(new), rules' = [rules EXCEPT ![r] = new]
      PROVE  AreRules(rules')
  BY <1>2, <1>5 DEF AreRules
<1>6. ASSUME NEW s \in Edits, GetByKey(s) PROVE RulesInv'
  <2> DEFINE c == [pc |-> "read", flag |-> flag, old |-> flag, variant |-> "none", rules |-> NoRules]
  <2>1. change' = [change EXCEPT ![s] = c] /\ UNCHANGED <<flag, rules, astray>>
    BY <1>6 DEF GetByKey
  <2>2. change'[s] = c /\ \A t \in Edits : t # s => change'[t] = change[t]
    BY <2>1 DEF CopyInv
  <2>3. c.old \in Flag /\ c.variant = "none" /\ c.rules = NoRules
    BY DEF CopyInv
  <2> HIDE DEF c
  <2>4. QED
    BY <1>1, <1>2, <2>1, <2>2, <2>3
<1>7. ASSUME NEW s \in Edits,
             \/ RenameVariant(s) \/ DropVariant(s)
             \/ \E v \in Variants : AddVariant(s, v)
             \/ \E vs \in SUBSET Variants, d \in Variants : PatchFlag(s, vs, d)
      PROVE  RulesInv'
  <2>1. CASE RenameVariant(s)
    BY <1>3, <2>1 DEF RenameVariant
  <2>2. CASE DropVariant(s)
    BY <1>3, <2>2 DEF DropVariant
  <2>3. ASSUME NEW v \in Variants, AddVariant(s, v) PROVE RulesInv'
    BY <1>3, <2>3 DEF AddVariant
  <2>4. ASSUME NEW vs \in SUBSET Variants, NEW d \in Variants, PatchFlag(s, vs, d) PROVE RulesInv'
    BY <1>3, <2>4 DEF PatchFlag
  <2>5. QED
    BY <1>7, <2>1, <2>2, <2>3, <2>4
<1>8. ASSUME NEW s \in Edits, NEW v \in Variants, NEW force \in BOOLEAN, ListRules(s, v, force)
      PROVE  RulesInv'
  <2> DEFINE affected == [r \in RuleIds |-> IF rules[r] # NoRule /\ Uses(rules[r], v)
                                            THEN rules[r] ELSE NoRule]
  <2>1. /\ change[s].pc = "read" /\ UNCHANGED <<flag, rules, astray>>
        /\ change' = [change EXCEPT ![s].pc = "listed", ![s].variant = v, ![s].rules = affected]
    BY <1>8 DEF ListRules
  <2>2. AreRules(affected)
    BY <1>2 DEF AreRules
  <2> HIDE DEF affected
  <2>3. Copy(change[s]) /\ change[s].old \in Flag
    BY <1>0, <2>1
  <2>4. /\ \A t \in Edits : t # s => change'[t] = change[t]
        /\ change'[s].variant = v /\ change'[s].rules = affected /\ change'[s].old = change[s].old
    BY <2>1, <2>3 DEF Copy, CopyInv
  <2>5. QED
    BY <1>1, <1>2, <2>1, <2>2, <2>3, <2>4
<1>9. ASSUME NEW s \in Edits, NEW r \in RuleIds, PatchRule(s, r) PROVE RulesInv'
  <2> DEFINE new == Patched(change[s].rules[r], change[s].variant, change[s].flag.default)
  <2>1. /\ change[s].pc = "listed" /\ change[s].rules[r] # NoRule /\ rules' = [rules EXCEPT ![r] = new]
        /\ astray' = (astray \/ Unchecked(new, Edits \ {s}))
        /\ change' = [change EXCEPT ![s].rules[r] = NoRule]
    BY <1>9 DEF PatchRule
  <2>2. /\ Copy(change[s]) /\ change[s].old \in Flag /\ AreRules(change[s].rules)
        /\ change[s].variant \in Variants \cup {"none"}
    BY <1>0, <2>1
  <2>3. IsRule(new)
    <3>1. change[s].flag.default \in Variants
      BY <2>2 DEF Copy, Flag
    <3>2. IsRule(change[s].rules[r])
      BY <2>1, <2>2 DEF AreRules
    <3>3. QED
      BY <3>1, <3>2, PatchedIsRule
  <2> HIDE DEF new
  <2>4. /\ \A t \in Edits : t # s => change'[t] = change[t]
        /\ change'[s].variant = change[s].variant /\ change'[s].old = change[s].old
        /\ change'[s].rules = [change[s].rules EXCEPT ![r] = NoRule]
    BY <2>1, <2>2 DEF Copy, CopyInv
  <2>5. AreRules(change'[s].rules)
    BY <2>2, <2>4 DEF AreRules
  <2>6. astray' \in BOOLEAN
    BY <2>1
  <2>7. AreRules(rules')
    BY <1>5, <2>1, <2>3
  <2>8. QED
    BY <1>1, <2>2, <2>4, <2>5, <2>6, <2>7
<1>10. ASSUME NEW s \in Edits, CommitChange(s) PROVE RulesInv'
  <2>1. astray' \in BOOLEAN
    BY <1>10 DEF CommitChange
  <2>2. QED
    BY <1>4, <1>10, <2>1 DEF CommitChange
<1>11. ASSUME NEW s \in Edits, FailChange(s) PROVE RulesInv'
  BY <1>2, <1>4, <1>11 DEF FailChange
<1>12. ASSUME NEW r \in RuleIds, NEW new, new = NoRule \/ IsRule(new),
              rules' = [rules EXCEPT ![r] = new], UNCHANGED change, astray' \in BOOLEAN
       PROVE  RulesInv'
  BY <1>5, <1>12 DEF RulesInv
<1>13. ASSUME NEW r \in RuleIds, DeleteRule(r) PROVE RulesInv'
  BY <1>2, <1>12, <1>13 DEF DeleteRule
<1>14. ASSUME NEW r \in RuleIds, NEW rule \in Drafts, WriteRule(r, rule) PROVE RulesInv'
  <2>1. astray' \in BOOLEAN
    BY <1>14 DEF WriteRule
  <2>2. IsRule(rule)
    BY DraftsAssumption
  <2>3. QED
    BY <1>12, <1>14, <2>1, <2>2 DEF WriteRule
<1>15. CASE UNCHANGED variantVars
  BY <1>15 DEF variantVars, RulesInv
<1>16. QED
  BY <1>6, <1>7, <1>8, <1>9, <1>10, <1>11, <1>13, <1>14, <1>15 DEF VariantNext

\* The rows of the three parts, side by side: what is stored is well formed
\* through every interleaving of the calls; a state row belongs to a flag and an
\* environment there are, and the weights of every rollout add up to 100.
THEOREM RowsStayWellFormed == ProjectSpec => []RowsAreWellFormed
<1> DEFINE InPart == part = "variants"
           Whole == <<vars, part, matrixVars, variantVars>>
           OfVariants == InPart => VariantTypeOK
<1>1. ProjectSpec => Spec
  <2>1. ProjectInit => Init
    BY DEF ProjectInit
  <2>2. [ProjectNext]_Whole => [Next]_vars
    BY DEF ProjectNext
  <2>3. QED
    BY <2>1, <2>2, PTL DEF ProjectSpec, Spec
<1>2. ProjectSpec => MatrixSpec
  <2>1. ProjectInit => MatrixInit
    BY DEF ProjectInit, NoMatrix, MatrixInit
  <2>2. [ProjectNext]_Whole => [MatrixNext]_matrixVars
    BY DEF ProjectNext
  <2>3. QED
    BY <2>1, <2>2, PTL DEF ProjectSpec, MatrixSpec
<1>3. ProjectSpec /\ InPart => VariantSpec
  <2>1. ProjectInit /\ InPart => VariantInit
    BY DEF ProjectInit
  <2>2. [ProjectNext]_Whole => [VariantNext]_variantVars
    BY DEF ProjectNext
  <2>3. QED
    BY <2>1, <2>2, PTL DEF ProjectSpec, VariantSpec
<1>4. ProjectSpec /\ ~InPart => []~InPart
  <2>1. ~InPart /\ [ProjectNext]_Whole => ~InPart'
    BY DEF ProjectNext
  <2>2. QED
    BY <2>1, PTL DEF ProjectSpec
<1>5. VariantSpec => []VariantTypeOK
  <2>1. VariantInit => RulesInv
    BY DEF VariantInit, RulesInv, AreRules, NoRules
  <2>2. CopyInv /\ RulesInv /\ [VariantNext]_variantVars => RulesInv'
    BY RulesKept
  <2>3. CopyInv /\ RulesInv => VariantTypeOK
    BY DEF CopyInv, RulesInv, VariantTypeOK, Copy
  <2>4. QED
    BY <2>1, <2>2, <2>3, CopiesHold, PTL DEF VariantSpec
<1>6. TypeOK /\ MatrixTypeOK /\ OfVariants => RowsAreWellFormed
  BY DEF RowsAreWellFormed
<1>7. VariantTypeOK => OfVariants
  OBVIOUS
<1>8. ~InPart => OfVariants
  OBVIOUS
<1> HIDE DEF InPart, OfVariants
<1>9. QED
  BY <1>1, <1>2, <1>3, <1>4, <1>5, <1>6, <1>7, <1>8, TypeCorrect, MatrixCorrect, PTL
=============================================================================
