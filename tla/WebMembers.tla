----------------------------- MODULE WebMembers -----------------------------
(***************************************************************************)
(* The members page of the web UI in the tab of one user: the list, a role  *)
(* selector per row, the dialog that removes a member, and the form that    *)
(* adds one. The controls are shown when the list names the user as admin.  *)
(*                                                                          *)
(* The role selectors share one mutation: a row's selector is disabled only *)
(* while the latest role change is its own and pending, so a change of      *)
(* another row lets a second change of the same member overtake the first.  *)
(***************************************************************************)
EXTENDS ReactQuery, FiniteSets

CONSTANTS Users, Me, MaxRequests

VARIABLES
  role,          \* the server: project_members, "none" for no row
  data,          \* query ['members', slug]
  pendingRemove, \* the member the dialog is open on, or NoData
  calls,         \* the requests in flight
  latest,        \* the latest role change if it is pending, else 0
  unseen,        \* a success was lost
  asked          \* mutations sent so far

mbrVars == <<role, data, pendingRemove, calls,
             latest, unseen, asked>>

\* An editor is a viewer to this page.
Roles == {"admin", "viewer"}
Members == {u \in Users : role[u] # "none"}
Lists == UNION {[S -> Roles] : S \in SUBSET Users}

\* Mutant: the list has a row for every user.
ListedAll == role

\* What the list request returns.
Listed == [u \in Members |-> role[u]]

TypeOK ==
  /\ role \in [Users -> Roles \cup {"none"}]
  /\ data \in Query(Lists)
  /\ unseen \in BOOLEAN
  /\ pendingRemove \in Users \cup {NoData}
  /\ calls \subseteq Request([op : {"role", "remove", "add"}, user : Users,
                              role : Roles \cup {"none"}])
  /\ latest \in 0 .. MaxRequests /\ asked \in 0 .. MaxRequests

Init ==
  /\ role \in [Users -> {"admin", "none"}] /\ role[Me] = "admin"
  /\ data = Start(NoQuery)
  /\ pendingRemove = NoData
  /\ calls = {} /\ latest = 0
  /\ unseen = FALSE /\ asked = 0

-----------------------------------------------------------------------------
\* The rows, and whether they have controls (never before the session is read).
Rows == IF Shown(data) THEN DOMAIN data.data ELSE {}
isAdmin == Me \in Rows /\ data.data[Me] = "admin"

Send(op, u, r) ==
  /\ asked < MaxRequests /\ asked' = asked + 1
  /\ calls' = calls \cup {Sent(Free(calls), [op |-> op, user |-> u, role |-> r])}

rolePending(u) == \E c \in calls : c.n = latest /\ c.arg.user = u

Settle(c) == calls' = calls \ {c} /\ latest' = IF c.n = latest THEN 0 ELSE latest

SelectRole(u, r) ==
  /\ isAdmin /\ pendingRemove = NoData
  /\ u \in Rows /\ r # data.data[u] /\ ~rolePending(u)
  /\ Send("role", u, r)
  /\ latest' = Free(calls)
  /\ UNCHANGED <<role, data, pendingRemove, unseen>>

RemoveIntent(u) ==
  /\ isAdmin /\ pendingRemove = NoData /\ u \in Rows
  /\ pendingRemove' = u
  /\ UNCHANGED <<role, data, calls, latest, unseen, asked>>

\* The dialog outlives the controls: it is shown whenever the list is.
ConfirmRemove ==
  /\ Shown(data) /\ pendingRemove # NoData /\ ~isPending(calls, "remove")
  /\ Send("remove", pendingRemove, "none")
  /\ UNCHANGED <<role, data, pendingRemove, latest, unseen>>

CancelRemove ==
  /\ Shown(data) /\ pendingRemove # NoData
  /\ pendingRemove' = NoData
  /\ UNCHANGED <<role, data, calls, latest, unseen, asked>>

SubmitAdd(u, r) ==
  /\ isAdmin /\ pendingRemove = NoData /\ ~isPending(calls, "add")
  /\ Send("add", u, r)
  /\ UNCHANGED <<role, data, pendingRemove, latest, unseen>>

-----------------------------------------------------------------------------
\* What ProjectMembers models in detail: the last admin keeps the role, a
\* member is added once. The server may also fail and change nothing.
Accepts(a) ==
  LET last == role[a.user] = "admin" /\ Cardinality({u \in Users : role[u] = "admin"}) = 1
  IN CASE a.op = "add" -> role[a.user] = "none"
       [] a.op = "role" -> role[a.user] # "none" /\ (a.role = "admin" \/ ~last)
       [] a.op = "remove" -> role[a.user] # "none" /\ ~last

ServeCall(c) ==
  /\ c.st = "sent"
  /\ \E ok \in {Accepts(c.arg), FALSE} :
       /\ calls' = Served(calls, c, ok)
       /\ role' = IF ok THEN [role EXCEPT ![c.arg.user] = c.arg.role] ELSE role
  /\ UNCHANGED <<data, pendingRemove, latest, unseen, asked>>

ServeList ==
  /\ data.net = "sent"
  /\ \E v \in {Listed, NoData} : data' = Answer(data, v)
  /\ UNCHANGED <<role, pendingRemove, calls, latest, unseen, asked>>

-----------------------------------------------------------------------------
\* Mutant: only the removal asks for the list again.
SuccessReplyRemove(c) ==
  /\ Succeeded(c)
  /\ Settle(c)
  /\ data' = IF c.arg.op = "remove" THEN Invalidate(data) ELSE data
  /\ pendingRemove' = IF c.arg.op = "remove" THEN NoData ELSE pendingRemove
  /\ UNCHANGED <<role, unseen, asked>>

\* Every success asks for the list again. That of a removal closes the
\* dialog, whoever it is open on by now.
SuccessReply(c) ==
  /\ Succeeded(c)
  /\ Settle(c)
  /\ data' = Invalidate(data)
  /\ pendingRemove' = IF c.arg.op = "remove" THEN NoData ELSE pendingRemove
  /\ UNCHANGED <<role, unseen, asked>>

\* A refusal, or a success that is lost: a message, and nothing is asked for.
ErrorReply(c) ==
  /\ Failing(c)
  /\ Settle(c)
  /\ unseen' = (unseen \/ Succeeded(c))
  /\ UNCHANGED <<role, data, pendingRemove, asked>>

\* The add form goes with the controls, and a new one knows of no request.
ListArrives ==
  /\ data.net = "answered"
  /\ data' = Arrive(data)
  /\ calls' = {IF c.arg.op = "add" /\ ~isAdmin' THEN [c EXCEPT !.from = "gone"] ELSE c :
               c \in calls}
  /\ UNCHANGED <<role, pendingRemove, latest, unseen, asked>>

\* The window gets the focus, or Retry is pressed in the error block.
Focus ==
  /\ data.net = "idle"
  /\ data' = Fetch(data)
  /\ UNCHANGED <<role, pendingRemove, calls, latest, unseen, asked>>

MbrNext ==
  \/ ConfirmRemove \/ CancelRemove
  \/ \E u \in Users : RemoveIntent(u)
  \/ \E u \in Users, r \in Roles : SelectRole(u, r) \/ SubmitAdd(u, r)
  \/ \E c \in calls : ServeCall(c) \/ SuccessReply(c) \/ ErrorReply(c)
  \/ ServeList \/ ListArrives \/ Focus

Spec == Init /\ [][MbrNext]_mbrVars
-----------------------------------------------------------------------------
\* At rest the page shows every member with the stored role, and offers the
\* controls exactly when the user is an admin: role changes that overtake each
\* other, removals, additions and refreshes leave nothing behind, unless a
\* success was lost (members.tsx 54-112).
ListIsRoster ==
  Shown(data) /\ ~unseen /\ data.net = "idle" /\ calls = {}
    => /\ data.data = Listed
       /\ isAdmin <=> role[Me] = "admin"
=============================================================================
