-------------------------- MODULE WebEnvironments --------------------------
(***************************************************************************)
(* The environments page of a project's settings: a list whose names are    *)
(* edited in place, and the dialogs that create and delete an environment.  *)
(* The project switcher shows the same query on every page of the project,  *)
(* so a change asks for it again even when the page has been left, but not  *)
(* when the project has been left too.                                      *)
(*                                                                          *)
(* The field of a name saves on Enter and whenever it loses the focus, and  *)
(* does neither wait for nor know of a rename that is pending: renames of   *)
(* one environment can overlap. The user is an admin, who may do it all. An *)
(* empty name, which is never sent, is left out.                            *)
(***************************************************************************)
EXTENDS ReactQuery

CONSTANTS Slugs, Names, MaxRequests

VARIABLES
  envs,          \* the server: the environments there are, with id and name
  envList,       \* query ['environments', slug]
  place,         \* the user is on this page, elsewhere in the project, or away
  field,         \* per row: what is in its name field, or NoData: not edited
  focus,         \* the row whose field has the focus, or NoData
  form,          \* the create dialog: whether it is open, and its slug
  pendingDelete, \* the environment the delete dialog is open on, or NoData
  calls,         \* the requests in flight
  lost,          \* a success was lost, or came while away to an older answer
  asked          \* mutations sent so far

envVars == <<envs, envList, place, field, focus, form, pendingDelete, calls, lost, asked>>

Ids == 0 .. MaxRequests
Tables == UNION {[S -> [id : Ids, name : Names]] : S \in SUBSET Slugs}
EmptyForm == [open |-> FALSE, slug |-> NoData, slugError |-> FALSE]
NoFields == [s \in Slugs |-> NoData]
Places == {"page", "project", "away"}

TypeOK ==
  /\ envs \in Tables
  /\ envList \in Query(Tables)
  /\ place \in Places /\ lost \in BOOLEAN
  /\ field \in [Slugs -> Names \cup {NoData}]
  /\ focus \in {NoData} \cup {s \in Slugs : field[s] # NoData}
  /\ form \in [open : BOOLEAN, slug : Slugs \cup {NoData}, slugError : BOOLEAN]
  /\ pendingDelete \in Slugs \cup {NoData}
  /\ calls \subseteq Request([op : {"create", "rename", "delete"}, env : Slugs,
                              name : Names \cup {NoData}, id : Ids])
  /\ asked \in 0 .. MaxRequests

Init ==
  /\ envs \in UNION {[S -> [id : {0}, name : Names]] : S \in SUBSET Slugs}
  /\ envList = Start(NoQuery)
  /\ place = "page"
  /\ field = NoFields /\ focus = NoData
  /\ form = EmptyForm /\ pendingDelete = NoData
  /\ calls = {} /\ lost = FALSE /\ asked = 0

-----------------------------------------------------------------------------
\* The page is mounted; the query is, by the page or by the switcher.
here == place = "page"
Observed == place # "away"

Rows == IF here /\ Shown(envList) THEN DOMAIN envList.data ELSE {}

\* The page is there to be clicked on: no dialog, and no field that would lose
\* the focus to the click first (Blur).
Clickable == here /\ Shown(envList) /\ ~form.open /\ pendingDelete = NoData /\ focus = NoData

Send(op, s, n) ==
  /\ asked < MaxRequests /\ asked' = asked + 1
  /\ calls' = calls \cup {Sent(Free(calls), [op |-> op, env |-> s, name |-> n, id |-> asked'])}

(* The name field of a row.                                                 *)
startEdit(s) ==
  /\ Clickable /\ s \in Rows /\ field[s] = NoData
  /\ field' = [field EXCEPT ![s] = envList.data[s].name] /\ focus' = s
  /\ UNCHANGED <<envs, envList, place, form, pendingDelete, calls, lost, asked>>

\* Back in the field, which stays while its rename is pending.
Refocus(s) ==
  /\ Clickable /\ s \in Rows /\ field[s] # NoData
  /\ focus' = s
  /\ UNCHANGED <<envs, envList, place, field, form, pendingDelete, calls, lost, asked>>

TypeName(s, n) ==
  /\ focus = s /\ s \in Rows /\ field[s] # n
  /\ field' = [field EXCEPT ![s] = n]
  /\ UNCHANGED <<envs, envList, place, focus, form, pendingDelete, calls, lost, asked>>

\* An unchanged name closes the field, and any other is sent; the field then
\* stays open until the reply.
saveEdit(s) ==
  /\ focus = s /\ s \in Rows
  /\ IF field[s] = envList.data[s].name
     THEN field' = [field EXCEPT ![s] = NoData] /\ UNCHANGED <<calls, asked>>
     ELSE Send("rename", s, field[s]) /\ UNCHANGED field
  /\ UNCHANGED <<envs, envList, place, form, pendingDelete, lost>>

PressEnter(s) == saveEdit(s) /\ focus' = IF field'[s] = NoData THEN NoData ELSE focus
Blur(s) == saveEdit(s) /\ focus' = NoData

cancelEdit(s) ==
  /\ focus = s /\ s \in Rows
  /\ field' = [field EXCEPT ![s] = NoData] /\ focus' = NoData
  /\ UNCHANGED <<envs, envList, place, form, pendingDelete, calls, lost, asked>>

-----------------------------------------------------------------------------
(* The dialogs. Escape closes one even while its request is pending.        *)
OpenCreate ==
  /\ Clickable
  /\ form' = [form EXCEPT !.open = TRUE]
  /\ UNCHANGED <<envs, envList, place, field, focus, pendingDelete, calls, lost, asked>>

\* The slug is typed, or made from the name; both stay enabled throughout.
TypeSlug(s) ==
  /\ here /\ Shown(envList) /\ form.open /\ form.slug # s
  /\ form' = [form EXCEPT !.slug = s, !.slugError = FALSE]
  /\ UNCHANGED <<envs, envList, place, field, focus, pendingDelete, calls, lost, asked>>

SubmitCreate(n) ==
  /\ here /\ Shown(envList) /\ form.open /\ form.slug # NoData /\ ~form.slugError
  /\ ~isPending(calls, "create")
  /\ Send("create", form.slug, n)
  /\ UNCHANGED <<envs, envList, place, field, focus, form, pendingDelete, lost>>

CancelCreate ==
  /\ here /\ Shown(envList) /\ form.open
  /\ form' = EmptyForm
  /\ UNCHANGED <<envs, envList, place, field, focus, pendingDelete, calls, lost, asked>>

DeleteIntent(s) ==
  /\ Clickable /\ s \in Rows
  /\ pendingDelete' = s
  /\ UNCHANGED <<envs, envList, place, field, focus, form, calls, lost, asked>>

CancelDelete ==
  /\ here /\ Shown(envList) /\ pendingDelete # NoData
  /\ pendingDelete' = NoData
  /\ UNCHANGED <<envs, envList, place, field, focus, form, calls, lost, asked>>

ConfirmDelete ==
  /\ here /\ Shown(envList) /\ pendingDelete # NoData /\ ~isPending(calls, "delete")
  /\ Send("delete", pendingDelete, NoData)
  /\ UNCHANGED <<envs, envList, place, field, focus, form, pendingDelete, lost>>

-----------------------------------------------------------------------------
\* A slug is unique in its project. The server may also fail and change nothing.
ServeCall(c) ==
  LET a == c.arg IN
  /\ c.st = "sent"
  /\ \E ok \in {(a.op = "create") # (a.env \in DOMAIN envs), FALSE} :
       /\ calls' = Served(calls, c, ok)
       /\ envs' = CASE ~ok -> envs
                    [] ok /\ a.op = "create" ->
                         [s \in DOMAIN envs \cup {a.env} |->
                            IF s = a.env THEN [id |-> a.id, name |-> a.name] ELSE envs[s]]
                    [] ok /\ a.op = "rename" -> [envs EXCEPT ![a.env].name = a.name]
                    [] OTHER -> [s \in DOMAIN envs \ {a.env} |-> envs[s]]
  /\ UNCHANGED <<envList, place, field, focus, form, pendingDelete, lost, asked>>

ServeList ==
  /\ envList.net = "sent"
  /\ \E v \in {envs, NoData} : envList' = Answer(envList, v)
  /\ UNCHANGED <<envs, place, field, focus, form, pendingDelete, calls, lost, asked>>

-----------------------------------------------------------------------------
(* Replies. A success asks for the list again if anything shows it. If      *)
(* nothing does, a request in flight is left alone, and its answer may be   *)
(* older than the change. The reply of a rename closes the field of its     *)
(* row, whatever has been typed into it since.                              *)
CloseField(c) ==
  /\ field' = IF c.from = "here" THEN [field EXCEPT ![c.arg.env] = NoData] ELSE field
  /\ focus' = IF c.from = "here" /\ focus = c.arg.env THEN NoData ELSE focus

Reask ==
  /\ envList' = IF Observed THEN Invalidate(envList) ELSE envList
  /\ lost' = (lost \/ (~Observed /\ envList.net = "answered"))

\* Mutant: an answer in flight is taken for one that knows of the new name.
RenameReplyRefetch(c) ==
  /\ Succeeded(c) /\ c.arg.op = "rename"
  /\ calls' = calls \ {c} /\ CloseField(c)
  /\ envList' = IF Observed THEN Fetch(envList) ELSE envList
  /\ UNCHANGED <<envs, place, form, pendingDelete, lost, asked>>

RenameReply(c) ==
  /\ Succeeded(c) /\ c.arg.op = "rename"
  /\ calls' = calls \ {c} /\ CloseField(c)
  /\ Reask
  /\ UNCHANGED <<envs, place, form, pendingDelete, asked>>

\* The form is closed and emptied, also one that was opened again meanwhile.
CreateReply(c) ==
  /\ Succeeded(c) /\ c.arg.op = "create"
  /\ calls' = calls \ {c}
  /\ form' = IF c.from = "gone" THEN form ELSE EmptyForm
  /\ Reask
  /\ UNCHANGED <<envs, place, field, focus, pendingDelete, asked>>

\* The dialog is closed, whichever environment it is open on by now.
DeleteReply(c) ==
  /\ Succeeded(c) /\ c.arg.op = "delete"
  /\ calls' = calls \ {c}
  /\ pendingDelete' = IF c.from = "here" THEN NoData ELSE pendingDelete
  /\ Reask
  /\ UNCHANGED <<envs, place, field, focus, form, asked>>

\* A refusal, or a success that is lost. A failed rename closes its field too;
\* a conflict blocks the form until its slug is changed, whatever it is by now.
ErrorReply(c) ==
  /\ Failing(c)
  /\ calls' = calls \ {c}
  /\ IF c.arg.op = "rename" THEN CloseField(c) ELSE UNCHANGED <<field, focus>>
  /\ form' \in IF c.arg.op = "create" /\ c.from = "here"
               THEN {[form EXCEPT !.slugError = @ \/ e] : e \in {~Succeeded(c), FALSE}}
               ELSE {form}
  /\ lost' = (lost \/ Succeeded(c))
  /\ UNCHANGED <<envs, envList, place, pendingDelete, asked>>

\* A row is that of one environment: with its environment, or with the whole
\* page body, its field is unmounted, and so is the form with the page body.
ListArrives ==
  LET kept == {s \in Slugs : /\ Shown(envList) /\ Shown(envList')
                             /\ s \in DOMAIN envList.data \cap DOMAIN envList'.data
                             /\ envList.data[s].id = envList'.data[s].id}
      owner(c) == CASE c.from # "here" -> c.from
                    [] c.from = "here" /\ c.arg.op = "rename" /\ c.arg.env \notin kept -> "gone"
                    [] c.from = "here" /\ c.arg.op = "create" /\ ~Shown(envList') -> "page"
                    [] OTHER -> "here"
  IN /\ envList.net = "answered"
     /\ envList' = Arrive(envList)
     /\ field' = [s \in Slugs |-> IF s \in kept THEN field[s] ELSE NoData]
     /\ focus' = IF focus \in kept THEN focus ELSE NoData
     /\ form' = IF Shown(envList') THEN form ELSE [EmptyForm EXCEPT !.open = form.open]
     /\ calls' = {[c EXCEPT !.from = owner(c)] : c \in calls}
     /\ UNCHANGED <<envs, place, pendingDelete, lost, asked>>

\* The window gets the focus, or Retry is pressed in the error block.
Focus ==
  /\ Observed /\ envList.net = "idle"
  /\ envList' = Fetch(envList)
  /\ UNCHANGED <<envs, place, field, focus, form, pendingDelete, calls, lost, asked>>

\* A link, Back or the switcher, to another page of the project or out of it; a
\* field that is only unmounted does not lose the focus first and saves nothing.
Leave(p) ==
  /\ Observed /\ p \notin {"page", place} /\ place' = p
  /\ field' = NoFields /\ focus' = NoData /\ form' = EmptyForm /\ pendingDelete' = NoData
  /\ calls' = Unmounted(calls)
  /\ UNCHANGED <<envs, envList, lost, asked>>

\* What mounts joins a request in flight, however old its answer is.
Enter(p) ==
  /\ ~here /\ p \notin {"away", place} /\ place' = p
  /\ envList' = Fetch(envList)
  /\ UNCHANGED <<envs, field, focus, form, pendingDelete, calls, lost, asked>>

EnvNext ==
  \/ OpenCreate \/ CancelCreate \/ CancelDelete \/ ConfirmDelete
  \/ \E s \in Slugs : \/ startEdit(s) \/ Refocus(s) \/ PressEnter(s) \/ Blur(s)
                      \/ cancelEdit(s) \/ TypeSlug(s) \/ DeleteIntent(s)
  \/ \E s \in Slugs, n \in Names : TypeName(s, n)
  \/ \E n \in Names : SubmitCreate(n)
  \/ \E c \in calls : \/ ServeCall(c) \/ RenameReply(c) \/ CreateReply(c)
                      \/ DeleteReply(c) \/ ErrorReply(c)
  \/ ServeList \/ ListArrives \/ Focus
  \/ \E p \in Places : Leave(p) \/ Enter(p)

Spec == Init /\ [][EnvNext]_envVars
-----------------------------------------------------------------------------
\* At rest the page, and the switcher, list exactly the environments there are
\* by their stored names: renames that overlap, a deletion and a creation under
\* the same slug and refreshes between them leave nothing behind, also when
\* they are answered on another page of the project, or outside of it with the
\* query at rest. Unless a success was lost, or came outside the project with
\* an older answer under way (settings.environments.tsx 62-71, 170-207,
\* CreateEnvironmentDialog.tsx 71-75, ProjectSwitcher.tsx 50-57).
ListAtRest ==
  /\ Observed /\ Shown(envList) /\ ~lost /\ envList.net = "idle" /\ calls = {}
  => envList.data = envs
=============================================================================
