---------------------------- MODULE WebFlagList ----------------------------
(***************************************************************************)
(* The flag list of one environment: a row per flag with a button that      *)
(* toggles it, the dialog that deletes a flag and the one that creates one. *)
(*                                                                          *)
(* A toggle sends the opposite of what the row shows. The rows share one    *)
(* mutation, so a row's button is disabled only while the latest toggle is  *)
(* its own and pending. The search box hides rows and is left out.          *)
(***************************************************************************)
EXTENDS FlagCreateModal

CONSTANTS Keys, MaxRequests

VARIABLES
  flags,         \* the server: the flags there are, with their state here
  list,          \* query ['flags', slug, envSlug]
  pendingDelete, \* the flag the delete dialog is open on, or NoData
  create,        \* the create dialog
  calls,         \* the requests in flight
  latest,        \* the latest toggle if it is pending, else 0
  missed,        \* a success was lost, or a creation answered without a panel
  asked          \* mutations sent so far

listVars == <<flags, list, pendingDelete, create, calls, latest, missed, asked>>

Tables == UNION {[S -> BOOLEAN] : S \in SUBSET Keys}

TypeOK ==
  /\ flags \in Tables
  /\ list \in Query(Tables)
  /\ pendingDelete \in Keys \cup {NoData}
  /\ create \in Modals(Keys)
  /\ calls \subseteq Request([op : {"toggle", "delete", "create"}, key : Keys, enabled : BOOLEAN])
  /\ latest \in 0 .. MaxRequests /\ asked \in 0 .. MaxRequests
  /\ missed \in BOOLEAN

Init ==
  /\ flags \in UNION {[S -> {FALSE}] : S \in SUBSET Keys}
  /\ list = Start(NoQuery)
  /\ pendingDelete = NoData /\ create = Closed
  /\ calls = {} /\ latest = 0
  /\ missed = FALSE /\ asked = 0

-----------------------------------------------------------------------------
Rows == IF Shown(list) THEN DOMAIN list.data ELSE {}
NoDialog == pendingDelete = NoData /\ create.at = "closed"

Send(op, k, e) ==
  /\ asked < MaxRequests /\ asked' = asked + 1
  /\ calls' = calls \cup {Sent(Free(calls), [op |-> op, key |-> k, enabled |-> e])}

isToggling(k) == \E c \in calls : c.n = latest /\ c.arg.key = k

Toggle(k) ==
  /\ NoDialog /\ k \in Rows /\ ~isToggling(k)
  /\ Send("toggle", k, ~list.data[k])
  /\ latest' = Free(calls)
  /\ UNCHANGED <<flags, list, pendingDelete, create, missed>>

DeleteIntent(k) ==
  /\ NoDialog /\ k \in Rows
  /\ pendingDelete' = k
  /\ UNCHANGED <<flags, list, create, calls, latest, missed, asked>>

\* Cancel, or Escape, which also works while the deletion is pending.
CancelDelete ==
  /\ Shown(list) /\ pendingDelete # NoData
  /\ pendingDelete' = NoData
  /\ UNCHANGED <<flags, list, create, calls, latest, missed, asked>>

\* The key of the flag was typed into the dialog.
ConfirmDelete ==
  /\ Shown(list) /\ pendingDelete # NoData /\ ~isPending(calls, "delete")
  /\ Send("delete", pendingDelete, FALSE)
  /\ UNCHANGED <<flags, list, pendingDelete, create, latest, missed>>

OpenCreate ==
  /\ Shown(list) /\ NoDialog
  /\ create' = FreshForm
  /\ UNCHANGED <<flags, list, pendingDelete, calls, latest, missed, asked>>

\* The field may also be emptied again, even while the request is pending.
TypeKey(k) ==
  /\ Shown(list) /\ create.at = "form" /\ create.key # k
  /\ create' = Typed(create, k)
  /\ UNCHANGED <<flags, list, pendingDelete, calls, latest, missed, asked>>

SubmitCreate ==
  /\ Shown(list) /\ CanSubmit(create, calls)
  /\ Send("create", create.key, FALSE)
  /\ UNCHANGED <<flags, list, pendingDelete, create, latest, missed>>

\* Cancel, or Escape, which also works while the creation is pending; the
\* form is unmounted.
CancelCreate ==
  /\ Shown(list) /\ create.at = "form"
  /\ create' = Closed
  /\ calls' = {IF c.arg.op = "create" THEN [c EXCEPT !.from = "gone"] ELSE c : c \in calls}
  /\ UNCHANGED <<flags, list, pendingDelete, latest, missed, asked>>

\* Mutant: the panel is closed and the list not asked for.
onCreatedQuiet ==
  /\ Shown(list) /\ create.at = "created"
  /\ create' = Closed
  /\ UNCHANGED <<flags, list, pendingDelete, calls, latest, missed, asked>>

\* Done, or any other way to close the panel.
onCreated ==
  /\ Shown(list) /\ create.at = "created"
  /\ create' = Closed
  /\ list' = Invalidate(list)
  /\ UNCHANGED <<flags, pendingDelete, calls, latest, missed, asked>>

-----------------------------------------------------------------------------
\* A flag is created with its state off in every environment, and once. The
\* server may also fail and change nothing.
ServeCall(c) ==
  LET a == c.arg IN
  /\ c.st = "sent"
  /\ \E ok \in {(a.op = "create") # (a.key \in DOMAIN flags), FALSE} :
       /\ calls' = Served(calls, c, ok)
       /\ flags' = CASE ~ok -> flags
                     [] ok /\ a.op = "delete" -> [k \in DOMAIN flags \ {a.key} |-> flags[k]]
                     [] OTHER -> [k \in DOMAIN flags \cup {a.key} |->
                                    IF k = a.key THEN a.enabled ELSE flags[k]]
  /\ UNCHANGED <<list, pendingDelete, create, latest, missed, asked>>

ServeList ==
  /\ list.net = "sent"
  /\ \E v \in {flags, NoData} : list' = Answer(list, v)
  /\ UNCHANGED <<flags, pendingDelete, create, calls, latest, missed, asked>>

-----------------------------------------------------------------------------
Settle(c) == calls' = calls \ {c} /\ latest' = IF c.n = latest THEN 0 ELSE latest

\* A deletion also closes the dialog, whichever flag it is open on by now.
ToggleOrDeleteReply(c) ==
  /\ Succeeded(c) /\ c.arg.op # "create"
  /\ Settle(c)
  /\ list' = Invalidate(list)
  /\ pendingDelete' = IF c.arg.op = "delete" THEN NoData ELSE pendingDelete
  /\ UNCHANGED <<flags, create, missed, asked>>

CreateReply(c) ==
  /\ Succeeded(c) /\ c.arg.op = "create"
  /\ Settle(c)
  /\ create' = IF c.from = "here" THEN Created(create) ELSE create
  /\ missed' = (missed \/ c.from # "here" \/ create'.at # "created")
  /\ UNCHANGED <<flags, list, pendingDelete, asked>>

\* A refusal, or a success that is lost: a message, and nothing is asked for.
ErrorReply(c) ==
  /\ Failing(c)
  /\ Settle(c)
  /\ create' \in IF c.arg.op = "create" /\ c.from = "here"
                 THEN {Refused(create, e) : e \in {~Succeeded(c), FALSE}} ELSE {create}
  /\ missed' = (missed \/ Succeeded(c))
  /\ UNCHANGED <<flags, list, pendingDelete, asked>>

ListArrives ==
  /\ list.net = "answered"
  /\ list' = Arrive(list)
  /\ create' = IF Shown(list') THEN create ELSE Remounted(create)
  /\ calls' = {IF c.arg.op = "create" /\ ~Shown(list') THEN [c EXCEPT !.from = "gone"] ELSE c :
               c \in calls}
  /\ UNCHANGED <<flags, pendingDelete, latest, missed, asked>>

\* The window gets the focus, or Retry is pressed in the error block.
Focus ==
  /\ list.net = "idle"
  /\ list' = Fetch(list)
  /\ UNCHANGED <<flags, pendingDelete, create, calls, latest, missed, asked>>

ListNext ==
  \/ CancelDelete \/ ConfirmDelete \/ OpenCreate \/ SubmitCreate \/ CancelCreate \/ onCreated
  \/ \E k \in Keys : Toggle(k) \/ DeleteIntent(k)
  \/ \E k \in Keys \cup {NoData} : TypeKey(k)
  \/ \E c \in calls : \/ ServeCall(c) \/ ToggleOrDeleteReply(c)
                      \/ CreateReply(c) \/ ErrorReply(c)
  \/ ServeList \/ ListArrives \/ Focus

Spec == Init /\ [][ListNext]_listVars
-----------------------------------------------------------------------------
\* At rest, once the panel of a created flag is closed, the list has every
\* flag in its stored state: toggles of one flag that overtake each other,
\* deletions, creations and refreshes that fail leave no row behind, unless a
\* success was lost or a creation was answered after its form was gone, or
\* while its key field was empty (flags.tsx 101-114, 291-299,
\* flag-create-modal.tsx 184, 233).
FlagListAtRest ==
  /\ Shown(list) /\ ~missed /\ list.net = "idle" /\ calls = {} /\ create.at # "created"
  => list.data = flags
=============================================================================
