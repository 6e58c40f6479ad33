-------------------------- MODULE FlagCreateModal --------------------------
(***************************************************************************)
(* The dialog that creates a flag, shared by the two pages that list flags: *)
(* a form, then a panel that names the created flag and offers a snippet.   *)
(* The list is told of the flag when the panel is closed, and not by the    *)
(* reply; without a panel it is not told. Of what is typed only the key     *)
(* matters to the pages; a key is one that passes the form's own check,     *)
(* NoData when the field is empty.                                          *)
(***************************************************************************)
EXTENDS ReactQuery

Modals(K) == [at : {"closed", "form", "created"}, key : K \cup {NoData}, keyError : BOOLEAN]

Closed == [at |-> "closed", key |-> NoData, keyError |-> FALSE]
FreshForm == [Closed EXCEPT !.at = "form"]

\* The fields stay enabled while the request is pending.
Typed(m, k) == [m EXCEPT !.key = k, !.keyError = FALSE]

\* handleSubmit and the button's own conditions.
CanSubmit(m, calls) ==
  m.at = "form" /\ m.key # NoData /\ ~m.keyError /\ ~isPending(calls, "create")

\* The panel names what is in the field when the reply comes, and is shown if
\* that is anything: with the field emptied meanwhile the form stays.
Created(m) == IF m.key = NoData THEN m ELSE [m EXCEPT !.at = "created"]

\* A conflict or a refused key is shown at the field and blocks the button
\* until the key is changed, whatever key is there by now.
Refused(m, keyError) == [m EXCEPT !.keyError = keyError]

\* A failed refresh of the list replaces the page by its error block. The
\* dialog is unmounted, and is a new form when the list is back.
Remounted(m) == IF m.at = "closed" THEN m ELSE FreshForm
=============================================================================
