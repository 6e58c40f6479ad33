---------------------------- MODULE WebFlagCard ----------------------------
(***************************************************************************)
(* The card of the flag detail page: a flag with its variants and default   *)
(* variant, its edit mode, and the dialog that deletes the flag.            *)
(*                                                                          *)
(* The draft of the edit mode is a copy made when the card is mounted and   *)
(* renewed by Cancel only; saving replaces the whole flag. The rows of the  *)
(* environments are the subject of WebFlagLive.                             *)
(***************************************************************************)
EXTENDS ReactQuery, FiniteSets

CONSTANTS Keys, MaxRequests   \* variant keys; the flag is not a boolean one

VARIABLES
  flag,      \* the server: the flag, NoData once it is deleted
  query,     \* query ['flag', slug, env, key]
  at,        \* where the tab is: "flag", "list" or "away"
  card,      \* the card is mounted
  editing, draft,   \* its edit mode
  deleting,  \* the delete dialog is open
  calls,     \* the requests in flight
  apart,     \* the flag changed without this page being answered, or the draft
             \* while it was being saved, or it was copied from an old answer
  requests   \* changes sent so far, by the tab and by others

cardVars == <<flag, query, at, card, editing, draft, deleting, calls, apart, requests>>

\* A flag has a default among its variants, and so has every draft of one,
\* through additions, removals, cancellations and refetches.
Flags == {f \in [variants : SUBSET Keys, default : Keys] : f.default \in f.variants}

TypeOK ==
  /\ flag \in Flags \cup {NoData}
  /\ query \in Query(Flags)
  /\ at \in {"flag", "list", "away"}
  /\ card \in BOOLEAN /\ editing \in BOOLEAN /\ deleting \in BOOLEAN /\ apart \in BOOLEAN
  /\ draft \in Flags \cup {NoData}
  /\ calls \subseteq Request([op : {"save", "delete"}, flag : Flags \cup {NoData}])
  /\ requests \in 0 .. MaxRequests

Init ==
  /\ flag \in Flags
  /\ query = Start(NoQuery)
  /\ at = "flag" /\ card = FALSE
  /\ editing = FALSE /\ draft = NoData /\ deleting = FALSE
  /\ calls = {} /\ apart = FALSE /\ requests = 0

-----------------------------------------------------------------------------
Send(op, f) ==
  /\ requests < MaxRequests /\ requests' = requests + 1
  /\ calls' = calls \cup {Sent(Free(calls), [op |-> op, flag |-> f])}

\* The card is there as long as the page shows a flag; mounting it copies
\* the flag, unmounting it drops its state and lets its save go on alone.
Mount(q, here) ==
  /\ card' = (here /\ Shown(q))
  /\ IF card' = card THEN UNCHANGED <<editing, draft, deleting, calls, apart>>
     ELSE /\ editing' = FALSE
          /\ apart' = (apart \/ (card' /\ q.data # flag))
          /\ draft' = IF card' THEN q.data ELSE NoData
          /\ deleting' = (deleting /\ here)
          /\ calls' = IF ~here THEN Unmounted(calls)
                      ELSE {IF c.arg.op = "save" THEN [c EXCEPT !.from = "gone"] ELSE c :
                            c \in calls}

Bare == card /\ ~deleting

Edit ==
  /\ Bare /\ ~editing /\ editing' = TRUE
  /\ UNCHANGED <<flag, query, at, card, draft, deleting, calls, apart, requests>>

\* Mutant: Cancel leaves the draft as it is.
cancelEditOnly ==
  /\ Bare /\ editing /\ ~isPending(calls, "save")
  /\ editing' = FALSE
  /\ apart' = (apart \/ query.data # flag)
  /\ UNCHANGED <<flag, query, at, card, draft, deleting, calls, requests>>

\* Only while no save is pending are the buttons enabled; the fields always are.
cancelEdit ==
  /\ Bare /\ editing /\ ~isPending(calls, "save")
  /\ draft' = query.data /\ editing' = FALSE
  /\ apart' = (apart \/ query.data # flag)
  /\ UNCHANGED <<flag, query, at, card, deleting, calls, requests>>

Change(d) ==
  /\ Bare /\ editing /\ draft' = d
  /\ apart' = (apart \/ isPending(calls, "save"))
  /\ UNCHANGED <<flag, query, at, card, editing, deleting, calls, requests>>

\* Mutant: the default variant can be removed.
RemoveAnyVariant(k) ==
  /\ k \in draft.variants /\ Cardinality(draft.variants) > 1
  /\ Change([draft EXCEPT !.variants = @ \ {k}])

RemoveVariant(k) ==
  /\ k \in draft.variants /\ Cardinality(draft.variants) > 1 /\ k # draft.default
  /\ Change([draft EXCEPT !.variants = @ \ {k}])

AddVariant(k) ==
  /\ k \notin draft.variants
  /\ Change([draft EXCEPT !.variants = @ \cup {k}])

SetDefault(k) ==
  /\ k \in draft.variants \ {draft.default}
  /\ Change([draft EXCEPT !.default = k])

Save ==
  /\ Bare /\ editing /\ ~isPending(calls, "save")
  /\ Send("save", draft)
  /\ UNCHANGED <<flag, query, at, card, editing, draft, deleting, apart>>

DeleteIntent ==
  /\ Bare /\ deleting' = TRUE
  /\ UNCHANGED <<flag, query, at, card, editing, draft, calls, apart, requests>>

CancelDelete ==
  /\ card /\ deleting /\ deleting' = FALSE
  /\ UNCHANGED <<flag, query, at, card, editing, draft, calls, apart, requests>>

\* The key of the flag was typed into the dialog.
ConfirmDelete ==
  /\ card /\ deleting /\ ~isPending(calls, "delete")
  /\ Send("delete", NoData)
  /\ UNCHANGED <<flag, query, at, card, editing, draft, deleting, apart>>

-----------------------------------------------------------------------------
ServeCall(c) ==
  /\ c.st = "sent"
  /\ \E ok \in {flag # NoData, FALSE} :
       /\ calls' = Served(calls, c, ok)
       /\ flag' = IF ok THEN c.arg.flag ELSE flag
       /\ apart' = (apart \/ (ok /\ c.from = "gone"))
  /\ UNCHANGED <<query, at, card, editing, draft, deleting, requests>>

\* Somebody else edits the flag; no event tells of it.
OtherEdit(f) ==
  /\ flag # NoData /\ f # flag
  /\ requests < MaxRequests /\ requests' = requests + 1
  /\ flag' = f /\ apart' = TRUE
  /\ UNCHANGED <<query, at, card, editing, draft, deleting, calls>>

\* A flag that is gone is an error (404), as is any failure after two retries.
ServeFlag ==
  /\ query.net = "sent"
  /\ \E v \in {flag, NoData} : query' = Answer(query, v)
  /\ UNCHANGED <<flag, at, card, editing, draft, deleting, calls, apart, requests>>

-----------------------------------------------------------------------------
\* A save ends the edit mode and asks for the flag again.
SaveReply(c) ==
  /\ Succeeded(c) /\ c.arg.op = "save"
  /\ calls' = calls \ {c}
  /\ editing' = (editing /\ c.from = "gone")
  /\ query' = IF at = "flag" THEN Invalidate(query) ELSE query
  /\ apart' = (apart \/ c.from = "gone")
  /\ UNCHANGED <<flag, at, card, draft, deleting, requests>>

\* A deletion takes the tab to the list, wherever it is by then. The flag stays
\* in the cache, and an answer in flight will be taken when the page comes back.
DeleteReply(c) ==
  /\ Succeeded(c) /\ c.arg.op = "delete"
  /\ at' = "list"
  /\ card' = FALSE /\ editing' = FALSE /\ draft' = NoData /\ deleting' = FALSE
  /\ calls' = Unmounted(calls \ {c})
  /\ apart' = (apart \/ query.net # "idle")
  /\ UNCHANGED <<flag, query, requests>>

ErrorReply(c) ==
  /\ Failing(c)
  /\ calls' = calls \ {c}
  /\ apart' = (apart \/ Succeeded(c))
  /\ UNCHANGED <<flag, query, at, card, editing, draft, deleting, requests>>

FlagArrives ==
  /\ query.net = "answered"
  /\ query' = Arrive(query)
  /\ Mount(query', at = "flag")
  /\ UNCHANGED <<flag, at, requests>>

\* The window gets the focus, or an event of the stream tells to ask again.
Refetch(q) ==
  /\ at = "flag" /\ query' = q /\ q # query
  /\ UNCHANGED <<flag, at, card, editing, draft, deleting, calls, apart, requests>>

Focus == Refetch(Fetch(query))
HandleEvent == Refetch(Invalidate(query))

Leave ==
  /\ at = "flag" /\ ~deleting
  /\ at' = "away"
  /\ Mount(query, FALSE)
  /\ UNCHANGED <<flag, query, requests>>

Enter ==
  /\ at # "flag" /\ at' = "flag"
  /\ query' = Fetch(query)
  /\ Mount(query', TRUE)
  /\ UNCHANGED <<flag, requests>>

CardNext ==
  \/ Edit \/ cancelEdit \/ Save \/ DeleteIntent \/ CancelDelete \/ ConfirmDelete
  \/ \E k \in Keys : card /\ (RemoveVariant(k) \/ AddVariant(k) \/ SetDefault(k))
  \/ \E f \in Flags : OtherEdit(f)
  \/ \E c \in calls : ServeCall(c) \/ SaveReply(c) \/ DeleteReply(c) \/ ErrorReply(c)
  \/ ServeFlag \/ FlagArrives \/ Focus \/ HandleEvent \/ Leave \/ Enter

Spec == Init /\ [][CardNext]_cardVars
-----------------------------------------------------------------------------
\* At rest, outside the edit mode, the card shows the stored flag and an edit
\* starts from it, unless somebody else changed the flag, a save was lost or
\* answered with its card gone, something was typed while one was pending (the
\* fields stay enabled), the draft was copied while a newer flag was still to
\* arrive (Cancel, or coming back), or the flag was deleted during a request
\* (flags.$key.tsx 77-83, 161-191).
EditStartsFromStored ==
  /\ card /\ ~editing /\ ~apart /\ calls = {} /\ query.net = "idle"
  => query.data = flag /\ draft = flag
=============================================================================
