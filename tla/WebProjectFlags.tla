-------------------------- MODULE WebProjectFlags --------------------------
(***************************************************************************)
(* The flag list of a project, which the server searches, sorts and cuts    *)
(* into pages. Every combination of page, search term and order is a query  *)
(* of its own, so the cache holds several slices of one list; a change asks *)
(* for the slice on display again and for no other. While a slice is first  *)
(* loaded the page keeps showing the previous one.                          *)
(*                                                                          *)
(* Flags are numbered by key, a search term is the set of flags it matches, *)
(* typing it and its 200 ms timer are one step, and so are a header click   *)
(* and the order it leads to. The badges of the environments are left out.  *)
(***************************************************************************)
EXTENDS FlagCreateModal, FiniteSets

CONSTANTS
  Keys,      \* the flags, numbered in the order of their keys
  Terms,     \* search terms, the empty one (Keys) among them
  Orders,    \* "asc", with which the page begins, and "desc"
  PerPage, MaxRequests, MaxMoves

VARIABLES
  flags,         \* the server: the flags there are
  cache,         \* query ['project-flags', slug, page, perPage, search, sort]
  view,          \* the page, the debounced search and the order on display
  prev,          \* the latest view that had data
  pendingDelete, \* the flag the delete dialog is open on, or NoData
  create,        \* the create dialog
  calls,         \* the requests in flight
  behind,        \* views not asked for again since a change they do not show
  asked, moves   \* mutations sent, and views changed, so far

pflVars == <<flags, cache, view, prev, pendingDelete, create, calls, behind, asked, moves>>

Pages == 1 .. Cardinality(Keys)
Views == [page : Pages, term : Terms, order : Orders]
First == [page |-> 1, term |-> Keys, order |-> "asc"]

\* ListByProject: the page-th PerPage of the flags that match, and their number.
Slice(v) ==
  LET found == flags \cap v.term
      before(k) == Cardinality({j \in found : IF v.order = "asc" THEN j < k ELSE j > k})
  IN [flags |-> {k \in found : before(k) \div PerPage = v.page - 1},
      total |-> Cardinality(found)]

TypeOK ==
  /\ flags \subseteq Keys
  /\ cache \in [Views -> Query([flags : SUBSET Keys, total : 0 .. Cardinality(Keys)])]
  /\ view \in Views /\ prev \in Views /\ behind \subseteq Views
  /\ pendingDelete \in Keys \cup {NoData}
  /\ create \in Modals(Keys)
  /\ calls \subseteq Request([op : {"delete", "create"}, key : Keys])
  /\ asked \in 0 .. MaxRequests /\ moves \in 0 .. MaxMoves

Init ==
  /\ flags \in SUBSET Keys
  /\ cache = [v \in Views |-> IF v = First THEN Start(NoQuery) ELSE NoQuery]
  /\ view = First /\ prev = First
  /\ pendingDelete = NoData /\ create = Closed
  /\ calls = {} /\ behind = {}
  /\ asked = 0 /\ moves = 0

-----------------------------------------------------------------------------
current == cache[view]

\* placeholderData: the previous slice stands in until the first load ends.
data == IF current.data = NoData /\ ~current.err THEN cache[prev].data ELSE current.data

\* Neither the skeleton nor the error block.
Body == data # NoData /\ ~current.err
NoDialog == pendingDelete = NoData /\ create.at = "closed"

totalPages == (data.total + PerPage - 1) \div PerPage

\* Showing other views asks for each of them, unless a request is in flight.
Go(asks, v) ==
  /\ moves < MaxMoves /\ moves' = moves + 1
  /\ view' = v
  /\ cache' = [w \in Views |-> IF w \in asks THEN Fetch(cache[w]) ELSE cache[w]]
  /\ behind' = behind \ {w \in asks : cache[w].net = "idle"}
  /\ prev' = IF current.data # NoData THEN view ELSE prev
  /\ UNCHANGED <<flags, pendingDelete, create, calls, asked>>

\* The timer of the search box may fire after a dialog was opened. The effect
\* that returns to page 1 runs after a render with the old page, whose slice
\* has been asked for by then.
Search(t) ==
  /\ Body /\ t # view.term
  /\ Go({[view EXCEPT !.term = t], [view EXCEPT !.term = t, !.page = 1]},
        [view EXCEPT !.term = t, !.page = 1])

\* Previous and Next, shown when the total makes more than one page.
SetPage(p) ==
  /\ Body /\ NoDialog /\ totalPages > 1
  /\ p = view.page - 1 \/ (p = view.page + 1 /\ p <= totalPages)
  /\ Go({[view EXCEPT !.page = p]}, [view EXCEPT !.page = p])

\* The page stays the same under a new order.
SetSort(o) ==
  /\ Body /\ NoDialog /\ o # view.order
  /\ Go({[view EXCEPT !.order = o]}, [view EXCEPT !.order = o])

-----------------------------------------------------------------------------
Send(op, k) ==
  /\ asked < MaxRequests /\ asked' = asked + 1
  /\ calls' = calls \cup {Sent(Free(calls), [op |-> op, key |-> k])}

DeleteIntent(k) ==
  /\ Body /\ NoDialog /\ k \in data.flags
  /\ pendingDelete' = k
  /\ UNCHANGED <<flags, cache, view, prev, create, calls, behind, asked, moves>>

CancelDelete ==
  /\ Body /\ pendingDelete # NoData
  /\ pendingDelete' = NoData
  /\ UNCHANGED <<flags, cache, view, prev, create, calls, behind, asked, moves>>

ConfirmDelete ==
  /\ Body /\ pendingDelete # NoData /\ ~isPending(calls, "delete")
  /\ Send("delete", pendingDelete)
  /\ UNCHANGED <<flags, cache, view, prev, pendingDelete, create, behind, moves>>

OpenCreate ==
  /\ Body /\ NoDialog
  /\ create' = FreshForm
  /\ UNCHANGED <<flags, cache, view, prev, pendingDelete, calls, behind, asked, moves>>

\* The key is typed and sent in one step, and is then typed over only to empty
\* the field; WebFlagList has typing as a step of its own.
SubmitCreate(k) ==
  /\ Body /\ create.at = "form" /\ CanSubmit(Typed(create, k), calls)
  /\ create' = Typed(create, k)
  /\ Send("create", k)
  /\ UNCHANGED <<flags, cache, view, prev, pendingDelete, behind, moves>>

ClearKey ==
  /\ Body /\ create.at = "form" /\ create.key # NoData
  /\ create' = Typed(create, NoData)
  /\ UNCHANGED <<flags, cache, view, prev, pendingDelete, calls, behind, asked, moves>>

CancelCreate ==
  /\ Body /\ create.at = "form"
  /\ create' = Closed
  /\ calls' = {IF c.arg.op = "create" THEN [c EXCEPT !.from = "gone"] ELSE c : c \in calls}
  /\ UNCHANGED <<flags, cache, view, prev, pendingDelete, behind, asked, moves>>

\* What a change leaves behind: every slice that is on its way, unless it is
\* the one on display and can be asked for again.
Late == {v \in Views : cache[v].net # "idle"}
\* Mutant: a request in flight is waited for instead of dropped.
ReaskGently ==
  /\ cache' = [cache EXCEPT ![view] = Fetch(@)]
  /\ behind' = (behind \cup Late) \ (IF FirstLoad(current) THEN {} ELSE {view})

Reask ==
  /\ cache' = [cache EXCEPT ![view] = Invalidate(@)]
  /\ behind' = (behind \cup Late) \ (IF FirstLoad(current) THEN {} ELSE {view})

onCreated ==
  /\ Body /\ create.at = "created"
  /\ create' = Closed
  /\ Reask
  /\ UNCHANGED <<flags, view, prev, pendingDelete, calls, asked, moves>>

-----------------------------------------------------------------------------
ServeCall(c) ==
  /\ c.st = "sent"
  /\ \E ok \in {(c.arg.op = "create") # (c.arg.key \in flags), FALSE} :
       /\ calls' = Served(calls, c, ok)
       /\ flags' = CASE ~ok -> flags
                     [] ok /\ c.arg.op = "delete" -> flags \ {c.arg.key}
                     [] OTHER -> flags \cup {c.arg.key}
  /\ UNCHANGED <<cache, view, prev, pendingDelete, create, behind, asked, moves>>

ServeSlice(v) ==
  /\ cache[v].net = "sent"
  /\ \E d \in {Slice(v), NoData} : cache' = [cache EXCEPT ![v] = Answer(@, d)]
  /\ UNCHANGED <<flags, view, prev, pendingDelete, create, calls, behind, asked, moves>>

-----------------------------------------------------------------------------
\* Only the view on display is asked for again. The dialog closes, whichever
\* flag it is open on by now.
DeleteReply(c) ==
  /\ Succeeded(c) /\ c.arg.op = "delete"
  /\ calls' = calls \ {c}
  /\ Reask
  /\ pendingDelete' = NoData
  /\ UNCHANGED <<flags, view, prev, create, asked, moves>>

\* The list hears of the flag when the panel is closed, if there is one.
CreateReply(c) ==
  /\ Succeeded(c) /\ c.arg.op = "create"
  /\ calls' = calls \ {c}
  /\ create' = IF c.from = "here" THEN Created(create) ELSE create
  /\ behind' = behind \cup Late \cup {view}
  /\ UNCHANGED <<flags, cache, view, prev, pendingDelete, asked, moves>>

ErrorReply(c) ==
  /\ Failing(c)
  /\ calls' = calls \ {c}
  /\ behind' = IF Succeeded(c) THEN behind \cup Late \cup {view} ELSE behind
  /\ UNCHANGED <<flags, cache, view, prev, pendingDelete, create, asked, moves>>

\* If the view on display failed, the error block unmounts the dialogs.
SliceArrives(v) ==
  /\ cache[v].net = "answered"
  /\ cache' = [cache EXCEPT ![v] = Arrive(@)]
  /\ UNCHANGED <<flags, view, prev, pendingDelete, behind, asked, moves>>
  /\ create' = IF Body' THEN create ELSE Remounted(create)
  /\ calls' = {IF c.arg.op = "create" /\ ~Body' THEN [c EXCEPT !.from = "gone"] ELSE c :
               c \in calls}

\* The window gets the focus, or Retry is pressed in the error block.
Focus ==
  /\ current.net = "idle"
  /\ cache' = [cache EXCEPT ![view] = Fetch(@)]
  /\ behind' = behind \ {view}
  /\ UNCHANGED <<flags, view, prev, pendingDelete, create, calls, asked, moves>>

PflNext ==
  \/ CancelDelete \/ ConfirmDelete \/ OpenCreate \/ ClearKey \/ CancelCreate \/ onCreated
  \/ \E t \in Terms : Search(t)
  \/ \E p \in Pages : SetPage(p)
  \/ \E o \in Orders : SetSort(o)
  \/ \E k \in Keys : DeleteIntent(k) \/ SubmitCreate(k)
  \/ \E c \in calls : ServeCall(c) \/ DeleteReply(c) \/ CreateReply(c) \/ ErrorReply(c)
  \/ \E v \in Views : ServeSlice(v) \/ SliceArrives(v)
  \/ Focus

Spec == Init /\ [][PflNext]_pflVars
-----------------------------------------------------------------------------
\* At rest the page shows the slice of the stored flags that its page, search
\* and order stand for, with the right total: searches that overtake each
\* other, the request for a page the search no longer has, cached pages from
\* before a change and placeholders leave nothing behind. The exceptions are
\* the views a change could not ask for again: on their first load or on
\* display no more while their answer was under way, or after a success that
\* was lost or came with the create form gone or its key field empty
\* (flags.tsx 81-109, 131-134).
SliceAtRest ==
  /\ Body /\ current.net = "idle" /\ calls = {} /\ view \notin behind
  => data = Slice(view)
=============================================================================
