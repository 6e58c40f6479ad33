---------------------------- MODULE WebSegments ----------------------------
(***************************************************************************)
(* The segments page of the web UI in one browser tab: the list, and the    *)
(* dialogs that create, rename and delete a segment. The dialog that edits  *)
(* the members of a segment has a module of its own, WebSegmentMembers.     *)
(*                                                                          *)
(* Creation and deletion ask for the list again; a rename writes the        *)
(* server's answer into the cached list instead.                            *)
(***************************************************************************)
EXTENDS ReactQuery

CONSTANTS Slugs, Names, MaxRequests

VARIABLES
  segs,      \* the server: the segments there are, with id and name
  list,      \* query ['segments', slug]
  open,      \* the page is mounted
  dialog,    \* the dialog on display, its segment and the name typed in it
  calls,     \* the requests in flight
  doubt,     \* a reply failed, was lost, or came when it could not take effect
  requests   \* mutations sent so far

segVars == <<segs, list, open, dialog, calls, doubt, requests>>

Ids == 0 .. MaxRequests
Row == [id : Ids, name : Names]
Tables == UNION {[S -> Row] : S \in SUBSET Slugs}
Ops == {"create", "edit", "delete"}
Asked == [op : Ops, seg : Slugs, name : Names \cup {NoData}, id : Ids]
NoDialog == [kind |-> "none", seg |-> NoData, name |-> NoData]

TypeOK ==
  /\ segs \in Tables
  /\ list \in Query(Tables)
  /\ open \in BOOLEAN /\ doubt \in BOOLEAN
  /\ dialog \in [kind : Ops \cup {"none"},
                 seg : Slugs \cup {NoData}, name : Names \cup {NoData}]
  /\ calls \subseteq Request(Asked)
  /\ requests \in 0 .. MaxRequests

Init ==
  /\ segs \in UNION {[S -> [id : {0}, name : Names]] : S \in SUBSET Slugs}
  /\ list = Start(NoQuery)
  /\ open = TRUE
  /\ dialog = NoDialog
  /\ calls = {}
  /\ doubt = FALSE
  /\ requests = 0

-----------------------------------------------------------------------------
(* The page body is rendered: neither loading nor the error block. The      *)
(* error block unmounts the dialogs, but which one is open is remembered.   *)
Visible == open /\ Shown(list)

At(kind) == Visible /\ dialog.kind = kind

OpenCreate ==
  /\ Visible /\ dialog = NoDialog
  /\ dialog' = [NoDialog EXCEPT !.kind = "create"]
  /\ UNCHANGED <<segs, list, open, calls, doubt, requests>>

\* The effect on [segment] fills the draft with the name in the list.
OpenEdit(s) ==
  /\ Visible /\ dialog = NoDialog /\ s \in DOMAIN list.data
  /\ dialog' = [kind |-> "edit", seg |-> s, name |-> list.data[s].name]
  /\ UNCHANGED <<segs, list, open, calls, doubt, requests>>

OpenDelete(s) ==
  /\ Visible /\ dialog = NoDialog /\ s \in DOMAIN list.data
  /\ dialog' = [kind |-> "delete", seg |-> s, name |-> NoData]
  /\ UNCHANGED <<segs, list, open, calls, doubt, requests>>

\* Escape or a click outside closes a dialog even while its request is
\* pending; the Cancel button, disabled then, does the same otherwise.
CloseDialog ==
  /\ Visible /\ dialog # NoDialog
  /\ dialog' = NoDialog
  /\ UNCHANGED <<segs, list, open, calls, doubt, requests>>

\* The button of the dialog, disabled while its mutation is pending.
Submit(op, s, n) ==
  /\ At(op) /\ ~isPending(calls, op)
  /\ requests < MaxRequests /\ requests' = requests + 1
  /\ calls' = calls \cup {Sent(Free(calls), [op |-> op, seg |-> s, name |-> n, id |-> requests'])}
  /\ UNCHANGED <<segs, list, open, doubt>>

\* The name and the slug were typed and passed the checks of the form.
SubmitCreate(s, n) == Submit("create", s, n) /\ UNCHANGED dialog

SubmitEdit(n) ==
  /\ Submit("edit", dialog.seg, n)
  /\ dialog' = [dialog EXCEPT !.name = n]

ConfirmDelete == Submit("delete", dialog.seg, NoData) /\ UNCHANGED dialog

-----------------------------------------------------------------------------
(* The server answers; it may also fail and change nothing.                 *)
Serve(c, ok, table) ==
  /\ calls' = Served(calls, c, ok)
  /\ segs' = IF ok THEN table ELSE segs
  /\ UNCHANGED <<list, open, dialog, doubt, requests>>

ServeCreate(c) ==
  LET a == c.arg IN
  /\ c.st = "sent" /\ a.op = "create"
  /\ \E ok \in {a.seg \notin DOMAIN segs, FALSE} :
       Serve(c, ok, [x \in DOMAIN segs \cup {a.seg} |->
                       IF x = a.seg THEN [id |-> a.id, name |-> a.name] ELSE segs[x]])

\* The reply carries the segment, with its id.
ServeUpdate(c) ==
  /\ c.st = "sent" /\ c.arg.op = "edit"
  /\ IF c.arg.seg \in DOMAIN segs
     THEN \E ok \in BOOLEAN :
            /\ calls' = Served(calls \ {c}, [c EXCEPT !.arg.id = segs[c.arg.seg].id], ok)
            /\ segs' = IF ok THEN [segs EXCEPT ![c.arg.seg].name = c.arg.name] ELSE segs
            /\ UNCHANGED <<list, open, dialog, doubt, requests>>
     ELSE Serve(c, FALSE, segs)

ServeDelete(c) ==
  /\ c.st = "sent" /\ c.arg.op = "delete"
  /\ \E ok \in {c.arg.seg \in DOMAIN segs, FALSE} :
       Serve(c, ok, [x \in DOMAIN segs \ {c.arg.seg} |-> segs[x]])

ServeList ==
  /\ list.net = "sent"
  /\ \E v \in {segs, NoData} : list' = Answer(list, v)
  /\ UNCHANGED <<segs, open, dialog, calls, doubt, requests>>

-----------------------------------------------------------------------------
(* Replies reach the tab. A success closes the dialog of its kind,          *)
(* whichever segment that has been opened on since.                         *)
Settle(c) ==
  /\ Succeeded(c)
  /\ calls' = calls \ {c}
  /\ dialog' = IF c.from # "gone" /\ dialog.kind = c.arg.op THEN NoDialog ELSE dialog
  /\ UNCHANGED <<segs, open, requests>>

\* Mutant: an answer in flight is taken for one that knows of the change.
CreateOrDeleteReplyRefetch(c) ==
  /\ c.arg.op # "edit" /\ Settle(c)
  /\ list' = IF open THEN Fetch(list) ELSE list
  /\ doubt' = (doubt \/ ~open \/ FirstLoad(list))

\* Invalidating the list asks for it again if the page is there.
CreateOrDeleteReply(c) ==
  /\ c.arg.op # "edit" /\ Settle(c)
  /\ list' = IF open THEN Invalidate(list) ELSE list
  /\ doubt' = (doubt \/ ~open \/ FirstLoad(list))

\* setQueryData: the row is replaced, an error is cleared, and a request
\* that is in flight is left alone.
UpdateReply(c) ==
  /\ c.arg.op = "edit" /\ Settle(c)
  /\ list' = IF list.data = NoData THEN list
             ELSE [list EXCEPT !.err = FALSE,
                     !.data = [x \in DOMAIN @ |->
                        IF @[x].id = c.arg.id /\ x = c.arg.seg
                        THEN [@[x] EXCEPT !.name = c.arg.name] ELSE @[x]]]
  /\ doubt' = (doubt \/ ~Visible \/ list.net # "idle" \/ c.from # "here")

\* An error reply, or a success that the network lost: the dialog stays
\* open with a message, and nothing is asked again.
ErrorReply(c) ==
  /\ Failing(c)
  /\ calls' = calls \ {c}
  /\ doubt' = (doubt \/ Succeeded(c))
  /\ UNCHANGED <<segs, list, open, dialog, requests>>

\* The error block unmounts the dialogs, two of which own their mutation.
ListArrives ==
  /\ list.net = "answered"
  /\ list' = Arrive(list)
  /\ calls' = {IF ~Shown(list') /\ c.arg.op # "delete" /\ c.from = "here"
               THEN [c EXCEPT !.from = "page"] ELSE c : c \in calls}
  /\ UNCHANGED <<segs, open, dialog, doubt, requests>>

\* The window gets the focus, or Retry is pressed in the error block.
Focus ==
  /\ open /\ list.net = "idle"
  /\ list' = Fetch(list)
  /\ UNCHANGED <<segs, open, dialog, calls, doubt, requests>>

\* Leaving drops the page's state, not the cache nor what is in flight.
Leave ==
  /\ open /\ open' = FALSE
  /\ dialog' = NoDialog
  /\ calls' = Unmounted(calls)
  /\ UNCHANGED <<segs, list, doubt, requests>>

Enter ==
  /\ ~open /\ open' = TRUE
  /\ list' = Fetch(list)
  /\ UNCHANGED <<segs, dialog, calls, doubt, requests>>

SegNext ==
  \/ OpenCreate \/ CloseDialog \/ ConfirmDelete
  \/ \E s \in Slugs : OpenEdit(s) \/ OpenDelete(s)
  \/ \E s \in Slugs, n \in Names : SubmitCreate(s, n)
  \/ \E n \in Names : SubmitEdit(n)
  \/ \E c \in calls : \/ ServeCreate(c) \/ ServeUpdate(c) \/ ServeDelete(c)
                      \/ CreateOrDeleteReply(c) \/ UpdateReply(c) \/ ErrorReply(c)
  \/ ServeList \/ ListArrives \/ Focus \/ Leave \/ Enter

Spec == Init /\ [][SegNext]_segVars
-----------------------------------------------------------------------------
\* At rest the page lists exactly the segments there are, by their names,
\* provided no success was lost or answered with the page away, and no rename
\* was answered on a later visit or while the list was being fetched or could
\* not be: then an older answer may survive (segments.tsx 53-57, 105-127).
ListAtRest ==
  Visible /\ ~doubt /\ list.net = "idle" /\ calls = {} => list.data = segs
=============================================================================
