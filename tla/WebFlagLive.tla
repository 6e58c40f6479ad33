---------------------------- MODULE WebFlagLive ----------------------------
(***************************************************************************)
(* The toggles of the flag detail page: one row per environment, and the    *)
(* stream of the page's environment that tells the tab to ask again when    *)
(* somebody changes a flag there (useFlagSSE).                              *)
(*                                                                          *)
(* The server publishes a change before it commits it (FlagToggle), so an   *)
(* event can reach the tab, and make it ask, before there is anything new   *)
(* to read. The stream is opened once per visit and not reopened.           *)
(***************************************************************************)
EXTENDS ReactQuery

CONSTANTS Envs, PageEnv, MaxToggles

VARIABLES
  enabled,   \* the server: the state of the flag in each environment
  tx,        \* a change that is published and not committed, or NoData
  row,       \* query ['flag-env-state', slug, env, key], one per environment
  body,      \* the page: "away", "hidden" (its flag loads or failed) or "shown"
  stream,    \* the page's stream: "none", "connecting", "open" or "dead"
  events,    \* events on their way to the tab
  calls,     \* the tab's toggles in flight
  doubt,     \* environments whose row may be out of date
  toggles    \* changes made so far, by the tab and by others

liveVars == <<enabled, tx, row, body, stream, events, calls, doubt, toggles>>

\* Whose change it is: the request of this tab with that number, or 0.
Change == [env : Envs, to : BOOLEAN, by : Nat]

TypeOK ==
  /\ enabled \in [Envs -> BOOLEAN]
  /\ tx \in Change \cup {NoData}
  /\ row \in [Envs -> Query(BOOLEAN)]
  /\ body \in {"away", "hidden", "shown"}
  /\ stream \in {"none", "connecting", "open", "dead"}
  /\ events \in 0 .. MaxToggles
  /\ calls \subseteq Request([op : {"toggle"}, env : Envs, to : BOOLEAN])
  /\ doubt \subseteq Envs
  /\ toggles \in 0 .. MaxToggles

Init ==
  /\ enabled = [e \in Envs |-> FALSE]
  /\ tx = NoData
  /\ row = [e \in Envs |-> NoQuery]
  /\ body = "hidden" /\ stream = "connecting" /\ events = 0
  /\ calls = {} /\ doubt = {} /\ toggles = 0

-----------------------------------------------------------------------------
RowShown(e) == body = "shown" /\ Shown(row[e])

rowPending(e) == \E c \in calls : c.from = "here" /\ c.arg.env = e

\* A row's button sends the opposite of what it shows.
Toggle(e) ==
  /\ RowShown(e) /\ ~rowPending(e)
  /\ toggles < MaxToggles /\ toggles' = toggles + 1
  /\ calls' = calls \cup {Sent(Free(calls), [op |-> "toggle", env |-> e, to |-> ~row[e].data])}
  /\ UNCHANGED <<enabled, tx, row, body, stream, events, doubt>>

\* The flag is loaded and its page mounts the rows, which ask for their state.
ShowBody ==
  /\ body = "hidden" /\ body' = "shown"
  /\ row' = [e \in Envs |-> Fetch(row[e])]
  /\ UNCHANGED <<enabled, tx, stream, events, calls, doubt, toggles>>

\* Asking for the flag again fails: the error message replaces the rows.
HideBody ==
  /\ body = "shown" /\ body' = "hidden"
  /\ calls' = Unmounted(calls)
  /\ UNCHANGED <<enabled, tx, row, stream, events, doubt, toggles>>

\* Leaving the page aborts its stream, and what is on its way is not read.
Leave ==
  /\ body # "away" /\ body' = "away"
  /\ stream' = "none" /\ events' = 0
  /\ doubt' = IF events = 0 THEN doubt ELSE doubt \cup {PageEnv}
  /\ calls' = Unmounted(calls)
  /\ UNCHANGED <<enabled, tx, row, toggles>>

Enter ==
  /\ body = "away" /\ body' = "hidden"
  /\ stream' = "connecting"
  /\ UNCHANGED <<enabled, tx, row, events, calls, doubt, toggles>>

-----------------------------------------------------------------------------
(* connect(): no token, no answer or a bad one, and the hook gives up; a    *)
(* stream that ends is not reopened.                                        *)
Connect(ok) ==
  /\ stream = "connecting"
  /\ stream' = IF ok THEN "open" ELSE "dead"
  /\ UNCHANGED <<enabled, tx, row, body, events, calls, doubt, toggles>>

StreamEnds ==
  /\ stream = "open" /\ stream' = "dead"
  /\ events' = 0
  /\ doubt' = IF events = 0 THEN doubt ELSE doubt \cup {PageEnv}
  /\ UNCHANGED <<enabled, tx, row, body, calls, toggles>>

\* A flag.state_changed event: the rows on display are asked for again. Rows
\* that are loading for the first time are not, and a change that is not
\* committed yet cannot be read.
HandleEvent ==
  /\ stream = "open" /\ events > 0
  /\ events' = events - 1
  /\ row' = [e \in Envs |-> IF body = "shown" THEN Invalidate(row[e]) ELSE row[e]]
  /\ doubt' = IF body = "shown" /\ ~FirstLoad(row[PageEnv]) /\ tx = NoData THEN doubt
              ELSE doubt \cup {PageEnv}
  /\ UNCHANGED <<enabled, tx, body, stream, calls, toggles>>

-----------------------------------------------------------------------------
(* The server. A change is published, then committed; the broker drops an   *)
(* event whose subscriber is slow, and tells nobody of other environments.  *)
(* A change of this tab does not depend on its event: the reply tells.      *)
Publish(ch) ==
  /\ tx = NoData
  /\ tx' = ch
  /\ \/ ch.env = PageEnv /\ stream = "open" /\ events' = events + 1 /\ UNCHANGED doubt
     \/ /\ events' = events
        /\ doubt' = IF ch.by = 0 THEN doubt \cup {ch.env} ELSE doubt
  /\ UNCHANGED <<enabled, row, body, stream>>

ServeToggle(c) ==
  /\ c.st = "sent"
  /\ Publish([env |-> c.arg.env, to |-> c.arg.to, by |-> c.n])
  /\ UNCHANGED <<calls, toggles>>

OtherToggle(e) ==
  /\ toggles < MaxToggles /\ toggles' = toggles + 1
  /\ Publish([env |-> e, to |-> ~enabled[e], by |-> 0])
  /\ UNCHANGED calls

\* The commit, or its failure: then the event announced nothing.
EndTx(ok) ==
  /\ tx # NoData
  /\ enabled' = IF ok THEN [enabled EXCEPT ![tx.env] = tx.to] ELSE enabled
  /\ calls' = {IF c.n = tx.by THEN [c EXCEPT !.st = IF ok THEN "applied" ELSE "refused"]
               ELSE c : c \in calls}
  /\ tx' = NoData
  /\ UNCHANGED <<row, body, stream, events, doubt, toggles>>

\* A read sees every commit so far, which settles what was in doubt before,
\* unless a change is published and still to be committed.
ServeRow(e) ==
  /\ row[e].net = "sent"
  /\ \/ /\ row' = [row EXCEPT ![e] = Answer(@, enabled[e])]
        /\ doubt' = IF tx = NoData THEN doubt \ {e} ELSE doubt
     \/ row' = [row EXCEPT ![e] = Answer(@, NoData)] /\ UNCHANGED doubt
  /\ UNCHANGED <<enabled, tx, body, stream, events, calls, toggles>>

-----------------------------------------------------------------------------
\* Mutant: the event of the stream is relied on to ask again.
ToggleReplyQuiet(c) ==
  /\ Succeeded(c)
  /\ calls' = calls \ {c}
  /\ UNCHANGED <<enabled, tx, row, body, stream, events, doubt, toggles>>

\* A success asks for the row again.
ToggleReply(c) ==
  /\ Succeeded(c)
  /\ calls' = calls \ {c}
  /\ LET e == c.arg.env IN
     /\ row' = IF body = "shown" THEN [row EXCEPT ![e] = Invalidate(@)] ELSE row
     /\ doubt' = IF body = "shown" /\ ~FirstLoad(row[e]) THEN doubt
                 ELSE doubt \cup {e}
  /\ UNCHANGED <<enabled, tx, body, stream, events, toggles>>

\* A refusal or a lost reply says nothing and asks for nothing.
ErrorReply(c) ==
  /\ Failing(c)
  /\ calls' = calls \ {c}
  /\ doubt' = IF Succeeded(c) THEN doubt \cup {c.arg.env} ELSE doubt
  /\ UNCHANGED <<enabled, tx, row, body, stream, events, toggles>>

RowArrives(e) ==
  /\ row[e].net = "answered"
  /\ row' = [row EXCEPT ![e] = Arrive(@)]
  /\ UNCHANGED <<enabled, tx, body, stream, events, calls, doubt, toggles>>

\* The window gets the focus.
Focus ==
  /\ body = "shown" /\ \E e \in Envs : row[e].net = "idle"
  /\ row' = [e \in Envs |-> Fetch(row[e])]
  /\ UNCHANGED <<enabled, tx, body, stream, events, calls, doubt, toggles>>

LiveNext ==
  \/ ShowBody \/ HideBody \/ Leave \/ Enter \/ StreamEnds \/ HandleEvent \/ Focus
  \/ \E ok \in BOOLEAN : Connect(ok) \/ EndTx(ok)
  \/ \E e \in Envs : Toggle(e) \/ OtherToggle(e) \/ ServeRow(e) \/ RowArrives(e)
  \/ \E c \in calls : ServeToggle(c) \/ ToggleReply(c) \/ ErrorReply(c)

Spec == Init /\ [][LiveNext]_liveVars
-----------------------------------------------------------------------------
\* Nothing about the row of environment e is on its way.
Settled(e) ==
  RowShown(e) /\ row[e].net = "idle" /\ calls = {} /\ tx = NoData /\ events = 0

\* At rest every row shows the stored state, with changes made here and by
\* others, refetches that overtake each other, lost requests and visits in
\* between; unless since the row was read an event or a reply was lost, or an
\* event came before its commit or during the first load
\* (flags.$key.tsx 457-473, useFlagSSE.ts 79-88).
RowsAtRest ==
  \A e \in Envs : Settled(e) /\ e \notin doubt => row[e].data = enabled[e]
=============================================================================
