------------------------- MODULE WebSegmentMembers -------------------------
(***************************************************************************)
(* The dialog of the segments page that edits the members of a segment.     *)
(*                                                                          *)
(* It stays mounted while the page body is shown, so its bulk editor        *)
(* survives its being closed and opened on another segment. It edits a copy *)
(* of the member list, which an effect overwrites whenever the cached list  *)
(* changes, and every edit replaces the whole list on the server.           *)
(***************************************************************************)
EXTENDS ReactQuery

CONSTANTS Segments, UserKeys, MaxSaves

VARIABLES
  stored,     \* the server: the members of each segment
  fetched,    \* query ['segments', slug, segment, 'members'], one per segment
  body,       \* the page body is rendered (its list neither loads nor failed)
  managing,   \* the segment the dialog is open on, or NoData
  members,    \* the dialog's own copy of the list
  bulk,       \* its bulk editor: shown or not, and the text
  saves,      \* the requests in flight
  unsure,     \* a save failed, overlapped another one, or was answered while
              \* the dialog was not on its segment
  sent        \* saves sent so far

memVars == <<stored, fetched, body, managing, members, bulk, saves, unsure, sent>>

NoText == [open |-> FALSE, text |-> {}]
SaveArg == [seg : Segments, keys : SUBSET UserKeys, key : Segments \cup {NoData}]

TypeOK ==
  /\ stored \in [Segments -> SUBSET UserKeys]
  /\ fetched \in [Segments -> Query(SUBSET UserKeys)]
  /\ body \in BOOLEAN /\ unsure \in BOOLEAN
  /\ managing \in Segments \cup {NoData}
  /\ members \in SUBSET UserKeys
  /\ bulk \in [open : BOOLEAN, text : SUBSET UserKeys]
  /\ saves \subseteq Request(SaveArg)
  /\ sent \in 0 .. MaxSaves

Init ==
  /\ stored = [s \in Segments |-> {}]
  /\ fetched = [s \in Segments |-> NoQuery]
  /\ body = TRUE
  /\ managing = NoData
  /\ members = {}
  /\ bulk = NoText
  /\ saves = {}
  /\ unsure = FALSE
  /\ sent = 0

-----------------------------------------------------------------------------
\* enabled: the dialog is open on s.
Enabled(s) == body /\ managing = s

\* The request that the dialog's mutation follows, if it is pending.
Latest(c) == c.from = "here" /\ c.n = sent
Saving == \E c \in saves : Latest(c)

\* While a request is pending, every render gives it the callbacks of the
\* segment the dialog is open on now, so those are what its reply will run.
Rekey(s) == {IF Latest(c) THEN [c EXCEPT !.arg.key = s] ELSE c : c \in saves}

\* The effect on [fetchedMembers].
Loaded(s) == IF fetched[s].data = NoData THEN {} ELSE fetched[s].data

OpenMembers(s) ==
  /\ body /\ managing = NoData
  /\ managing' = s
  /\ fetched' = [fetched EXCEPT ![s] = Fetch(@)]
  /\ members' = Loaded(s)
  /\ saves' = Rekey(s)
  /\ UNCHANGED <<stored, body, bulk, unsure, sent>>

\* The member list is written anew before it is shown again, so it is
\* dropped here; the bulk editor really stays as it was.
CloseMembers ==
  /\ body /\ managing # NoData
  /\ managing' = NoData
  /\ members' = {}
  /\ saves' = Rekey(NoData)
  /\ UNCHANGED <<stored, fetched, body, bulk, unsure, sent>>

MembersShown == body /\ managing # NoData /\ Shown(fetched[managing])

\* saveMutation.mutate(next): a new request, whatever the earlier one does.
Save(next) ==
  /\ sent < MaxSaves /\ sent' = sent + 1
  /\ members' = next
  /\ unsure' = (unsure \/ saves # {})
  /\ saves' = saves \cup {Sent(sent', [seg |-> managing, keys |-> next, key |-> managing])}
  /\ UNCHANGED <<stored, fetched, body, managing>>

\* The Add button is disabled while a request is pending; Enter is not.
AddMember(k) ==
  /\ MembersShown /\ k \notin members
  /\ Save(members \cup {k})
  /\ UNCHANGED bulk

RemoveMember(k) ==
  /\ MembersShown /\ k \in members /\ ~Saving
  /\ Save(members \ {k})
  /\ UNCHANGED bulk

ToggleBulk ==
  /\ MembersShown
  /\ bulk' = IF bulk.open THEN NoText ELSE [open |-> TRUE, text |-> members]
  /\ UNCHANGED <<stored, fetched, body, managing, members, saves, unsure, sent>>

TypeBulk(t) ==
  /\ MembersShown /\ bulk.open /\ t # bulk.text
  /\ bulk' = [bulk EXCEPT !.text = t]
  /\ UNCHANGED <<stored, fetched, body, managing, members, saves, unsure, sent>>

ApplyBulk ==
  /\ MembersShown /\ bulk.open /\ ~Saving
  /\ Save(bulk.text)
  /\ bulk' = NoText

-----------------------------------------------------------------------------
ServeSave(c) ==
  /\ c.st = "sent"
  /\ \E ok \in BOOLEAN :
       /\ saves' = Served(saves, c, ok)
       /\ stored' = IF ok THEN [stored EXCEPT ![c.arg.seg] = c.arg.keys] ELSE stored
  /\ UNCHANGED <<fetched, body, managing, members, bulk, unsure, sent>>

ServeMembers(s) ==
  /\ fetched[s].net = "sent"
  /\ \E v \in {stored[s], NoData} : fetched' = [fetched EXCEPT ![s] = Answer(@, v)]
  /\ UNCHANGED <<stored, body, managing, members, bulk, saves, unsure, sent>>

\* Mutant: a save asks for nothing, the copy being right already.
SaveReplyQuiet(c) ==
  /\ Succeeded(c)
  /\ unsure' = (unsure \/ ~Enabled(c.arg.seg) \/ c.arg.key # c.arg.seg)
  /\ saves' = saves \ {c}
  /\ UNCHANGED <<stored, fetched, body, managing, members, bulk, sent>>

SaveReply(c) ==
  /\ Succeeded(c)
  /\ LET key == c.arg.key IN
     /\ fetched' = IF key # NoData /\ Enabled(key)
                   THEN [fetched EXCEPT ![key] = Invalidate(@)] ELSE fetched
     /\ unsure' = (unsure \/ ~Enabled(c.arg.seg) \/ key # c.arg.seg)
  /\ saves' = saves \ {c}
  /\ UNCHANGED <<stored, body, managing, members, bulk, sent>>

\* An error reply, or a success the network lost: a message is shown, and
\* the copy keeps the edit.
SaveFails(c) ==
  /\ Failing(c)
  /\ saves' = saves \ {c}
  /\ unsure' = TRUE
  /\ UNCHANGED <<stored, fetched, body, managing, members, bulk, sent>>

MembersArrive(s) ==
  /\ fetched[s].net = "answered"
  /\ fetched' = [fetched EXCEPT ![s] = Arrive(@)]
  /\ members' = IF Enabled(s) /\ fetched'[s].data # fetched[s].data
                THEN fetched'[s].data ELSE members
  /\ UNCHANGED <<stored, body, managing, bulk, saves, unsure, sent>>

Focus ==
  /\ body /\ managing # NoData /\ fetched[managing].net = "idle"
  /\ fetched' = [fetched EXCEPT ![managing] = Fetch(@)]
  /\ UNCHANGED <<stored, body, managing, members, bulk, saves, unsure, sent>>

\* The page's list fails and is fetched again: the error block unmounts the
\* dialog, which comes back on the segment the page remembers.
BodyFails ==
  /\ body /\ body' = FALSE
  /\ members' = {} /\ bulk' = NoText
  /\ saves' = Unmounted(saves)
  /\ UNCHANGED <<stored, fetched, managing, unsure, sent>>

BodyRecovers ==
  /\ ~body /\ body' = TRUE
  /\ IF managing = NoData THEN UNCHANGED <<fetched, members>>
     ELSE /\ fetched' = [fetched EXCEPT ![managing] = Fetch(@)]
          /\ members' = Loaded(managing)
  /\ UNCHANGED <<stored, managing, bulk, saves, unsure, sent>>

MemNext ==
  \/ \E s \in Segments : OpenMembers(s) \/ ServeMembers(s) \/ MembersArrive(s)
  \/ CloseMembers \/ ToggleBulk \/ ApplyBulk \/ Focus \/ BodyFails \/ BodyRecovers
  \/ \E k \in UserKeys : AddMember(k) \/ RemoveMember(k)
  \/ \E t \in SUBSET UserKeys : TypeBulk(t)
  \/ \E c \in saves : ServeSave(c) \/ SaveReply(c) \/ SaveFails(c)

Spec == Init /\ [][MemNext]_memVars
-----------------------------------------------------------------------------
\* At rest the dialog shows the members that are stored, whatever mixture of
\* single edits, bulk edits, background refreshes and reopenings came before,
\* if no save failed or overlapped another one (Enter sends one while another
\* is pending) and each was answered on its segment (segments.tsx 507-571).
MembersAtRest ==
  /\ MembersShown /\ ~unsure /\ fetched[managing].net = "idle"
  /\ saves = {}
  => members = stored[managing]
=============================================================================
