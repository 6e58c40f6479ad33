----------------------------- MODULE WebApiKeys -----------------------------
(***************************************************************************)
(* The API keys page of the web UI: the live keys of the environment        *)
(* selected, and the controls that create a key (its plaintext is shown     *)
(* once), revoke one, or change its capability tier.                        *)
(*                                                                          *)
(* The create dialog stays mounted whether it is open or not, and follows   *)
(* the environment selected. The list is asked for again only when the      *)
(* plaintext dialog is closed, not when the key is created.                 *)
(***************************************************************************)
EXTENDS ReactQuery

CONSTANTS Envs, KeyIds, Tiers, FirstEnv, MaxRequests

VARIABLES
  issued,     \* the server: the keys created so far
  keysQuery,  \* query ['api-keys', slug, env], one per environment
  envSlug,    \* the environment selected, NoData until the list is loaded
  showCreate, pendingRevoke,    \* the dialogs
  phase,      \* the create dialog: the key it shows, with its environment, or NoData
  calls,      \* the requests in flight
  owed,       \* a key was created and its dialog has not been closed since
  missed,     \* a reply was lost, or came on another environment or a first load
  asked       \* mutations sent so far

apiVars == <<issued, keysQuery, envSlug, showCreate, pendingRevoke, phase,
             calls, owed, missed, asked>>

KeyRow == [env : Envs, tier : Tiers, revoked : BOOLEAN]
NewKey(e, t) == [env |-> e, tier |-> t, revoked |-> FALSE]
Lists == UNION {[K -> Tiers] : K \in SUBSET KeyIds}

\* What the list request returns for e, revoked keys filtered out.
Live == {k \in DOMAIN issued : ~issued[k].revoked}
ListOf(e) == [k \in {x \in Live : issued[x].env = e} |-> issued[k].tier]

TypeOK ==
  /\ issued \in UNION {[K -> KeyRow] : K \in SUBSET KeyIds}
  /\ keysQuery \in [Envs -> Query(Lists)]
  /\ envSlug \in Envs \cup {NoData}
  /\ asked \in 0 .. MaxRequests
  /\ showCreate \in BOOLEAN /\ missed \in BOOLEAN /\ owed \in BOOLEAN
  /\ pendingRevoke \in KeyIds \cup {NoData}
  /\ phase \in [key : KeyIds, env : Envs] \cup {NoData}
  /\ calls \subseteq Request([op : {"create", "revoke", "tier"}, key : KeyIds,
                              env : Envs, tier : Tiers \cup {NoData}])

\* One key to begin with; the environments are being loaded.
Init ==
  /\ \E k \in KeyIds, t \in Tiers : issued = [x \in {k} |-> NewKey(FirstEnv, t)]
  /\ keysQuery = [e \in Envs |-> NoQuery]
  /\ envSlug = NoData
  /\ showCreate = FALSE /\ pendingRevoke = NoData /\ phase = NoData
  /\ calls = {}
  /\ owed = FALSE /\ missed = FALSE /\ asked = 0

-----------------------------------------------------------------------------
dialogs == <<showCreate, pendingRevoke, phase>>
history == <<owed, missed>>

Send(op, k, t) ==
  /\ asked < MaxRequests /\ asked' = asked + 1
  /\ calls' = calls \cup {Sent(Free(calls), [op |-> op, key |-> k, env |-> envSlug, tier |-> t])}

\* No dialog covers the page.
Bare == ~showCreate /\ pendingRevoke = NoData

\* The cards of the selected environment are rendered.
Cards == IF envSlug # NoData /\ Shown(keysQuery[envSlug])
         THEN DOMAIN keysQuery[envSlug].data ELSE {}

\* The first environment is the default; another one may be selected. Either
\* mounts the query of that environment; a pending revocation will run the
\* callbacks of this render.
Select(e) ==
  /\ IF envSlug = NoData THEN e = FirstEnv ELSE Bare /\ e # envSlug
  /\ envSlug' = e
  /\ keysQuery' = [keysQuery EXCEPT ![e] = Fetch(@)]
  /\ calls' = {IF c.arg.op = "revoke" /\ c.from = "here" THEN [c EXCEPT !.arg.env = e] ELSE c : c \in calls}
  /\ UNCHANGED <<issued, dialogs, history, asked>>

OpenCreate ==
  /\ envSlug # NoData /\ Bare
  /\ showCreate' = TRUE
  /\ UNCHANGED <<issued, keysQuery, envSlug, pendingRevoke, phase, calls, history, asked>>

\* The form, unless the dialog still shows a key from before.
SubmitCreate(k, t) ==
  /\ showCreate /\ phase = NoData /\ ~isPending(calls, "create")
  /\ k \notin DOMAIN issued /\ \A c \in calls : c.arg.key # k
  /\ Send("create", k, t)
  /\ UNCHANGED <<issued, keysQuery, envSlug, dialogs, history>>

\* Escape, a click outside or Cancel.
CancelCreate ==
  /\ showCreate /\ phase = NoData
  /\ showCreate' = FALSE
  /\ UNCHANGED <<issued, keysQuery, envSlug, pendingRevoke, phase, calls, history, asked>>

\* onDone closes the plaintext dialog and asks for the list again, that of
\* the environment selected by now; the phase is left as it is.
DoneShowing ==
  /\ showCreate /\ phase # NoData
  /\ showCreate' = FALSE
  /\ keysQuery' = [keysQuery EXCEPT ![envSlug] = Invalidate(@)]
  /\ owed' = (owed /\ phase.env # envSlug)
  /\ missed' = (missed \/ FirstLoad(keysQuery[envSlug]))
  /\ UNCHANGED <<issued, envSlug, pendingRevoke, phase, calls, asked>>

IntendRevoke(k) ==
  /\ Bare /\ k \in Cards
  /\ pendingRevoke' = k
  /\ UNCHANGED <<issued, keysQuery, envSlug, showCreate, phase, calls, history, asked>>

CancelRevoke ==
  /\ pendingRevoke # NoData
  /\ pendingRevoke' = NoData
  /\ UNCHANGED <<issued, keysQuery, envSlug, showCreate, phase, calls, history, asked>>

ConfirmRevoke ==
  /\ pendingRevoke # NoData /\ ~isPending(calls, "revoke")
  /\ Send("revoke", pendingRevoke, NoData)
  /\ UNCHANGED <<issued, keysQuery, envSlug, dialogs, history>>

\* A card's tier selector, which is opened and closed freely; its buttons stay
\* enabled while a change is in flight.
SelectTier(k, t) ==
  /\ Bare /\ k \in Cards
  /\ Send("tier", k, t)
  /\ UNCHANGED <<issued, keysQuery, envSlug, dialogs, history>>

-----------------------------------------------------------------------------
(* The server creates a key, revokes a live one or changes its tier; or it  *)
(* fails and changes nothing.                                               *)
NewRow(a) == CASE a.op = "create" -> NewKey(a.env, a.tier)
               [] a.op = "revoke" -> [issued[a.key] EXCEPT !.revoked = TRUE]
               [] a.op = "tier"   -> [issued[a.key] EXCEPT !.tier = a.tier]

ServeCall(c) ==
  /\ c.st = "sent"
  /\ \E ok \in {c.arg.op = "create" \/ c.arg.key \in Live, FALSE} :
       /\ calls' = Served(calls, c, ok)
       /\ issued' = IF ~ok THEN issued
                    ELSE [k \in DOMAIN issued \cup {c.arg.key} |->
                            IF k = c.arg.key THEN NewRow(c.arg) ELSE issued[k]]
  /\ UNCHANGED <<keysQuery, envSlug, dialogs, history, asked>>

ServeKeys(e) ==
  /\ keysQuery[e].net = "sent"
  /\ \E v \in {ListOf(e), NoData} : keysQuery' = [keysQuery EXCEPT ![e] = Answer(@, v)]
  /\ UNCHANGED <<issued, envSlug, dialogs, calls, history, asked>>

-----------------------------------------------------------------------------
\* Mutant: a request in flight is waited for instead of dropped.
RefetchKeys(e) ==
  keysQuery' = IF e = envSlug /\ e # NoData
               THEN [keysQuery EXCEPT ![e] = Fetch(@)] ELSE keysQuery

\* Only the list of the environment selected is mounted and asked for again.
InvalidateKeys(e) ==
  keysQuery' = IF e = envSlug /\ e # NoData
               THEN [keysQuery EXCEPT ![e] = Invalidate(@)] ELSE keysQuery

Reaches(e) == e = envSlug /\ e # NoData /\ ~FirstLoad(keysQuery[e])

\* The plaintext goes into the state of the dialog, open or not.
CreateReply(c) ==
  /\ Succeeded(c) /\ c.arg.op = "create"
  /\ calls' = calls \ {c}
  /\ phase' = IF c.from = "here" THEN [key |-> c.arg.key, env |-> c.arg.env] ELSE phase
  /\ owed' = (owed \/ c.from = "here")
  /\ missed' = (missed \/ c.from = "gone")
  /\ UNCHANGED <<issued, keysQuery, envSlug, showCreate, pendingRevoke, asked>>

\* The callbacks ask for the list of the environment selected in the latest
\* render and close the dialog, whatever key it is on by now.
RevokeReply(c) ==
  /\ Succeeded(c) /\ c.arg.op = "revoke"
  /\ calls' = calls \ {c}
  /\ InvalidateKeys(c.arg.env)
  /\ pendingRevoke' = IF c.from = "here" THEN NoData ELSE pendingRevoke
  /\ missed' = (missed \/ c.arg.env # issued[c.arg.key].env \/ ~Reaches(c.arg.env))
  /\ UNCHANGED <<issued, envSlug, showCreate, phase, owed, asked>>

TierReply(c) ==
  /\ Succeeded(c) /\ c.arg.op = "tier"
  /\ calls' = calls \ {c}
  /\ InvalidateKeys(c.arg.env)
  /\ missed' = (missed \/ ~Reaches(c.arg.env))
  /\ UNCHANGED <<issued, envSlug, dialogs, owed, asked>>

\* A refusal changes nothing; a success that is lost leaves the list stale.
ErrorReply(c) ==
  /\ Failing(c)
  /\ calls' = calls \ {c}
  /\ missed' = (missed \/ Succeeded(c))
  /\ UNCHANGED <<issued, keysQuery, envSlug, dialogs, owed, asked>>

KeysArrive(e) ==
  /\ keysQuery[e].net = "answered"
  /\ keysQuery' = [keysQuery EXCEPT ![e] = Arrive(@)]
  /\ UNCHANGED <<issued, envSlug, dialogs, calls, history, asked>>

\* The window gets the focus, or Retry is pressed in the error block.
Focus ==
  /\ envSlug # NoData /\ keysQuery[envSlug].net = "idle"
  /\ keysQuery' = [keysQuery EXCEPT ![envSlug] = Fetch(@)]
  /\ UNCHANGED <<issued, envSlug, dialogs, calls, history, asked>>

\* Leaving the page drops its state; it comes back on the first environment.
Leave ==
  /\ envSlug # NoData
  /\ envSlug' = NoData
  /\ showCreate' = FALSE /\ pendingRevoke' = NoData /\ phase' = NoData
  /\ calls' = Unmounted(calls)
  /\ owed' = FALSE
  /\ missed' = (missed \/ owed)
  /\ UNCHANGED <<issued, keysQuery, asked>>

ApiNext ==
  \/ OpenCreate \/ CancelCreate \/ DoneShowing \/ CancelRevoke \/ ConfirmRevoke
  \/ \E e \in Envs : Select(e) \/ ServeKeys(e) \/ KeysArrive(e)
  \/ \E k \in KeyIds, t \in Tiers : SubmitCreate(k, t) \/ SelectTier(k, t)
  \/ \E k \in KeyIds : IntendRevoke(k)
  \/ \E c \in calls : \/ ServeCall(c) \/ ErrorReply(c)
                      \/ CreateReply(c) \/ RevokeReply(c) \/ TierReply(c)
  \/ Focus \/ Leave

Spec == Init /\ [][ApiNext]_apiVars
-----------------------------------------------------------------------------
\* At rest the page lists exactly the live keys of the environment selected,
\* each with its tier: overlapping tier changes, revocations and refreshes
\* leave nothing behind, if no success was lost or answered on another
\* environment and the dialog of a new key was closed on its own one
\* (api-keys.tsx 76-97, 166, 179-182, 216-225).
KeysAtRest ==
  /\ envSlug # NoData /\ ~missed /\ ~owed
  /\ calls = {}
  => LET q == keysQuery[envSlug]
     IN Shown(q) /\ q.net = "idle" => q.data = ListOf(envSlug)
=============================================================================
