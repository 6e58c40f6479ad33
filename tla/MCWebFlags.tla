----------------------------- MODULE MCWebFlags -----------------------------
(***************************************************************************)
(* The pages of the web UI that list and show flags, for TLC: the toggles   *)
(* and the card of the flag page, the flags of an environment and those of  *)
(* a project; and the page of the environments themselves. A behaviour is   *)
(* one of a single part, chosen at the start, and the variables of the      *)
(* others are not in use. The parts have queries of their own; toggles,     *)
(* edits and deletions made in another tab are actions of the parts whose   *)
(* rows they would change.                                                  *)
(***************************************************************************)
EXTENDS TLC, Sequences, Naturals, FiniteSets

CONSTANTS NoData, Envs, PageEnv, MaxToggles, Keys, MaxRequests, MaxCalls,
          Numbers, Terms, Orders, PerPage, MaxMutations, MaxMoves, MaxRenames

VARIABLES
  part, calls,
  enabled, tx, row, body, stream, events, doubt, toggles,
  flag, query, at, card, editing, draft, deleting, apart, requests,
  flags, pendingDelete, create, asked,
  list, latest, missed,
  cache, view, prev, behind, moves,
  envs, envList, place, field, focus, form, lost

Live == INSTANCE WebFlagLive
Card == INSTANCE WebFlagCard
List == INSTANCE WebFlagList WITH MaxRequests <- MaxCalls
Proj == INSTANCE WebProjectFlags WITH Keys <- Numbers, MaxRequests <- MaxMutations
Env == INSTANCE WebEnvironments WITH Slugs <- Keys, Names <- Keys, MaxRequests <- MaxRenames

\* The list begins with its first page, no search term and ascending order.
ASSUME ViewsAssumption ==
  /\ IsFiniteSet(Numbers) /\ Cardinality(Numbers) \in Nat \ {0}
  /\ Numbers \in Terms /\ Terms \subseteq SUBSET Numbers /\ "asc" \in Orders

\* NoData is no key, slug or name and no change under way, and the stream is
\* that of one of the page's rows.
ASSUME NoDataAssumption == NoData \notin Keys /\ NoData \notin Live!Change
ASSUME PageEnvAssumption == PageEnv \in Envs
ASSUME BoundsAssumption == {MaxToggles, MaxRequests, MaxCalls, MaxMutations, MaxMoves,
                            MaxRenames} \subseteq Nat

liveOnly == <<enabled, tx, row, body, stream, events, doubt, toggles>>
cardOnly == <<flag, query, at, card, editing, draft, deleting, apart, requests>>
listOnly == <<list, latest, missed>>
projOnly == <<cache, view, prev, behind, moves>>
bothLists == <<flags, create>>
envOnly == <<envs, envList, place, field, focus, form, lost>>
listOrEnv == <<pendingDelete, asked>>

NoLive == /\ enabled = NoData /\ tx = NoData /\ row = NoData /\ body = NoData
          /\ stream = NoData /\ events = NoData /\ doubt = NoData /\ toggles = NoData
NoCard == /\ flag = NoData /\ query = NoData /\ at = NoData /\ card = NoData
          /\ editing = NoData /\ draft = NoData /\ deleting = NoData /\ apart = NoData
          /\ requests = NoData
NoList == list = NoData /\ latest = NoData /\ missed = NoData
NoProj == /\ cache = NoData /\ view = NoData /\ prev = NoData /\ behind = NoData
          /\ moves = NoData
NeitherList == NoList /\ NoProj /\ flags = NoData /\ create = NoData
NoEnv == /\ envs = NoData /\ envList = NoData /\ place = NoData /\ field = NoData
         /\ focus = NoData /\ form = NoData /\ lost = NoData
NoOther == NeitherList /\ NoEnv /\ pendingDelete = NoData /\ asked = NoData

Init ==
  \/ part = "toggles" /\ Live!Init /\ NoCard /\ NoOther
  \/ part = "card" /\ Card!Init /\ NoLive /\ NoOther
  \/ part = "list" /\ List!Init /\ NoLive /\ NoCard /\ NoProj /\ NoEnv
  \/ part = "project" /\ Proj!Init /\ NoLive /\ NoCard /\ NoList /\ NoEnv
  \/ part = "environments" /\ Env!Init /\ NoLive /\ NoCard /\ NeitherList

Next ==
  /\ UNCHANGED part
  /\ \/ /\ part = "toggles" /\ Live!LiveNext
        /\ UNCHANGED <<cardOnly, bothLists, listOnly, projOnly, envOnly, listOrEnv>>
     \/ /\ part = "card" /\ Card!CardNext
        /\ UNCHANGED <<liveOnly, bothLists, listOnly, projOnly, envOnly, listOrEnv>>
     \/ part = "list" /\ List!ListNext /\ UNCHANGED <<liveOnly, cardOnly, projOnly, envOnly>>
     \/ /\ part = "project" /\ Proj!PflNext
        /\ UNCHANGED <<liveOnly, cardOnly, listOnly, envOnly>>
     \/ /\ part = "environments" /\ Env!EnvNext
        /\ UNCHANGED <<liveOnly, cardOnly, bothLists, listOnly, projOnly>>

Spec == Init /\ [][Next]_<<part, calls, liveOnly, cardOnly, bothLists, listOnly, projOnly,
                          envOnly, listOrEnv>>

\* Flag keys in the list, variant keys in the card, and slugs and names of
\* environments are not told apart.
Symmetry == Permutations(Keys)

\* Once a success was lost, or a page and the server were set apart, the
\* properties of these parts claim nothing, and this is never taken back: TLC
\* does not go on from there.
Undoubted ==
  /\ part = "card" => ~apart
  /\ part = "list" => ~missed
  /\ part = "environments" => ~lost
-----------------------------------------------------------------------------
\* The state of the part on display is of the types its module gives: the
\* server's flags, the cache entries, the dialogs and the requests in flight;
\* and every draft of a flag has its default among its variants.
TypeOK ==
  /\ part = "toggles" => Live!TypeOK
  /\ part = "card" => Card!TypeOK
  /\ part = "list" => List!TypeOK
  /\ part = "project" => Proj!TypeOK
  /\ part = "environments" => Env!TypeOK

\* At rest every toggle of the flag page shows the stored state
\* (WebFlagLive!RowsAtRest, flags.$key.tsx 457-473, useFlagSSE.ts 79-88).
TogglesAtRest == part = "toggles" => Live!RowsAtRest

\* At rest the card shows the stored flag and an edit starts from it
\* (WebFlagCard!EditStartsFromStored, flags.$key.tsx 77-83, 161-191).
CardAtRest == part = "card" => Card!EditStartsFromStored

\* At rest the list of an environment has every flag in its stored state,
\* unless a success was lost or no panel named the created flag
\* (WebFlagList!FlagListAtRest, flags.tsx 101-114, 291-299,
\* flag-create-modal.tsx 184, 233).
EnvironmentFlagsAtRest == part = "list" => List!FlagListAtRest

\* At rest the project's list shows the slice that its page, search and order
\* stand for (WebProjectFlags!SliceAtRest, flags.tsx 81-109, 131-134).
ProjectFlagsAtRest == part = "project" => Proj!SliceAtRest

\* At rest, anywhere in the project, the environments listed are exactly those
\* there are, by their stored names, unless a success was lost or was answered
\* outside the project with an older answer under way
\* (WebEnvironments!ListAtRest, settings.environments.tsx 62-71, 170-207,
\* ProjectSwitcher.tsx 50-57).
EnvironmentListAtRest == part = "environments" => Env!ListAtRest
=============================================================================
