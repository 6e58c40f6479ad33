----------------------------- MODULE MCWebAdmin -----------------------------
(***************************************************************************)
(* The segments, API keys and members pages of the web UI for TLC, and the  *)
(* dialog of segment members. A tab shows one of them at a time, so each is *)
(* looked at by itself: a behaviour is one of a single page, chosen at the  *)
(* start, and the variables of the others are not in use. A variable that   *)
(* several pages have is declared once.                                     *)
(***************************************************************************)
EXTENDS TLC, Sequences, Naturals

CONSTANTS NoData, Slugs, Names, Segments, UserKeys, Envs, KeyIds, Tiers, FirstEnv,
          Users, Me, MaxRequests, MaxSaves, MaxRoles

\* The page is that of a user who can be a member.
ASSUME MeAssumption == Me \in Users

\* No key on display is not a key on display.
ASSUME NoDataAssumption == NoData \notin [key : KeyIds, env : Envs]

\* The environment selected first is one of the project's; requests are counted.
ASSUME FirstEnvAssumption == FirstEnv \in Envs
ASSUME BoundsAssumption == MaxRequests \in Nat /\ MaxSaves \in Nat /\ MaxRoles \in Nat

VARIABLES
  page, calls, asked,
  segs, list, open, dialog, doubt, requests,
  stored, fetched, body, managing, members, bulk, saves, unsure, sent,
  issued, keysQuery, envSlug, showCreate, pendingRevoke, phase, owed, missed,
  role, data, pendingRemove, latest, unseen

Seg == INSTANCE WebSegments
Mem == INSTANCE WebSegmentMembers
Api == INSTANCE WebApiKeys
Mbr == INSTANCE WebMembers WITH MaxRequests <- MaxRoles

\* The variables that only one page has.
segOnly == <<segs, list, open, dialog, doubt, requests>>
memOnly == <<stored, fetched, body, managing, members, bulk, saves, unsure, sent>>
apiOnly == <<issued, keysQuery, envSlug, showCreate, pendingRevoke, phase, owed, missed>>
mbrOnly == <<role, data, pendingRemove, latest, unseen>>

NoSeg == /\ segs = NoData /\ list = NoData /\ open = NoData /\ dialog = NoData
         /\ doubt = NoData /\ requests = NoData
NoMem == /\ stored = NoData /\ fetched = NoData /\ body = NoData /\ managing = NoData
         /\ members = NoData /\ bulk = NoData /\ saves = NoData /\ unsure = NoData
         /\ sent = NoData
NoApi == /\ issued = NoData /\ keysQuery = NoData /\ envSlug = NoData
         /\ showCreate = NoData /\ pendingRevoke = NoData /\ phase = NoData
         /\ owed = NoData /\ missed = NoData
NoMbr == /\ role = NoData /\ data = NoData /\ pendingRemove = NoData /\ latest = NoData
         /\ unseen = NoData

Init ==
  \/ page = "segments" /\ Seg!Init /\ NoMem /\ NoApi /\ NoMbr /\ asked = NoData
  \/ /\ page = "segment members" /\ Mem!Init /\ NoSeg /\ NoApi /\ NoMbr
     /\ calls = NoData /\ asked = NoData
  \/ page = "api keys" /\ Api!Init /\ NoSeg /\ NoMem /\ NoMbr
  \/ page = "members" /\ Mbr!Init /\ NoSeg /\ NoMem /\ NoApi

Next ==
  /\ UNCHANGED page
  /\ \/ page = "segments" /\ Seg!SegNext /\ UNCHANGED <<memOnly, apiOnly, mbrOnly, asked>>
     \/ /\ page = "segment members" /\ Mem!MemNext
        /\ UNCHANGED <<segOnly, apiOnly, mbrOnly, calls, asked>>
     \/ page = "api keys" /\ Api!ApiNext /\ UNCHANGED <<segOnly, memOnly, mbrOnly>>
     \/ page = "members" /\ Mbr!MbrNext /\ UNCHANGED <<segOnly, memOnly, apiOnly>>

Spec == Init /\ [][Next]_<<page, calls, asked, segOnly, memOnly, apiOnly, mbrOnly>>

\* The pages use the same two sets of interchangeable values.
Symmetry ==
  Permutations(Slugs \cup Segments \cup KeyIds) \cup Permutations(Names \cup Tiers)

\* Once a success was lost, or answered when it could not take effect, the
\* properties below claim nothing of a page, and this is never taken back: TLC
\* does not go on from there.
Undoubted ==
  /\ page = "segments" => ~doubt
  /\ page = "segment members" => ~unsure
  /\ page = "api keys" => ~missed
  /\ page = "members" => ~unseen
-----------------------------------------------------------------------------
\* The state of the page on display is of the types its module gives: the
\* server's rows, the cache entries, the dialogs and the requests in flight.
TypeOK ==
  /\ page = "segments" => Seg!TypeOK
  /\ page = "segment members" => Mem!TypeOK
  /\ page = "api keys" => Api!TypeOK
  /\ page = "members" => Mbr!TypeOK

\* At rest the segments page lists exactly the segments there are, by name
\* (WebSegments!ListAtRest, segments.tsx 53-57, 105-127).
SegmentListAtRest == page = "segments" => Seg!ListAtRest

\* At rest the members dialog shows the stored members of its segment
\* (WebSegmentMembers!MembersAtRest, segments.tsx 507-571).
SegmentMembersAtRest == page = "segment members" => Mem!MembersAtRest

\* At rest the API keys page lists exactly the live keys of the environment
\* selected (WebApiKeys!KeysAtRest, api-keys.tsx 76-97, 179-182).
ApiKeysAtRest == page = "api keys" => Api!KeysAtRest

\* At rest the members page shows every member with the stored role
\* (WebMembers!ListIsRoster, members.tsx 54-112).
MemberListAtRest == page = "members" => Mbr!ListIsRoster
=============================================================================
