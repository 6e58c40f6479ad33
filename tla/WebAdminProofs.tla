--------------------------- MODULE WebAdminProofs ---------------------------
(***************************************************************************)
(* Proofs about the pages of MCWebAdmin, for any segments, keys, users,     *)
(* environments and numbers of requests: at rest a page shows what is       *)
(* stored.                                                                  *)
(*                                                                          *)
(* All of them rest on one idea. A cache entry is current if what it shows  *)
(* and what it is about to show are what the server has now. It is, unless  *)
(* a change that the server has applied is still to be answered, and then   *)
(* the reply will ask for the list again.                                   *)
(***************************************************************************)
EXTENDS MCWebAdmin, FiniteSetTheorems, TLAPS

RQ == INSTANCE ReactQuery

-----------------------------------------------------------------------------
(* Cache entries and requests, whatever they are about. *)

Shape(q) ==
  /\ DOMAIN q = {"data", "err", "net", "snap"}
  /\ q.err \in BOOLEAN /\ q.net \in {"idle", "sent", "answered"}

\* What is shown, and an answer on its way, are t.
Current(q, t) ==
  /\ q.net = "idle" /\ ~q.err /\ q.data # NoData => q.data = t
  /\ q.net = "answered" /\ q.snap # NoData => q.snap = t

CallShape(c) == DOMAIN c = {"n", "arg", "st", "from"}
CallShapes(cs) == \A c \in cs : CallShape(c)

\* A change has been applied whose reply is on its way.
Applied(cs) == \E c \in cs : c.st = "applied"

LEMMA Initially ==
  ASSUME NEW t
  PROVE  /\ Shape(RQ!NoQuery) /\ RQ!NoQuery.data = NoData /\ Current(RQ!NoQuery, t)
         /\ Shape(RQ!Start(RQ!NoQuery)) /\ Current(RQ!Start(RQ!NoQuery), t)
BY DEF Shape, Current, RQ!NoQuery, RQ!Start

LEMMA Fetching ==
  ASSUME NEW q, Shape(q), NEW t
  PROVE  /\ Shape(RQ!Fetch(q)) /\ RQ!Fetch(q).data = q.data
         /\ Current(q, t) => Current(RQ!Fetch(q), t)
BY DEF Shape, Current, RQ!Fetch, RQ!Start

LEMMA Invalidating ==
  ASSUME NEW q, Shape(q), NEW t
  PROVE  /\ Shape(RQ!Invalidate(q)) /\ RQ!Invalidate(q).data = q.data
         /\ Current(q, t) => Current(RQ!Invalidate(q), t)
         /\ ~RQ!FirstLoad(q) => Current(RQ!Invalidate(q), t) /\ RQ!Invalidate(q).net = "sent"
         /\ q.data # NoData => ~RQ!FirstLoad(q)
BY DEF Shape, Current, RQ!Invalidate, RQ!FirstLoad, RQ!Start

LEMMA Answering ==
  ASSUME NEW q, Shape(q), NEW t, NEW v \in {t, NoData}
  PROVE  /\ Shape(RQ!Answer(q, v)) /\ RQ!Answer(q, v).data = q.data
         /\ Current(RQ!Answer(q, v), t)
BY DEF Shape, Current, RQ!Answer

LEMMA Arriving ==
  ASSUME NEW q, Shape(q), NEW t, q.net = "answered"
  PROVE  /\ Shape(RQ!Arrive(q))
         /\ q.data # NoData => RQ!Arrive(q).data # NoData
         /\ RQ!Arrive(q).data \in {q.data, q.snap}
         /\ Current(q, t) => Current(RQ!Arrive(q), t)
BY DEF Shape, Current, RQ!Arrive

\* Sending a request applies nothing, and neither does its failure.
LEMMA Sending ==
  ASSUME NEW cs, CallShapes(cs), NEW n, NEW a
  PROVE  /\ CallShapes(cs \cup {RQ!Sent(n, a)})
         /\ Applied(cs) => Applied(cs \cup {RQ!Sent(n, a)})
BY DEF CallShapes, CallShape, Applied, RQ!Sent

LEMMA Serving ==
  ASSUME NEW cs, CallShapes(cs), NEW c \in cs, c.st = "sent", NEW ok
  PROVE  /\ CallShapes(RQ!Served(cs, c, ok)) /\ cs # {}
         /\ Applied(cs) => Applied(RQ!Served(cs, c, ok))
         /\ ok => Applied(RQ!Served(cs, c, ok))
<1> DEFINE d == [c EXCEPT !.st = IF ok THEN "applied" ELSE "refused"]
<1>1. ok => d.st = "applied"
  BY DEF CallShapes, CallShape
<1> HIDE DEF d
<1>2. RQ!Served(cs, c, ok) = (cs \ {c}) \cup {d}
  BY DEF RQ!Served, d
<1>3. CallShape(d)
  BY DEF CallShapes, CallShape, d
<1>4. QED
  BY <1>1, <1>2, <1>3 DEF CallShapes, Applied

LEMMA Replying ==
  ASSUME NEW cs, CallShapes(cs), NEW c \in cs
  PROVE  /\ CallShapes(cs \ {c}) /\ cs # {}
         /\ Applied(cs) /\ c.st # "applied" => Applied(cs \ {c})
BY DEF CallShapes, Applied

\* The same requests, some of them disowned by the component that sent them.
Disowned(cs, ds) ==
  /\ \A d \in ds : \E c \in cs : d.st = c.st /\ d.arg = c.arg /\ CallShape(d)
  /\ \A c \in cs : \E d \in ds : d.st = c.st /\ d.arg = c.arg

LEMMA Unmounting ==
  ASSUME NEW cs, CallShapes(cs), NEW ds, NEW f,
         \A d \in ds : \E c \in cs : d \in {c, [c EXCEPT !.from = f]},
         \A c \in cs : \E d \in ds : d \in {c, [c EXCEPT !.from = f]}
  PROVE  Disowned(cs, ds)
BY DEF Disowned, CallShapes, CallShape

LEMMA Disowning ==
  ASSUME NEW cs, CallShapes(cs), NEW ds, Disowned(cs, ds)
  PROVE  CallShapes(ds) /\ (Applied(cs) => Applied(ds)) /\ (ds # {} => cs # {})
BY DEF CallShapes, Disowned, Applied

-----------------------------------------------------------------------------
(***************************************************************************)
(* WebMembers. Every success asks for the list again, so the list is behind *)
(* only while a change is unanswered or after its reply was lost.           *)
(***************************************************************************)
MbrBehind == unseen \/ Applied(calls)

MbrInv ==
  /\ Shape(data) /\ CallShapes(calls)
  /\ DOMAIN role = Users
  /\ calls # {} => data.data # NoData
  /\ MbrBehind \/ Current(data, Mbr!Listed)

LEMMA MbrOps ==
  /\ \A q : /\ Mbr!Fetch(q) = RQ!Fetch(q) /\ Mbr!Invalidate(q) = RQ!Invalidate(q)
            /\ Mbr!Arrive(q) = RQ!Arrive(q) /\ Mbr!Start(q) = RQ!Start(q)
            /\ Mbr!FirstLoad(q) <=> RQ!FirstLoad(q)
            /\ \A v : Mbr!Answer(q, v) = RQ!Answer(q, v)
  /\ \A cs, c, ok : Mbr!Served(cs, c, ok) = RQ!Served(cs, c, ok)
  /\ \A n, a : Mbr!Sent(n, a) = RQ!Sent(n, a)
  /\ Mbr!NoQuery = RQ!NoQuery
BY DEF Mbr!Start, RQ!Start, Mbr!Fetch, RQ!Fetch, Mbr!Invalidate, RQ!Invalidate, Mbr!FirstLoad,
       RQ!FirstLoad, Mbr!Arrive, RQ!Arrive, Mbr!Answer, RQ!Answer, Mbr!Served, RQ!Served,
       Mbr!Sent, RQ!Sent, Mbr!NoQuery, RQ!NoQuery

LEMMA MbrInitially == Mbr!Init => MbrInv
<1> SUFFICES ASSUME Mbr!Init PROVE MbrInv
  OBVIOUS
<1>1. data = RQ!Start(RQ!NoQuery) /\ calls = {} /\ DOMAIN role = Users
  BY MbrOps DEF Mbr!Init
<1>2. Shape(data) /\ Current(data, Mbr!Listed)
  BY <1>1, Initially
<1>3. QED
  BY <1>1, <1>2 DEF MbrInv, CallShapes

LEMMA MbrStep == MbrInv /\ Mbr!MbrNext => MbrInv'
<1> SUFFICES ASSUME MbrInv, Mbr!MbrNext PROVE MbrInv'
  OBVIOUS
<1>0. Shape(data) /\ CallShapes(calls)
  BY DEF MbrInv
\* Dialogs change neither the list nor a request.
<1>1. ASSUME UNCHANGED <<role, data, calls, unseen>> PROVE MbrInv'
  BY <1>1 DEF MbrInv, MbrBehind, Mbr!Listed, Mbr!Members
\* The forms and selectors are there only with the list.
<1>2. ASSUME UNCHANGED <<role, data, unseen>>, data.data # NoData,
             NEW a, calls' = calls \cup {RQ!Sent(Mbr!Free(calls), a)}
      PROVE  MbrInv'
  <2>1. CallShapes(calls') /\ (Applied(calls) => Applied(calls'))
    BY <1>0, <1>2, Sending
  <2>2. QED
    BY <1>2, <2>1 DEF MbrInv, MbrBehind, Mbr!Listed, Mbr!Members
<1>3. ASSUME NEW c \in calls, Mbr!ServeCall(c) PROVE MbrInv'
  <2>1. PICK ok \in {Mbr!Accepts(c.arg), FALSE} :
               /\ calls' = RQ!Served(calls, c, ok)
               /\ role' = IF ok THEN [role EXCEPT ![c.arg.user] = c.arg.role] ELSE role
    BY <1>3, MbrOps DEF Mbr!ServeCall
  <2>2. c.st = "sent" /\ UNCHANGED <<data, unseen>>
    BY <1>3 DEF Mbr!ServeCall
  <2>3. /\ CallShapes(calls') /\ calls # {}
        /\ Applied(calls) => Applied(calls')
        /\ ok => Applied(calls')
    BY <1>0, <2>1, <2>2, Serving
  <2>4. DOMAIN role' = Users
    BY <2>1 DEF MbrInv
  <2>5. CASE ok
    BY <2>2, <2>3, <2>4, <2>5 DEF MbrInv, MbrBehind
  <2>6. CASE ~ok
    <3>1. role' = role
      BY <2>1, <2>6
    <3>2. QED
      BY <2>2, <2>3, <3>1 DEF MbrInv, MbrBehind, Mbr!Listed, Mbr!Members
  <2>7. QED
    BY <2>5, <2>6
<1>4. ASSUME NEW c \in calls, Mbr!SuccessReply(c) PROVE MbrInv'
  <2>1. data' = RQ!Invalidate(data) /\ calls' = calls \ {c} /\ UNCHANGED role
    BY <1>4, MbrOps DEF Mbr!SuccessReply, Mbr!Settle
  <2>2. CallShapes(calls') /\ calls # {}
    BY <1>0, <2>1, Replying
  <2>3. Shape(data') /\ data'.data = data.data /\ Current(data', Mbr!Listed')
    BY <1>0, <2>1, <2>2, Invalidating DEF MbrInv
  <2>4. QED
    BY <2>1, <2>2, <2>3 DEF MbrInv
<1>5. ASSUME NEW c \in calls, Mbr!ErrorReply(c) PROVE MbrInv'
  <2>1. /\ calls' = calls \ {c} /\ UNCHANGED <<role, data>>
        /\ unseen \/ c.st = "applied" => unseen'
    BY <1>5 DEF Mbr!ErrorReply, Mbr!Settle, Mbr!Succeeded
  <2>2. CallShapes(calls') /\ calls # {} /\ (Applied(calls) /\ c.st # "applied" => Applied(calls'))
    BY <1>0, <2>1, Replying
  <2>3. MbrBehind => MbrBehind'
    BY <2>1, <2>2 DEF MbrBehind
  <2>4. QED
    BY <2>1, <2>2, <2>3 DEF MbrInv, Mbr!Listed, Mbr!Members
<1>6. ASSUME Mbr!ListArrives PROVE MbrInv'
  <2>1. data' = RQ!Arrive(data) /\ data.net = "answered" /\ UNCHANGED <<role, unseen>>
    BY <1>6, MbrOps DEF Mbr!ListArrives
  <2>2. /\ Shape(data')
        /\ data.data # NoData => data'.data # NoData
        /\ Current(data, Mbr!Listed) => Current(data', Mbr!Listed)
    BY <1>0, <2>1, Arriving
  <2>3. Disowned(calls, calls')
    <3>1. calls' = {IF c.arg.op = "add" /\ ~Mbr!isAdmin' THEN [c EXCEPT !.from = "gone"] ELSE c :
                    c \in calls}
      BY <1>6 DEF Mbr!ListArrives
    <3>2. /\ \A d \in calls' : \E c \in calls : d \in {c, [c EXCEPT !.from = "gone"]}
          /\ \A c \in calls : \E d \in calls' : d \in {c, [c EXCEPT !.from = "gone"]}
      BY <3>1
    <3>3. QED
      BY <1>0, <3>2, Unmounting
  <2>4. CallShapes(calls') /\ (Applied(calls) => Applied(calls')) /\ (calls' # {} => calls # {})
    BY <1>0, <2>3, Disowning
  <2>5. QED
    BY <2>1, <2>2, <2>4 DEF MbrInv, MbrBehind, Mbr!Listed, Mbr!Members
<1>7. ASSUME Mbr!ServeList PROVE MbrInv'
  <2>1. /\ UNCHANGED <<role, calls, unseen>>
        /\ \E v \in {Mbr!Listed, NoData} : data' = RQ!Answer(data, v)
    BY <1>7, MbrOps DEF Mbr!ServeList
  <2>2. Shape(data') /\ data'.data = data.data /\ Current(data', Mbr!Listed)
    BY <1>0, <2>1, Answering
  <2>3. QED
    BY <2>1, <2>2 DEF MbrInv, Mbr!Listed, Mbr!Members
<1>8. ASSUME Mbr!Focus PROVE MbrInv'
  <2>1. data' = RQ!Fetch(data) /\ UNCHANGED <<role, calls, unseen>>
    BY <1>8, MbrOps DEF Mbr!Focus
  <2>2. /\ Shape(data') /\ data'.data = data.data
        /\ Current(data, Mbr!Listed) => Current(data', Mbr!Listed)
    BY <1>0, <2>1, Fetching
  <2>3. QED
    BY <2>1, <2>2 DEF MbrInv, MbrBehind, Mbr!Listed, Mbr!Members
<1>9. ASSUME Mbr!ConfirmRemove PROVE MbrInv'
  BY <1>2, <1>9, MbrOps DEF Mbr!ConfirmRemove, Mbr!Send, Mbr!Shown
<1>10. ASSUME NEW u, NEW r, Mbr!SelectRole(u, r) \/ Mbr!SubmitAdd(u, r) PROVE MbrInv'
  <2>1. data.data # NoData
    BY <1>10 DEF Mbr!SelectRole, Mbr!SubmitAdd, Mbr!isAdmin, Mbr!Rows, Mbr!Shown
  <2>2. QED
    BY <1>2, <1>10, <2>1, MbrOps DEF Mbr!SelectRole, Mbr!SubmitAdd, Mbr!Send
<1>11. ASSUME Mbr!CancelRemove \/ \E u \in Users : Mbr!RemoveIntent(u) PROVE MbrInv'
  BY <1>1, <1>11 DEF Mbr!CancelRemove, Mbr!RemoveIntent
<1>12. QED
  BY <1>3, <1>4, <1>5, <1>6, <1>7, <1>8, <1>9, <1>10, <1>11 DEF Mbr!MbrNext

\* At rest the members page shows every member with the stored role, and the
\* controls exactly to an admin, for any number of members and of changes that
\* overtake each other, unless a success was lost (members.tsx 54-112).
THEOREM MembersShown == Spec => []MemberListAtRest
<1> DEFINE Inv == page = "members" => MbrInv
<1>1. Init => Inv
  BY MbrInitially DEF Init
<1>2. Inv /\ [Next]_<<page, calls, asked, segOnly, memOnly, apiOnly, mbrOnly>> => Inv'
  <2> SUFFICES ASSUME Inv, [Next]_<<page, calls, asked, segOnly, memOnly, apiOnly, mbrOnly>>,
                      page' = "members"
               PROVE  MbrInv'
    OBVIOUS
  <2>1. CASE Next
    <3>1. MbrInv /\ Mbr!MbrNext
      BY <2>1 DEF Next
    <3>2. QED
      BY <3>1, MbrStep
  <2>2. CASE UNCHANGED <<page, calls, asked, segOnly, memOnly, apiOnly, mbrOnly>>
    BY <2>2 DEF mbrOnly, MbrInv, MbrBehind, Mbr!Listed, Mbr!Members
  <2>3. QED
    BY <2>1, <2>2
<1>3. Inv => MemberListAtRest
  <2> SUFFICES ASSUME MbrInv, Mbr!Shown(data), ~unseen, data.net = "idle", calls = {}
               PROVE  data.data = Mbr!Listed /\ (Mbr!isAdmin <=> role[Me] = "admin")
    BY DEF MemberListAtRest, Mbr!ListIsRoster
  <2>1. data.data = Mbr!Listed
    BY DEF MbrInv, MbrBehind, Applied, Current, Mbr!Shown
  <2>2. Mbr!Rows = Mbr!Members /\ \A u \in Mbr!Members : data.data[u] = role[u]
    BY <2>1 DEF Mbr!Rows, Mbr!Listed
  <2>3. Me \in Mbr!Members <=> role[Me] # "none"
    BY MeAssumption DEF Mbr!Members
  <2>4. QED
    BY <2>1, <2>2, <2>3 DEF Mbr!isAdmin
<1>4. QED
  BY <1>1, <1>2, <1>3, PTL DEF Spec

-----------------------------------------------------------------------------
(***************************************************************************)
(* WebSegments. A creation or a deletion asks for the list again. A rename  *)
(* does not: until it is answered the list, or an answer on its way, may be *)
(* one of before it, which the reply will turn into what is stored. There   *)
(* is at most one such rename of this visit, for its button is disabled.    *)
(***************************************************************************)
HereEdit(c) == c.from = "here" /\ c.arg.op = "edit"

\* A rename was applied whose reply will not be seen where it was sent.
Stray(cs) == \E c \in cs : c.st = "applied" /\ c.arg.op = "edit" /\ c.from # "here"

\* A creation or deletion was applied whose reply will ask for the list.
Unlisted(cs) == \E c \in cs : c.st = "applied" /\ c.arg.op # "edit"

\* What the reply of a rename makes of a list.
Renamed(t, a) ==
  [x \in DOMAIN t |-> IF t[x].id = a.id /\ x = a.seg THEN [t[x] EXCEPT !.name = a.name] ELSE t[x]]

\* The list t is the table tab, or will be with the reply of a rename.
Leads(t, cs, tab) ==
  t = tab \/ \E c \in cs : c.st = "applied" /\ HereEdit(c) /\ Renamed(t, c.arg) = tab

SegCurrent(q, cs, tab) ==
  /\ q.net = "idle" /\ ~q.err /\ q.data # NoData => Leads(q.data, cs, tab)
  /\ q.net = "answered" /\ q.snap # NoData => Leads(q.snap, cs, tab)

\* A list that has the new name already is not changed by the reply: the
\* segment has not been renamed again, and one of the same slug that was
\* created since has another id.
Kept(cs, tab) ==
  \A c \in cs : /\ c.st = "applied" /\ HereEdit(c) /\ c.arg.seg \in DOMAIN tab
                /\ tab[c.arg.seg].id = c.arg.id
                => tab[c.arg.seg].name = c.arg.name

SegListed(cs, q, tab) ==
  Stray(cs) \/ (Kept(cs, tab) /\ (Unlisted(cs) \/ SegCurrent(q, cs, tab)))

ArgShape(a) == DOMAIN a = {"op", "seg", "name", "id"}

RowShape(r) == r = [id |-> r.id, name |-> r.name]

\* An id is given out once.
SegIds(cs, tab, n) ==
  /\ n \in Nat /\ tab = [x \in DOMAIN tab |-> tab[x]]
  /\ \A c \in cs : ArgShape(c.arg) /\ c.arg.id \in Nat /\ c.arg.id <= n
  /\ \A x \in DOMAIN tab : RowShape(tab[x]) /\ tab[x].id \in Nat /\ tab[x].id <= n
  /\ \A c \in cs : c.st = "sent" /\ c.arg.op = "create" =>
       /\ \A x \in DOMAIN tab : tab[x].id # c.arg.id
       /\ \A d \in cs : d.arg.op = "edit" /\ d.st = "applied" => d.arg.id # c.arg.id
       /\ \A d \in cs : d.st = "sent" /\ d.arg.op = "create" /\ d.arg.id = c.arg.id => d = c

OneEdit(cs) == \A c, d \in cs : HereEdit(c) /\ HereEdit(d) => c = d

SegInv ==
  /\ Shape(list) /\ CallShapes(calls)
  /\ SegIds(calls, segs, requests) /\ OneEdit(calls)
  /\ doubt \/ SegListed(calls, list, segs)

\* Requests that are not applied do not matter to the list.
LEMMA SameListed ==
  ASSUME NEW cs, NEW ds, \A c : c.st = "applied" => (c \in cs <=> c \in ds), NEW q, NEW tab,
         SegListed(cs, q, tab)
  PROVE  SegListed(ds, q, tab)
BY DEF SegListed, Stray, Kept, Unlisted, SegCurrent, Leads

LEMMA SegOps ==
  /\ \A q : /\ Seg!Fetch(q) = RQ!Fetch(q) /\ Seg!Invalidate(q) = RQ!Invalidate(q)
            /\ Seg!Arrive(q) = RQ!Arrive(q) /\ Seg!Start(q) = RQ!Start(q)
            /\ Seg!FirstLoad(q) <=> RQ!FirstLoad(q)
            /\ \A v : Seg!Answer(q, v) = RQ!Answer(q, v)
  /\ \A cs, c, ok : Seg!Served(cs, c, ok) = RQ!Served(cs, c, ok)
  /\ \A n, a : Seg!Sent(n, a) = RQ!Sent(n, a)
  /\ Seg!NoQuery = RQ!NoQuery
BY DEF Seg!Start, RQ!Start, Seg!Fetch, RQ!Fetch, Seg!Invalidate, RQ!Invalidate, Seg!FirstLoad,
       RQ!FirstLoad, Seg!Arrive, RQ!Arrive, Seg!Answer, RQ!Answer, Seg!Served, RQ!Served,
       Seg!Sent, RQ!Sent, Seg!NoQuery, RQ!NoQuery

LEMMA SegInitially == Seg!Init => SegInv
<1> SUFFICES ASSUME Seg!Init PROVE SegInv
  OBVIOUS
<1>1. /\ list = RQ!Start(RQ!NoQuery) /\ calls = {} /\ requests = 0
      /\ segs \in UNION {[S -> [id : {0}, name : Names]] : S \in SUBSET Slugs}
  BY SegOps DEF Seg!Init
<1>2. Shape(list) /\ Current(list, segs)
  BY <1>1, Initially
<1>3. SegListed(calls, list, segs)
  BY <1>1, <1>2 DEF SegListed, Kept, SegCurrent, Leads, Current
<1>4. SegIds(calls, segs, requests)
  BY <1>1 DEF SegIds, RowShape
<1>5. QED
  BY <1>1, <1>2, <1>3, <1>4 DEF SegInv, CallShapes, OneEdit

\* A request that is sent.
LEMMA SegSubmits ==
  ASSUME SegInv, NEW op, NEW s, NEW n, Seg!Submit(op, s, n)
  PROVE  SegInv'
<1> DEFINE a == [op |-> op, seg |-> s, name |-> n, id |-> requests + 1]
           c == RQ!Sent(Seg!Free(calls), a)
<1>1. /\ calls' = calls \cup {c} /\ requests' = requests + 1 /\ UNCHANGED <<segs, list, doubt>>
      /\ list.data # NoData
      /\ \A d \in calls : d.from = "here" => d.arg.op # op
  BY SegOps DEF Seg!Submit, Seg!At, Seg!Visible, Seg!Shown, Seg!isPending
<1>2. c.st = "sent" /\ c.from = "here" /\ c.arg = a
  BY DEF RQ!Sent
<1>3. ArgShape(a) /\ a.op = op /\ a.id = requests + 1
  BY DEF ArgShape
<1> HIDE DEF a
<1>4. CallShapes(calls \cup {c})
  BY Sending DEF SegInv
<1> HIDE DEF c
<1>5. SegIds(calls, segs, requests)
  BY DEF SegInv
<1>6. requests \in Nat /\ requests + 1 \in Nat /\ \A i \in Nat : i <= requests => i <= requests + 1 /\ i # requests + 1
  BY <1>5 DEF SegIds
<1>7. SegIds(calls', segs', requests')
  <2>1. \A d \in calls' : ArgShape(d.arg) /\ d.arg.id \in Nat /\ d.arg.id <= requests'
    BY <1>1, <1>2, <1>3, <1>5, <1>6 DEF SegIds
  <2>2. \A x \in DOMAIN segs : RowShape(segs[x]) /\ segs[x].id \in Nat /\ segs[x].id <= requests'
    BY <1>1, <1>5, <1>6 DEF SegIds
  <2>3. ASSUME NEW b \in calls', b.st = "sent", b.arg.op = "create"
        PROVE  /\ \A x \in DOMAIN segs : segs[x].id # b.arg.id
               /\ \A d \in calls' : d.arg.op = "edit" /\ d.st = "applied" => d.arg.id # b.arg.id
               /\ \A d \in calls' : d.st = "sent" /\ d.arg.op = "create" /\ d.arg.id = b.arg.id => d = b
    <3>1. CASE b \in calls
      BY <1>1, <1>2, <1>3, <1>5, <1>6, <2>3, <3>1 DEF SegIds
    <3>2. CASE b = c
      BY <1>1, <1>2, <1>3, <1>5, <1>6, <2>3, <3>2 DEF SegIds
    <3>3. QED
      BY <1>1, <3>1, <3>2
  <2>4. QED
    BY <1>1, <1>5, <1>6, <2>1, <2>2, <2>3 DEF SegIds
<1>8. OneEdit(calls')
  BY <1>1, <1>2, <1>3 DEF SegInv, OneEdit, HereEdit
<1>9. doubt' \/ SegListed(calls', list', segs')
  <2>1. \A d : d.st = "applied" => (d \in calls <=> d \in calls')
    BY <1>1, <1>2
  <2>2. QED
    BY <1>1, <2>1, SameListed DEF SegInv
<1>10. QED
  BY <1>1, <1>4, <1>7, <1>8, <1>9 DEF SegInv

\* The server has answered c, which goes on as d.
Replaced(cs, ds, c, d) ==
  /\ c \in cs /\ c.st = "sent" /\ d.st # "sent" /\ CallShape(d)
  /\ d.from = c.from /\ d.arg.op = c.arg.op
  /\ d \in ds /\ c \notin ds /\ \A x \in ds : x = d \/ x \in cs
  /\ \A x \in cs : x.st # "sent" => x \in ds

LEMMA ServedReplaces ==
  ASSUME NEW cs, CallShapes(cs), NEW c \in cs, c.st = "sent", NEW ok
  PROVE  \E d : /\ Replaced(cs, RQ!Served(cs, c, ok), c, d) /\ d.arg = c.arg
                /\ d.st = IF ok THEN "applied" ELSE "refused"
<1> DEFINE d == [c EXCEPT !.st = IF ok THEN "applied" ELSE "refused"]
<1>1. /\ d.st = (IF ok THEN "applied" ELSE "refused") /\ d.from = c.from /\ d.arg = c.arg
      /\ CallShape(d)
  BY DEF CallShapes, CallShape
<1>2. RQ!Served(cs, c, ok) = (cs \ {c}) \cup {d}
  BY DEF RQ!Served
<1> HIDE DEF d
<1>3. Replaced(cs, RQ!Served(cs, c, ok), c, d)
  BY <1>1, <1>2 DEF Replaced
<1>4. QED
  BY <1>1, <1>3

\* What the table must be like, and the request that made it so.
GoodTable(ds, d, tab, n) ==
  /\ ArgShape(d.arg) /\ d.arg.id \in Nat /\ d.arg.id <= n
  /\ tab = [x \in DOMAIN tab |-> tab[x]]
  /\ \A x \in DOMAIN tab : RowShape(tab[x]) /\ tab[x].id \in Nat /\ tab[x].id <= n
  /\ \A b \in ds, x \in DOMAIN tab : b.st = "sent" /\ b.arg.op = "create" => tab[x].id # b.arg.id
  /\ \A b \in ds : b.st = "sent" /\ b.arg.op = "create" /\ d.arg.op = "edit" /\ d.st = "applied"
       => d.arg.id # b.arg.id

\* Whatever the server makes of a request, the ids stay apart and a dialog has
\* one rename.
LEMMA SegAnswers ==
  ASSUME SegInv, NEW c, NEW d, Replaced(calls, calls', c, d), UNCHANGED <<list, requests, doubt>>,
         NEW tab, segs' = tab, GoodTable(calls', d, tab, requests),
         doubt \/ SegListed(calls', list, tab)
  PROVE  SegInv'
<1>1. CallShapes(calls')
  BY DEF SegInv, CallShapes, Replaced
<1>2. OneEdit(calls')
  BY DEF SegInv, OneEdit, HereEdit, Replaced
<1>3. SegIds(calls, segs, requests)
  BY DEF SegInv
<1>4. \A b \in calls' : b.st = "sent" /\ b.arg.op = "create" => b \in calls
  BY DEF Replaced
<1>5. SegIds(calls', tab, requests)
  <2>1. \A b \in calls' : ArgShape(b.arg) /\ b.arg.id \in Nat /\ b.arg.id <= requests
    BY <1>3 DEF SegIds, Replaced, GoodTable
  <2>2. ASSUME NEW b \in calls', b.st = "sent", b.arg.op = "create"
        PROVE  /\ \A x \in calls' : x.arg.op = "edit" /\ x.st = "applied" => x.arg.id # b.arg.id
               /\ \A x \in calls' : x.st = "sent" /\ x.arg.op = "create" /\ x.arg.id = b.arg.id => x = b
    BY <1>3, <1>4, <2>2 DEF SegIds, Replaced, GoodTable
  <2>3. QED
    BY <1>3, <2>1, <2>2 DEF SegIds, GoodTable
<1>6. calls # {}
  BY DEF Replaced
<1>7. QED
  BY <1>1, <1>2, <1>5, <1>6 DEF SegInv

\* A refusal.
LEMMA SegRefuses ==
  ASSUME SegInv, NEW c, NEW d, Replaced(calls, calls', c, d), UNCHANGED <<list, requests, doubt, segs>>,
         ArgShape(d.arg), d.arg.id \in Nat, d.arg.id <= requests, d.st = "refused"
  PROVE  SegInv'
<1>1. SegIds(calls, segs, requests)
  BY DEF SegInv
<1>2. \A b \in calls' : b.st = "sent" /\ b.arg.op = "create" => b \in calls
  BY DEF Replaced
<1>3. \A x : x.st = "applied" => (x \in calls <=> x \in calls')
  BY DEF Replaced
<1>4. doubt \/ SegListed(calls', list, segs)
  BY <1>3, SameListed DEF SegInv
<1>5. GoodTable(calls', d, segs, requests)
  BY <1>1, <1>2 DEF SegIds, GoodTable
<1>6. QED
  BY <1>4, <1>5, SegAnswers

\* A list with the new name is not changed by the reply.
LEMMA RenamedKept ==
  ASSUME NEW tab, tab = [x \in DOMAIN tab |-> tab[x]], \A x \in DOMAIN tab : RowShape(tab[x]),
         NEW a, a.seg \in DOMAIN tab /\ tab[a.seg].id = a.id => tab[a.seg].name = a.name
  PROVE  Renamed(tab, a) = tab
<1> DEFINE r == Renamed(tab, a)
<1>1. ASSUME NEW x \in DOMAIN tab PROVE r[x] = tab[x]
  <2>1. tab[x] = [tab[x] EXCEPT !.name = tab[x].name]
    BY DEF RowShape
  <2>2. QED
    BY <2>1 DEF Renamed
<1>2. r = [x \in DOMAIN tab |-> r[x]]
  BY DEF Renamed
<1> HIDE DEF r
<1>3. r = [x \in DOMAIN tab |-> tab[x]]
  BY <1>1, <1>2
<1>4. QED
  BY <1>3 DEF r

LEMMA SegServesCreate ==
  ASSUME SegInv, NEW c \in calls, Seg!ServeCreate(c)
  PROVE  SegInv'
<1> DEFINE tab == [x \in DOMAIN segs \cup {c.arg.seg} |->
                     IF x = c.arg.seg THEN [id |-> c.arg.id, name |-> c.arg.name] ELSE segs[x]]
<1>1. PICK ok \in {c.arg.seg \notin DOMAIN segs, FALSE} :
             /\ calls' = RQ!Served(calls, c, ok) /\ segs' = IF ok THEN tab ELSE segs
             /\ UNCHANGED <<list, doubt, requests>>
  BY SegOps DEF Seg!ServeCreate, Seg!Serve
<1>2. c.st = "sent" /\ c.arg.op = "create"
  BY DEF Seg!ServeCreate
<1>3. PICK d : /\ Replaced(calls, calls', c, d) /\ d.arg = c.arg
               /\ d.st = IF ok THEN "applied" ELSE "refused"
  BY <1>1, <1>2, ServedReplaces DEF SegInv
<1>4. SegIds(calls, segs, requests)
  BY DEF SegInv
<1>5. ArgShape(d.arg) /\ d.arg.id \in Nat /\ d.arg.id <= requests
  BY <1>3, <1>4 DEF SegIds
<1>6. CASE ~ok
  BY <1>1, <1>3, <1>5, <1>6, SegRefuses
<1>7. CASE ok
  <2>1. segs' = tab /\ d.st = "applied" /\ c.arg.seg \notin DOMAIN segs
    BY <1>1, <1>3, <1>7
  <2>2. DOMAIN tab = DOMAIN segs \cup {c.arg.seg} /\ tab = [x \in DOMAIN tab |-> tab[x]]
    OBVIOUS
  <2>3. tab[c.arg.seg] = [id |-> c.arg.id, name |-> c.arg.name]
    OBVIOUS
  <2>4. \A x \in DOMAIN segs : tab[x] = segs[x]
    BY <2>1
  <2> HIDE DEF tab
  <2>5. \A x \in DOMAIN tab : RowShape(tab[x]) /\ tab[x].id \in Nat /\ tab[x].id <= requests
    BY <1>3, <1>4, <1>5, <2>2, <2>3, <2>4 DEF SegIds, RowShape
  <2>6. ASSUME NEW b \in calls', b.st = "sent", b.arg.op = "create", NEW x \in DOMAIN tab
        PROVE  tab[x].id # b.arg.id
    <3>1. b \in calls /\ b # c
      BY <1>3, <2>6 DEF Replaced
    <3>2. b.arg.id # c.arg.id
      BY <1>2, <1>4, <2>6, <3>1 DEF SegIds
    <3>3. QED
      BY <1>4, <2>2, <2>3, <2>4, <2>6, <3>1, <3>2 DEF SegIds
  <2>7. doubt \/ SegListed(calls', list, tab)
    <3>1. Unlisted(calls')
      BY <1>2, <1>3, <2>1 DEF Unlisted, Replaced
    <3>2. Stray(calls) => Stray(calls')
      BY <1>3 DEF Stray, Replaced
    <3>3. ASSUME Kept(calls, segs) PROVE Kept(calls', tab)
      <4> SUFFICES ASSUME NEW e \in calls', e.st = "applied", HereEdit(e), e.arg.seg \in DOMAIN tab,
                          tab[e.arg.seg].id = e.arg.id
                   PROVE  tab[e.arg.seg].name = e.arg.name
        BY DEF Kept
      <4>1. e \in calls /\ e.arg.op = "edit"
        BY <1>2, <1>3 DEF HereEdit, Replaced
      <4>2. e.arg.id # c.arg.id
        BY <1>2, <1>4, <4>1 DEF SegIds
      <4>3. e.arg.seg \in DOMAIN segs
        BY <2>2, <2>3, <4>2
      <4>4. QED
        BY <2>4, <3>3, <4>1, <4>3 DEF Kept
    <3>4. QED
      BY <3>1, <3>2, <3>3 DEF SegInv, SegListed
  <2>8. GoodTable(calls', d, tab, requests)
    BY <1>2, <1>3, <1>5, <2>2, <2>5, <2>6 DEF GoodTable
  <2>9. QED
    BY <1>1, <1>3, <2>1, <2>7, <2>8, SegAnswers
<1>8. QED
  BY <1>6, <1>7

LEMMA SegServesDelete ==
  ASSUME SegInv, NEW c \in calls, Seg!ServeDelete(c)
  PROVE  SegInv'
<1> DEFINE tab == [x \in DOMAIN segs \ {c.arg.seg} |-> segs[x]]
<1>1. PICK ok \in {c.arg.seg \in DOMAIN segs, FALSE} :
             /\ calls' = RQ!Served(calls, c, ok) /\ segs' = IF ok THEN tab ELSE segs
             /\ UNCHANGED <<list, doubt, requests>>
  BY SegOps DEF Seg!ServeDelete, Seg!Serve
<1>2. c.st = "sent" /\ c.arg.op = "delete"
  BY DEF Seg!ServeDelete
<1>3. PICK d : /\ Replaced(calls, calls', c, d) /\ d.arg = c.arg
               /\ d.st = IF ok THEN "applied" ELSE "refused"
  BY <1>1, <1>2, ServedReplaces DEF SegInv
<1>4. SegIds(calls, segs, requests)
  BY DEF SegInv
<1>5. ArgShape(d.arg) /\ d.arg.id \in Nat /\ d.arg.id <= requests
  BY <1>3, <1>4 DEF SegIds
<1>6. CASE ~ok
  BY <1>1, <1>3, <1>5, <1>6, SegRefuses
<1>7. CASE ok
  <2>1. segs' = tab /\ d.st = "applied"
    BY <1>1, <1>3, <1>7
  <2>2. DOMAIN tab \subseteq DOMAIN segs /\ tab = [x \in DOMAIN tab |-> tab[x]]
    OBVIOUS
  <2>3. \A x \in DOMAIN tab : tab[x] = segs[x]
    OBVIOUS
  <2> HIDE DEF tab
  <2>4. \A b \in calls' : b.st = "sent" => b \in calls
    BY <1>3 DEF Replaced
  <2>5. GoodTable(calls', d, tab, requests)
    BY <1>2, <1>3, <1>4, <1>5, <2>2, <2>3, <2>4 DEF GoodTable, SegIds
  <2>6. doubt \/ SegListed(calls', list, tab)
    <3>1. Unlisted(calls')
      BY <1>2, <1>3, <2>1 DEF Unlisted, Replaced
    <3>2. Stray(calls) => Stray(calls')
      BY <1>3 DEF Stray, Replaced
    <3>3. \A e \in calls' : HereEdit(e) /\ e.st = "applied" => e \in calls
      BY <1>2, <1>3 DEF HereEdit, Replaced
    <3>4. Kept(calls, segs) => Kept(calls', tab)
      BY <2>2, <2>3, <3>3 DEF Kept
    <3>5. QED
      BY <3>1, <3>2, <3>4 DEF SegInv, SegListed
  <2>7. QED
    BY <1>1, <1>3, <2>1, <2>5, <2>6, SegAnswers
<1>8. QED
  BY <1>6, <1>7

LEMMA SegServesUpdate ==
  ASSUME SegInv, NEW c \in calls, Seg!ServeUpdate(c)
  PROVE  SegInv'
<1> DEFINE s == c.arg.seg
           c2 == [c EXCEPT !.arg.id = segs[s].id]
           tab == [segs EXCEPT ![s].name = c.arg.name]
<1>1. c.st = "sent" /\ c.arg.op = "edit" /\ CallShape(c) /\ CallShapes(calls)
  BY DEF Seg!ServeUpdate, SegInv, CallShapes
<1>2. SegIds(calls, segs, requests)
  BY DEF SegInv
<1>3. ArgShape(c.arg) /\ c.arg.id \in Nat /\ c.arg.id <= requests
  BY <1>2 DEF SegIds
<1>4. CASE s \notin DOMAIN segs
  <2>1. PICK ok \in {c.arg.seg \in DOMAIN segs, FALSE} :
               calls' = RQ!Served(calls, c, ok) /\ UNCHANGED <<list, doubt, requests, segs>>
    BY <1>4, SegOps DEF Seg!ServeUpdate, Seg!Serve
  <2>2. PICK d : /\ Replaced(calls, calls', c, d) /\ d.arg = c.arg
                 /\ d.st = IF ok THEN "applied" ELSE "refused"
    BY <1>1, <2>1, ServedReplaces
  <2>3. d.st = "refused"
    BY <1>4, <2>1, <2>2
  <2>4. QED
    BY <1>3, <2>1, <2>2, <2>3, SegRefuses
<1>5. CASE s \in DOMAIN segs
  <2>1. PICK ok \in BOOLEAN :
               /\ calls' = RQ!Served(calls \ {c}, c2, ok) /\ segs' = IF ok THEN tab ELSE segs
               /\ UNCHANGED <<list, doubt, requests>>
    BY <1>5, SegOps DEF Seg!ServeUpdate
  <2>2. /\ c2.st = "sent" /\ c2.from = c.from /\ CallShape(c2)
        /\ ArgShape(c2.arg) /\ c2.arg.id = segs[s].id /\ c2.arg.op = "edit"
        /\ c2.arg.seg = s /\ c2.arg.name = c.arg.name
    BY <1>1, <1>3 DEF CallShape, ArgShape
  <2> DEFINE d == [c2 EXCEPT !.st = IF ok THEN "applied" ELSE "refused"]
  <2> HIDE DEF c2
  <2>3. /\ d.st = (IF ok THEN "applied" ELSE "refused") /\ d.from = c.from /\ d.arg = c2.arg
        /\ CallShape(d)
    BY <2>2 DEF CallShape
  <2>4. calls' = ((calls \ {c}) \ {c2}) \cup {d}
    BY <2>1 DEF RQ!Served
  <2> HIDE DEF d
  <2>5. Replaced(calls, calls', c, d)
    BY <1>1, <2>2, <2>3, <2>4 DEF Replaced
  <2>6. ArgShape(d.arg) /\ d.arg.id \in Nat /\ d.arg.id <= requests
    BY <1>2, <1>5, <2>2, <2>3 DEF SegIds
  <2>7. CASE ~ok
    BY <2>1, <2>3, <2>5, <2>6, <2>7, SegRefuses
  <2>8. CASE ok
    <3>1. segs' = tab /\ d.st = "applied"
      BY <2>1, <2>3, <2>8
    <3>2. /\ DOMAIN tab = DOMAIN segs /\ tab = [x \in DOMAIN segs |-> tab[x]]
          /\ \A x \in DOMAIN segs : tab[x] = IF x = s THEN [segs[s] EXCEPT !.name = c.arg.name] ELSE segs[x]
      BY <1>2 DEF SegIds
    <3> HIDE DEF tab
    <3>3. \A x \in DOMAIN segs : RowShape(segs[x])
      BY <1>2 DEF SegIds
    <3>4. \A x \in DOMAIN segs : RowShape(tab[x]) /\ tab[x].id = segs[x].id
      BY <3>2, <3>3 DEF RowShape
    <3>5. tab[s].name = c.arg.name
      BY <1>5, <3>2, <3>3 DEF RowShape
    <3>6. \A b \in calls' : b.st = "sent" => b \in calls
      BY <2>5 DEF Replaced
    <3>7. GoodTable(calls', d, tab, requests)
      BY <1>2, <1>5, <2>2, <2>3, <2>6, <3>2, <3>4, <3>6 DEF GoodTable, SegIds
    <3>8. doubt \/ SegListed(calls', list, tab)
      <4>1. CASE c.from # "here"
        BY <2>2, <2>3, <2>5, <3>1, <4>1 DEF SegListed, Stray, Replaced
      <4>2. CASE c.from = "here"
        <5>1. HereEdit(c) /\ HereEdit(d)
          BY <1>1, <2>2, <2>3, <4>2 DEF HereEdit
        <5>2. \A e \in calls : HereEdit(e) => e.st # "applied"
          BY <1>1, <5>1 DEF SegInv, OneEdit
        <5>3. \A e \in calls' : HereEdit(e) /\ e.st = "applied" => e = d
          BY <2>5, <5>2 DEF Replaced
        <5>4. Kept(calls', tab)
          BY <2>2, <2>3, <3>5, <5>3 DEF Kept
        <5>5. (Stray(calls) => Stray(calls')) /\ (Unlisted(calls) => Unlisted(calls'))
          BY <2>5 DEF Stray, Unlisted, Replaced
        <5>6. Renamed(segs, d.arg) = tab
          <6>1. Renamed(segs, d.arg) = [x \in DOMAIN segs |-> tab[x]]
            BY <2>2, <2>3, <3>2 DEF Renamed
          <6>2. QED
            BY <3>2, <6>1
        <5>7. d \in calls'
          BY <2>5 DEF Replaced
        <5>8. ASSUME NEW l, Leads(l, calls, segs) PROVE Leads(l, calls', tab)
          BY <3>1, <5>1, <5>2, <5>6, <5>7, <5>8 DEF Leads
        <5>9. SegCurrent(list, calls, segs) => SegCurrent(list, calls', tab)
          BY <5>8 DEF SegCurrent
        <5>10. QED
          BY <5>4, <5>5, <5>9 DEF SegInv, SegListed
      <4>3. QED
        BY <4>1, <4>2
    <3>9. QED
      BY <2>1, <2>5, <3>1, <3>7, <3>8, SegAnswers
  <2>9. QED
    BY <2>7, <2>8
<1>6. QED
  BY <1>4, <1>5

\* A reply ends its request.
LEMMA SegEnds ==
  ASSUME SegInv, NEW c \in calls
  PROVE  CallShapes(calls \ {c}) /\ SegIds(calls \ {c}, segs, requests) /\ OneEdit(calls \ {c})
<1>1. CallShapes(calls \ {c}) /\ OneEdit(calls \ {c})
  BY DEF SegInv, CallShapes, OneEdit
<1>2. SegIds(calls \ {c}, segs, requests)
  BY DEF SegInv, SegIds
<1>3. QED
  BY <1>1, <1>2

LEMMA SegCreateOrDeleteReplies ==
  ASSUME SegInv, NEW c \in calls, Seg!CreateOrDeleteReply(c)
  PROVE  SegInv'
<1>1. /\ c.arg.op # "edit" /\ calls' = calls \ {c} /\ UNCHANGED <<segs, requests>>
      /\ list' = IF open THEN RQ!Invalidate(list) ELSE list
      /\ doubt \/ ~open \/ RQ!FirstLoad(list) => doubt'
  BY SegOps DEF Seg!CreateOrDeleteReply, Seg!Settle
<1>2. Shape(list')
  BY <1>1, Invalidating DEF SegInv
<1>3. doubt' \/ SegListed(calls', list', segs')
  <2> SUFFICES ASSUME ~doubt' PROVE SegListed(calls', list', segs')
    OBVIOUS
  <2>1. list'.net = "sent"
    BY <1>1, Invalidating DEF SegInv
  <2>2. SegCurrent(list', calls', segs')
    BY <2>1 DEF SegCurrent
  <2>3. (Stray(calls) => Stray(calls')) /\ (Kept(calls, segs) => Kept(calls', segs'))
    BY <1>1 DEF Stray, Kept
  <2>4. QED
    BY <1>1, <2>2, <2>3 DEF SegInv, SegListed
<1>4. QED
  BY <1>1, <1>2, <1>3, SegEnds DEF SegInv

LEMMA SegUpdateReplies ==
  ASSUME SegInv, NEW c \in calls, Seg!UpdateReply(c)
  PROVE  SegInv'
<1> DEFINE t == list.data
<1>1. Shape(list)
  BY DEF SegInv
<1>2. /\ c.arg.op = "edit" /\ c.st = "applied" /\ calls' = calls \ {c} /\ UNCHANGED <<segs, requests>>
      /\ list' = IF t = NoData THEN list ELSE [list EXCEPT !.err = FALSE, !.data = Renamed(t, c.arg)]
      /\ doubt \/ ~Seg!Visible \/ list.net # "idle" \/ c.from # "here" => doubt'
  BY DEF Seg!UpdateReply, Seg!Settle, Seg!Succeeded, Renamed
<1>3. /\ Shape(list') /\ list'.net = list.net
      /\ t # NoData => list'.data = Renamed(t, c.arg)
  BY <1>1, <1>2 DEF Shape
<1>4. doubt' \/ SegListed(calls', list', segs')
  <2> SUFFICES ASSUME ~doubt' PROVE SegListed(calls', list', segs')
    OBVIOUS
  <2>1. Seg!Visible /\ t # NoData /\ list.net = "idle" /\ HereEdit(c) /\ ~doubt
    BY <1>2 DEF HereEdit, Seg!Visible, Seg!Shown
  <2>2. SegListed(calls, list, segs)
    BY <2>1 DEF SegInv
  <2>3. /\ Stray(calls) => Stray(calls')
        /\ Unlisted(calls) => Unlisted(calls')
        /\ Kept(calls, segs) => Kept(calls', segs')
    BY <1>2, <2>1 DEF Stray, Kept, Unlisted, HereEdit
  <2>4. ASSUME Kept(calls, segs), SegCurrent(list, calls, segs) PROVE SegCurrent(list', calls', segs')
    <3>1. Leads(t, calls, segs)
      BY <1>1, <2>1, <2>4 DEF SegCurrent, Seg!Visible, Seg!Shown
    <3>2. Renamed(t, c.arg) = segs
      <4>1. CASE t = segs
        <5>1. \A x \in DOMAIN segs : RowShape(segs[x])
          BY DEF SegInv, SegIds
        <5>2. segs = [x \in DOMAIN segs |-> segs[x]]
          BY DEF SegInv, SegIds
        <5>3. c.arg.seg \in DOMAIN segs /\ segs[c.arg.seg].id = c.arg.id
                => segs[c.arg.seg].name = c.arg.name
          BY <1>2, <2>1, <2>4 DEF Kept
        <5>4. QED
          BY <4>1, <5>1, <5>2, <5>3, RenamedKept
      <4>2. CASE \E e \in calls : e.st = "applied" /\ HereEdit(e) /\ Renamed(t, e.arg) = segs
        BY <2>1, <4>2 DEF SegInv, OneEdit
      <4>3. QED
        BY <3>1, <4>1, <4>2 DEF Leads
    <3>3. QED
      BY <1>2, <1>3, <2>1, <3>2 DEF SegCurrent, Leads
  <2>5. QED
    BY <2>2, <2>3, <2>4 DEF SegListed
<1>5. QED
  BY <1>2, <1>3, <1>4, SegEnds DEF SegInv

LEMMA SegErrorReplies ==
  ASSUME SegInv, NEW c \in calls, Seg!ErrorReply(c)
  PROVE  SegInv'
<1>1. /\ calls' = calls \ {c} /\ UNCHANGED <<segs, list, requests>>
      /\ doubt \/ c.st = "applied" => doubt'
  BY DEF Seg!ErrorReply, Seg!Succeeded
<1>2. doubt' \/ SegListed(calls', list, segs)
  <2> SUFFICES ASSUME ~doubt' PROVE SegListed(calls', list, segs)
    OBVIOUS
  <2>1. \A x : x.st = "applied" => (x \in calls <=> x \in calls')
    BY <1>1
  <2>2. QED
    BY <1>1, <2>1, SameListed DEF SegInv
<1>3. QED
  BY <1>1, <1>2, SegEnds DEF SegInv

\* The dialogs that own their mutation are unmounted with the page body, and
\* all of them with the page.
LEMMA SegDisowns ==
  ASSUME SegInv, NEW f \in {"page", "gone"}, UNCHANGED <<segs, doubt, requests>>, Shape(list'),
         NEW g, calls' = {g[c] : c \in calls}, \A c \in calls : g[c] \in {c, [c EXCEPT !.from = f]},
         \A d \in calls' : ~HereEdit(d),
         Current(list, segs) => Current(list', segs)
  PROVE  SegInv'
<1>1. CallShapes(calls) /\ SegIds(calls, segs, requests)
  BY DEF SegInv
<1>2. \A c \in calls : /\ g[c] \in calls' /\ g[c].st = c.st /\ g[c].arg = c.arg /\ CallShape(g[c])
                        /\ g[c].from \in {c.from, f}
  BY <1>1 DEF CallShapes, CallShape
<1>3. \A d \in calls' : \E c \in calls : d = g[c]
  OBVIOUS
<1>4. CallShapes(calls') /\ OneEdit(calls')
  BY <1>2, <1>3 DEF CallShapes, OneEdit
<1>5. SegIds(calls', segs, requests)
  BY <1>1, <1>2, <1>3 DEF SegIds
<1>6. SegListed(calls, list, segs) => SegListed(calls', list', segs)
  <2>1. ASSUME NEW c \in calls, c.st = "applied", c.arg.op = "edit" PROVE Stray(calls')
    <3>1. g[c] \in calls' /\ g[c].st = "applied" /\ g[c].arg.op = "edit" /\ ~HereEdit(g[c])
      BY <1>2, <2>1
    <3>2. QED
      BY <3>1 DEF Stray, HereEdit
  <2>2. Unlisted(calls) => Unlisted(calls')
    BY <1>2 DEF Unlisted
  <2>3. Kept(calls', segs)
    BY DEF Kept
  <2>4. ASSUME SegCurrent(list, calls, segs), ~Stray(calls') PROVE SegCurrent(list', calls', segs)
    <3>1. Current(list, segs)
      BY <2>1, <2>4 DEF SegCurrent, Leads, Current, HereEdit
    <3>2. QED
      BY <3>1 DEF SegCurrent, Leads, Current
  <2>5. Stray(calls) => Stray(calls')
    BY <2>1 DEF Stray
  <2>6. QED
    BY <2>2, <2>3, <2>4, <2>5 DEF SegListed
<1>7. QED
  BY <1>4, <1>5, <1>6 DEF SegInv

LEMMA SegStep == SegInv /\ Seg!SegNext => SegInv'
<1> SUFFICES ASSUME SegInv, Seg!SegNext PROVE SegInv'
  OBVIOUS
<1>0. Shape(list) /\ CallShapes(calls)
  BY DEF SegInv
<1>1. ASSUME UNCHANGED <<segs, list, calls, doubt, requests>> PROVE SegInv'
  BY <1>1 DEF SegInv
<1>2. ASSUME UNCHANGED <<segs, calls, doubt, requests>>, Shape(list'),
             SegCurrent(list, calls, segs) => SegCurrent(list', calls, segs)
      PROVE  SegInv'
  BY <1>2 DEF SegInv, SegListed
<1>3. ASSUME Seg!ServeList PROVE SegInv'
  <2>1. /\ UNCHANGED <<segs, calls, doubt, requests>>
        /\ \E v \in {segs, NoData} : list' = RQ!Answer(list, v)
    BY <1>3, SegOps DEF Seg!ServeList
  <2>2. Shape(list') /\ Current(list', segs)
    BY <1>0, <2>1, Answering
  <2>3. SegCurrent(list', calls, segs)
    BY <2>2 DEF SegCurrent, Leads, Current
  <2>4. QED
    BY <1>2, <2>1, <2>2, <2>3
<1>4. ASSUME Seg!Focus \/ Seg!Enter PROVE SegInv'
  <2>1. UNCHANGED <<segs, calls, doubt, requests>> /\ list' = RQ!Fetch(list)
    BY <1>4, SegOps DEF Seg!Focus, Seg!Enter
  <2>2. Shape(list')
    BY <1>0, <2>1, Fetching
  <2>3. SegCurrent(list, calls, segs) => SegCurrent(list', calls, segs)
    BY <1>0, <2>1 DEF SegCurrent, RQ!Fetch, RQ!Start, Shape
  <2>4. QED
    BY <1>2, <2>1, <2>2, <2>3
<1>5. ASSUME Seg!ListArrives PROVE SegInv'
  <2>1. /\ list.net = "answered" /\ list' = RQ!Arrive(list) /\ UNCHANGED <<segs, doubt, requests>>
        /\ calls' = {IF ~Seg!Shown(list') /\ c.arg.op # "delete" /\ c.from = "here"
                     THEN [c EXCEPT !.from = "page"] ELSE c : c \in calls}
    BY <1>5, SegOps DEF Seg!ListArrives
  <2>2. Shape(list') /\ (Current(list, segs) => Current(list', segs))
    BY <1>0, <2>1, Arriving
  <2>3. CASE Seg!Shown(list')
    <3>1. calls' = calls
      BY <2>1, <2>3
    <3>2. SegCurrent(list, calls, segs) => SegCurrent(list', calls, segs)
      BY <1>0, <2>1, <2>3 DEF SegCurrent, RQ!Arrive, Shape, Seg!Shown
    <3>3. QED
      BY <1>2, <2>1, <2>2, <3>1, <3>2
  <2>4. CASE ~Seg!Shown(list')
    <3> DEFINE g == [c \in calls |-> IF c.arg.op # "delete" /\ c.from = "here"
                                      THEN [c EXCEPT !.from = "page"] ELSE c]
    <3>1. /\ calls' = {g[c] : c \in calls}
          /\ \A c \in calls : g[c] \in {c, [c EXCEPT !.from = "page"]}
      BY <2>1, <2>4
    <3>2. \A c \in calls : ~HereEdit(g[c])
      BY <1>0 DEF HereEdit, CallShapes, CallShape
    <3> HIDE DEF g
    <3>3. \A d \in calls' : ~HereEdit(d)
      BY <3>1, <3>2
    <3>4. QED
      BY <2>1, <2>2, <3>1, <3>3, SegDisowns
  <2>5. QED
    BY <2>3, <2>4
<1>6. ASSUME Seg!Leave PROVE SegInv'
  <2> DEFINE g == [c \in calls |-> [c EXCEPT !.from = "gone"]]
  <2>1. /\ UNCHANGED <<segs, list, doubt, requests>>
        /\ calls' = {g[c] : c \in calls} /\ \A c \in calls : g[c] \in {c, [c EXCEPT !.from = "gone"]}
    BY <1>6 DEF Seg!Leave, Seg!Unmounted
  <2>2. \A c \in calls : ~HereEdit(g[c])
    BY <1>0 DEF HereEdit, CallShapes, CallShape
  <2> HIDE DEF g
  <2>3. \A d \in calls' : ~HereEdit(d)
    BY <2>1, <2>2
  <2>4. QED
    BY <1>0, <2>1, <2>3, SegDisowns
<1>7. ASSUME Seg!OpenCreate \/ Seg!CloseDialog \/ \E s \in Slugs : Seg!OpenEdit(s) \/ Seg!OpenDelete(s)
      PROVE  SegInv'
  BY <1>1, <1>7 DEF Seg!OpenCreate, Seg!CloseDialog, Seg!OpenEdit, Seg!OpenDelete
<1>8. ASSUME \/ Seg!ConfirmDelete
             \/ \E s \in Slugs, n \in Names : Seg!SubmitCreate(s, n)
             \/ \E n \in Names : Seg!SubmitEdit(n)
      PROVE  SegInv'
  BY <1>8, SegSubmits DEF Seg!ConfirmDelete, Seg!SubmitCreate, Seg!SubmitEdit
<1>9. QED
  BY <1>3, <1>4, <1>5, <1>6, <1>7, <1>8, SegServesCreate, SegServesUpdate, SegServesDelete,
     SegCreateOrDeleteReplies, SegUpdateReplies, SegErrorReplies
     DEF Seg!SegNext

\* At rest the segments page lists exactly the segments there are, by name, for
\* any number of segments and requests, provided no success was lost or came
\* when it could not take effect (segments.tsx 53-57, 105-127).
THEOREM SegmentsShown == Spec => []SegmentListAtRest
<1> DEFINE Inv == page = "segments" => SegInv
<1>1. Init => Inv
  BY SegInitially DEF Init
<1>2. Inv /\ [Next]_<<page, calls, asked, segOnly, memOnly, apiOnly, mbrOnly>> => Inv'
  <2> SUFFICES ASSUME Inv, [Next]_<<page, calls, asked, segOnly, memOnly, apiOnly, mbrOnly>>,
                      page' = "segments"
               PROVE  SegInv'
    OBVIOUS
  <2>1. CASE Next
    <3>1. SegInv /\ Seg!SegNext
      BY <2>1 DEF Next
    <3>2. QED
      BY <3>1, SegStep
  <2>2. CASE UNCHANGED <<page, calls, asked, segOnly, memOnly, apiOnly, mbrOnly>>
    BY <2>2 DEF segOnly, SegInv
  <2>3. QED
    BY <2>1, <2>2
<1>3. Inv => SegmentListAtRest
  BY DEF SegmentListAtRest, Seg!ListAtRest, Seg!Visible, Seg!Shown, SegInv, SegListed, Stray, Unlisted,
         SegCurrent, Leads
<1>4. QED
  BY <1>1, <1>2, <1>3, PTL DEF Spec

-----------------------------------------------------------------------------
(***************************************************************************)
(* WebSegmentMembers. As long as no save failed, overlapped another one or  *)
(* was answered elsewhere, there is at most one; the list of a segment is   *)
(* current unless a save of it has been applied; and the dialog's copy is   *)
(* the list whenever the list is what is stored, or will be by the save on  *)
(* its way.                                                                 *)
(***************************************************************************)
SaveShape(c) ==
  /\ CallShape(c) /\ DOMAIN c.arg = {"seg", "keys", "key"}
  /\ c.arg.seg \in Segments /\ c.arg.seg # NoData

\* If the list q is to be v, so is the copy m.
Copied(q, m, v) == q.data # NoData /\ v = q.data => m = q.data

MemCopy ==
  body /\ managing # NoData =>
    /\ \A c \in saves : c.arg.seg = managing => Copied(fetched[managing], members, c.arg.keys)
    /\ (\A c \in saves : c.arg.seg # managing)
         => Copied(fetched[managing], members, stored[managing])

MemLists ==
  \A s \in Segments : \/ \E c \in saves : c.st = "applied" /\ c.arg.seg = s
                      \/ Current(fetched[s], stored[s])

MemSaves ==
  /\ \A c, d \in saves : c = d
  /\ \A c \in saves : c.st = "applied" => stored[c.arg.seg] = c.arg.keys

MemShapes ==
  /\ DOMAIN stored = Segments /\ DOMAIN fetched = Segments
  /\ managing \in Segments \cup {NoData}
  /\ \A s \in Segments : Shape(fetched[s])
  /\ \A c \in saves : SaveShape(c) /\ fetched[c.arg.seg].data # NoData

MemInv == MemShapes /\ (unsure \/ (MemSaves /\ MemLists /\ MemCopy))

LEMMA MemOps ==
  /\ \A q : /\ Mem!Fetch(q) = RQ!Fetch(q) /\ Mem!Invalidate(q) = RQ!Invalidate(q)
            /\ Mem!Arrive(q) = RQ!Arrive(q) /\ Mem!Start(q) = RQ!Start(q)
            /\ Mem!FirstLoad(q) <=> RQ!FirstLoad(q)
            /\ \A v : Mem!Answer(q, v) = RQ!Answer(q, v)
  /\ \A cs, c, ok : Mem!Served(cs, c, ok) = RQ!Served(cs, c, ok)
  /\ \A n, a : Mem!Sent(n, a) = RQ!Sent(n, a)
  /\ Mem!NoQuery = RQ!NoQuery
BY DEF Mem!Start, RQ!Start, Mem!Fetch, RQ!Fetch, Mem!Invalidate, RQ!Invalidate, Mem!FirstLoad,
       RQ!FirstLoad, Mem!Arrive, RQ!Arrive, Mem!Answer, RQ!Answer, Mem!Served, RQ!Served,
       Mem!Sent, RQ!Sent, Mem!NoQuery, RQ!NoQuery

LEMMA MemInitially == Mem!Init => MemInv
<1> SUFFICES ASSUME Mem!Init PROVE MemInv
  OBVIOUS
<1>1. /\ stored = [s \in Segments |-> {}] /\ fetched = [s \in Segments |-> RQ!NoQuery]
      /\ managing = NoData /\ saves = {}
  BY MemOps DEF Mem!Init
<1>2. \A s \in Segments : Shape(fetched[s]) /\ Current(fetched[s], stored[s])
  BY <1>1, Initially
<1>3. QED
  BY <1>1, <1>2 DEF MemInv, MemShapes, MemSaves, MemLists, MemCopy

\* The same save, for the callbacks of another render or disowned.
SameSave(d, c) ==
  /\ d.st = c.st /\ d.arg.seg = c.arg.seg /\ d.arg.keys = c.arg.keys
  /\ CallShape(d) /\ DOMAIN d.arg = {"seg", "keys", "key"}

\* Steps that neither send nor serve nor end a save.
LEMMA MemFrame ==
  ASSUME MemInv, UNCHANGED <<stored, unsure>>, managing' \in Segments \cup {NoData},
         DOMAIN fetched' = Segments,
         \A s \in Segments : /\ Shape(fetched'[s])
                             /\ fetched[s].data # NoData => fetched'[s].data # NoData
                             /\ Current(fetched[s], stored[s]) => Current(fetched'[s], stored[s]),
         NEW g, saves' = {g[c] : c \in saves}, \A c \in saves : SameSave(g[c], c),
         MemSaves /\ MemCopy => MemCopy'
  PROVE  MemInv'
<1>1. (\A d \in saves' : \E c \in saves : d = g[c]) /\ (\A c \in saves : g[c] \in saves')
  OBVIOUS
<1>2. MemShapes'
  BY <1>1 DEF MemInv, MemShapes, SaveShape, SameSave
<1>3. MemSaves => MemSaves'
  BY <1>1 DEF MemSaves, SameSave
<1>4. MemLists => MemLists'
  BY <1>1 DEF MemLists, SameSave
<1>5. QED
  BY <1>2, <1>3, <1>4 DEF MemInv

\* Of these, the ones that leave the saves alone and change one list at most.
LEMMA MemFetches ==
  ASSUME MemInv, UNCHANGED <<stored, unsure, saves>>, managing' = managing,
         NEW s \in Segments, NEW q, fetched' = [fetched EXCEPT ![s] = q], Shape(q),
         fetched[s].data # NoData => q.data # NoData,
         Current(fetched[s], stored[s]) => Current(q, stored[s]),
         MemSaves /\ MemCopy => MemCopy'
  PROVE  MemInv'
<1> DEFINE g == [c \in saves |-> c]
<1>1. saves' = {g[c] : c \in saves} /\ \A c \in saves : SameSave(g[c], c)
  BY DEF MemInv, MemShapes, SaveShape, SameSave
<1>2. DOMAIN fetched' = Segments /\ fetched'[s] = q /\ \A r \in Segments : r # s => fetched'[r] = fetched[r]
  BY DEF MemInv, MemShapes
<1>3. \A r \in Segments : /\ Shape(fetched'[r])
                          /\ fetched[r].data # NoData => fetched'[r].data # NoData
                          /\ Current(fetched[r], stored[r]) => Current(fetched'[r], stored[r])
  BY <1>2 DEF MemInv, MemShapes
<1>4. managing' \in Segments \cup {NoData}
  BY DEF MemInv, MemShapes
<1> HIDE DEF g
<1>5. QED
  BY <1>1, <1>2, <1>3, <1>4, MemFrame

LEMMA MemRekeys ==
  ASSUME MemInv, NEW k
  PROVE  \E g : Mem!Rekey(k) = {g[c] : c \in saves} /\ \A c \in saves : SameSave(g[c], c)
<1> DEFINE g == [c \in saves |-> IF Mem!Latest(c) THEN [c EXCEPT !.arg.key = k] ELSE c]
<1>1. Mem!Rekey(k) = {g[c] : c \in saves}
  BY DEF Mem!Rekey
<1>2. ASSUME NEW c \in saves PROVE SameSave(g[c], c)
  <2>1. SaveShape(c)
    BY DEF MemInv, MemShapes
  <2>2. SameSave(c, c) /\ SameSave([c EXCEPT !.arg.key = k], c)
    BY <2>1 DEF SaveShape, CallShape, SameSave
  <2>3. QED
    BY <2>2
<1> HIDE DEF g
<1>3. QED
  BY <1>1, <1>2

LEMMA MemOpens ==
  ASSUME MemInv, NEW s \in Segments, Mem!OpenMembers(s)
  PROVE  MemInv'
<1>1. /\ body /\ managing' = s /\ fetched' = [fetched EXCEPT ![s] = RQ!Fetch(fetched[s])]
      /\ members' = (IF fetched[s].data = NoData THEN {} ELSE fetched[s].data)
      /\ saves' = Mem!Rekey(s) /\ UNCHANGED <<stored, body, unsure>>
  BY MemOps DEF Mem!OpenMembers, Mem!Loaded
<1>2. PICK g : saves' = {g[c] : c \in saves} /\ \A c \in saves : SameSave(g[c], c)
  BY <1>1, MemRekeys
<1>3. DOMAIN fetched = Segments /\ \A r \in Segments : Shape(fetched[r])
  BY DEF MemInv, MemShapes
<1>4. /\ DOMAIN fetched' = Segments /\ fetched'[s] = RQ!Fetch(fetched[s])
      /\ \A r \in Segments : r # s => fetched'[r] = fetched[r]
  BY <1>1, <1>3
<1>5. \A r \in Segments : /\ Shape(fetched'[r]) /\ fetched'[r].data = fetched[r].data
                          /\ Current(fetched[r], stored[r]) => Current(fetched'[r], stored[r])
  BY <1>3, <1>4, Fetching
<1>6. MemCopy'
  BY <1>1, <1>5 DEF MemCopy, Copied
<1>7. QED
  BY <1>1, <1>2, <1>4, <1>5, <1>6, MemFrame

LEMMA MemCloses ==
  ASSUME MemInv, Mem!CloseMembers \/ Mem!BodyFails
  PROVE  MemInv'
<1>1. PICK g : saves' = {g[c] : c \in saves} /\ \A c \in saves : SameSave(g[c], c)
  <2>1. CASE Mem!CloseMembers
    <3>1. saves' = Mem!Rekey(NoData)
      BY <2>1 DEF Mem!CloseMembers
    <3>2. QED
      BY <3>1, MemRekeys
  <2>2. CASE Mem!BodyFails
    <3> DEFINE g == [c \in saves |-> [c EXCEPT !.from = "gone"]]
    <3>1. saves' = {g[c] : c \in saves}
      BY <2>2 DEF Mem!BodyFails, Mem!Unmounted
    <3>2. \A c \in saves : SameSave(g[c], c)
      BY DEF MemInv, MemShapes, SaveShape, CallShape, SameSave
    <3> HIDE DEF g
    <3>3. QED
      BY <3>1, <3>2
  <2>3. QED
    BY <2>1, <2>2
<1>2. /\ UNCHANGED <<stored, fetched, unsure>> /\ managing' \in {managing, NoData}
      /\ ~body' \/ managing' = NoData
  BY DEF Mem!CloseMembers, Mem!BodyFails
<1>3. MemCopy'
  BY <1>2 DEF MemCopy
<1>4. QED
  BY <1>1, <1>2, <1>3, MemFrame DEF MemInv, MemShapes

LEMMA MemArrives ==
  ASSUME MemInv, NEW s \in Segments, Mem!MembersArrive(s)
  PROVE  MemInv'
<1> DEFINE q == RQ!Arrive(fetched[s])
<1>1. /\ fetched[s].net = "answered" /\ fetched' = [fetched EXCEPT ![s] = q]
      /\ members' = (IF body /\ managing = s /\ fetched'[s].data # fetched[s].data
                     THEN fetched'[s].data ELSE members)
      /\ UNCHANGED <<stored, body, managing, saves, unsure>>
  BY MemOps DEF Mem!MembersArrive, Mem!Enabled
<1>2. DOMAIN fetched = Segments /\ Shape(fetched[s])
  BY DEF MemInv, MemShapes
<1>3. /\ Shape(q)
      /\ fetched[s].data # NoData => q.data # NoData
      /\ Current(fetched[s], stored[s]) => Current(q, stored[s])
  BY <1>1, <1>2, Arriving
<1> HIDE DEF q
<1>4. fetched'[s] = q /\ \A r \in Segments : r # s => fetched'[r] = fetched[r]
  BY <1>1, <1>2
<1>5. managing \in Segments \cup {NoData}
  BY DEF MemInv, MemShapes
<1>6. MemCopy => MemCopy'
  <2>1. CASE managing = s
    BY <1>1, <1>4, <2>1 DEF MemCopy, Copied
  <2>2. CASE managing # s
    BY <1>1, <1>4, <1>5, <2>2 DEF MemCopy
  <2>3. QED
    BY <2>1, <2>2
<1>7. QED
  BY <1>1, <1>3, <1>6, MemFetches

\* A list is read, or asked for again: its data stays.
LEMMA MemReads ==
  ASSUME MemInv, UNCHANGED <<stored, unsure, saves, managing>>,
         NEW s \in Segments, NEW q, fetched' = [fetched EXCEPT ![s] = q], Shape(q),
         q.data = fetched[s].data, Current(fetched[s], stored[s]) => Current(q, stored[s]),
         \/ body' = body /\ members' = members
         \/ managing = s /\ members' = IF fetched[s].data = NoData THEN {} ELSE fetched[s].data
  PROVE  MemInv'
<1>1. /\ DOMAIN fetched = Segments /\ managing \in Segments \cup {NoData}
  BY DEF MemInv, MemShapes
<1>2. \A r \in Segments : fetched'[r].data = fetched[r].data
  BY <1>1
<1>3. MemCopy => MemCopy'
  BY <1>1, <1>2 DEF MemCopy, Copied
<1>4. QED
  BY <1>3, MemFetches

LEMMA MemSends ==
  ASSUME MemInv, NEW next, Mem!MembersShown, Mem!Save(next)
  PROVE  MemInv'
<1> DEFINE a == [seg |-> managing, keys |-> next, key |-> managing]
           c == RQ!Sent(sent + 1, a)
<1>1. /\ members' = next /\ saves' = saves \cup {c} /\ UNCHANGED <<stored, fetched, body, managing>>
      /\ unsure \/ saves # {} => unsure'
  BY MemOps DEF Mem!Save
<1>2. managing \in Segments /\ managing # NoData /\ fetched[managing].data # NoData
  BY DEF Mem!MembersShown, Mem!Shown, MemInv, MemShapes
<1>3. /\ SaveShape(c) /\ c.st = "sent" /\ c.arg.seg = managing /\ c.arg.keys = next
  BY <1>2 DEF SaveShape, CallShape, RQ!Sent
<1> HIDE DEF c
<1>4. MemShapes'
  BY <1>1, <1>2, <1>3 DEF MemInv, MemShapes
<1>5. ASSUME ~unsure' PROVE MemSaves' /\ MemLists' /\ MemCopy'
  <2>1. saves = {} /\ saves' = {c} /\ MemLists
    BY <1>1, <1>5 DEF MemInv
  <2>2. MemSaves'
    BY <1>3, <2>1 DEF MemSaves
  <2>3. MemLists'
    BY <1>1, <2>1 DEF MemLists
  <2>4. MemCopy'
    BY <1>1, <1>3, <2>1 DEF MemCopy, Copied
  <2>5. QED
    BY <2>2, <2>3, <2>4
<1>6. QED
  BY <1>4, <1>5 DEF MemInv

LEMMA MemServes ==
  ASSUME MemInv, NEW c \in saves, Mem!ServeSave(c)
  PROVE  MemInv'
<1>1. PICK ok \in BOOLEAN :
             /\ saves' = RQ!Served(saves, c, ok)
             /\ stored' = IF ok THEN [stored EXCEPT ![c.arg.seg] = c.arg.keys] ELSE stored
  BY MemOps DEF Mem!ServeSave
<1>2. c.st = "sent" /\ UNCHANGED <<fetched, body, managing, members, unsure>>
  BY DEF Mem!ServeSave
<1>3. SaveShape(c) /\ fetched[c.arg.seg].data # NoData /\ CallShapes(saves)
  BY DEF MemInv, MemShapes, SaveShape, CallShapes
<1> DEFINE d == [c EXCEPT !.st = IF ok THEN "applied" ELSE "refused"]
<1>4. d.st = (IF ok THEN "applied" ELSE "refused") /\ d.arg = c.arg /\ SaveShape(d)
  BY <1>3 DEF SaveShape, CallShape
<1>5. saves' = (saves \ {c}) \cup {d}
  BY <1>1 DEF RQ!Served
<1> HIDE DEF d
<1>6. /\ DOMAIN stored = Segments /\ DOMAIN stored' = Segments
      /\ \A s \in Segments : s # c.arg.seg => stored'[s] = stored[s]
      /\ ok => stored'[c.arg.seg] = c.arg.keys
      /\ ~ok => stored' = stored
  BY <1>1, <1>3 DEF MemInv, MemShapes, SaveShape
<1>7. MemShapes'
  BY <1>2, <1>3, <1>4, <1>5, <1>6 DEF MemInv, MemShapes
<1>8. ASSUME ~unsure PROVE MemSaves' /\ MemLists' /\ MemCopy'
  <2>1. MemSaves /\ MemLists /\ MemCopy
    BY <1>8 DEF MemInv
  <2>2. saves' = {d} /\ saves = {c}
    BY <1>5, <2>1 DEF MemSaves
  <2>3. MemSaves'
    BY <1>4, <1>6, <2>2 DEF MemSaves
  <2>4. MemLists'
    <3>1. \A s \in Segments : Current(fetched[s], stored[s])
      BY <1>2, <2>1, <2>2 DEF MemLists
    <3>2. CASE ok
      <4>1. d.st = "applied" /\ d.arg.seg = c.arg.seg
        BY <1>4, <3>2
      <4>2. QED
        BY <1>2, <1>6, <2>2, <3>1, <4>1 DEF MemLists
    <3>3. CASE ~ok
      BY <1>2, <1>6, <3>1, <3>3 DEF MemLists
    <3>4. QED
      BY <3>2, <3>3
  <2>5. MemCopy'
    <3>1. managing \in Segments \cup {NoData}
      BY DEF MemInv, MemShapes
    <3>2. QED
      BY <1>2, <1>4, <1>6, <2>1, <2>2, <3>1 DEF MemCopy
  <2>6. QED
    BY <2>3, <2>4, <2>5
<1>9. QED
  BY <1>2, <1>7, <1>8 DEF MemInv

LEMMA MemReplies ==
  ASSUME MemInv, NEW c \in saves, Mem!SaveReply(c)
  PROVE  MemInv'
<1> DEFINE s == c.arg.seg
<1>1. /\ c.st = "applied" /\ saves' = saves \ {c} /\ UNCHANGED <<stored, body, managing, members>>
      /\ fetched' = (IF c.arg.key # NoData /\ body /\ managing = c.arg.key
                     THEN [fetched EXCEPT ![c.arg.key] = RQ!Invalidate(fetched[c.arg.key])] ELSE fetched)
      /\ unsure \/ ~(body /\ managing = s) \/ c.arg.key # s => unsure'
  BY MemOps DEF Mem!SaveReply, Mem!Succeeded, Mem!Enabled
<1>2. /\ SaveShape(c) /\ s \in Segments /\ s # NoData /\ fetched[s].data # NoData
      /\ DOMAIN fetched = Segments /\ managing \in Segments \cup {NoData}
      /\ \A r \in Segments : Shape(fetched[r])
  BY DEF MemInv, MemShapes, SaveShape
<1>3. DOMAIN fetched' = Segments /\ \A r \in Segments : Shape(fetched'[r]) /\ fetched'[r].data = fetched[r].data
  BY <1>1, <1>2, Invalidating
<1>4. MemShapes'
  BY <1>1, <1>3 DEF MemInv, MemShapes, SaveShape
<1>5. ASSUME ~unsure' PROVE MemSaves' /\ MemLists' /\ MemCopy'
  <2>1. MemSaves /\ MemLists /\ MemCopy /\ body /\ managing = s /\ c.arg.key = s
    BY <1>1, <1>5 DEF MemInv
  <2>2. saves = {c} /\ saves' = {} /\ stored[s] = c.arg.keys
    BY <1>1, <2>1 DEF MemSaves
  <2>3. fetched' = [fetched EXCEPT ![s] = RQ!Invalidate(fetched[s])]
    BY <1>1, <1>2, <2>1
  <2>4. Current(fetched'[s], stored[s]) /\ \A r \in Segments : r # s => fetched'[r] = fetched[r]
    BY <1>2, <2>3, Invalidating
  <2>5. MemLists'
    BY <1>1, <2>1, <2>2, <2>4 DEF MemLists
  <2>6. MemCopy'
    BY <1>1, <1>2, <1>3, <2>1, <2>2 DEF MemCopy, Copied
  <2>7. QED
    BY <2>2, <2>5, <2>6 DEF MemSaves
<1>6. QED
  BY <1>4, <1>5 DEF MemInv

LEMMA MemStep == MemInv /\ Mem!MemNext => MemInv'
<1> SUFFICES ASSUME MemInv, Mem!MemNext PROVE MemInv'
  OBVIOUS
<1>0. \A s \in Segments : Shape(fetched[s])
  BY DEF MemInv, MemShapes
<1>1. ASSUME UNCHANGED <<stored, fetched, body, managing, members, saves, unsure>> PROVE MemInv'
  BY <1>1 DEF MemInv, MemShapes, MemSaves, MemLists, MemCopy
<1>2. ASSUME NEW s \in Segments, Mem!ServeMembers(s) PROVE MemInv'
  <2>1. PICK v \in {stored[s], NoData} : fetched' = [fetched EXCEPT ![s] = RQ!Answer(fetched[s], v)]
    BY <1>2, MemOps DEF Mem!ServeMembers
  <2>2. UNCHANGED <<stored, body, managing, members, saves, unsure>>
    BY <1>2 DEF Mem!ServeMembers
  <2> DEFINE q == RQ!Answer(fetched[s], v)
  <2>3. Shape(q) /\ q.data = fetched[s].data /\ Current(q, stored[s])
    BY <1>0, Answering
  <2> HIDE DEF q
  <2>4. QED
    BY <2>1, <2>2, <2>3, MemReads DEF q
<1>3. ASSUME Mem!Focus PROVE MemInv'
  <2>1. /\ managing # NoData /\ fetched' = [fetched EXCEPT ![managing] = RQ!Fetch(fetched[managing])]
        /\ UNCHANGED <<stored, body, managing, members, saves, unsure>>
    BY <1>3, MemOps DEF Mem!Focus
  <2>2. managing \in Segments
    BY <2>1 DEF MemInv, MemShapes
  <2>3. /\ Shape(RQ!Fetch(fetched[managing])) /\ RQ!Fetch(fetched[managing]).data = fetched[managing].data
        /\ Current(fetched[managing], stored[managing]) => Current(RQ!Fetch(fetched[managing]), stored[managing])
    BY <1>0, <2>2, Fetching
  <2>4. QED
    BY <2>1, <2>2, <2>3, MemReads
<1>4. ASSUME Mem!BodyRecovers PROVE MemInv'
  <2>1. UNCHANGED <<stored, managing, saves, unsure>>
    BY <1>4 DEF Mem!BodyRecovers
  <2>2. CASE managing = NoData
    <3>1. UNCHANGED <<fetched, members>>
      BY <1>4, <2>2 DEF Mem!BodyRecovers
    <3>2. QED
      BY <2>1, <2>2, <3>1 DEF MemInv, MemShapes, MemSaves, MemLists, MemCopy
  <2>3. CASE managing # NoData
    <3>1. /\ fetched' = [fetched EXCEPT ![managing] = RQ!Fetch(fetched[managing])]
          /\ members' = IF fetched[managing].data = NoData THEN {} ELSE fetched[managing].data
      BY <1>4, <2>3, MemOps DEF Mem!BodyRecovers, Mem!Loaded
    <3>2. managing \in Segments
      BY <2>3 DEF MemInv, MemShapes
    <3>3. /\ Shape(RQ!Fetch(fetched[managing])) /\ RQ!Fetch(fetched[managing]).data = fetched[managing].data
          /\ Current(fetched[managing], stored[managing]) => Current(RQ!Fetch(fetched[managing]), stored[managing])
      BY <1>0, <3>2, Fetching
    <3>4. QED
      BY <2>1, <3>1, <3>2, <3>3, MemReads
  <2>4. QED
    BY <2>2, <2>3
<1>5. ASSUME NEW c \in saves, Mem!SaveFails(c) PROVE MemInv'
  <2>1. unsure' /\ saves' = saves \ {c} /\ UNCHANGED <<stored, fetched, managing>>
    BY <1>5 DEF Mem!SaveFails
  <2>2. QED
    BY <2>1 DEF MemInv, MemShapes
<1>6. ASSUME \/ Mem!ApplyBulk
             \/ \E k \in UserKeys : Mem!AddMember(k) \/ Mem!RemoveMember(k)
      PROVE  MemInv'
  BY <1>6, MemSends DEF Mem!ApplyBulk, Mem!AddMember, Mem!RemoveMember
<1>7. ASSUME Mem!ToggleBulk \/ \E t \in SUBSET UserKeys : Mem!TypeBulk(t) PROVE MemInv'
  BY <1>1, <1>7 DEF Mem!ToggleBulk, Mem!TypeBulk
<1>8. QED
  BY <1>2, <1>3, <1>4, <1>5, <1>6, <1>7, MemOpens, MemCloses, MemArrives, MemServes, MemReplies
     DEF Mem!MemNext

\* At rest the members dialog shows the stored members of its segment, after any
\* mixture of single and bulk edits, refreshes and reopenings, if no save failed
\* or overlapped another one and each was answered on its segment
\* (segments.tsx 507-571).
THEOREM SegmentMembersShown == Spec => []SegmentMembersAtRest
<1> DEFINE Inv == page = "segment members" => MemInv
<1>1. Init => Inv
  BY MemInitially DEF Init
<1>2. Inv /\ [Next]_<<page, calls, asked, segOnly, memOnly, apiOnly, mbrOnly>> => Inv'
  <2> SUFFICES ASSUME Inv, [Next]_<<page, calls, asked, segOnly, memOnly, apiOnly, mbrOnly>>,
                      page' = "segment members"
               PROVE  MemInv'
    OBVIOUS
  <2>1. CASE Next
    <3>1. MemInv /\ Mem!MemNext
      BY <2>1 DEF Next
    <3>2. QED
      BY <3>1, MemStep
  <2>2. CASE UNCHANGED <<page, calls, asked, segOnly, memOnly, apiOnly, mbrOnly>>
    BY <2>2 DEF memOnly, MemInv, MemShapes, MemSaves, MemLists, MemCopy
  <2>3. QED
    BY <2>1, <2>2
<1>3. Inv => SegmentMembersAtRest
  <2> SUFFICES ASSUME MemInv, Mem!MembersShown, ~unsure, fetched[managing].net = "idle", saves = {}
               PROVE  members = stored[managing]
    BY DEF SegmentMembersAtRest, Mem!MembersAtRest
  <2>1. managing \in Segments /\ body /\ managing # NoData /\ fetched[managing].data # NoData /\ ~fetched[managing].err
    BY DEF Mem!MembersShown, Mem!Shown, MemInv, MemShapes
  <2>2. fetched[managing].data = stored[managing]
    BY <2>1 DEF MemInv, MemLists, Current
  <2>3. QED
    BY <2>1, <2>2 DEF MemInv, MemCopy, Copied
<1>4. QED
  BY <1>1, <1>2, <1>3, PTL DEF Spec

-----------------------------------------------------------------------------
(***************************************************************************)
(* WebApiKeys. The list of an environment is behind while a change of one   *)
(* of its keys is unanswered, and while the dialog shows a new key of it:   *)
(* the list is asked for when that is closed. The cards of an environment   *)
(* are of its own keys, so a change of tier asks for the right list; and    *)
(* there is no second creation while a new key is shown, which would forget *)
(* the first one.                                                           *)
(***************************************************************************)
KeyArg(a) ==
  /\ DOMAIN a = {"op", "key", "env", "tier"} /\ a.op \in {"create", "revoke", "tier"}
  /\ a.op = "create" => a.key \in KeyIds /\ a.env \in Envs

KeyCalls(cs, iss) ==
  /\ \A c \in cs : /\ CallShape(c) /\ KeyArg(c.arg) /\ c.from \in {"here", "gone"}
                   /\ c.arg.op # "create" => c.arg.key \in DOMAIN iss
                   /\ c.arg.op = "tier" => iss[c.arg.key].env = c.arg.env
                   /\ c.arg.op = "create" /\ c.st = "sent" => c.arg.key \notin DOMAIN iss
  /\ \A c, d \in cs : c.arg.op = "create" /\ d.arg.op = "create" =>
       /\ c.st = "sent" /\ d.st = "sent" /\ c.arg.key = d.arg.key => c = d
       /\ c.from = "here" /\ d.from = "here" => c = d

\* The keys on display, or about to be, are of the environment.
Placed(q, e, iss) ==
  /\ q.data # NoData => \A k \in DOMAIN q.data : k \in DOMAIN iss /\ iss[k].env = e
  /\ q.snap # NoData => \A k \in DOMAIN q.snap : k \in DOMAIN iss /\ iss[k].env = e

KeyList(iss, e) ==
  [k \in {x \in DOMAIN iss : ~iss[x].revoked /\ iss[x].env = e} |-> iss[k].tier]

\* A change of a key of e has been applied and is unanswered.
Due(cs, iss, e) ==
  \E c \in cs : /\ c.st = "applied"
                /\ IF c.arg.op = "create" THEN c.arg.env = e ELSE iss[c.arg.key].env = e

ApiShapes ==
  /\ KeyCalls(calls, issued)
  /\ \A k \in DOMAIN issued : DOMAIN issued[k] = {"env", "tier", "revoked"}
  /\ DOMAIN keysQuery = Envs
  /\ \A e \in Envs : Shape(keysQuery[e]) /\ Placed(keysQuery[e], e, issued)
  /\ envSlug \in Envs \cup {NoData} /\ (showCreate \/ pendingRevoke # NoData => envSlug # NoData)
  /\ pendingRevoke # NoData => pendingRevoke \in DOMAIN issued

ApiPhase ==
  /\ owed => phase # NoData
  /\ \A c \in calls : c.arg.op = "create" /\ c.from = "here" => phase = NoData

ApiLists ==
  \A e \in Envs : \/ owed /\ phase.env = e
                  \/ Due(calls, issued, e)
                  \/ Current(keysQuery[e], KeyList(issued, e))

ApiInv == ApiShapes /\ ApiPhase /\ (missed \/ ApiLists)

LEMMA ApiOps ==
  /\ \A q : /\ Api!Fetch(q) = RQ!Fetch(q) /\ Api!Invalidate(q) = RQ!Invalidate(q)
            /\ Api!Arrive(q) = RQ!Arrive(q) /\ Api!Start(q) = RQ!Start(q)
            /\ Api!FirstLoad(q) <=> RQ!FirstLoad(q)
            /\ \A v : Api!Answer(q, v) = RQ!Answer(q, v)
  /\ \A cs, c, ok : Api!Served(cs, c, ok) = RQ!Served(cs, c, ok)
  /\ \A n, a : Api!Sent(n, a) = RQ!Sent(n, a)
  /\ Api!NoQuery = RQ!NoQuery
BY DEF Api!Start, RQ!Start, Api!Fetch, RQ!Fetch, Api!Invalidate, RQ!Invalidate, Api!FirstLoad,
       RQ!FirstLoad, Api!Arrive, RQ!Arrive, Api!Answer, RQ!Answer, Api!Served, RQ!Served,
       Api!Sent, RQ!Sent, Api!NoQuery, RQ!NoQuery

LEMMA ApiListed == \A e : Api!ListOf(e) = KeyList(issued, e)
BY DEF Api!ListOf, Api!Live, KeyList

LEMMA ApiInitially == Api!Init => ApiInv
<1> SUFFICES ASSUME Api!Init PROVE ApiInv
  OBVIOUS
<1>1. /\ keysQuery = [e \in Envs |-> RQ!NoQuery] /\ calls = {} /\ envSlug = NoData
      /\ pendingRevoke = NoData /\ ~showCreate /\ ~owed
  BY ApiOps DEF Api!Init
<1>2. \A k \in DOMAIN issued : DOMAIN issued[k] = {"env", "tier", "revoked"}
  BY DEF Api!Init, Api!NewKey
<1>3. \A e \in Envs : Shape(keysQuery[e]) /\ Current(keysQuery[e], KeyList(issued, e))
  BY <1>1, Initially
<1>4. \A e \in Envs : Placed(keysQuery[e], e, issued)
  BY <1>1 DEF Placed, RQ!NoQuery
<1>5. QED
  BY <1>1, <1>2, <1>3, <1>4 DEF ApiInv, ApiShapes, ApiPhase, ApiLists, KeyCalls

LEMMA PlacedKept ==
  ASSUME NEW q, NEW e, NEW iss, Shape(q), Placed(q, e, iss)
  PROVE  /\ Placed(RQ!Fetch(q), e, iss) /\ Placed(RQ!Invalidate(q), e, iss) /\ Placed(RQ!Arrive(q), e, iss)
         /\ \A v \in {KeyList(iss, e), NoData} : Placed(RQ!Answer(q, v), e, iss)
<1>1. Placed(RQ!Fetch(q), e, iss) /\ Placed(RQ!Invalidate(q), e, iss)
  BY DEF Placed, Shape, RQ!Fetch, RQ!Invalidate, RQ!Start
<1>2. Placed(RQ!Arrive(q), e, iss)
  BY DEF Placed, Shape, RQ!Arrive
<1>3. ASSUME NEW v \in {KeyList(iss, e), NoData} PROVE Placed(RQ!Answer(q, v), e, iss)
  <2>1. RQ!Answer(q, v).data = q.data /\ RQ!Answer(q, v).snap = v
    BY DEF Shape, RQ!Answer
  <2>2. v # NoData => \A k \in DOMAIN v : k \in DOMAIN iss /\ iss[k].env = e
    BY DEF KeyList
  <2>3. QED
    BY <2>1, <2>2 DEF Placed
<1>4. QED
  BY <1>1, <1>2, <1>3

\* The same request, rendered for another environment or disowned.
SameKeyCall(d, c) ==
  /\ d.st = c.st /\ CallShape(d) /\ d.from \in {c.from, "gone"}
  /\ DOMAIN d.arg = {"op", "key", "env", "tier"}
  /\ d.arg.op = c.arg.op /\ d.arg.key = c.arg.key
  /\ d.arg.op # "revoke" => d.arg.env = c.arg.env

LEMMA KeyCallsKept ==
  ASSUME NEW cs, NEW iss, KeyCalls(cs, iss), NEW ds, NEW g, ds = {g[c] : c \in cs},
         \A c \in cs : SameKeyCall(g[c], c)
  PROVE  KeyCalls(ds, iss) /\ \A e : Due(cs, iss, e) => Due(ds, iss, e)
<1>1. (\A d \in ds : \E c \in cs : d = g[c]) /\ (\A c \in cs : g[c] \in ds)
  OBVIOUS
<1>2. KeyCalls(ds, iss)
  BY <1>1 DEF KeyCalls, SameKeyCall, KeyArg
<1>3. ASSUME NEW e, Due(cs, iss, e) PROVE Due(ds, iss, e)
  <2>1. PICK c \in cs : c.st = "applied" /\ IF c.arg.op = "create" THEN c.arg.env = e ELSE iss[c.arg.key].env = e
    BY <1>3 DEF Due
  <2>2. g[c] \in ds /\ SameKeyCall(g[c], c)
    BY <1>1
  <2>3. QED
    BY <2>1, <2>2 DEF Due, SameKeyCall
<1>4. QED
  BY <1>2, <1>3

LEMMA KeyCallSent ==
  ASSUME NEW cs, NEW iss, KeyCalls(cs, iss), NEW n, NEW a, KeyArg(a),
         a.op # "create" => a.key \in DOMAIN iss,
         a.op = "tier" => iss[a.key].env = a.env,
         a.op = "create" => /\ a.key \notin DOMAIN iss
                            /\ \A c \in cs : c.arg.key # a.key
                            /\ \A c \in cs : c.from = "here" => c.arg.op # "create"
  PROVE  /\ KeyCalls(cs \cup {RQ!Sent(n, a)}, iss)
         /\ \A e : Due(cs, iss, e) => Due(cs \cup {RQ!Sent(n, a)}, iss, e)
<1> DEFINE d == RQ!Sent(n, a)
<1>1. CallShape(d) /\ d.arg = a /\ d.st = "sent" /\ d.from = "here"
  BY DEF RQ!Sent, CallShape
<1> HIDE DEF d
<1>2. KeyCalls(cs \cup {d}, iss)
  BY <1>1 DEF KeyCalls
<1>3. \A e : Due(cs, iss, e) => Due(cs \cup {d}, iss, e)
  BY DEF Due
<1>4. QED
  BY <1>2, <1>3 DEF d

LEMMA KeyCallEnds ==
  ASSUME NEW cs, NEW iss, KeyCalls(cs, iss), NEW c \in cs
  PROVE  KeyCalls(cs \ {c}, iss)
BY DEF KeyCalls

\* A key is created or changed: the lists of the other environments stay.
Written(iss, k, r) == [x \in DOMAIN iss \cup {k} |-> IF x = k THEN r ELSE iss[x]]

LEMMA OthersStay ==
  ASSUME NEW iss, NEW k, NEW r, k \in DOMAIN iss => iss[k].env = r.env, NEW e, e # r.env
  PROVE  KeyList(Written(iss, k, r), e) = KeyList(iss, e)
<1> DEFINE new == Written(iss, k, r)
<1>1. DOMAIN new = DOMAIN iss \cup {k} /\ new[k] = r /\ \A x \in DOMAIN iss : x # k => new[x] = iss[x]
  BY DEF Written
<1> HIDE DEF new
<1> DEFINE A == {x \in DOMAIN new : ~new[x].revoked /\ new[x].env = e}
           B == {x \in DOMAIN iss : ~iss[x].revoked /\ iss[x].env = e}
<1>2. ASSUME NEW x PROVE x \in A <=> x \in B
  <2>1. CASE x = k
    BY <1>1, <2>1
  <2>2. CASE x # k
    BY <1>1, <2>2
  <2>3. QED
    BY <2>1, <2>2
<1>3. A = B /\ k \notin B
  BY <1>1, <1>2
<1>4. \A x \in B : new[x].tier = iss[x].tier
  BY <1>1, <1>3
<1>5. [x \in A |-> new[x].tier] = [x \in B |-> iss[x].tier]
  BY <1>3, <1>4
<1>6. QED
  BY <1>5 DEF KeyList, new

LEMMA ApiServes ==
  ASSUME ApiInv, NEW c \in calls, Api!ServeCall(c)
  PROVE  ApiInv'
<1>1. PICK ok \in {c.arg.op = "create" \/ c.arg.key \in Api!Live, FALSE} :
             /\ calls' = RQ!Served(calls, c, ok)
             /\ issued' = IF ~ok THEN issued ELSE Written(issued, c.arg.key, Api!NewRow(c.arg))
  BY ApiOps DEF Api!ServeCall, Written
<1>2. c.st = "sent" /\ UNCHANGED <<keysQuery, envSlug, showCreate, pendingRevoke, phase, owed, missed>>
  BY DEF Api!ServeCall, Api!dialogs, Api!history
<1>3. KeyCalls(calls, issued) /\ CallShapes(calls)
  BY DEF ApiInv, ApiShapes, KeyCalls, CallShapes
<1>4. PICK d : /\ Replaced(calls, calls', c, d) /\ d.arg = c.arg
               /\ d.st = IF ok THEN "applied" ELSE "refused"
  BY <1>1, <1>2, <1>3, ServedReplaces
<1>5. ApiPhase'
  BY <1>2, <1>4 DEF ApiInv, ApiPhase, Replaced
<1>6. CASE ~ok
  <2>1. issued' = issued
    BY <1>1, <1>6
  <2>2. KeyCalls(calls', issued)
    BY <1>3, <1>4, <1>6 DEF KeyCalls, Replaced
  <2>3. \A e : Due(calls, issued, e) => Due(calls', issued, e)
    BY <1>4 DEF Due, Replaced
  <2>4. ApiShapes'
    BY <1>2, <2>1, <2>2 DEF ApiInv, ApiShapes
  <2>5. ApiLists => ApiLists'
    BY <1>2, <2>1, <2>3 DEF ApiLists
  <2>6. QED
    BY <1>2, <1>5, <2>4, <2>5 DEF ApiInv
<1>7. CASE ok
  <2> DEFINE k == c.arg.key
             r == Api!NewRow(c.arg)
  <2>1. /\ issued' = Written(issued, k, r) /\ d.st = "applied"
        /\ c.arg.op = "create" \/ k \in DOMAIN issued
    BY <1>1, <1>4, <1>7 DEF Api!Live
  <2>2. KeyArg(c.arg) /\ (c.arg.op = "create" => k \notin DOMAIN issued)
    BY <1>2, <1>3 DEF KeyCalls
  <2>3. /\ DOMAIN r = {"env", "tier", "revoked"}
        /\ c.arg.op = "create" => r.env = c.arg.env
        /\ c.arg.op # "create" => r.env = issued[k].env
    <3>1. c.arg.op # "create" => DOMAIN issued[k] = {"env", "tier", "revoked"}
      BY <2>1 DEF ApiInv, ApiShapes
    <3>2. QED
      BY <2>2, <3>1 DEF Api!NewRow, Api!NewKey, KeyArg
  <2>4. k \in DOMAIN issued => issued[k].env = r.env
    BY <2>2, <2>3
  <2> HIDE DEF r
  <2>5. /\ DOMAIN issued' = DOMAIN issued \cup {k} /\ issued'[k] = r
        /\ \A x \in DOMAIN issued : x # k => issued'[x] = issued[x]
    BY <2>1 DEF Written
  <2>6. \A x \in DOMAIN issued : x \in DOMAIN issued' /\ issued'[x].env = issued[x].env
    BY <2>4, <2>5
  <2>7. \A x \in DOMAIN issued' : DOMAIN issued'[x] = {"env", "tier", "revoked"}
    BY <2>3, <2>5 DEF ApiInv, ApiShapes
  <2>8. KeyCalls(calls', issued')
    <3>1. ASSUME NEW b \in calls'
          PROVE  /\ CallShape(b) /\ KeyArg(b.arg) /\ b.from \in {"here", "gone"}
                 /\ b.arg.op # "create" => b.arg.key \in DOMAIN issued'
                 /\ b.arg.op = "tier" => issued'[b.arg.key].env = b.arg.env
      <4>1. CASE b = d
        BY <1>3, <1>4, <2>6, <4>1 DEF KeyCalls, KeyArg, Replaced
      <4>2. CASE b \in calls
        BY <1>3, <2>6, <4>2 DEF KeyCalls, KeyArg
      <4>3. QED
        BY <1>4, <4>1, <4>2 DEF Replaced
    <3>2. ASSUME NEW b \in calls', b.arg.op = "create", b.st = "sent" PROVE b.arg.key \notin DOMAIN issued'
      <4>1. b \in calls /\ b # c /\ b.arg.key \notin DOMAIN issued
        BY <1>3, <1>4, <3>2 DEF KeyCalls, Replaced
      <4>2. b.arg.key # k
        BY <1>2, <1>3, <2>1, <3>2, <4>1 DEF KeyCalls
      <4>3. QED
        BY <2>5, <4>1, <4>2
    <3>3. ASSUME NEW a \in calls', NEW b \in calls', a.arg.op = "create", b.arg.op = "create"
          PROVE  /\ a.st = "sent" /\ b.st = "sent" /\ a.arg.key = b.arg.key => a = b
                 /\ a.from = "here" /\ b.from = "here" => a = b
      BY <1>3, <1>4, <3>3 DEF KeyCalls, Replaced
    <3>4. QED
      BY <3>1, <3>2, <3>3 DEF KeyCalls
  <2>9. ApiShapes'
    BY <1>2, <2>6, <2>7, <2>8 DEF ApiInv, ApiShapes, Placed
  <2>10. ASSUME ApiLists, NEW e \in Envs
         PROVE  \/ owed /\ phase.env = e
                \/ Due(calls', issued', e)
                \/ Current(keysQuery[e], KeyList(issued', e))
    <3>1. CASE e = r.env
      <4>1. d \in calls' /\ d.st = "applied"
        BY <1>4, <2>1 DEF Replaced
      <4>2. IF d.arg.op = "create" THEN d.arg.env = e ELSE issued'[d.arg.key].env = e
        BY <1>4, <2>3, <2>5, <3>1
      <4>3. QED
        BY <4>1, <4>2 DEF Due
    <3>2. CASE e # r.env
      <4>1. KeyList(issued', e) = KeyList(issued, e)
        BY <2>1, <2>4, <3>2, OthersStay
      <4>2. Due(calls, issued, e) => Due(calls', issued', e)
        <5> SUFFICES ASSUME NEW b \in calls, b.st = "applied",
                            IF b.arg.op = "create" THEN b.arg.env = e ELSE issued[b.arg.key].env = e
                     PROVE  Due(calls', issued', e)
          BY DEF Due
        <5>1. b \in calls'
          BY <1>4 DEF Replaced
        <5>2. b.arg.op # "create" => b.arg.key \in DOMAIN issued
          BY <1>3 DEF KeyCalls
        <5>3. QED
          BY <2>6, <5>1, <5>2 DEF Due
      <4>3. QED
        BY <2>10, <4>1, <4>2 DEF ApiLists
    <3>3. QED
      BY <3>1, <3>2
  <2>11. QED
    BY <1>2, <1>5, <2>9, <2>10 DEF ApiInv, ApiLists
<1>8. QED
  BY <1>6, <1>7

\* The caches, one of them changed by a step that keeps it current.
KeyQueriesKept ==
  /\ DOMAIN keysQuery' = Envs
  /\ \A e \in Envs : /\ Shape(keysQuery'[e]) /\ Placed(keysQuery'[e], e, issued)
                     /\ Current(keysQuery[e], KeyList(issued, e)) => Current(keysQuery'[e], KeyList(issued, e))

LEMMA OneKeyQuery ==
  ASSUME ApiShapes, NEW e \in Envs, NEW q, keysQuery' = [keysQuery EXCEPT ![e] = q],
         Shape(q), Placed(q, e, issued),
         Current(keysQuery[e], KeyList(issued, e)) => Current(q, KeyList(issued, e))
  PROVE  KeyQueriesKept /\ keysQuery'[e] = q /\ \A x \in Envs : x # e => keysQuery'[x] = keysQuery[x]
BY DEF ApiShapes, KeyQueriesKept

LEMMA NoKeyQuery ==
  ASSUME ApiShapes, UNCHANGED keysQuery
  PROVE  KeyQueriesKept
BY DEF ApiShapes, KeyQueriesKept

\* The page moves on, and no request ends.
LEMMA ApiFrame ==
  ASSUME ApiInv, UNCHANGED <<issued, owed, phase, missed>>, KeyQueriesKept,
         KeyCalls(calls', issued), \A e : Due(calls, issued, e) => Due(calls', issued, e),
         \A c \in calls' : c.arg.op = "create" /\ c.from = "here" => phase = NoData,
         envSlug' \in Envs \cup {NoData}, showCreate' \/ pendingRevoke' # NoData => envSlug' # NoData,
         pendingRevoke' # NoData => pendingRevoke' \in DOMAIN issued
  PROVE  ApiInv'
<1>1. ApiShapes'
  BY DEF ApiInv, ApiShapes, KeyQueriesKept
<1>2. ApiPhase'
  BY DEF ApiInv, ApiPhase
<1>3. ASSUME ApiLists, NEW e \in Envs
      PROVE  \/ owed /\ phase.env = e
             \/ Due(calls', issued, e)
             \/ Current(keysQuery'[e], KeyList(issued, e))
  BY <1>3 DEF ApiLists, KeyQueriesKept
<1>4. ApiLists => ApiLists'
  BY <1>3 DEF ApiLists
<1>5. QED
  BY <1>1, <1>2, <1>4 DEF ApiInv

\* A request is sent: a key on display, and no creation while one is pending.
LEMMA ApiSends ==
  ASSUME ApiInv, NEW op, NEW k, NEW t, Api!Send(op, k, t), op \in {"create", "revoke", "tier"},
         envSlug \in Envs, UNCHANGED <<issued, keysQuery, envSlug, Api!dialogs, Api!history>>,
         op # "create" => k \in DOMAIN issued,
         op = "tier" => issued[k].env = envSlug,
         op = "create" => /\ k \in KeyIds /\ phase = NoData /\ ~Api!isPending(calls, "create")
                          /\ k \notin DOMAIN issued /\ \A c \in calls : c.arg.key # k
  PROVE  ApiInv'
<1> DEFINE a == [op |-> op, key |-> k, env |-> envSlug, tier |-> t]
<1>1. calls' = calls \cup {RQ!Sent(Api!Free(calls), a)}
  BY ApiOps DEF Api!Send
<1>2. KeyArg(a) /\ a.op = op /\ a.key = k /\ a.env = envSlug
  BY DEF KeyArg
<1>3. RQ!Sent(Api!Free(calls), a).arg = a
  BY DEF RQ!Sent
<1> HIDE DEF a
<1>4. KeyCalls(calls, issued) /\ ApiShapes /\ ApiPhase
  BY DEF ApiInv, ApiShapes
<1>5. op = "create" => \A c \in calls : c.from = "here" => c.arg.op # "create"
  BY DEF Api!isPending
<1>6. KeyCalls(calls', issued) /\ \A e : Due(calls, issued, e) => Due(calls', issued, e)
  BY <1>1, <1>2, <1>4, <1>5, KeyCallSent
<1>7. \A c \in calls' : c.arg.op = "create" /\ c.from = "here" => phase = NoData
  BY <1>1, <1>2, <1>3, <1>4 DEF ApiPhase
<1>8. UNCHANGED <<showCreate, pendingRevoke, phase, owed, missed>> /\ KeyQueriesKept
  BY <1>4, NoKeyQuery DEF Api!dialogs, Api!history
<1>9. QED
  BY <1>4, <1>6, <1>7, <1>8, ApiFrame DEF ApiShapes

\* The cards on display are keys of the environment selected.
LEMMA CardsPlaced ==
  ASSUME ApiShapes, NEW k \in Api!Cards
  PROVE  envSlug \in Envs /\ k \in DOMAIN issued /\ issued[k].env = envSlug
BY DEF Api!Cards, Api!Shown, ApiShapes, Placed

\* Removing the reply to a request leaves what the others owe.
LEMMA ApiReplies ==
  ASSUME ApiInv, NEW c \in calls, calls' = calls \ {c}, UNCHANGED <<issued, envSlug, showCreate>>,
         KeyQueriesKept, pendingRevoke' \in {pendingRevoke, NoData}
  PROVE  /\ ApiShapes'
         /\ \A e : Due(calls, issued, e) =>
              \/ Due(calls', issued, e)
              \/ c.st = "applied" /\ IF c.arg.op = "create" THEN c.arg.env = e ELSE issued[c.arg.key].env = e
<1>1. KeyCalls(calls', issued)
  BY KeyCallEnds DEF ApiInv, ApiShapes
<1>2. ApiShapes'
  BY <1>1 DEF ApiInv, ApiShapes, KeyQueriesKept
<1>3. QED
  BY <1>2 DEF Due

LEMMA ApiCreateReplies ==
  ASSUME ApiInv, NEW c \in calls, Api!CreateReply(c)
  PROVE  ApiInv'
<1>1. /\ c.st = "applied" /\ c.arg.op = "create" /\ calls' = calls \ {c}
      /\ phase' = IF c.from = "here" THEN [key |-> c.arg.key, env |-> c.arg.env] ELSE phase
      /\ owed' = (owed \/ c.from = "here")
      /\ missed \/ c.from = "gone" => missed'
      /\ UNCHANGED <<issued, keysQuery, envSlug, showCreate, pendingRevoke>>
  BY DEF Api!CreateReply, Api!Succeeded
<1>2. ApiShapes /\ ApiPhase /\ KeyCalls(calls, issued)
  BY DEF ApiInv, ApiShapes
<1>3. c.from \in {"here", "gone"} /\ c.arg.key \in KeyIds /\ c.arg.env \in Envs
  BY <1>1, <1>2 DEF KeyCalls, KeyArg
<1>4. KeyQueriesKept
  BY <1>1, <1>2, NoKeyQuery
<1>5. /\ ApiShapes'
      /\ \A e : Due(calls, issued, e) => Due(calls', issued, e) \/ c.arg.env = e
  BY <1>1, <1>4, ApiReplies
<1>6. CASE c.from = "gone"
  BY <1>1, <1>2, <1>5, <1>6 DEF ApiInv, ApiPhase
<1>7. CASE c.from = "here"
  <2>1. phase' = [key |-> c.arg.key, env |-> c.arg.env] /\ owed' /\ ~owed
    BY <1>1, <1>2, <1>7 DEF ApiPhase
  <2>2. phase' \in [key : KeyIds, env : Envs] /\ phase'.env = c.arg.env
    BY <1>3, <2>1
  <2>3. phase' # NoData
    BY <2>2, NoDataAssumption
  <2>4. \A d \in calls' : ~(d.arg.op = "create" /\ d.from = "here")
    BY <1>1, <1>2, <1>7 DEF KeyCalls
  <2>5. ApiLists => ApiLists'
    BY <1>1, <1>5, <2>1, <2>2 DEF ApiLists
  <2>6. QED
    BY <1>1, <1>5, <2>3, <2>4, <2>5 DEF ApiInv, ApiPhase
<1>8. QED
  BY <1>3, <1>6, <1>7

\* The reply asks for the list of the environment the key is of, or is missed.
LEMMA ApiChangeReplies ==
  ASSUME ApiInv, NEW c \in calls, Api!RevokeReply(c) \/ Api!TierReply(c)
  PROVE  ApiInv'
<1>1. /\ c.arg.op # "create" /\ calls' = calls \ {c} /\ Api!InvalidateKeys(c.arg.env)
      /\ pendingRevoke' \in {pendingRevoke, NoData}
      /\ missed \/ ~Api!Reaches(c.arg.env) => missed'
      /\ UNCHANGED <<issued, envSlug, showCreate, phase, owed>>
  BY DEF Api!RevokeReply, Api!TierReply, Api!dialogs
<1>2. ApiShapes /\ ApiPhase /\ KeyCalls(calls, issued)
  BY DEF ApiInv, ApiShapes
<1>3. ~missed' => issued[c.arg.key].env = c.arg.env
  BY <1>2 DEF Api!RevokeReply, Api!TierReply, KeyCalls
<1>4. ApiPhase'
  BY <1>1, <1>2 DEF ApiPhase
<1>5. CASE ~(c.arg.env = envSlug /\ c.arg.env # NoData)
  <2>1. UNCHANGED keysQuery /\ missed'
    BY <1>1, <1>5 DEF Api!InvalidateKeys, Api!Reaches
  <2>2. ApiShapes'
    BY <1>1, <1>2, <2>1, NoKeyQuery, ApiReplies
  <2>3. QED
    BY <1>4, <2>1, <2>2 DEF ApiInv
<1>6. CASE c.arg.env = envSlug /\ c.arg.env # NoData
  <2> DEFINE e == c.arg.env
             q == RQ!Invalidate(keysQuery[e])
  <2>1. e \in Envs /\ keysQuery' = [keysQuery EXCEPT ![e] = q]
    BY <1>1, <1>2, <1>6, ApiOps DEF Api!InvalidateKeys, ApiShapes
  <2>2. Shape(keysQuery[e]) /\ Placed(keysQuery[e], e, issued)
    BY <1>2, <2>1 DEF ApiShapes
  <2>3. /\ Shape(q)
        /\ Current(keysQuery[e], KeyList(issued, e)) => Current(q, KeyList(issued, e))
        /\ ~RQ!FirstLoad(keysQuery[e]) => Current(q, KeyList(issued, e))
    BY <2>2, Invalidating
  <2>4. Placed(q, e, issued)
    BY <2>2, PlacedKept
  <2> HIDE DEF q
  <2>5. /\ KeyQueriesKept /\ keysQuery'[e] = q
        /\ \A x \in Envs : x # e => keysQuery'[x] = keysQuery[x]
    BY <1>2, <2>1, <2>3, <2>4, OneKeyQuery
  <2>6. /\ ApiShapes'
        /\ \A x : Due(calls, issued, x) => Due(calls', issued, x) \/ issued[c.arg.key].env = x
    BY <1>1, <2>5, ApiReplies
  <2>7. ~missed' => Current(q, KeyList(issued, e))
    BY <1>1, <2>3, ApiOps DEF Api!Reaches
  <2>8. ~missed' /\ ApiLists => ApiLists'
    BY <1>1, <1>3, <2>5, <2>6, <2>7 DEF ApiLists
  <2>9. QED
    BY <1>1, <1>4, <2>6, <2>8 DEF ApiInv
<1>7. QED
  BY <1>5, <1>6

LEMMA ApiErrorReplies ==
  ASSUME ApiInv, NEW c \in calls, Api!ErrorReply(c)
  PROVE  ApiInv'
<1>1. /\ calls' = calls \ {c} /\ (missed \/ c.st = "applied" => missed')
      /\ UNCHANGED <<issued, keysQuery, envSlug, showCreate, pendingRevoke, phase, owed>>
  BY DEF Api!ErrorReply, Api!Succeeded, Api!dialogs
<1>2. ApiShapes /\ KeyQueriesKept
  BY <1>1, NoKeyQuery DEF ApiInv
<1>3. /\ ApiShapes'
      /\ \A e : Due(calls, issued, e) => Due(calls', issued, e) \/ c.st = "applied"
  BY <1>1, <1>2, ApiReplies
<1>4. ApiPhase'
  BY <1>1 DEF ApiInv, ApiPhase
<1>5. ~missed' /\ ApiLists => ApiLists'
  BY <1>1, <1>3 DEF ApiLists
<1>6. QED
  BY <1>1, <1>3, <1>4, <1>5 DEF ApiInv

\* Closing the dialog asks for the list of the environment selected: if that
\* is the one of the new key, nothing is owed any more.
LEMMA ApiCloses ==
  ASSUME ApiInv, Api!DoneShowing
  PROVE  ApiInv'
<1> DEFINE q == RQ!Invalidate(keysQuery[envSlug])
<1>1. /\ keysQuery' = [keysQuery EXCEPT ![envSlug] = q] /\ ~showCreate'
      /\ UNCHANGED <<issued, envSlug, pendingRevoke, phase, calls>>
      /\ owed' => owed
      /\ owed /\ phase.env # envSlug => owed'
      /\ missed \/ RQ!FirstLoad(keysQuery[envSlug]) => missed'
  BY ApiOps DEF Api!DoneShowing
<1>2. ApiShapes /\ ApiPhase /\ envSlug \in Envs
  BY DEF ApiInv, ApiShapes, Api!DoneShowing
<1>3. Shape(keysQuery[envSlug]) /\ Placed(keysQuery[envSlug], envSlug, issued)
  BY <1>2 DEF ApiShapes
<1>4. /\ Shape(q)
      /\ Current(keysQuery[envSlug], KeyList(issued, envSlug)) => Current(q, KeyList(issued, envSlug))
      /\ ~missed' => Current(q, KeyList(issued, envSlug))
  BY <1>1, <1>3, Invalidating
<1>5. Placed(q, envSlug, issued)
  BY <1>3, PlacedKept
<1> HIDE DEF q
<1>6. /\ KeyQueriesKept /\ keysQuery'[envSlug] = q
      /\ \A x \in Envs : x # envSlug => keysQuery'[x] = keysQuery[x]
  BY <1>1, <1>2, <1>4, <1>5, OneKeyQuery
<1>7. ApiShapes' /\ ApiPhase'
  BY <1>1, <1>2, <1>6 DEF ApiShapes, ApiPhase, KeyQueriesKept
<1>8. ASSUME ~missed', ApiLists, NEW e \in Envs
      PROVE  \/ owed' /\ phase.env = e
             \/ Due(calls, issued, e)
             \/ Current(keysQuery'[e], KeyList(issued, e))
  <2>1. CASE e = envSlug
    BY <1>4, <1>6, <1>8, <2>1
  <2>2. CASE e # envSlug
    BY <1>1, <1>6, <1>8, <2>2 DEF ApiLists
  <2>3. QED
    BY <2>1, <2>2
<1>9. ~missed' /\ ApiLists => ApiLists'
  BY <1>1, <1>8 DEF ApiLists
<1>10. QED
  BY <1>1, <1>7, <1>9 DEF ApiInv

\* A list is mounted, read by the server, arrives or is asked for again.
LEMMA ApiQueries ==
  ASSUME ApiInv, NEW e \in Envs, NEW q, keysQuery' = [keysQuery EXCEPT ![e] = q],
         \/ q = RQ!Fetch(keysQuery[e])
         \/ q = RQ!Arrive(keysQuery[e]) /\ keysQuery[e].net = "answered"
         \/ \E v \in {KeyList(issued, e), NoData} : q = RQ!Answer(keysQuery[e], v),
         UNCHANGED <<issued, Api!dialogs, Api!history>>,
         envSlug' \in Envs \cup {NoData}, showCreate \/ pendingRevoke # NoData => envSlug' # NoData,
         KeyCalls(calls', issued),
         \A x : Due(calls, issued, x) => Due(calls', issued, x),
         \A c \in calls' : c.arg.op = "create" /\ c.from = "here" => phase = NoData
  PROVE  ApiInv'
<1>1. ApiShapes /\ Shape(keysQuery[e]) /\ Placed(keysQuery[e], e, issued)
  BY DEF ApiInv, ApiShapes
<1>2. /\ Shape(q)
      /\ Current(keysQuery[e], KeyList(issued, e)) => Current(q, KeyList(issued, e))
  BY <1>1, Fetching, Arriving, Answering
<1>3. Placed(q, e, issued)
  BY <1>1, PlacedKept
<1>4. KeyQueriesKept
  BY <1>1, <1>2, <1>3, OneKeyQuery
<1>5. UNCHANGED <<showCreate, pendingRevoke, phase, owed, missed>>
  BY DEF Api!dialogs, Api!history
<1>6. QED
  BY <1>1, <1>4, <1>5, ApiFrame DEF ApiShapes

LEMMA ApiSelects ==
  ASSUME ApiInv, NEW e \in Envs, Api!Select(e)
  PROVE  ApiInv'
<1> DEFINE g == [c \in calls |-> IF c.arg.op = "revoke" /\ c.from = "here"
                                 THEN [c EXCEPT !.arg.env = e] ELSE c]
<1>1. /\ envSlug' = e /\ keysQuery' = [keysQuery EXCEPT ![e] = RQ!Fetch(keysQuery[e])]
      /\ UNCHANGED <<issued, Api!dialogs, Api!history>>
  BY ApiOps DEF Api!Select, ApiInv, ApiShapes
<1>2. calls' = {g[c] : c \in calls}
  BY DEF Api!Select
<1>3. ApiShapes /\ KeyCalls(calls, issued) /\ ApiPhase
  BY DEF ApiInv, ApiShapes
<1>4. ASSUME NEW c \in calls PROVE SameKeyCall(g[c], c)
  <2>1. CallShape(c) /\ KeyArg(c.arg) /\ c.from \in {"here", "gone"}
    BY <1>3 DEF KeyCalls
  <2>2. QED
    BY <2>1 DEF SameKeyCall, CallShape, KeyArg
<1> HIDE DEF g
<1>5. KeyCalls(calls', issued) /\ \A x : Due(calls, issued, x) => Due(calls', issued, x)
  BY <1>2, <1>3, <1>4, KeyCallsKept
<1>6. \A c \in calls' : c.arg.op = "create" /\ c.from = "here" => phase = NoData
  BY <1>2, <1>3, <1>4 DEF ApiPhase, SameKeyCall
<1>7. ~showCreate /\ pendingRevoke = NoData
  BY <1>3 DEF Api!Select, Api!Bare, ApiShapes
<1>8. QED
  BY <1>1, <1>5, <1>6, <1>7, ApiQueries

LEMMA ApiLeaves ==
  ASSUME ApiInv, Api!Leave
  PROVE  ApiInv'
<1> DEFINE g == [c \in calls |-> [c EXCEPT !.from = "gone"]]
<1>1. /\ envSlug' = NoData /\ ~showCreate' /\ pendingRevoke' = NoData /\ phase' = NoData /\ ~owed'
      /\ missed \/ owed => missed'
      /\ UNCHANGED <<issued, keysQuery>>
  BY DEF Api!Leave
<1>2. calls' = {g[c] : c \in calls}
  BY DEF Api!Leave, Api!Unmounted
<1>3. ApiShapes /\ KeyCalls(calls, issued)
  BY DEF ApiInv, ApiShapes
<1>4. ASSUME NEW c \in calls PROVE SameKeyCall(g[c], c)
  <2>1. CallShape(c) /\ KeyArg(c.arg)
    BY <1>3 DEF KeyCalls
  <2>2. QED
    BY <2>1 DEF SameKeyCall, CallShape, KeyArg
<1> HIDE DEF g
<1>5. KeyCalls(calls', issued) /\ \A x : Due(calls, issued, x) => Due(calls', issued, x)
  BY <1>2, <1>3, <1>4, KeyCallsKept
<1>6. ApiShapes' /\ ApiPhase'
  BY <1>1, <1>3, <1>5 DEF ApiShapes, ApiPhase
<1>7. ~missed' /\ ApiLists => ApiLists'
  BY <1>1, <1>5 DEF ApiLists
<1>8. QED
  BY <1>1, <1>6, <1>7 DEF ApiInv

\* Only a dialog opens or closes.
LEMMA ApiDialogs ==
  ASSUME ApiInv, UNCHANGED <<issued, keysQuery, envSlug, phase, calls, owed, missed>>,
         showCreate' \/ pendingRevoke' # NoData => envSlug # NoData,
         pendingRevoke' # NoData => pendingRevoke' \in DOMAIN issued
  PROVE  ApiInv'
<1>1. ApiShapes /\ ApiPhase /\ KeyQueriesKept
  BY NoKeyQuery DEF ApiInv
<1>2. QED
  BY <1>1, ApiFrame DEF ApiShapes, ApiPhase

LEMMA ApiStep == ApiInv /\ Api!ApiNext => ApiInv'
<1> SUFFICES ASSUME ApiInv, Api!ApiNext PROVE ApiInv'
  OBVIOUS
<1>0. ApiShapes /\ ApiPhase /\ KeyCalls(calls, issued)
  BY DEF ApiInv, ApiShapes
<1>1. CASE Api!OpenCreate \/ Api!CancelCreate \/ Api!CancelRevoke
  BY <1>0, <1>1, ApiDialogs DEF Api!OpenCreate, Api!CancelCreate, Api!CancelRevoke, ApiShapes, Api!history
<1>2. ASSUME NEW k \in KeyIds, Api!IntendRevoke(k) PROVE ApiInv'
  <2>1. k \in DOMAIN issued /\ envSlug # NoData
    BY <1>0, <1>2, CardsPlaced DEF Api!IntendRevoke, Api!Cards
  <2>2. QED
    BY <1>0, <1>2, <2>1, ApiDialogs DEF Api!IntendRevoke, ApiShapes, Api!history
<1>3. ASSUME NEW k \in KeyIds, NEW t \in Tiers, Api!SubmitCreate(k, t) PROVE ApiInv'
  BY <1>0, <1>3, ApiSends DEF Api!SubmitCreate, ApiShapes
<1>4. ASSUME NEW k \in KeyIds, NEW t \in Tiers, Api!SelectTier(k, t) PROVE ApiInv'
  <2>1. envSlug \in Envs /\ k \in DOMAIN issued /\ issued[k].env = envSlug
    BY <1>0, <1>4, CardsPlaced DEF Api!SelectTier
  <2>2. QED
    BY <1>4, <2>1, ApiSends DEF Api!SelectTier
<1>5. CASE Api!ConfirmRevoke
  <2>1. pendingRevoke \in DOMAIN issued
    BY <1>0, <1>5 DEF Api!ConfirmRevoke, ApiShapes
  <2>2. envSlug \in Envs
    BY <1>0, <1>5 DEF Api!ConfirmRevoke, ApiShapes
  <2>3. QED
    BY <1>5, <2>1, <2>2, ApiSends DEF Api!ConfirmRevoke
<1>6. CASE Api!DoneShowing
  BY <1>6, ApiCloses
<1>7. ASSUME NEW e \in Envs, Api!Select(e) PROVE ApiInv'
  BY <1>7, ApiSelects
<1>8. ASSUME NEW e \in Envs, Api!ServeKeys(e) \/ Api!KeysArrive(e) PROVE ApiInv'
  <2>1. PICK q : /\ keysQuery' = [keysQuery EXCEPT ![e] = q]
                 /\ \/ q = RQ!Arrive(keysQuery[e]) /\ keysQuery[e].net = "answered"
                    \/ \E v \in {KeyList(issued, e), NoData} : q = RQ!Answer(keysQuery[e], v)
    BY <1>0, <1>8, ApiOps, ApiListed DEF Api!ServeKeys, Api!KeysArrive, ApiShapes
  <2>2. UNCHANGED <<issued, envSlug, calls, Api!dialogs, Api!history>>
    BY <1>8 DEF Api!ServeKeys, Api!KeysArrive
  <2>3. QED
    BY <1>0, <2>1, <2>2, ApiQueries DEF ApiShapes, ApiPhase
<1>9. CASE Api!Focus
  <2>1. /\ envSlug \in Envs /\ keysQuery' = [keysQuery EXCEPT ![envSlug] = RQ!Fetch(keysQuery[envSlug])]
        /\ UNCHANGED <<issued, envSlug, calls, Api!dialogs, Api!history>>
    BY <1>0, <1>9, ApiOps DEF Api!Focus, ApiShapes
  <2>2. QED
    BY <1>0, <2>1, ApiQueries DEF ApiShapes, ApiPhase
<1>10. CASE Api!Leave
  BY <1>10, ApiLeaves
<1>11. ASSUME NEW c \in calls,
              Api!ServeCall(c) \/ Api!ErrorReply(c) \/ Api!CreateReply(c) \/ Api!RevokeReply(c) \/ Api!TierReply(c)
       PROVE  ApiInv'
  BY <1>11, ApiServes, ApiErrorReplies, ApiCreateReplies, ApiChangeReplies
<1>12. QED
  BY <1>1, <1>2, <1>3, <1>4, <1>5, <1>6, <1>7, <1>8, <1>9, <1>10, <1>11 DEF Api!ApiNext

\* At rest the API keys page lists exactly the live keys of the environment
\* selected, each with its tier, for any number of environments, keys and
\* overlapping changes, unless a success was lost or answered on another
\* environment or the dialog of a new key was not closed on its own one
\* (api-keys.tsx 76-97, 166, 179-182, 216-225).
THEOREM ApiKeysShown == Spec => []ApiKeysAtRest
<1> DEFINE Inv == page = "api keys" => ApiInv
<1>1. Init => Inv
  BY ApiInitially DEF Init
<1>2. Inv /\ [Next]_<<page, calls, asked, segOnly, memOnly, apiOnly, mbrOnly>> => Inv'
  <2> SUFFICES ASSUME Inv, [Next]_<<page, calls, asked, segOnly, memOnly, apiOnly, mbrOnly>>,
                      page' = "api keys"
               PROVE  ApiInv'
    OBVIOUS
  <2>1. CASE Next
    <3>1. ApiInv /\ Api!ApiNext
      BY <2>1 DEF Next
    <3>2. QED
      BY <3>1, ApiStep
  <2>2. CASE UNCHANGED <<page, calls, asked, segOnly, memOnly, apiOnly, mbrOnly>>
    BY <2>2 DEF apiOnly, ApiInv, ApiShapes, ApiPhase, ApiLists
  <2>3. QED
    BY <2>1, <2>2
<1>3. Inv => ApiKeysAtRest
  <2> SUFFICES ASSUME ApiInv, envSlug # NoData, ~missed, ~owed, calls = {},
                      Api!Shown(keysQuery[envSlug]), keysQuery[envSlug].net = "idle"
               PROVE  keysQuery[envSlug].data = Api!ListOf(envSlug)
    BY DEF ApiKeysAtRest, Api!KeysAtRest
  <2>1. envSlug \in Envs /\ ~Due(calls, issued, envSlug)
    BY DEF ApiInv, ApiShapes, Due
  <2>2. QED
    BY <2>1, ApiListed DEF ApiInv, ApiLists, Current, Api!Shown
<1>4. QED
  BY <1>1, <1>2, <1>3, PTL DEF Spec

-----------------------------------------------------------------------------
(***************************************************************************)
(* Types. The number of a new request is a number because the requests in   *)
(* flight are finitely many, and the operations of a cache entry and of the *)
(* requests keep their types, whatever they are about.                      *)
(***************************************************************************)
Requests(cs, A) == cs \subseteq RQ!Request(A) /\ IsFiniteSet(cs)

LEMMA QueryTypes ==
  ASSUME NEW D, NEW q \in RQ!Query(D)
  PROVE  /\ RQ!Start(q) \in RQ!Query(D) /\ RQ!Fetch(q) \in RQ!Query(D)
         /\ RQ!Invalidate(q) \in RQ!Query(D) /\ RQ!Arrive(q) \in RQ!Query(D)
         /\ \A v \in D \cup {NoData} : RQ!Answer(q, v) \in RQ!Query(D)
BY DEF RQ!Query, RQ!Start, RQ!Fetch, RQ!Invalidate, RQ!Arrive, RQ!Answer

LEMMA FirstQueryTypes ==
  ASSUME NEW D
  PROVE  RQ!NoQuery \in RQ!Query(D) /\ RQ!Start(RQ!NoQuery) \in RQ!Query(D)
BY DEF RQ!Query, RQ!NoQuery, RQ!Start

LEMMA RequestTypes ==
  ASSUME NEW A, NEW cs, Requests(cs, A)
  PROVE  /\ \A n \in Nat, a \in A : Requests(cs \cup {RQ!Sent(n, a)}, A)
         /\ \A c \in RQ!Request(A) : \A ok : Requests(RQ!Served(cs, c, ok), A)
         /\ \A c : Requests(cs \ {c}, A)
<1>1. cs \subseteq RQ!Request(A) /\ IsFiniteSet(cs)
  BY DEF Requests
<1>2. ASSUME NEW n \in Nat, NEW a \in A PROVE Requests(cs \cup {RQ!Sent(n, a)}, A)
  <2>1. RQ!Sent(n, a) \in RQ!Request(A)
    BY DEF RQ!Sent, RQ!Request
  <2>2. QED
    BY <1>1, <2>1, FS_AddElement DEF Requests
<1>3. ASSUME NEW c PROVE Requests(cs \ {c}, A)
  BY <1>1, FS_RemoveElement DEF Requests
<1>4. ASSUME NEW c \in RQ!Request(A), NEW ok PROVE Requests(RQ!Served(cs, c, ok), A)
  <2> DEFINE d == [c EXCEPT !.st = IF ok THEN "applied" ELSE "refused"]
  <2>1. d \in RQ!Request(A)
    BY DEF RQ!Request
  <2>2. IsFiniteSet(cs \ {c})
    BY <1>1, FS_RemoveElement
  <2>3. RQ!Served(cs, c, ok) = (cs \ {c}) \cup {d}
    BY DEF RQ!Served
  <2> HIDE DEF d
  <2>4. QED
    BY <1>1, <2>1, <2>2, <2>3, FS_AddElement DEF Requests
<1>5. QED
  BY <1>2, <1>3, <1>4

\* Every request in flight becomes another one.
LEMMA ImageTypes ==
  ASSUME NEW A, NEW cs, Requests(cs, A), NEW ds, NEW g, g = [c \in cs |-> g[c]],
         \A c \in cs : g[c] \in RQ!Request(A), ds = {g[c] : c \in cs}
  PROVE  Requests(ds, A) /\ Cardinality(ds) <= Cardinality(cs)
<1>1. g \in [cs -> ds] /\ \A d \in ds : \E c \in cs : g[c] = d
  OBVIOUS
<1>2. IsFiniteSet(ds) /\ Cardinality(ds) <= Cardinality(cs)
  BY <1>1, FS_Surjection DEF Surjection, Requests
<1>3. QED
  BY <1>2 DEF Requests

LEMMA SameCardinality == \A S : RQ!Cardinality(S) = Cardinality(S)
BY Zenon DEF RQ!Cardinality, Cardinality

\* Of one more numbers than there are requests, one is free.
LEMMA FreeIsNumber ==
  ASSUME NEW cs, IsFiniteSet(cs)
  PROVE  RQ!Free(cs) \in 1 .. Cardinality(cs) + 1 /\ RQ!Free(cs) \in Nat
<1> DEFINE m == Cardinality(cs)
           I == 1 .. m + 1
<1>1. m \in Nat
  BY FS_CardinalityType
<1>2. \E n \in I : \A c \in cs : c.n # n
  <2> SUFFICES ASSUME \A n \in I : \E c \in cs : c.n = n PROVE FALSE
    OBVIOUS
  <2> DEFINE f == [n \in I |-> CHOOSE c \in cs : c.n = n]
  <2>1. \A n \in I : f[n] \in cs /\ f[n].n = n
    OBVIOUS
  <2>2. f \in [I -> cs]
    BY <2>1
  <2>3. IsFiniteSet(I) /\ Cardinality(cs) < Cardinality(I)
    BY <1>1, FS_Interval
  <2> HIDE DEF f, I
  <2>4. \E x, y \in I : x # y /\ f[x] = f[y]
    BY <2>2, <2>3, FS_PigeonHole
  <2>5. QED
    BY <2>1, <2>4
<1>3. RQ!Free(cs) = CHOOSE n \in I : \A c \in cs : c.n # n
  BY SameCardinality DEF RQ!Free
<1>4. RQ!Free(cs) \in I
  BY <1>2, <1>3
<1>5. QED
  BY <1>1, <1>4

\* How many requests are in flight.
LEMMA RequestCounts ==
  ASSUME NEW cs, IsFiniteSet(cs)
  PROVE  /\ Cardinality(cs) \in Nat
         /\ \A x : Cardinality(cs \cup {x}) \in Nat /\ Cardinality(cs \cup {x}) <= Cardinality(cs) + 1
         /\ \A c : Cardinality(cs \ {c}) \in Nat /\ Cardinality(cs \ {c}) <= Cardinality(cs)
         /\ \A c \in cs : \A ok : /\ Cardinality(RQ!Served(cs, c, ok)) \in Nat
                                  /\ Cardinality(RQ!Served(cs, c, ok)) <= Cardinality(cs)
<1>1. Cardinality(cs) \in Nat
  BY FS_CardinalityType
<1>2. ASSUME NEW x
      PROVE  Cardinality(cs \cup {x}) \in Nat /\ Cardinality(cs \cup {x}) <= Cardinality(cs) + 1
  BY <1>1, FS_AddElement
<1>3. ASSUME NEW c
      PROVE  Cardinality(cs \ {c}) \in Nat /\ Cardinality(cs \ {c}) <= Cardinality(cs)
  <2> DEFINE es == cs \ {c}
  <2>1. es \subseteq cs
    OBVIOUS
  <2> HIDE DEF es
  <2>2. IsFiniteSet(es) /\ Cardinality(es) <= Cardinality(cs)
    BY <2>1, FS_Subset
  <2>3. Cardinality(es) \in Nat
    BY <2>2, FS_CardinalityType
  <2>4. QED
    BY <2>2, <2>3 DEF es
<1>4. ASSUME NEW c \in cs, NEW ok
      PROVE  /\ Cardinality(RQ!Served(cs, c, ok)) \in Nat
             /\ Cardinality(RQ!Served(cs, c, ok)) <= Cardinality(cs)
  <2> DEFINE d == [c EXCEPT !.st = IF ok THEN "applied" ELSE "refused"]
             es == cs \ {c}
  <2>1. IsFiniteSet(es) /\ Cardinality(es) = Cardinality(cs) - 1
    BY FS_RemoveElement
  <2>2. RQ!Served(cs, c, ok) = es \cup {d}
    BY DEF RQ!Served
  <2>3. Cardinality(es) \in Nat
    BY <2>1, FS_CardinalityType
  <2> HIDE DEF d, es
  <2>4. Cardinality(es \cup {d}) \in {Cardinality(es), Cardinality(es) + 1}
    BY <2>1, FS_AddElement
  <2>5. QED
    BY <1>1, <2>1, <2>2, <2>3, <2>4
<1>5. QED
  BY <1>1, <1>2, <1>3, <1>4

-----------------------------------------------------------------------------
(* The members page. *)
MbrArg == [op : {"role", "remove", "add"}, user : Users, role : Mbr!Roles \cup {"none"}]

MbrTyped ==
  /\ role \in [Users -> Mbr!Roles \cup {"none"}]
  /\ data \in RQ!Query(Mbr!Lists)
  /\ unseen \in BOOLEAN /\ pendingRemove \in Users \cup {NoData}
  /\ Requests(calls, MbrArg) /\ Cardinality(calls) <= asked
  /\ latest \in 0 .. MaxRoles /\ asked \in 0 .. MaxRoles

LEMMA MbrTypes == MbrTyped => Mbr!TypeOK
BY DEF MbrTyped, Mbr!TypeOK, MbrArg, Requests, Mbr!Query, RQ!Query, Mbr!Request, RQ!Request

LEMMA MbrFree == \A cs : Mbr!Free(cs) = RQ!Free(cs)
<1>1. \A S : Mbr!Cardinality(S) = RQ!Cardinality(S)
  BY Zenon DEF Mbr!Cardinality, RQ!Cardinality
<1>2. QED
  BY <1>1 DEF Mbr!Free, RQ!Free

LEMMA MbrTypedAtFirst == Mbr!Init => MbrTyped
<1> SUFFICES ASSUME Mbr!Init PROVE MbrTyped
  OBVIOUS
<1>1. data \in RQ!Query(Mbr!Lists)
  BY MbrOps, FirstQueryTypes DEF Mbr!Init
<1>2. calls = {} /\ asked = 0 /\ latest = 0 /\ unseen = FALSE /\ pendingRemove = NoData
  BY DEF Mbr!Init
<1>3. Requests(calls, MbrArg) /\ Cardinality(calls) <= asked
  BY <1>2, FS_EmptySet DEF Requests
<1>4. role \in [Users -> Mbr!Roles \cup {"none"}]
  BY DEF Mbr!Init, Mbr!Roles
<1>5. 0 \in 0 .. MaxRoles
  BY BoundsAssumption
<1>6. QED
  BY <1>1, <1>2, <1>3, <1>4, <1>5 DEF MbrTyped

LEMMA MbrTypedStep == MbrTyped /\ Mbr!MbrNext => MbrTyped'
<1> SUFFICES ASSUME MbrTyped, Mbr!MbrNext PROVE MbrTyped'
  OBVIOUS
<1>0. /\ Requests(calls, MbrArg) /\ IsFiniteSet(calls) /\ Cardinality(calls) \in Nat
      /\ MaxRoles \in Nat /\ data \in RQ!Query(Mbr!Lists)
  BY BoundsAssumption, FS_CardinalityType DEF MbrTyped, Requests
<1>1. Mbr!Listed \in Mbr!Lists
  <2>1. Mbr!Members \subseteq Users /\ \A u \in Mbr!Members : role[u] \in Mbr!Roles
    BY DEF MbrTyped, Mbr!Members
  <2> HIDE DEF Mbr!Members
  <2>2. Mbr!Listed \in [Mbr!Members -> Mbr!Roles]
    BY <2>1 DEF Mbr!Listed
  <2>3. QED
    BY <2>1, <2>2 DEF Mbr!Lists
\* A request is sent.
<1>2. ASSUME NEW a \in MbrArg, UNCHANGED <<role, data, pendingRemove, unseen>>,
             asked < MaxRoles, asked' = asked + 1,
             calls' = calls \cup {RQ!Sent(RQ!Free(calls), a)},
             latest' \in {latest, RQ!Free(calls)}
      PROVE  MbrTyped'
  <2>1. RQ!Free(calls) \in 1 .. Cardinality(calls) + 1 /\ RQ!Free(calls) \in Nat
    BY <1>0, FreeIsNumber
  <2>2. Requests(calls', MbrArg)
    BY <1>0, <1>2, <2>1, RequestTypes
  <2>3. Cardinality(calls') \in Nat /\ Cardinality(calls') <= Cardinality(calls) + 1
    BY <1>0, <1>2, RequestCounts
  <2>4. Cardinality(calls') <= asked' /\ asked' \in 0 .. MaxRoles /\ latest' \in 0 .. MaxRoles
    BY <1>0, <1>2, <2>1, <2>3 DEF MbrTyped
  <2>5. QED
    BY <1>2, <2>2, <2>4 DEF MbrTyped
<1>3. ASSUME NEW c \in calls, Mbr!ServeCall(c) PROVE MbrTyped'
  <2>1. PICK ok \in {Mbr!Accepts(c.arg), FALSE} :
               /\ calls' = RQ!Served(calls, c, ok)
               /\ role' = IF ok THEN [role EXCEPT ![c.arg.user] = c.arg.role] ELSE role
    BY <1>3, MbrOps DEF Mbr!ServeCall
  <2>2. UNCHANGED <<data, pendingRemove, latest, unseen, asked>>
    BY <1>3 DEF Mbr!ServeCall
  <2>3. c \in RQ!Request(MbrArg) /\ c.arg \in MbrArg
    BY <1>0 DEF Requests, RQ!Request
  <2>4. Requests(calls', MbrArg)
    BY <1>0, <2>1, <2>3, RequestTypes
  <2>5. Cardinality(calls') \in Nat /\ Cardinality(calls') <= Cardinality(calls)
    BY <1>0, <2>1, RequestCounts
  <2>6. role' \in [Users -> Mbr!Roles \cup {"none"}]
    BY <2>1, <2>3 DEF MbrTyped, MbrArg
  <2>7. QED
    BY <1>0, <2>2, <2>4, <2>5, <2>6 DEF MbrTyped
<1>4. ASSUME NEW c \in calls, Mbr!SuccessReply(c) \/ Mbr!ErrorReply(c) PROVE MbrTyped'
  <2>1. /\ calls' = calls \ {c} /\ UNCHANGED <<role, asked>>
        /\ latest' \in {0, latest} /\ data' \in {data, RQ!Invalidate(data)}
        /\ pendingRemove' \in {NoData, pendingRemove} /\ unseen' \in BOOLEAN
    BY <1>4, MbrOps DEF Mbr!SuccessReply, Mbr!ErrorReply, Mbr!Settle, Mbr!Succeeded, MbrTyped
  <2>2. Requests(calls', MbrArg)
    BY <1>0, <2>1, RequestTypes
  <2>3. Cardinality(calls') \in Nat /\ Cardinality(calls') <= Cardinality(calls)
    BY <1>0, <2>1, RequestCounts
  <2>4. data' \in RQ!Query(Mbr!Lists)
    BY <1>0, <2>1, QueryTypes
  <2>5. QED
    BY <1>0, <2>1, <2>2, <2>3, <2>4 DEF MbrTyped
<1>5. ASSUME Mbr!ListArrives PROVE MbrTyped'
  <2> DEFINE g == [c \in calls |->
                     IF c.arg.op = "add" /\ ~Mbr!isAdmin' THEN [c EXCEPT !.from = "gone"] ELSE c]
  <2>1. /\ data' = RQ!Arrive(data) /\ UNCHANGED <<role, pendingRemove, latest, unseen, asked>>
        /\ calls' = {g[c] : c \in calls} /\ g = [c \in calls |-> g[c]]
    BY <1>5, MbrOps DEF Mbr!ListArrives
  <2>2. \A c \in calls : g[c] \in RQ!Request(MbrArg)
    BY <1>0 DEF Requests, RQ!Request
  <2> HIDE DEF g
  <2>3. Requests(calls', MbrArg) /\ Cardinality(calls') <= Cardinality(calls)
    BY <1>0, <2>1, <2>2, ImageTypes
  <2>4. Cardinality(calls') \in Nat
    BY <2>3, FS_CardinalityType DEF Requests
  <2>5. data' \in RQ!Query(Mbr!Lists)
    BY <1>0, <2>1, QueryTypes
  <2>6. QED
    BY <1>0, <2>1, <2>3, <2>4, <2>5 DEF MbrTyped
<1>6. ASSUME Mbr!ServeList \/ Mbr!Focus PROVE MbrTyped'
  <2>1. UNCHANGED <<role, pendingRemove, calls, latest, unseen, asked>>
    BY <1>6 DEF Mbr!ServeList, Mbr!Focus
  <2>2. \/ data' = RQ!Fetch(data)
        \/ \E v \in {Mbr!Listed, NoData} : data' = RQ!Answer(data, v)
    BY <1>6, MbrOps DEF Mbr!ServeList, Mbr!Focus
  <2>3. data' \in RQ!Query(Mbr!Lists)
    BY <1>0, <1>1, <2>2, QueryTypes
  <2>4. QED
    BY <2>1, <2>3 DEF MbrTyped
<1>7. ASSUME Mbr!ConfirmRemove PROVE MbrTyped'
  <2>1. [op |-> "remove", user |-> pendingRemove, role |-> "none"] \in MbrArg
    BY <1>7 DEF Mbr!ConfirmRemove, MbrTyped, MbrArg
  <2>2. QED
    BY <1>2, <1>7, <2>1, MbrOps, MbrFree DEF Mbr!ConfirmRemove, Mbr!Send
<1>8. ASSUME NEW u \in Users, NEW r \in Mbr!Roles, Mbr!SelectRole(u, r) \/ Mbr!SubmitAdd(u, r)
      PROVE  MbrTyped'
  <2>1. /\ [op |-> "role", user |-> u, role |-> r] \in MbrArg
        /\ [op |-> "add", user |-> u, role |-> r] \in MbrArg
    BY DEF MbrArg
  <2>2. QED
    BY <1>2, <1>8, <2>1, MbrOps, MbrFree DEF Mbr!SelectRole, Mbr!SubmitAdd, Mbr!Send
<1>9. ASSUME Mbr!CancelRemove \/ \E u \in Users : Mbr!RemoveIntent(u) PROVE MbrTyped'
  BY <1>9 DEF Mbr!CancelRemove, Mbr!RemoveIntent, MbrTyped
<1>10. QED
  BY <1>3, <1>4, <1>5, <1>6, <1>7, <1>8, <1>9 DEF Mbr!MbrNext

-----------------------------------------------------------------------------
(* The segments page: the dialogs of a segment have one, and what is sent   *)
(* to be stored has a name.                                                 *)
SegArg == {a \in Seg!Asked : a.op # "delete" => a.name \in Names}

SegTyped ==
  /\ segs \in Seg!Tables /\ list \in RQ!Query(Seg!Tables)
  /\ open \in BOOLEAN /\ doubt \in BOOLEAN
  /\ dialog \in [kind : Seg!Ops \cup {"none"},
                 seg : Slugs \cup {NoData}, name : Names \cup {NoData}]
  /\ dialog.kind \in {"edit", "delete"} => dialog.seg \in Slugs
  /\ Requests(calls, SegArg)
  /\ requests \in 0 .. MaxRequests

\* A table has some of the keys and a row for each.
LEMMA TableTypes ==
  ASSUME NEW K, NEW R, NEW t
  PROVE  t \in UNION {[S -> R] : S \in SUBSET K} <=> DOMAIN t \subseteq K /\ t \in [DOMAIN t -> R]
OBVIOUS

LEMMA SegTypes == SegTyped => Seg!TypeOK
<1>1. SegArg \subseteq Seg!Asked
  BY DEF SegArg
<1>2. RQ!Request(SegArg) \subseteq Seg!Request(Seg!Asked)
  BY <1>1 DEF RQ!Request, Seg!Request
<1>3. Seg!Query(Seg!Tables) = RQ!Query(Seg!Tables)
  BY DEF RQ!Query, Seg!Query
<1>4. QED
  BY <1>2, <1>3 DEF SegTyped, Seg!TypeOK, Requests

LEMMA SegFree == \A cs : Seg!Free(cs) = RQ!Free(cs)
<1>1. \A S : Seg!Cardinality(S) = RQ!Cardinality(S)
  BY Zenon DEF Seg!Cardinality, RQ!Cardinality
<1>2. QED
  BY <1>1 DEF Seg!Free, RQ!Free

LEMMA SegTables ==
  \A t : t \in Seg!Tables <=> DOMAIN t \subseteq Slugs /\ t \in [DOMAIN t -> Seg!Row]
BY TableTypes DEF Seg!Tables

LEMMA SegTypedAtFirst == Seg!Init => SegTyped
<1> SUFFICES ASSUME Seg!Init PROVE SegTyped
  OBVIOUS
<1>1. list \in RQ!Query(Seg!Tables)
  BY SegOps, FirstQueryTypes DEF Seg!Init
<1>2. calls = {} /\ requests = 0 /\ open = TRUE /\ doubt = FALSE /\ dialog = Seg!NoDialog
  BY DEF Seg!Init
<1>3. Requests(calls, SegArg)
  BY <1>2, FS_EmptySet DEF Requests
<1>4. 0 \in 0 .. MaxRequests
  BY BoundsAssumption
<1>5. segs \in Seg!Tables
  <2>1. DOMAIN segs \subseteq Slugs /\ segs \in [DOMAIN segs -> [id : {0}, name : Names]]
    BY TableTypes DEF Seg!Init
  <2>2. [id : {0}, name : Names] \subseteq Seg!Row
    BY <1>4 DEF Seg!Row, Seg!Ids
  <2>3. segs \in [DOMAIN segs -> Seg!Row]
    BY <2>1, <2>2
  <2>4. QED
    BY <2>1, <2>3, SegTables
<1>6. QED
  BY <1>1, <1>2, <1>3, <1>4, <1>5 DEF SegTyped, Seg!NoDialog

LEMMA SegServesTyped ==
  ASSUME SegTyped, NEW c \in calls,
         Seg!ServeCreate(c) \/ Seg!ServeUpdate(c) \/ Seg!ServeDelete(c)
  PROVE  SegTyped'
<1>0. /\ Requests(calls, SegArg) /\ c \in RQ!Request(SegArg) /\ c.arg \in SegArg
      /\ segs \in Seg!Tables /\ c.arg \in Seg!Asked
  BY DEF SegTyped, Requests, RQ!Request, SegArg
<1>1. DOMAIN segs \subseteq Slugs /\ segs \in [DOMAIN segs -> Seg!Row]
  BY <1>0, SegTables
<1>2. /\ c.arg.seg \in Slugs /\ c.arg.id \in Seg!Ids
      /\ c.arg.op # "delete" => c.arg.name \in Names
  BY <1>0 DEF SegArg, Seg!Asked
\* The table on the server and the request are replaced.
<1>3. ASSUME UNCHANGED <<list, open, dialog, doubt, requests>>,
             NEW d \in RQ!Request(SegArg), NEW cs, Requests(cs, SegArg), NEW ok,
             calls' = RQ!Served(cs, d, ok), segs' \in Seg!Tables
      PROVE  SegTyped'
  <2>1. Requests(calls', SegArg)
    BY <1>3, RequestTypes
  <2>2. QED
    BY <1>3, <2>1 DEF SegTyped
<1>4. CASE Seg!ServeCreate(c)
  <2> DEFINE t == [x \in DOMAIN segs \cup {c.arg.seg} |->
                     IF x = c.arg.seg THEN [id |-> c.arg.id, name |-> c.arg.name] ELSE segs[x]]
  <2>1. /\ UNCHANGED <<list, open, dialog, doubt, requests>> /\ c.arg.op = "create"
        /\ \E ok : calls' = RQ!Served(calls, c, ok) /\ segs' \in {t, segs}
    BY <1>4, SegOps DEF Seg!ServeCreate, Seg!Serve
  <2>2. [id |-> c.arg.id, name |-> c.arg.name] \in Seg!Row
    BY <1>2, <2>1 DEF Seg!Row
  <2>3. t \in [DOMAIN t -> Seg!Row] /\ DOMAIN t \subseteq Slugs
    BY <1>1, <1>2, <2>2
  <2> HIDE DEF t
  <2>4. segs' \in Seg!Tables
    BY <1>0, <2>1, <2>3, SegTables
  <2>5. QED
    BY <1>0, <1>3, <2>1, <2>4
<1>5. CASE Seg!ServeDelete(c)
  <2> DEFINE t == [x \in DOMAIN segs \ {c.arg.seg} |-> segs[x]]
  <2>1. /\ UNCHANGED <<list, open, dialog, doubt, requests>>
        /\ \E ok : calls' = RQ!Served(calls, c, ok) /\ segs' \in {t, segs}
    BY <1>5, SegOps DEF Seg!ServeDelete, Seg!Serve
  <2>2. t \in [DOMAIN t -> Seg!Row] /\ DOMAIN t \subseteq Slugs
    BY <1>1
  <2> HIDE DEF t
  <2>3. segs' \in Seg!Tables
    BY <1>0, <2>1, <2>2, SegTables
  <2>4. QED
    BY <1>0, <1>3, <2>1, <2>3
<1>6. CASE Seg!ServeUpdate(c)
  <2>1. CASE c.arg.seg \in DOMAIN segs
    <3> DEFINE d == [c EXCEPT !.arg.id = segs[c.arg.seg].id]
               t == [segs EXCEPT ![c.arg.seg].name = c.arg.name]
    <3>1. /\ UNCHANGED <<list, open, dialog, doubt, requests>> /\ c.arg.op = "edit"
          /\ \E ok : calls' = RQ!Served(calls \ {c}, d, ok) /\ segs' \in {t, segs}
      BY <1>6, <2>1, SegOps DEF Seg!ServeUpdate
    <3>2. segs[c.arg.seg] \in Seg!Row
      BY <1>1, <2>1
    <3>3. d \in RQ!Request(SegArg)
      <4>1. segs[c.arg.seg].id \in Seg!Ids
        BY <3>2 DEF Seg!Row
      <4>2. [c.arg EXCEPT !.id = segs[c.arg.seg].id] \in SegArg
        BY <1>0, <4>1 DEF SegArg, Seg!Asked
      <4>3. QED
        BY <1>0, <4>2 DEF RQ!Request
    <3>4. t \in [DOMAIN t -> Seg!Row] /\ DOMAIN t \subseteq Slugs
      BY <1>1, <1>2, <2>1, <3>1, <3>2 DEF Seg!Row
    <3> HIDE DEF d, t
    <3>5. segs' \in Seg!Tables
      BY <1>0, <3>1, <3>4, SegTables
    <3>6. Requests(calls \ {c}, SegArg)
      BY <1>0, RequestTypes
    <3>7. QED
      BY <1>3, <3>1, <3>3, <3>5, <3>6
  <2>2. CASE c.arg.seg \notin DOMAIN segs
    <3>1. /\ UNCHANGED <<list, open, dialog, doubt, requests>>
          /\ calls' = RQ!Served(calls, c, FALSE) /\ segs' = segs
      BY <1>6, <2>2, SegOps DEF Seg!ServeUpdate, Seg!Serve
    <3>2. QED
      BY <1>0, <1>3, <3>1
  <2>3. QED
    BY <2>1, <2>2
<1>7. QED
  BY <1>4, <1>5, <1>6

LEMMA SegTypedStep == SegTyped /\ Seg!SegNext => SegTyped'
<1> SUFFICES ASSUME SegTyped, Seg!SegNext PROVE SegTyped'
  OBVIOUS
<1>0. /\ Requests(calls, SegArg) /\ IsFiniteSet(calls) /\ MaxRequests \in Nat
      /\ list \in RQ!Query(Seg!Tables) /\ segs \in Seg!Tables
  BY BoundsAssumption DEF SegTyped, Requests
\* A request is sent.
<1>1. ASSUME NEW op, NEW s, NEW n, Seg!Submit(op, s, n),
             op \in Seg!Ops, s \in Slugs, n \in Names \/ (op = "delete" /\ n = NoData)
      PROVE  /\ Requests(calls', SegArg) /\ requests' \in 0 .. MaxRequests
             /\ UNCHANGED <<segs, list, open, doubt>>
  <2> DEFINE a == [op |-> op, seg |-> s, name |-> n, id |-> requests']
  <2>1. /\ requests < MaxRequests /\ requests' = requests + 1
        /\ calls' = calls \cup {RQ!Sent(RQ!Free(calls), a)}
        /\ UNCHANGED <<segs, list, open, doubt>>
    BY <1>1, SegOps, SegFree DEF Seg!Submit
  <2>2. requests' \in 0 .. MaxRequests
    BY <1>0, <2>1 DEF SegTyped
  <2>3. a \in SegArg
    BY <1>1, <2>2 DEF SegArg, Seg!Asked, Seg!Ids
  <2> HIDE DEF a
  <2>4. RQ!Free(calls) \in Nat
    BY <1>0, FreeIsNumber
  <2>5. QED
    BY <1>0, <2>1, <2>2, <2>3, <2>4, RequestTypes
<1>2. ASSUME NEW s \in Slugs, NEW n \in Names, Seg!SubmitCreate(s, n) PROVE SegTyped'
  <2>1. Seg!Submit("create", s, n) /\ UNCHANGED dialog /\ "create" \in Seg!Ops
    BY <1>2 DEF Seg!SubmitCreate, Seg!Ops
  <2>2. QED
    BY <1>1, <2>1 DEF SegTyped
<1>3. ASSUME NEW n \in Names, Seg!SubmitEdit(n) PROVE SegTyped'
  <2>1. /\ Seg!Submit("edit", dialog.seg, n) /\ dialog' = [dialog EXCEPT !.name = n]
        /\ "edit" \in Seg!Ops
    BY <1>3 DEF Seg!SubmitEdit, Seg!Ops
  <2>2. dialog.kind = "edit" /\ dialog.seg \in Slugs
    BY <2>1 DEF Seg!Submit, Seg!At, SegTyped
  <2>3. QED
    BY <1>1, <2>1, <2>2 DEF SegTyped
<1>4. ASSUME Seg!ConfirmDelete PROVE SegTyped'
  <2>1. /\ Seg!Submit("delete", dialog.seg, NoData) /\ UNCHANGED dialog /\ "delete" \in Seg!Ops
    BY <1>4 DEF Seg!ConfirmDelete, Seg!Ops
  <2>2. dialog.seg \in Slugs
    BY <2>1 DEF Seg!Submit, Seg!At, SegTyped
  <2>3. QED
    BY <1>1, <2>1, <2>2 DEF SegTyped
<1>5. ASSUME Seg!OpenCreate \/ Seg!CloseDialog PROVE SegTyped'
  BY <1>5 DEF Seg!OpenCreate, Seg!CloseDialog, Seg!NoDialog, Seg!Ops, SegTyped
<1>6. ASSUME NEW s \in Slugs, Seg!OpenEdit(s) \/ Seg!OpenDelete(s) PROVE SegTyped'
  <2>1. UNCHANGED <<segs, list, open, calls, doubt, requests>> /\ s \in DOMAIN list.data
    BY <1>6 DEF Seg!OpenEdit, Seg!OpenDelete
  <2>2. list.data \in Seg!Tables
    BY <1>0, <1>6 DEF Seg!OpenEdit, Seg!OpenDelete, Seg!Visible, Seg!Shown, RQ!Query
  <2>3. list.data[s] \in Seg!Row
    BY <2>1, <2>2, SegTables
  <2>4. /\ dialog' \in [kind : Seg!Ops \cup {"none"}, seg : Slugs \cup {NoData},
                        name : Names \cup {NoData}]
        /\ dialog'.seg \in Slugs
    BY <1>6, <2>3 DEF Seg!OpenEdit, Seg!OpenDelete, Seg!Row, Seg!Ops
  <2>5. QED
    BY <2>1, <2>4 DEF SegTyped
<1>7. ASSUME NEW c \in calls, Seg!CreateOrDeleteReply(c) \/ Seg!UpdateReply(c) PROVE SegTyped'
  <2>1. Seg!Settle(c)
    BY <1>7 DEF Seg!CreateOrDeleteReply, Seg!UpdateReply
  <2>2. /\ calls' = calls \ {c} /\ dialog' \in {Seg!NoDialog, dialog}
        /\ UNCHANGED <<segs, open, requests>>
    BY <2>1 DEF Seg!Settle
  <2>3. Requests(calls', SegArg)
    BY <1>0, <2>2, RequestTypes
  <2>4. /\ dialog' \in [kind : Seg!Ops \cup {"none"}, seg : Slugs \cup {NoData},
                        name : Names \cup {NoData}]
        /\ dialog'.kind \in {"edit", "delete"} => dialog'.seg \in Slugs
    BY <2>2 DEF SegTyped, Seg!NoDialog
  <2>5. doubt' \in BOOLEAN
    BY <1>7 DEF Seg!CreateOrDeleteReply, Seg!UpdateReply
  <2>6. CASE Seg!CreateOrDeleteReply(c)
    <3>1. list' \in {list, RQ!Invalidate(list)}
      BY <2>6, SegOps DEF Seg!CreateOrDeleteReply
    <3>2. list' \in RQ!Query(Seg!Tables)
      BY <1>0, <3>1, QueryTypes
    <3>3. QED
      BY <2>2, <2>3, <2>4, <2>5, <3>2 DEF SegTyped
  <2>7. CASE Seg!UpdateReply(c) /\ list.data # NoData
    <3> DEFINE t == Renamed(list.data, c.arg)
    <3>1. list' = [list EXCEPT !.err = FALSE, !.data = t]
      BY <2>7 DEF Seg!UpdateReply, Renamed
    <3>2. list.data \in Seg!Tables
      BY <1>0, <2>7 DEF RQ!Query
    <3>3. DOMAIN list.data \subseteq Slugs /\ list.data \in [DOMAIN list.data -> Seg!Row]
      BY <3>2, SegTables
    <3>4. c.arg.name \in Names
      BY <1>0, <2>7 DEF Seg!UpdateReply, Requests, RQ!Request, SegArg
    <3>5. t \in [DOMAIN t -> Seg!Row] /\ DOMAIN t \subseteq Slugs
      BY <3>3, <3>4 DEF Renamed, Seg!Row
    <3> HIDE DEF t
    <3>6. t \in Seg!Tables
      BY <3>5, SegTables
    <3>7. list' \in RQ!Query(Seg!Tables)
      BY <1>0, <3>1, <3>6 DEF RQ!Query
    <3>8. QED
      BY <2>2, <2>3, <2>4, <2>5, <3>7 DEF SegTyped
  <2>8. CASE Seg!UpdateReply(c) /\ list.data = NoData
    <3>1. list' = list
      BY <2>8 DEF Seg!UpdateReply
    <3>2. QED
      BY <2>2, <2>3, <2>4, <2>5, <3>1 DEF SegTyped
  <2>9. QED
    BY <1>7, <2>6, <2>7, <2>8
<1>8. ASSUME NEW c \in calls, Seg!ErrorReply(c) PROVE SegTyped'
  <2>1. /\ calls' = calls \ {c} /\ doubt' \in BOOLEAN
        /\ UNCHANGED <<segs, list, open, dialog, requests>>
    BY <1>8 DEF Seg!ErrorReply
  <2>2. Requests(calls', SegArg)
    BY <1>0, <2>1, RequestTypes
  <2>3. QED
    BY <2>1, <2>2 DEF SegTyped
<1>9. ASSUME Seg!ServeList \/ Seg!Focus \/ Seg!Enter PROVE SegTyped'
  <2>1. UNCHANGED <<segs, dialog, calls, doubt, requests>> /\ open' \in BOOLEAN
    BY <1>9 DEF Seg!ServeList, Seg!Focus, Seg!Enter, SegTyped
  <2>2. list' = RQ!Fetch(list) \/ \E v \in {segs, NoData} : list' = RQ!Answer(list, v)
    BY <1>9, SegOps DEF Seg!ServeList, Seg!Focus, Seg!Enter
  <2>3. list' \in RQ!Query(Seg!Tables)
    BY <1>0, <2>2, QueryTypes
  <2>4. QED
    BY <2>1, <2>3 DEF SegTyped
<1>10. ASSUME Seg!ListArrives PROVE SegTyped'
  <2> DEFINE g == [c \in calls |-> IF ~Seg!Shown(list') /\ c.arg.op # "delete" /\ c.from = "here"
                                   THEN [c EXCEPT !.from = "page"] ELSE c]
  <2>1. /\ list' = RQ!Arrive(list) /\ UNCHANGED <<segs, open, dialog, doubt, requests>>
        /\ calls' = {g[c] : c \in calls} /\ g = [c \in calls |-> g[c]]
    BY <1>10, SegOps DEF Seg!ListArrives
  <2>2. \A c \in calls : g[c] \in RQ!Request(SegArg)
    BY <1>0 DEF Requests, RQ!Request
  <2> HIDE DEF g
  <2>3. Requests(calls', SegArg)
    BY <1>0, <2>1, <2>2, ImageTypes
  <2>4. list' \in RQ!Query(Seg!Tables)
    BY <1>0, <2>1, QueryTypes
  <2>5. QED
    BY <2>1, <2>3, <2>4 DEF SegTyped
<1>11. ASSUME Seg!Leave PROVE SegTyped'
  <2> DEFINE g == [c \in calls |-> [c EXCEPT !.from = "gone"]]
  <2>1. /\ open' = FALSE /\ dialog' = Seg!NoDialog /\ UNCHANGED <<segs, list, doubt, requests>>
        /\ calls' = {g[c] : c \in calls} /\ g = [c \in calls |-> g[c]]
    BY <1>11 DEF Seg!Leave, Seg!Unmounted
  <2>2. \A c \in calls : g[c] \in RQ!Request(SegArg)
    BY <1>0 DEF Requests, RQ!Request
  <2> HIDE DEF g
  <2>3. Requests(calls', SegArg)
    BY <1>0, <2>1, <2>2, ImageTypes
  <2>4. QED
    BY <2>1, <2>3 DEF SegTyped, Seg!NoDialog
<1>12. QED
  BY <1>2, <1>3, <1>4, <1>5, <1>6, <1>7, <1>8, <1>9, <1>10, <1>11, SegServesTyped DEF Seg!SegNext

-----------------------------------------------------------------------------
(* The members dialog of a segment. *)
MemTyped ==
  /\ stored \in [Segments -> SUBSET UserKeys]
  /\ fetched \in [Segments -> RQ!Query(SUBSET UserKeys)]
  /\ body \in BOOLEAN /\ unsure \in BOOLEAN
  /\ managing \in Segments \cup {NoData}
  /\ members \in SUBSET UserKeys
  /\ bulk \in [open : BOOLEAN, text : SUBSET UserKeys]
  /\ Requests(saves, Mem!SaveArg)
  /\ sent \in 0 .. MaxSaves

LEMMA MemTypes == MemTyped => Mem!TypeOK
BY DEF MemTyped, Mem!TypeOK, Requests, Mem!Query, RQ!Query, Mem!Request, RQ!Request

LEMMA MemTypedAtFirst == Mem!Init => MemTyped
<1> SUFFICES ASSUME Mem!Init PROVE MemTyped
  OBVIOUS
<1>1. fetched = [s \in Segments |-> RQ!NoQuery]
  BY MemOps DEF Mem!Init
<1>2. fetched \in [Segments -> RQ!Query(SUBSET UserKeys)]
  BY <1>1, FirstQueryTypes
<1>3. Requests(saves, Mem!SaveArg)
  BY FS_EmptySet DEF Mem!Init, Requests
<1>4. 0 \in 0 .. MaxSaves
  BY BoundsAssumption
<1>5. QED
  BY <1>2, <1>3, <1>4 DEF Mem!Init, MemTyped, Mem!NoText

LEMMA MemTypedStep == MemTyped /\ Mem!MemNext => MemTyped'
<1> SUFFICES ASSUME MemTyped, Mem!MemNext PROVE MemTyped'
  OBVIOUS
<1>0. /\ Requests(saves, Mem!SaveArg) /\ fetched \in [Segments -> RQ!Query(SUBSET UserKeys)]
      /\ MaxSaves \in Nat
      /\ Mem!NoText \in [open : BOOLEAN, text : SUBSET UserKeys]
  BY BoundsAssumption DEF MemTyped, Mem!NoText
<1>1. \A s \in Segments : Mem!Loaded(s) \in SUBSET UserKeys
  BY <1>0 DEF Mem!Loaded, RQ!Query
\* Some entry is asked for or answered.
<1>2. ASSUME NEW s \in Segments,
             \/ fetched' = [fetched EXCEPT ![s] = RQ!Fetch(@)]
             \/ fetched' = [fetched EXCEPT ![s] = RQ!Invalidate(@)]
             \/ fetched' = [fetched EXCEPT ![s] = RQ!Arrive(@)]
             \/ \E v \in (SUBSET UserKeys) \cup {NoData} :
                  fetched' = [fetched EXCEPT ![s] = RQ!Answer(@, v)]
      PROVE  fetched' \in [Segments -> RQ!Query(SUBSET UserKeys)]
  <2> DEFINE q == fetched[s]
  <2>1. q \in RQ!Query(SUBSET UserKeys)
    BY <1>0
  <2>2. \E p \in RQ!Query(SUBSET UserKeys) : fetched' = [fetched EXCEPT ![s] = p]
    BY <1>2, <2>1, QueryTypes
  <2>3. QED
    BY <1>0, <2>2
\* The requests take the callbacks of another render.
<1>3. ASSUME NEW s \in Segments \cup {NoData}, saves' = Mem!Rekey(s)
      PROVE  Requests(saves', Mem!SaveArg)
  <2> DEFINE g == [c \in saves |-> IF Mem!Latest(c) THEN [c EXCEPT !.arg.key = s] ELSE c]
  <2>1. saves' = {g[c] : c \in saves} /\ g = [c \in saves |-> g[c]]
    BY <1>3 DEF Mem!Rekey
  <2>2. \A c \in saves : g[c] \in RQ!Request(Mem!SaveArg)
    <3> SUFFICES ASSUME NEW c \in saves PROVE [c EXCEPT !.arg.key = s] \in RQ!Request(Mem!SaveArg)
      BY <1>0 DEF Requests
    <3>1. c \in RQ!Request(Mem!SaveArg) /\ c.arg \in Mem!SaveArg
      BY <1>0 DEF Requests, RQ!Request
    <3>2. [c.arg EXCEPT !.key = s] \in Mem!SaveArg
      BY <3>1 DEF Mem!SaveArg
    <3>3. QED
      BY <3>1, <3>2 DEF RQ!Request
  <2> HIDE DEF g
  <2>3. QED
    BY <1>0, <2>1, <2>2, ImageTypes
<1>4. ASSUME NEW s \in Segments, Mem!OpenMembers(s) PROVE MemTyped'
  <2>1. fetched' \in [Segments -> RQ!Query(SUBSET UserKeys)]
    BY <1>2, <1>4, MemOps DEF Mem!OpenMembers
  <2>2. Requests(saves', Mem!SaveArg)
    BY <1>3, <1>4 DEF Mem!OpenMembers
  <2>3. QED
    BY <1>1, <1>4, <2>1, <2>2 DEF Mem!OpenMembers, MemTyped
<1>5. ASSUME Mem!CloseMembers PROVE MemTyped'
  <2>1. Requests(saves', Mem!SaveArg)
    BY <1>3, <1>5 DEF Mem!CloseMembers
  <2>2. QED
    BY <1>5, <2>1 DEF Mem!CloseMembers, MemTyped
<1>6. ASSUME NEW s \in Segments, Mem!ServeMembers(s) PROVE MemTyped'
  <2>1. PICK v \in {stored[s], NoData} : fetched' = [fetched EXCEPT ![s] = RQ!Answer(@, v)]
    BY <1>6, MemOps DEF Mem!ServeMembers
  <2>2. v \in (SUBSET UserKeys) \cup {NoData}
    BY DEF MemTyped
  <2>3. fetched' \in [Segments -> RQ!Query(SUBSET UserKeys)]
    BY <1>2, <2>1, <2>2
  <2>4. QED
    BY <1>6, <2>3 DEF Mem!ServeMembers, MemTyped
<1>7. ASSUME NEW s \in Segments, Mem!MembersArrive(s) PROVE MemTyped'
  <2>1. fetched' = [fetched EXCEPT ![s] = RQ!Arrive(@)]
    BY <1>7, MemOps DEF Mem!MembersArrive
  <2>2. fetched' \in [Segments -> RQ!Query(SUBSET UserKeys)]
    BY <1>2, <2>1
  <2>3. fetched'[s] = RQ!Arrive(fetched[s]) /\ fetched[s] \in RQ!Query(SUBSET UserKeys)
    BY <1>0, <2>1
  <2>4. fetched'[s].data # fetched[s].data => fetched'[s].data \in SUBSET UserKeys
    BY <2>3 DEF RQ!Arrive, RQ!Query
  <2>5. members' \in SUBSET UserKeys
    BY <1>7, <2>4 DEF Mem!MembersArrive, MemTyped
  <2>6. QED
    BY <1>7, <2>2, <2>5 DEF Mem!MembersArrive, MemTyped
<1>8. ASSUME Mem!Focus PROVE MemTyped'
  <2>1. managing \in Segments
    BY <1>8 DEF Mem!Focus, MemTyped
  <2>2. fetched' \in [Segments -> RQ!Query(SUBSET UserKeys)]
    BY <1>2, <1>8, <2>1, MemOps DEF Mem!Focus
  <2>3. QED
    BY <1>8, <2>2 DEF Mem!Focus, MemTyped
<1>9. ASSUME Mem!BodyRecovers PROVE MemTyped'
  <2>1. CASE managing = NoData
    BY <1>9, <2>1 DEF Mem!BodyRecovers, MemTyped
  <2>2. CASE managing # NoData
    <3>1. managing \in Segments
      BY <2>2 DEF MemTyped
    <3>2. fetched' \in [Segments -> RQ!Query(SUBSET UserKeys)]
      BY <1>2, <1>9, <2>2, <3>1, MemOps DEF Mem!BodyRecovers
    <3>3. QED
      BY <1>1, <1>9, <2>2, <3>1, <3>2 DEF Mem!BodyRecovers, MemTyped
  <2>3. QED
    BY <2>1, <2>2
<1>10. ASSUME Mem!BodyFails PROVE MemTyped'
  <2> DEFINE g == [c \in saves |-> [c EXCEPT !.from = "gone"]]
  <2>1. saves' = {g[c] : c \in saves} /\ g = [c \in saves |-> g[c]]
    BY <1>10 DEF Mem!BodyFails, Mem!Unmounted
  <2>2. \A c \in saves : g[c] \in RQ!Request(Mem!SaveArg)
    BY <1>0 DEF Requests, RQ!Request
  <2> HIDE DEF g
  <2>3. Requests(saves', Mem!SaveArg)
    BY <1>0, <2>1, <2>2, ImageTypes
  <2>4. QED
    BY <1>0, <1>10, <2>3 DEF Mem!BodyFails, MemTyped
\* A list is saved.
<1>11. ASSUME NEW ks \in SUBSET UserKeys, Mem!MembersShown, Mem!Save(ks),
              bulk' \in [open : BOOLEAN, text : SUBSET UserKeys]
       PROVE  MemTyped'
  <2> DEFINE a == [seg |-> managing, keys |-> ks, key |-> managing]
  <2>1. /\ sent < MaxSaves /\ sent' = sent + 1 /\ members' = ks /\ unsure' \in BOOLEAN
        /\ saves' = saves \cup {RQ!Sent(sent', a)} /\ UNCHANGED <<stored, fetched, body, managing>>
    BY <1>11, MemOps DEF Mem!Save
  <2>2. a \in Mem!SaveArg
    BY <1>11 DEF Mem!MembersShown, MemTyped, Mem!SaveArg
  <2>3. sent' \in 0 .. MaxSaves /\ sent' \in Nat
    BY <1>0, <2>1 DEF MemTyped
  <2> HIDE DEF a
  <2>4. Requests(saves', Mem!SaveArg)
    BY <1>0, <2>1, <2>2, <2>3, RequestTypes
  <2>5. QED
    BY <1>11, <2>1, <2>3, <2>4 DEF MemTyped
<1>12. ASSUME NEW k \in UserKeys, Mem!AddMember(k) \/ Mem!RemoveMember(k) PROVE MemTyped'
  <2>1. members \cup {k} \in SUBSET UserKeys /\ members \ {k} \in SUBSET UserKeys
    BY DEF MemTyped
  <2>2. bulk' \in [open : BOOLEAN, text : SUBSET UserKeys]
    BY <1>12 DEF Mem!AddMember, Mem!RemoveMember, MemTyped
  <2>3. QED
    BY <1>11, <1>12, <2>1, <2>2 DEF Mem!AddMember, Mem!RemoveMember
<1>13. ASSUME Mem!ApplyBulk PROVE MemTyped'
  <2>1. bulk.text \in SUBSET UserKeys
    BY DEF MemTyped
  <2>2. QED
    BY <1>0, <1>11, <1>13, <2>1 DEF Mem!ApplyBulk
<1>14. ASSUME Mem!ToggleBulk \/ \E t \in SUBSET UserKeys : Mem!TypeBulk(t) PROVE MemTyped'
  <2>1. UNCHANGED <<stored, fetched, body, managing, members, saves, unsure, sent>>
    BY <1>14 DEF Mem!ToggleBulk, Mem!TypeBulk
  <2>2. bulk' \in [open : BOOLEAN, text : SUBSET UserKeys]
    <3>1. CASE Mem!ToggleBulk
      <4>1. bulk' \in {Mem!NoText, [open |-> TRUE, text |-> members]}
        BY <3>1 DEF Mem!ToggleBulk
      <4>2. members \in SUBSET UserKeys
        BY DEF MemTyped
      <4>3. [open |-> TRUE, text |-> members] \in [open : BOOLEAN, text : SUBSET UserKeys]
        BY <4>2
      <4>4. QED
        BY <1>0, <4>1, <4>3
    <3>2. ASSUME NEW t \in SUBSET UserKeys, Mem!TypeBulk(t)
          PROVE  bulk' \in [open : BOOLEAN, text : SUBSET UserKeys]
      BY <3>2 DEF Mem!TypeBulk, MemTyped
    <3>3. QED
      BY <1>14, <3>1, <3>2
  <2>3. QED
    BY <2>1, <2>2 DEF MemTyped
<1>15. ASSUME NEW c \in saves, Mem!ServeSave(c) PROVE MemTyped'
  <2>1. PICK ok \in BOOLEAN :
               /\ saves' = RQ!Served(saves, c, ok)
               /\ stored' = IF ok THEN [stored EXCEPT ![c.arg.seg] = c.arg.keys] ELSE stored
    BY <1>15, MemOps DEF Mem!ServeSave
  <2>2. c \in RQ!Request(Mem!SaveArg) /\ c.arg \in Mem!SaveArg
    BY <1>0 DEF Requests, RQ!Request
  <2>3. Requests(saves', Mem!SaveArg)
    BY <1>0, <2>1, <2>2, RequestTypes
  <2>4. stored' \in [Segments -> SUBSET UserKeys]
    BY <2>1, <2>2 DEF MemTyped, Mem!SaveArg
  <2>5. QED
    BY <1>15, <2>3, <2>4 DEF Mem!ServeSave, MemTyped
<1>16. ASSUME NEW c \in saves, Mem!SaveReply(c) \/ Mem!SaveFails(c) PROVE MemTyped'
  <2>1. /\ saves' = saves \ {c} /\ unsure' \in BOOLEAN
        /\ UNCHANGED <<stored, body, managing, members, bulk, sent>>
    BY <1>16 DEF Mem!SaveReply, Mem!SaveFails
  <2>2. Requests(saves', Mem!SaveArg)
    BY <1>0, <2>1, RequestTypes
  <2>3. fetched' \in [Segments -> RQ!Query(SUBSET UserKeys)]
    <3>1. CASE fetched' = fetched
      BY <1>0, <3>1
    <3>2. CASE fetched' # fetched
      <4>1. /\ fetched' = [fetched EXCEPT ![c.arg.key] = RQ!Invalidate(@)]
            /\ c.arg.key # NoData
        BY <1>16, <3>2, MemOps DEF Mem!SaveReply, Mem!SaveFails
      <4>2. c.arg.key \in Segments
        BY <1>0, <4>1 DEF Requests, RQ!Request, Mem!SaveArg
      <4>3. QED
        BY <1>2, <4>1, <4>2
    <3>3. QED
      BY <3>1, <3>2
  <2>4. QED
    BY <2>1, <2>2, <2>3 DEF MemTyped
<1>17. QED
  BY <1>4, <1>5, <1>6, <1>7, <1>8, <1>9, <1>10, <1>12, <1>13, <1>14, <1>15, <1>16 DEF Mem!MemNext

-----------------------------------------------------------------------------
(* The API keys page: its dialogs are of an environment, and what is sent   *)
(* to be stored has a tier.                                                 *)
ApiArg == {a \in [op : {"create", "revoke", "tier"}, key : KeyIds,
                  env : Envs, tier : Tiers \cup {NoData}] : a.op # "revoke" => a.tier \in Tiers}

ApiTyped ==
  /\ DOMAIN issued \subseteq KeyIds /\ issued \in [DOMAIN issued -> Api!KeyRow]
  /\ keysQuery \in [Envs -> RQ!Query(Api!Lists)]
  /\ envSlug \in Envs \cup {NoData} /\ asked \in 0 .. MaxRequests
  /\ showCreate \in BOOLEAN /\ missed \in BOOLEAN /\ owed \in BOOLEAN
  /\ pendingRevoke \in KeyIds \cup {NoData}
  /\ phase \in [key : KeyIds, env : Envs] \cup {NoData}
  /\ showCreate \/ pendingRevoke # NoData => envSlug # NoData
  /\ Requests(calls, ApiArg)

LEMMA ApiTypes == ApiTyped => Api!TypeOK
<1> SUFFICES ASSUME ApiTyped PROVE Api!TypeOK
  OBVIOUS
<1>1. issued \in UNION {[K -> Api!KeyRow] : K \in SUBSET KeyIds}
  BY TableTypes DEF ApiTyped
<1>2. RQ!Query(Api!Lists) = Api!Query(Api!Lists)
  BY DEF RQ!Query, Api!Query
<1>3. calls \subseteq Api!Request([op : {"create", "revoke", "tier"}, key : KeyIds,
                                   env : Envs, tier : Tiers \cup {NoData}])
  <2>1. \A c \in calls : c \in RQ!Request(ApiArg)
    BY DEF ApiTyped, Requests
  <2>2. QED
    BY <2>1 DEF ApiArg, RQ!Request, Api!Request
<1>4. QED
  BY <1>1, <1>2, <1>3 DEF ApiTyped, Api!TypeOK

LEMMA ApiFree == \A cs : Api!Free(cs) = RQ!Free(cs)
<1>1. \A S : Api!Cardinality(S) = RQ!Cardinality(S)
  BY Zenon DEF Api!Cardinality, RQ!Cardinality
<1>2. QED
  BY <1>1 DEF Api!Free, RQ!Free

LEMMA ApiTypedAtFirst == Api!Init => ApiTyped
<1> SUFFICES ASSUME Api!Init PROVE ApiTyped
  OBVIOUS
<1>1. PICK k \in KeyIds, t \in Tiers : issued = [x \in {k} |-> Api!NewKey(FirstEnv, t)]
  BY DEF Api!Init
<1>2. DOMAIN issued \subseteq KeyIds /\ issued \in [DOMAIN issued -> Api!KeyRow]
  BY <1>1, FirstEnvAssumption DEF Api!NewKey, Api!KeyRow
<1>3. keysQuery = [e \in Envs |-> RQ!NoQuery]
  BY ApiOps DEF Api!Init
<1>4. keysQuery \in [Envs -> RQ!Query(Api!Lists)]
  BY <1>3, FirstQueryTypes
<1>5. Requests(calls, ApiArg)
  BY FS_EmptySet DEF Api!Init, Requests
<1>6. 0 \in 0 .. MaxRequests
  BY BoundsAssumption
<1>7. QED
  BY <1>2, <1>4, <1>5, <1>6 DEF Api!Init, ApiTyped

\* A request is sent from the page of an environment.
LEMMA ApiSendsTyped ==
  ASSUME ApiTyped, NEW op, NEW k \in KeyIds, NEW t, Api!Send(op, k, t), envSlug # NoData,
         \/ op \in {"create", "tier"} /\ t \in Tiers
         \/ op = "revoke" /\ t = NoData,
         UNCHANGED <<issued, keysQuery, envSlug, showCreate, pendingRevoke, phase, owed, missed>>
  PROVE  ApiTyped'
<1> DEFINE a == [op |-> op, key |-> k, env |-> envSlug, tier |-> t]
<1>1. /\ asked < MaxRequests /\ asked' = asked + 1
      /\ calls' = calls \cup {RQ!Sent(RQ!Free(calls), a)}
  BY ApiOps, ApiFree DEF Api!Send
<1>2. a \in ApiArg
  BY DEF ApiTyped, ApiArg
<1>3. asked' \in 0 .. MaxRequests
  BY <1>1, BoundsAssumption DEF ApiTyped
<1> HIDE DEF a
<1>4. RQ!Free(calls) \in Nat
  BY FreeIsNumber DEF ApiTyped, Requests
<1>5. Requests(calls', ApiArg)
  BY <1>1, <1>2, <1>4, RequestTypes DEF ApiTyped
<1>6. QED
  BY <1>3, <1>5 DEF ApiTyped

\* The list of some environment is asked for or answered.
LEMMA ApiQueryTyped ==
  ASSUME ApiTyped, NEW e \in Envs,
         \/ keysQuery' = [keysQuery EXCEPT ![e] = RQ!Fetch(@)]
         \/ keysQuery' = [keysQuery EXCEPT ![e] = RQ!Invalidate(@)]
         \/ keysQuery' = [keysQuery EXCEPT ![e] = RQ!Arrive(@)]
         \/ \E v \in Api!Lists \cup {NoData} : keysQuery' = [keysQuery EXCEPT ![e] = RQ!Answer(@, v)]
  PROVE  keysQuery' \in [Envs -> RQ!Query(Api!Lists)]
<1> DEFINE q == keysQuery[e]
<1>1. keysQuery \in [Envs -> RQ!Query(Api!Lists)] /\ q \in RQ!Query(Api!Lists)
  BY DEF ApiTyped
<1>2. \E p \in RQ!Query(Api!Lists) : keysQuery' = [keysQuery EXCEPT ![e] = p]
  BY <1>1, QueryTypes
<1>3. QED
  BY <1>1, <1>2

LEMMA ApiServesTyped ==
  ASSUME ApiTyped, NEW c \in calls, Api!ServeCall(c)
  PROVE  ApiTyped'
<1> DEFINE r == Api!NewRow(c.arg)
           t == [k \in DOMAIN issued \cup {c.arg.key} |-> IF k = c.arg.key THEN r ELSE issued[k]]
<1>1. PICK ok \in {c.arg.op = "create" \/ c.arg.key \in Api!Live, FALSE} :
             /\ calls' = RQ!Served(calls, c, ok)
             /\ issued' = IF ~ok THEN issued ELSE t
  BY ApiOps DEF Api!ServeCall
<1>2. UNCHANGED <<keysQuery, envSlug, showCreate, pendingRevoke, phase, owed, missed, asked>>
  BY DEF Api!ServeCall, Api!dialogs, Api!history
<1>3. c \in RQ!Request(ApiArg) /\ c.arg \in ApiArg /\ Requests(calls, ApiArg)
  BY DEF ApiTyped, Requests, RQ!Request
<1>4. Requests(calls', ApiArg)
  BY <1>1, <1>3, RequestTypes
<1>5. ASSUME c.arg.op = "create" \/ c.arg.key \in Api!Live PROVE r \in Api!KeyRow
  <2>1. CASE c.arg.op = "create"
    BY <1>3, <2>1 DEF Api!NewRow, Api!NewKey, Api!KeyRow, ApiArg
  <2>2. CASE c.arg.op # "create"
    <3>1. issued[c.arg.key] \in Api!KeyRow
      BY <1>5, <2>2 DEF Api!Live, ApiTyped
    <3>2. CASE c.arg.op = "revoke"
      BY <3>1, <3>2 DEF Api!NewRow, Api!KeyRow
    <3>3. CASE c.arg.op = "tier"
      <4>1. c.arg.tier \in Tiers
        BY <1>3, <3>3 DEF ApiArg
      <4>2. QED
        BY <3>1, <3>3, <4>1 DEF Api!NewRow, Api!KeyRow
    <3>4. QED
      BY <1>3, <2>2, <3>2, <3>3 DEF ApiArg
  <2>3. QED
    BY <2>1, <2>2
<1> HIDE DEF r
<1>6. DOMAIN issued' \subseteq KeyIds /\ issued' \in [DOMAIN issued' -> Api!KeyRow]
  <2>1. CASE ~ok
    BY <1>1, <2>1 DEF ApiTyped
  <2>2. CASE ok
    <3>1. r \in Api!KeyRow /\ issued' = t
      BY <1>1, <1>5, <2>2
    <3>2. c.arg.key \in KeyIds
      BY <1>3 DEF ApiArg
    <3>3. DOMAIN t \subseteq KeyIds /\ t \in [DOMAIN t -> Api!KeyRow]
      BY <3>1, <3>2 DEF ApiTyped
    <3> HIDE DEF t
    <3>4. QED
      BY <3>1, <3>3
  <2>3. QED
    BY <2>1, <2>2
<1>7. QED
  BY <1>2, <1>4, <1>6 DEF ApiTyped

LEMMA ApiTypedStep == ApiTyped /\ Api!ApiNext => ApiTyped'
<1> SUFFICES ASSUME ApiTyped, Api!ApiNext PROVE ApiTyped'
  OBVIOUS
<1>0. Requests(calls, ApiArg) /\ keysQuery \in [Envs -> RQ!Query(Api!Lists)]
  BY DEF ApiTyped
<1>1. \A e : Api!ListOf(e) \in Api!Lists
  <2> SUFFICES ASSUME NEW e PROVE Api!ListOf(e) \in Api!Lists
    OBVIOUS
  <2> DEFINE K == {x \in Api!Live : issued[x].env = e}
  <2>1. K \subseteq KeyIds /\ \A k \in K : issued[k].tier \in Tiers
    BY DEF ApiTyped, Api!Live, Api!KeyRow
  <2>2. Api!ListOf(e) = [k \in K |-> issued[k].tier]
    BY DEF Api!ListOf
  <2> HIDE DEF K
  <2>3. Api!ListOf(e) \in [K -> Tiers]
    BY <2>1, <2>2
  <2>4. QED
    BY <2>1, <2>3 DEF Api!Lists
<1>2. ASSUME NEW e \in Envs, Api!Select(e) PROVE ApiTyped'
  <2> DEFINE g == [c \in calls |-> IF c.arg.op = "revoke" /\ c.from = "here"
                                   THEN [c EXCEPT !.arg.env = e] ELSE c]
  <2>1. /\ envSlug' = e /\ keysQuery' = [keysQuery EXCEPT ![e] = RQ!Fetch(@)]
        /\ calls' = {g[c] : c \in calls} /\ g = [c \in calls |-> g[c]]
        /\ UNCHANGED <<issued, showCreate, pendingRevoke, phase, owed, missed, asked>>
    BY <1>2, ApiOps DEF Api!Select, Api!dialogs, Api!history
  <2>2. ASSUME NEW c \in calls PROVE g[c] \in RQ!Request(ApiArg)
    <3>1. c \in RQ!Request(ApiArg) /\ c.arg \in ApiArg
      BY <1>0 DEF Requests, RQ!Request
    <3>2. [c.arg EXCEPT !.env = e] \in ApiArg
      BY <3>1 DEF ApiArg
    <3>3. [c EXCEPT !.arg.env = e] \in RQ!Request(ApiArg)
      BY <3>1, <3>2 DEF RQ!Request
    <3>4. QED
      BY <3>1, <3>3
  <2> HIDE DEF g
  <2>3. Requests(calls', ApiArg)
    BY <1>0, <2>1, <2>2, ImageTypes
  <2>4. keysQuery' \in [Envs -> RQ!Query(Api!Lists)]
    BY <2>1, ApiQueryTyped
  <2>5. showCreate \/ pendingRevoke # NoData => envSlug' # NoData
    BY <1>2, <2>1 DEF Api!Select, Api!Bare, ApiTyped
  <2>6. QED
    BY <2>1, <2>3, <2>4, <2>5 DEF ApiTyped
<1>3. ASSUME NEW e \in Envs, Api!ServeKeys(e) \/ Api!KeysArrive(e) PROVE ApiTyped'
  <2>1. UNCHANGED <<issued, envSlug, showCreate, pendingRevoke, phase, calls, owed, missed, asked>>
    BY <1>3 DEF Api!ServeKeys, Api!KeysArrive, Api!dialogs, Api!history
  <2>2. \/ keysQuery' = [keysQuery EXCEPT ![e] = RQ!Arrive(@)]
        \/ \E v \in {Api!ListOf(e), NoData} : keysQuery' = [keysQuery EXCEPT ![e] = RQ!Answer(@, v)]
    BY <1>3, ApiOps DEF Api!ServeKeys, Api!KeysArrive
  <2>3. keysQuery' \in [Envs -> RQ!Query(Api!Lists)]
    BY <1>1, <2>2, ApiQueryTyped
  <2>4. QED
    BY <2>1, <2>3 DEF ApiTyped
<1>4. ASSUME Api!Focus PROVE ApiTyped'
  <2>1. /\ UNCHANGED <<issued, envSlug, showCreate, pendingRevoke, phase, calls, owed, missed, asked>>
        /\ keysQuery' = [keysQuery EXCEPT ![envSlug] = RQ!Fetch(@)]
    BY <1>4, ApiOps DEF Api!Focus, Api!dialogs, Api!history
  <2>2. envSlug \in Envs
    BY <1>4 DEF Api!Focus, ApiTyped
  <2>3. keysQuery' \in [Envs -> RQ!Query(Api!Lists)]
    BY <2>1, <2>2, ApiQueryTyped
  <2>4. QED
    BY <2>1, <2>3 DEF ApiTyped
<1>5. ASSUME Api!DoneShowing PROVE ApiTyped'
  <2>1. /\ UNCHANGED <<issued, envSlug, pendingRevoke, phase, calls, asked>>
        /\ keysQuery' = [keysQuery EXCEPT ![envSlug] = RQ!Invalidate(@)]
        /\ showCreate' = FALSE /\ owed' \in BOOLEAN /\ missed' \in BOOLEAN
    BY <1>5, ApiOps DEF Api!DoneShowing
  <2>2. envSlug \in Envs
    BY <1>5 DEF Api!DoneShowing, ApiTyped
  <2>3. keysQuery' \in [Envs -> RQ!Query(Api!Lists)]
    BY <2>1, <2>2, ApiQueryTyped
  <2>4. QED
    BY <2>1, <2>3 DEF ApiTyped
<1>6. ASSUME NEW k \in KeyIds, NEW t \in Tiers, Api!SubmitCreate(k, t) \/ Api!SelectTier(k, t)
      PROVE  ApiTyped'
  <2>1. envSlug # NoData
    BY <1>6 DEF Api!SubmitCreate, Api!SelectTier, Api!Cards, ApiTyped
  <2>2. /\ UNCHANGED <<issued, keysQuery, envSlug, showCreate, pendingRevoke, phase, owed, missed>>
        /\ \E op \in {"create", "tier"} : Api!Send(op, k, t)
    BY <1>6 DEF Api!SubmitCreate, Api!SelectTier, Api!dialogs, Api!history
  <2>3. QED
    BY <2>1, <2>2, ApiSendsTyped
<1>7. ASSUME Api!ConfirmRevoke PROVE ApiTyped'
  <2>1. envSlug # NoData /\ pendingRevoke \in KeyIds
    BY <1>7 DEF Api!ConfirmRevoke, ApiTyped
  <2>2. /\ UNCHANGED <<issued, keysQuery, envSlug, showCreate, pendingRevoke, phase, owed, missed>>
        /\ Api!Send("revoke", pendingRevoke, NoData)
    BY <1>7 DEF Api!ConfirmRevoke, Api!dialogs, Api!history
  <2>3. QED
    BY <2>1, <2>2, ApiSendsTyped
<1>8. ASSUME Api!OpenCreate \/ Api!CancelCreate \/ Api!CancelRevoke PROVE ApiTyped'
  <2>1. UNCHANGED <<issued, keysQuery, envSlug, phase, calls, owed, missed, asked>>
    BY <1>8 DEF Api!OpenCreate, Api!CancelCreate, Api!CancelRevoke, Api!history
  <2>2. /\ showCreate' \in BOOLEAN /\ pendingRevoke' \in KeyIds \cup {NoData}
        /\ showCreate' \/ pendingRevoke' # NoData => envSlug # NoData
    BY <1>8 DEF Api!OpenCreate, Api!CancelCreate, Api!CancelRevoke, ApiTyped
  <2>3. QED
    BY <2>1, <2>2 DEF ApiTyped
<1>9. ASSUME NEW k \in KeyIds, Api!IntendRevoke(k) PROVE ApiTyped'
  <2>1. /\ UNCHANGED <<issued, keysQuery, envSlug, showCreate, phase, calls, owed, missed, asked>>
        /\ pendingRevoke' = k
    BY <1>9 DEF Api!IntendRevoke, Api!history
  <2>2. envSlug # NoData
    BY <1>9 DEF Api!IntendRevoke, Api!Cards
  <2>3. QED
    BY <2>1, <2>2 DEF ApiTyped
<1>10. ASSUME NEW c \in calls, Api!ErrorReply(c) \/ Api!CreateReply(c) PROVE ApiTyped'
  <2>1. /\ calls' = calls \ {c} /\ missed' \in BOOLEAN /\ owed' \in BOOLEAN
        /\ UNCHANGED <<issued, keysQuery, envSlug, showCreate, pendingRevoke, asked>>
    BY <1>10 DEF Api!ErrorReply, Api!CreateReply, Api!dialogs, ApiTyped
  <2>2. Requests(calls', ApiArg)
    BY <1>0, <2>1, RequestTypes
  <2>3. phase' \in [key : KeyIds, env : Envs] \cup {NoData}
    <3>1. c.arg \in ApiArg
      BY <1>0 DEF Requests, RQ!Request
    <3>2. phase' \in {phase, [key |-> c.arg.key, env |-> c.arg.env]}
      BY <1>10 DEF Api!ErrorReply, Api!CreateReply, Api!dialogs
    <3>3. [key |-> c.arg.key, env |-> c.arg.env] \in [key : KeyIds, env : Envs]
      BY <3>1 DEF ApiArg
    <3>4. QED
      BY <3>2, <3>3 DEF ApiTyped
  <2>4. QED
    BY <2>1, <2>2, <2>3 DEF ApiTyped
<1>11. ASSUME NEW c \in calls, Api!RevokeReply(c) \/ Api!TierReply(c) PROVE ApiTyped'
  <2>1. /\ calls' = calls \ {c} /\ missed' \in BOOLEAN /\ pendingRevoke' \in {NoData, pendingRevoke}
        /\ UNCHANGED <<issued, envSlug, showCreate, phase, owed, asked>>
        /\ Api!InvalidateKeys(c.arg.env)
    BY <1>11 DEF Api!RevokeReply, Api!TierReply, Api!dialogs
  <2>2. Requests(calls', ApiArg)
    BY <1>0, <2>1, RequestTypes
  <2>3. c.arg.env \in Envs
    BY <1>0 DEF Requests, RQ!Request, ApiArg
  <2>4. keysQuery' \in [Envs -> RQ!Query(Api!Lists)]
    <3> DEFINE e == c.arg.env
    <3>1. keysQuery' = keysQuery \/ keysQuery' = [keysQuery EXCEPT ![e] = RQ!Invalidate(@)]
      BY <2>1, ApiOps DEF Api!InvalidateKeys
    <3> HIDE DEF e
    <3>2. e \in Envs
      BY <2>3 DEF e
    <3>3. QED
      BY <1>0, <3>1, <3>2, ApiQueryTyped
  <2>5. QED
    BY <2>1, <2>2, <2>4 DEF ApiTyped
<1>12. ASSUME Api!Leave PROVE ApiTyped'
  <2> DEFINE g == [c \in calls |-> [c EXCEPT !.from = "gone"]]
  <2>1. calls' = {g[c] : c \in calls} /\ g = [c \in calls |-> g[c]]
    BY <1>12 DEF Api!Leave, Api!Unmounted
  <2>2. \A c \in calls : g[c] \in RQ!Request(ApiArg)
    BY <1>0 DEF Requests, RQ!Request
  <2> HIDE DEF g
  <2>3. Requests(calls', ApiArg)
    BY <1>0, <2>1, <2>2, ImageTypes
  <2>4. QED
    BY <1>12, <2>3 DEF Api!Leave, ApiTyped
<1>13. QED
  BY <1>2, <1>3, <1>4, <1>5, <1>6, <1>7, <1>8, <1>9, <1>10, <1>11, <1>12, ApiServesTyped
  DEF Api!ApiNext

\* The server's rows, the cache entries, the dialogs and the requests in flight
\* of the page on display are of their types: no dialog asks for a segment or an
\* environment that is not selected, and no name or tier that is missing is
\* stored, for any number of requests and for pages that have missed a reply too
\* (segments.tsx 53-127, 507-571, api-keys.tsx 76-225, members.tsx 54-112).
THEOREM PagesAreWellTyped == Spec => []TypeOK
<1> DEFINE Inv == /\ page = "segments" => SegTyped
                  /\ page = "segment members" => MemTyped
                  /\ page = "api keys" => ApiTyped
                  /\ page = "members" => MbrTyped
<1>1. Init => Inv
  BY SegTypedAtFirst, MemTypedAtFirst, ApiTypedAtFirst, MbrTypedAtFirst DEF Init
<1>2. Inv /\ [Next]_<<page, calls, asked, segOnly, memOnly, apiOnly, mbrOnly>> => Inv'
  <2> SUFFICES ASSUME Inv, [Next]_<<page, calls, asked, segOnly, memOnly, apiOnly, mbrOnly>>
               PROVE  Inv'
    OBVIOUS
  <2>1. CASE Next
    BY <2>1, SegTypedStep, MemTypedStep, ApiTypedStep, MbrTypedStep DEF Next
  <2>2. CASE UNCHANGED <<page, calls, asked, segOnly, memOnly, apiOnly, mbrOnly>>
    <3>1. page' = page
      BY <2>2
    <3>2. SegTyped => SegTyped'
      BY <2>2 DEF segOnly, SegTyped
    <3>3. MemTyped => MemTyped'
      BY <2>2 DEF memOnly, MemTyped
    <3>4. ApiTyped => ApiTyped'
      BY <2>2 DEF apiOnly, ApiTyped
    <3>5. MbrTyped => MbrTyped'
      BY <2>2 DEF mbrOnly, MbrTyped
    <3>6. QED
      BY <3>1, <3>2, <3>3, <3>4, <3>5
  <2>3. QED
    BY <2>1, <2>2
<1>3. Inv => TypeOK
  BY SegTypes, MemTypes, ApiTypes, MbrTypes DEF TypeOK
<1>4. QED
  BY <1>1, <1>2, <1>3, PTL DEF Spec
=============================================================================
