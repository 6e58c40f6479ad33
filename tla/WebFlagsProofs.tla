--------------------------- MODULE WebFlagsProofs ---------------------------
(***************************************************************************)
(* Proofs about the parts of MCWebFlags, for any flags, environments, views *)
(* and numbers of requests: at rest a part shows what is stored, and its    *)
(* state is of its types.                                                   *)
(*                                                                          *)
(* The idea, and the first lemmas, are those of WebAdminProofs: a cache     *)
(* entry is current unless a change that the server has applied is still to *)
(* be answered, and the reply will ask for the list again.                  *)
(***************************************************************************)
EXTENDS MCWebFlags, Naturals, FiniteSets, FiniteSetTheorems, TLAPS

RQ == INSTANCE ReactQuery

-----------------------------------------------------------------------------
(* Cache entries and requests, whatever they are about. *)

Shape(q) ==
  /\ DOMAIN q = {"data", "err", "net", "snap"}
  /\ q.err \in BOOLEAN /\ q.net \in {"idle", "sent", "answered"}

\* What is shown, and an answer on its way, are t.
Current(q, t) ==
  /\ q.net = "idle" /\ ~q.err /\ q.data # NoData => q.data = t
  /\ q.net = "answered" /\ q.snap # NoData => q.snap = t

CallShape(c) == DOMAIN c = {"n", "arg", "st", "from"}
CallShapes(cs) == \A c \in cs : CallShape(c)

\* A change has been applied whose reply is on its way.
Applied(cs) == \E c \in cs : c.st = "applied"

LEMMA Initially ==
  ASSUME NEW t
  PROVE  /\ Shape(RQ!NoQuery) /\ RQ!NoQuery.data = NoData /\ Current(RQ!NoQuery, t)
         /\ Shape(RQ!Start(RQ!NoQuery)) /\ Current(RQ!Start(RQ!NoQuery), t)
BY DEF Shape, Current, RQ!NoQuery, RQ!Start

LEMMA Fetching ==
  ASSUME NEW q, Shape(q), NEW t
  PROVE  /\ Shape(RQ!Fetch(q)) /\ RQ!Fetch(q).data = q.data
         /\ Current(q, t) => Current(RQ!Fetch(q), t)
BY DEF Shape, Current, RQ!Fetch, RQ!Start

LEMMA Invalidating ==
  ASSUME NEW q, Shape(q), NEW t
  PROVE  /\ Shape(RQ!Invalidate(q)) /\ RQ!Invalidate(q).data = q.data
         /\ Current(q, t) => Current(RQ!Invalidate(q), t)
         /\ ~RQ!FirstLoad(q) => Current(RQ!Invalidate(q), t) /\ RQ!Invalidate(q).net = "sent"
         /\ q.data # NoData => ~RQ!FirstLoad(q)
BY DEF Shape, Current, RQ!Invalidate, RQ!FirstLoad, RQ!Start

LEMMA Answering ==
  ASSUME NEW q, Shape(q), NEW t, NEW v \in {t, NoData}
  PROVE  /\ Shape(RQ!Answer(q, v)) /\ RQ!Answer(q, v).data = q.data
         /\ Current(RQ!Answer(q, v), t)
BY DEF Shape, Current, RQ!Answer

LEMMA Arriving ==
  ASSUME NEW q, Shape(q), NEW t, q.net = "answered"
  PROVE  /\ Shape(RQ!Arrive(q))
         /\ q.data # NoData => RQ!Arrive(q).data # NoData
         /\ RQ!Arrive(q).data \in {q.data, q.snap}
         /\ Current(q, t) => Current(RQ!Arrive(q), t)
BY DEF Shape, Current, RQ!Arrive

\* Sending a request applies nothing, and neither does its failure.
LEMMA Sending ==
  ASSUME NEW cs, CallShapes(cs), NEW n, NEW a
  PROVE  /\ CallShapes(cs \cup {RQ!Sent(n, a)})
         /\ Applied(cs) => Applied(cs \cup {RQ!Sent(n, a)})
BY DEF CallShapes, CallShape, Applied, RQ!Sent

LEMMA Serving ==
  ASSUME NEW cs, CallShapes(cs), NEW c \in cs, c.st = "sent", NEW ok
  PROVE  /\ CallShapes(RQ!Served(cs, c, ok)) /\ cs # {}
         /\ Applied(cs) => Applied(RQ!Served(cs, c, ok))
         /\ ok => Applied(RQ!Served(cs, c, ok))
<1> DEFINE d == [c EXCEPT !.st = IF ok THEN "applied" ELSE "refused"]
<1>1. ok => d.st = "applied"
  BY DEF CallShapes, CallShape
<1> HIDE DEF d
<1>2. RQ!Served(cs, c, ok) = (cs \ {c}) \cup {d}
  BY DEF RQ!Served, d
<1>3. CallShape(d)
  BY DEF CallShapes, CallShape, d
<1>4. QED
  BY <1>1, <1>2, <1>3 DEF CallShapes, Applied

LEMMA Replying ==
  ASSUME NEW cs, CallShapes(cs), NEW c \in cs
  PROVE  /\ CallShapes(cs \ {c}) /\ cs # {}
         /\ Applied(cs) /\ c.st # "applied" => Applied(cs \ {c})
BY DEF CallShapes, Applied

\* The same requests, some of them disowned by the component that sent them.
LEMMA Disowning ==
  ASSUME NEW cs, CallShapes(cs), NEW ds, NEW g, ds = {g[c] : c \in cs},
         \A c \in cs : g[c].st = c.st /\ CallShape(g[c])
  PROVE  CallShapes(ds) /\ (Applied(cs) => Applied(ds)) /\ (ds # {} => cs # {})
BY DEF CallShapes, Applied

(***************************************************************************)
(* Types. The number of a new request is a number because the requests in   *)
(* flight are finitely many, and the operations of a cache entry and of the *)
(* requests keep their types, whatever they are about.                      *)
(***************************************************************************)
Requests(cs, A) == cs \subseteq RQ!Request(A) /\ IsFiniteSet(cs)

LEMMA QueryTypes ==
  ASSUME NEW D, NEW q \in RQ!Query(D)
  PROVE  /\ RQ!Start(q) \in RQ!Query(D) /\ RQ!Fetch(q) \in RQ!Query(D)
         /\ RQ!Invalidate(q) \in RQ!Query(D) /\ RQ!Arrive(q) \in RQ!Query(D)
         /\ \A v \in D \cup {NoData} : RQ!Answer(q, v) \in RQ!Query(D)
BY DEF RQ!Query, RQ!Start, RQ!Fetch, RQ!Invalidate, RQ!Arrive, RQ!Answer

LEMMA FirstQueryTypes ==
  ASSUME NEW D
  PROVE  RQ!NoQuery \in RQ!Query(D) /\ RQ!Start(RQ!NoQuery) \in RQ!Query(D)
BY DEF RQ!Query, RQ!NoQuery, RQ!Start

LEMMA RequestTypes ==
  ASSUME NEW A, NEW cs, Requests(cs, A)
  PROVE  /\ \A n \in Nat, a \in A : Requests(cs \cup {RQ!Sent(n, a)}, A)
         /\ \A c \in RQ!Request(A) : \A ok : Requests(RQ!Served(cs, c, ok), A)
         /\ \A c : Requests(cs \ {c}, A)
<1>1. cs \subseteq RQ!Request(A) /\ IsFiniteSet(cs)
  BY DEF Requests
<1>2. ASSUME NEW n \in Nat, NEW a \in A PROVE Requests(cs \cup {RQ!Sent(n, a)}, A)
  <2>1. RQ!Sent(n, a) \in RQ!Request(A)
    BY DEF RQ!Sent, RQ!Request
  <2>2. QED
    BY <1>1, <2>1, FS_AddElement DEF Requests
<1>3. ASSUME NEW c PROVE Requests(cs \ {c}, A)
  BY <1>1, FS_RemoveElement DEF Requests
<1>4. ASSUME NEW c \in RQ!Request(A), NEW ok PROVE Requests(RQ!Served(cs, c, ok), A)
  <2> DEFINE d == [c EXCEPT !.st = IF ok THEN "applied" ELSE "refused"]
  <2>1. d \in RQ!Request(A)
    BY DEF RQ!Request
  <2>2. IsFiniteSet(cs \ {c})
    BY <1>1, FS_RemoveElement
  <2>3. RQ!Served(cs, c, ok) = (cs \ {c}) \cup {d}
    BY DEF RQ!Served
  <2> HIDE DEF d
  <2>4. QED
    BY <1>1, <2>1, <2>2, <2>3, FS_AddElement DEF Requests
<1>5. QED
  BY <1>2, <1>3, <1>4

\* Every request in flight becomes another one.
LEMMA ImageTypes ==
  ASSUME NEW A, NEW cs, Requests(cs, A), NEW ds, NEW g, g = [c \in cs |-> g[c]],
         \A c \in cs : g[c] \in RQ!Request(A), ds = {g[c] : c \in cs}
  PROVE  Requests(ds, A) /\ Cardinality(ds) <= Cardinality(cs)
<1>1. g \in [cs -> ds] /\ \A d \in ds : \E c \in cs : g[c] = d
  OBVIOUS
<1>2. IsFiniteSet(ds) /\ Cardinality(ds) <= Cardinality(cs)
  BY <1>1, FS_Surjection DEF Surjection, Requests
<1>3. QED
  BY <1>2 DEF Requests

LEMMA SameCardinality == \A S : RQ!Cardinality(S) = Cardinality(S)
BY Zenon DEF RQ!Cardinality, Cardinality

\* Of one more numbers than there are requests, one is free.
LEMMA FreeIsNumber ==
  ASSUME NEW cs, IsFiniteSet(cs)
  PROVE  /\ RQ!Free(cs) \in 1 .. Cardinality(cs) + 1 /\ RQ!Free(cs) \in Nat
         /\ \A c \in cs : c.n # RQ!Free(cs)
<1> DEFINE m == Cardinality(cs)
           I == 1 .. m + 1
<1>1. m \in Nat
  BY FS_CardinalityType
<1>2. \E n \in I : \A c \in cs : c.n # n
  <2> SUFFICES ASSUME \A n \in I : \E c \in cs : c.n = n PROVE FALSE
    OBVIOUS
  <2> DEFINE f == [n \in I |-> CHOOSE c \in cs : c.n = n]
  <2>1. \A n \in I : f[n] \in cs /\ f[n].n = n
    OBVIOUS
  <2>2. f \in [I -> cs]
    BY <2>1
  <2>3. IsFiniteSet(I) /\ Cardinality(cs) < Cardinality(I)
    BY <1>1, FS_Interval
  <2> HIDE DEF f, I
  <2>4. \E x, y \in I : x # y /\ f[x] = f[y]
    BY <2>2, <2>3, FS_PigeonHole
  <2>5. QED
    BY <2>1, <2>4
<1>3. RQ!Free(cs) = CHOOSE n \in I : \A c \in cs : c.n # n
  BY SameCardinality DEF RQ!Free
<1>4. RQ!Free(cs) \in I /\ \A c \in cs : c.n # RQ!Free(cs)
  BY <1>2, <1>3
<1>5. QED
  BY <1>1, <1>4

\* How many requests are in flight.
LEMMA RequestCounts ==
  ASSUME NEW cs, IsFiniteSet(cs)
  PROVE  /\ Cardinality(cs) \in Nat
         /\ \A x : Cardinality(cs \cup {x}) \in Nat /\ Cardinality(cs \cup {x}) <= Cardinality(cs) + 1
         /\ \A c : Cardinality(cs \ {c}) \in Nat /\ Cardinality(cs \ {c}) <= Cardinality(cs)
         /\ \A c \in cs : \A ok : /\ Cardinality(RQ!Served(cs, c, ok)) \in Nat
                                  /\ Cardinality(RQ!Served(cs, c, ok)) <= Cardinality(cs)
<1>1. Cardinality(cs) \in Nat
  BY FS_CardinalityType
<1>2. ASSUME NEW x
      PROVE  Cardinality(cs \cup {x}) \in Nat /\ Cardinality(cs \cup {x}) <= Cardinality(cs) + 1
  BY <1>1, FS_AddElement
<1>3. ASSUME NEW c
      PROVE  Cardinality(cs \ {c}) \in Nat /\ Cardinality(cs \ {c}) <= Cardinality(cs)
  <2> DEFINE es == cs \ {c}
  <2>1. es \subseteq cs
    OBVIOUS
  <2> HIDE DEF es
  <2>2. IsFiniteSet(es) /\ Cardinality(es) <= Cardinality(cs)
    BY <2>1, FS_Subset
  <2>3. Cardinality(es) \in Nat
    BY <2>2, FS_CardinalityType
  <2>4. QED
    BY <2>2, <2>3 DEF es
<1>4. ASSUME NEW c \in cs, NEW ok
      PROVE  /\ Cardinality(RQ!Served(cs, c, ok)) \in Nat
             /\ Cardinality(RQ!Served(cs, c, ok)) <= Cardinality(cs)
  <2> DEFINE d == [c EXCEPT !.st = IF ok THEN "applied" ELSE "refused"]
             es == cs \ {c}
  <2>1. IsFiniteSet(es) /\ Cardinality(es) = Cardinality(cs) - 1
    BY FS_RemoveElement
  <2>2. RQ!Served(cs, c, ok) = es \cup {d}
    BY DEF RQ!Served
  <2>3. Cardinality(es) \in Nat
    BY <2>1, FS_CardinalityType
  <2> HIDE DEF d, es
  <2>4. Cardinality(es \cup {d}) \in {Cardinality(es), Cardinality(es) + 1}
    BY <2>1, FS_AddElement
  <2>5. QED
    BY <1>1, <2>1, <2>2, <2>3, <2>4
<1>5. QED
  BY <1>1, <1>2, <1>3, <1>4

\* A table has some of the keys and a row for each.
LEMMA TableTypes ==
  ASSUME NEW K, NEW R, NEW t
  PROVE  t \in UNION {[S -> R] : S \in SUBSET K} <=> DOMAIN t \subseteq K /\ t \in [DOMAIN t -> R]
OBVIOUS

-----------------------------------------------------------------------------
(***************************************************************************)
(* WebEnvironments. Inside the project every success asks for the list      *)
(* again, so the list is behind only while a change is unanswered or after  *)
(* its reply was lost. Outside, the list at rest may be anything: coming    *)
(* back asks for it. A change is made from a list on display, so no reply   *)
(* meets a first load.                                                      *)
(***************************************************************************)
EnvBehind == lost \/ Applied(calls)

EnvUnseen == place = "away" /\ envList.net = "idle"

EnvInv ==
  /\ Shape(envList) /\ CallShapes(calls)
  /\ calls # {} => envList.data # NoData
  /\ EnvBehind \/ EnvUnseen \/ Current(envList, envs)

LEMMA EnvOps ==
  /\ \A q : /\ Env!Fetch(q) = RQ!Fetch(q) /\ Env!Invalidate(q) = RQ!Invalidate(q)
            /\ Env!Arrive(q) = RQ!Arrive(q) /\ Env!Start(q) = RQ!Start(q)
            /\ Env!FirstLoad(q) <=> RQ!FirstLoad(q)
            /\ \A v : Env!Answer(q, v) = RQ!Answer(q, v)
  /\ \A cs, c, ok : Env!Served(cs, c, ok) = RQ!Served(cs, c, ok)
  /\ \A n, a : Env!Sent(n, a) = RQ!Sent(n, a)
  /\ Env!NoQuery = RQ!NoQuery
BY DEF Env!Start, RQ!Start, Env!Fetch, RQ!Fetch, Env!Invalidate, RQ!Invalidate, Env!FirstLoad,
       RQ!FirstLoad, Env!Arrive, RQ!Arrive, Env!Answer, RQ!Answer, Env!Served, RQ!Served,
       Env!Sent, RQ!Sent, Env!NoQuery, RQ!NoQuery

LEMMA EnvInitially == Env!Init => EnvInv
<1> SUFFICES ASSUME Env!Init PROVE EnvInv
  OBVIOUS
<1>1. envList = RQ!Start(RQ!NoQuery) /\ calls = {}
  BY EnvOps DEF Env!Init
<1>2. Shape(envList) /\ Current(envList, envs)
  BY <1>1, Initially
<1>3. QED
  BY <1>1, <1>2 DEF EnvInv, CallShapes

LEMMA EnvStep == EnvInv /\ Env!EnvNext => EnvInv'
<1> SUFFICES ASSUME EnvInv, Env!EnvNext PROVE EnvInv'
  OBVIOUS
<1>0. Shape(envList) /\ CallShapes(calls)
  BY DEF EnvInv
\* Fields and dialogs change neither the list nor a request.
<1>1. ASSUME UNCHANGED <<envs, envList, place, calls, lost>> PROVE EnvInv'
  BY <1>1 DEF EnvInv, EnvBehind, EnvUnseen
<1>2. ASSUME UNCHANGED <<envs, envList, place, lost>>, envList.data # NoData,
             NEW a, calls' = calls \cup {RQ!Sent(Env!Free(calls), a)}
      PROVE  EnvInv'
  <2>1. CallShapes(calls') /\ (Applied(calls) => Applied(calls'))
    BY <1>0, <1>2, Sending
  <2>2. QED
    BY <1>2, <2>1 DEF EnvInv, EnvBehind, EnvUnseen
<1>3. ASSUME NEW c \in calls, Env!ServeCall(c) PROVE EnvInv'
  <2>1. PICK ok \in {(c.arg.op = "create") # (c.arg.env \in DOMAIN envs), FALSE} :
               /\ calls' = RQ!Served(calls, c, ok)
               /\ ~ok => envs' = envs
    BY <1>3, EnvOps DEF Env!ServeCall
  <2>2. c.st = "sent" /\ UNCHANGED <<envList, place, lost>>
    BY <1>3 DEF Env!ServeCall
  <2>3. /\ CallShapes(calls') /\ calls # {}
        /\ Applied(calls) => Applied(calls')
        /\ ok => Applied(calls')
    BY <1>0, <2>1, <2>2, Serving
  <2>4. QED
    BY <2>1, <2>2, <2>3 DEF EnvInv, EnvBehind, EnvUnseen
<1>4. ASSUME NEW c \in calls, Env!RenameReply(c) \/ Env!CreateReply(c) \/ Env!DeleteReply(c)
      PROVE  EnvInv'
  <2>1. Env!Reask /\ calls' = calls \ {c} /\ UNCHANGED <<envs, place>>
    BY <1>4 DEF Env!RenameReply, Env!CreateReply, Env!DeleteReply
  <2>2. CallShapes(calls') /\ calls # {}
    BY <1>0, <2>1, Replying
  <2>3. CASE Env!Observed
    <3>1. envList' = RQ!Invalidate(envList)
      BY <2>1, <2>3, EnvOps DEF Env!Reask
    <3>2. Shape(envList') /\ envList'.data = envList.data /\ Current(envList', envs')
      BY <1>0, <2>2, <3>1, Invalidating DEF EnvInv
    <3>3. QED
      BY <2>1, <2>2, <3>2 DEF EnvInv
  \* An answer that is not made yet will be newer than the change.
  <2>4. CASE ~Env!Observed
    <3>1. envList' = envList /\ place' = "away" /\ (envList.net = "answered" => lost')
      BY <2>1, <2>4 DEF Env!Reask, Env!Observed
    <3>2. lost' \/ EnvUnseen' \/ Current(envList', envs')
      BY <1>0, <3>1 DEF EnvUnseen, Current, Shape
    <3>3. QED
      BY <2>1, <2>2, <3>1, <3>2 DEF EnvInv, EnvBehind
  <2>5. QED
    BY <2>3, <2>4
<1>5. ASSUME NEW c \in calls, Env!ErrorReply(c) PROVE EnvInv'
  <2>1. /\ calls' = calls \ {c} /\ UNCHANGED <<envs, envList, place>>
        /\ lost \/ c.st = "applied" => lost'
    BY <1>5 DEF Env!ErrorReply, Env!Succeeded
  <2>2. CallShapes(calls') /\ calls # {} /\ (Applied(calls) /\ c.st # "applied" => Applied(calls'))
    BY <1>0, <2>1, Replying
  <2>3. (EnvBehind => EnvBehind') /\ (EnvUnseen => EnvUnseen')
    BY <2>1, <2>2 DEF EnvBehind, EnvUnseen
  <2>4. QED
    BY <2>1, <2>2, <2>3 DEF EnvInv
<1>6. ASSUME Env!ServeList PROVE EnvInv'
  <2>1. /\ UNCHANGED <<envs, calls, lost>>
        /\ \E v \in {envs, NoData} : envList' = RQ!Answer(envList, v)
    BY <1>6, EnvOps DEF Env!ServeList
  <2>2. Shape(envList') /\ envList'.data = envList.data /\ Current(envList', envs)
    BY <1>0, <2>1, Answering
  <2>3. QED
    BY <2>1, <2>2 DEF EnvInv
\* An answer may unmount a row, the form or both, with requests in flight.
<1>7. ASSUME Env!ListArrives PROVE EnvInv'
  <2>1. envList' = RQ!Arrive(envList) /\ envList.net = "answered" /\ UNCHANGED <<envs, lost>>
    BY <1>7, EnvOps DEF Env!ListArrives
  <2>2. PICK owner : calls' = {[c EXCEPT !.from = owner[c]] : c \in calls}
    <3> DEFINE kept == {s \in Keys : /\ Env!Shown(envList) /\ Env!Shown(envList')
                                     /\ s \in DOMAIN envList.data \cap DOMAIN envList'.data
                                     /\ envList.data[s].id = envList'.data[s].id}
               owner == [c \in calls |->
                           CASE c.from # "here" -> c.from
                             [] c.from = "here" /\ c.arg.op = "rename" /\ c.arg.env \notin kept -> "gone"
                             [] c.from = "here" /\ c.arg.op = "create" /\ ~Env!Shown(envList') -> "page"
                             [] OTHER -> "here"]
    <3>1. calls' = {[c EXCEPT !.from = owner[c]] : c \in calls}
      BY <1>7 DEF Env!ListArrives
    <3>2. QED
      BY <3>1
  <2> DEFINE g == [c \in calls |-> [c EXCEPT !.from = owner[c]]]
  <2>3. /\ calls' = {g[c] : c \in calls}
        /\ \A c \in calls : g[c].st = c.st /\ CallShape(g[c])
    BY <1>0, <2>2 DEF CallShapes, CallShape
  <2> HIDE DEF g
  <2>4. CallShapes(calls') /\ (Applied(calls) => Applied(calls')) /\ (calls' # {} => calls # {})
    BY <1>0, <2>3, Disowning
  <2>5. /\ Shape(envList')
        /\ envList.data # NoData => envList'.data # NoData
        /\ Current(envList, envs) => Current(envList', envs)
    BY <1>0, <2>1, Arriving
  <2>6. QED
    BY <2>1, <2>4, <2>5 DEF EnvInv, EnvBehind, EnvUnseen
\* Coming back to a list at rest asks for it, and joins any other request.
<1>8. ASSUME NEW p, Env!Focus \/ Env!Enter(p) PROVE EnvInv'
  <2>1. envList' = RQ!Fetch(envList) /\ UNCHANGED <<envs, calls, lost>>
    BY <1>8, EnvOps DEF Env!Focus, Env!Enter
  <2>2. /\ Shape(envList') /\ envList'.data = envList.data
        /\ Current(envList, envs) => Current(envList', envs)
    BY <1>0, <2>1, Fetching
  <2>3. EnvUnseen => Current(envList', envs)
    BY <1>0, <2>1 DEF EnvUnseen, Current, Shape, RQ!Fetch, RQ!Start
  <2>4. QED
    BY <2>1, <2>2, <2>3 DEF EnvInv, EnvBehind
<1>9. ASSUME NEW p, Env!Leave(p) PROVE EnvInv'
  <2> DEFINE g == [c \in calls |-> [c EXCEPT !.from = "gone"]]
  <2>1. calls' = {g[c] : c \in calls} /\ UNCHANGED <<envs, envList, lost>> /\ ~EnvUnseen
    BY <1>9 DEF Env!Leave, Env!Unmounted, Env!Observed, EnvUnseen
  <2>2. \A c \in calls : g[c].st = c.st /\ CallShape(g[c])
    BY <1>0 DEF CallShapes, CallShape
  <2> HIDE DEF g
  <2>3. CallShapes(calls') /\ (Applied(calls) => Applied(calls')) /\ (calls' # {} => calls # {})
    BY <1>0, <2>1, <2>2, Disowning
  <2>4. QED
    BY <2>1, <2>3 DEF EnvInv, EnvBehind
<1>10. ASSUME NEW s, Env!PressEnter(s) \/ Env!Blur(s) PROVE EnvInv'
  <2>1. Env!saveEdit(s) /\ envList.data # NoData
    BY <1>10 DEF Env!PressEnter, Env!Blur, Env!saveEdit, Env!Rows, Env!Shown
  <2>2. CASE UNCHANGED calls
    BY <1>1, <2>1, <2>2 DEF Env!saveEdit
  <2>3. CASE Env!Send("rename", s, field[s])
    BY <1>2, <2>1, <2>3, EnvOps DEF Env!saveEdit, Env!Send
  <2>4. QED
    BY <2>1, <2>2, <2>3 DEF Env!saveEdit
<1>11. ASSUME NEW n, Env!SubmitCreate(n) PROVE EnvInv'
  BY <1>2, <1>11, EnvOps DEF Env!SubmitCreate, Env!Send, Env!Shown
<1>12. ASSUME Env!ConfirmDelete PROVE EnvInv'
  BY <1>2, <1>12, EnvOps DEF Env!ConfirmDelete, Env!Send, Env!Shown
<1>13. ASSUME NEW s, Env!startEdit(s) \/ Env!Refocus(s) \/ Env!cancelEdit(s) \/ Env!TypeSlug(s) \/ Env!DeleteIntent(s)
       PROVE  EnvInv'
  BY <1>1, <1>13 DEF Env!startEdit, Env!Refocus, Env!cancelEdit, Env!TypeSlug, Env!DeleteIntent
<1>14. ASSUME NEW s, NEW n, Env!TypeName(s, n) PROVE EnvInv'
  BY <1>1, <1>14 DEF Env!TypeName
<1>15. ASSUME Env!OpenCreate \/ Env!CancelCreate \/ Env!CancelDelete PROVE EnvInv'
  BY <1>1, <1>15 DEF Env!OpenCreate, Env!CancelCreate, Env!CancelDelete
<1>16. QED
  BY <1>3, <1>4, <1>5, <1>6, <1>7, <1>8, <1>9, <1>10, <1>11, <1>12, <1>13, <1>14, <1>15 DEF Env!EnvNext

\* At rest the environments page and the switcher list exactly the environments
\* there are by their stored names, for any number of renames that overlap, of
\* creations and of deletions, answered on this page, on another one of the
\* project or outside of it, unless a success was lost or came outside the
\* project with an older answer under way (settings.environments.tsx 62-71,
\* 170-207, ProjectSwitcher.tsx 50-57).
THEOREM EnvironmentsShown == Spec => []EnvironmentListAtRest
<1> DEFINE Inv == part = "environments" => EnvInv
<1>1. Init => Inv
  BY EnvInitially DEF Init
<1>2. Inv /\ [Next]_<<part, calls, liveOnly, cardOnly, bothLists, listOnly, projOnly,
                      envOnly, listOrEnv>> => Inv'
  <2> SUFFICES ASSUME Inv, [Next]_<<part, calls, liveOnly, cardOnly, bothLists, listOnly, projOnly,
                                    envOnly, listOrEnv>>,
                      part' = "environments"
               PROVE  EnvInv'
    OBVIOUS
  <2>1. CASE Next
    <3>1. EnvInv /\ Env!EnvNext
      BY <2>1 DEF Next
    <3>2. QED
      BY <3>1, EnvStep
  <2>2. CASE UNCHANGED <<part, calls, liveOnly, cardOnly, bothLists, listOnly, projOnly,
                         envOnly, listOrEnv>>
    BY <2>2 DEF envOnly, EnvInv, EnvBehind, EnvUnseen
  <2>3. QED
    BY <2>1, <2>2
<1>3. Inv => EnvironmentListAtRest
  BY DEF EnvironmentListAtRest, Env!ListAtRest, Env!Shown, Env!Observed, EnvInv, EnvBehind,
         EnvUnseen, Applied, Current
<1>4. QED
  BY <1>1, <1>2, <1>3, PTL DEF Spec

-----------------------------------------------------------------------------
(***************************************************************************)
(* WebFlagList. A toggle or a deletion asks for the list again, a creation  *)
(* only when the panel of the new flag is closed. A failed refresh may drop *)
(* that panel; then it is the failure that is on display, until an answer   *)
(* comes that is newer than the flag.                                       *)
(***************************************************************************)
ListBehind == missed \/ Applied(calls) \/ create.at = "created"

ListInv ==
  /\ Shape(list) /\ CallShapes(calls)
  /\ DOMAIN create = {"at", "key", "keyError"}
  /\ calls # {} => list.data # NoData
  /\ ListBehind \/ Current(list, flags)

LEMMA ListOps ==
  /\ \A q : /\ List!Fetch(q) = RQ!Fetch(q) /\ List!Invalidate(q) = RQ!Invalidate(q)
            /\ List!Arrive(q) = RQ!Arrive(q) /\ List!Start(q) = RQ!Start(q)
            /\ List!FirstLoad(q) <=> RQ!FirstLoad(q)
            /\ \A v : List!Answer(q, v) = RQ!Answer(q, v)
  /\ \A cs, c, ok : List!Served(cs, c, ok) = RQ!Served(cs, c, ok)
  /\ \A n, a : List!Sent(n, a) = RQ!Sent(n, a)
  /\ List!NoQuery = RQ!NoQuery
BY DEF List!Start, RQ!Start, List!Fetch, RQ!Fetch, List!Invalidate, RQ!Invalidate, List!FirstLoad,
       RQ!FirstLoad, List!Arrive, RQ!Arrive, List!Answer, RQ!Answer, List!Served, RQ!Served,
       List!Sent, RQ!Sent, List!NoQuery, RQ!NoQuery

LEMMA ListInitially == List!Init => ListInv
<1> SUFFICES ASSUME List!Init PROVE ListInv
  OBVIOUS
<1>1. list = RQ!Start(RQ!NoQuery) /\ calls = {} /\ DOMAIN create = {"at", "key", "keyError"}
  BY ListOps DEF List!Init, List!Closed
<1>2. Shape(list) /\ Current(list, flags)
  BY <1>1, Initially
<1>3. QED
  BY <1>1, <1>2 DEF ListInv, CallShapes

LEMMA ListStep == ListInv /\ List!ListNext => ListInv'
<1> SUFFICES ASSUME ListInv, List!ListNext PROVE ListInv'
  OBVIOUS
<1>0. Shape(list) /\ CallShapes(calls) /\ DOMAIN create = {"at", "key", "keyError"}
  BY DEF ListInv
\* Dialogs, as long as it is not the panel of a created flag that is closed.
<1>1. ASSUME UNCHANGED <<flags, list, calls, missed>>, create.at # "created" \/ create' = create,
             DOMAIN create' = {"at", "key", "keyError"}
      PROVE  ListInv'
  BY <1>1 DEF ListInv, ListBehind
<1>2. ASSUME UNCHANGED <<flags, list, create, missed>>, list.data # NoData,
             NEW a, calls' = calls \cup {RQ!Sent(List!Free(calls), a)}
      PROVE  ListInv'
  <2>1. CallShapes(calls') /\ (Applied(calls) => Applied(calls'))
    BY <1>0, <1>2, Sending
  <2>2. QED
    BY <1>2, <2>1 DEF ListInv, ListBehind
<1>3. ASSUME NEW c \in calls, List!ServeCall(c) PROVE ListInv'
  <2>1. PICK ok \in {(c.arg.op = "create") # (c.arg.key \in DOMAIN flags), FALSE} :
               /\ calls' = RQ!Served(calls, c, ok)
               /\ ~ok => flags' = flags
    BY <1>3, ListOps DEF List!ServeCall
  <2>2. c.st = "sent" /\ UNCHANGED <<list, create, missed>>
    BY <1>3 DEF List!ServeCall
  <2>3. /\ CallShapes(calls') /\ calls # {}
        /\ Applied(calls) => Applied(calls')
        /\ ok => Applied(calls')
    BY <1>0, <2>1, <2>2, Serving
  <2>4. QED
    BY <2>1, <2>2, <2>3 DEF ListInv, ListBehind
<1>4. ASSUME NEW c \in calls, List!ToggleOrDeleteReply(c) PROVE ListInv'
  <2>1. list' = RQ!Invalidate(list) /\ calls' = calls \ {c} /\ UNCHANGED <<flags, create, missed>>
    BY <1>4, ListOps DEF List!ToggleOrDeleteReply, List!Settle
  <2>2. CallShapes(calls') /\ calls # {}
    BY <1>0, <2>1, Replying
  <2>3. Shape(list') /\ list'.data = list.data /\ Current(list', flags)
    BY <1>0, <2>1, <2>2, Invalidating DEF ListInv
  <2>4. QED
    BY <2>1, <2>2, <2>3 DEF ListInv
<1>5. ASSUME NEW c \in calls, List!CreateReply(c) PROVE ListInv'
  <2>1. /\ calls' = calls \ {c} /\ UNCHANGED <<flags, list>>
        /\ create' \in {create, [create EXCEPT !.at = "created"]}
        /\ missed \/ create'.at # "created" => missed'
    BY <1>5 DEF List!CreateReply, List!Settle, List!Created
  <2>2. CallShapes(calls') /\ calls # {}
    BY <1>0, <2>1, Replying
  <2>3. DOMAIN create' = {"at", "key", "keyError"} /\ (missed' \/ create'.at = "created")
    BY <1>0, <2>1
  <2>4. QED
    BY <2>1, <2>2, <2>3 DEF ListInv, ListBehind
<1>6. ASSUME NEW c \in calls, List!ErrorReply(c) PROVE ListInv'
  <2>1. /\ calls' = calls \ {c} /\ UNCHANGED <<flags, list>>
        /\ missed \/ c.st = "applied" => missed'
    BY <1>6 DEF List!ErrorReply, List!Settle, List!Succeeded
  <2>2. DOMAIN create' = {"at", "key", "keyError"} /\ create'.at = create.at
    BY <1>0, <1>6 DEF List!ErrorReply, List!Refused
  <2>3. CallShapes(calls') /\ calls # {} /\ (Applied(calls) /\ c.st # "applied" => Applied(calls'))
    BY <1>0, <2>1, Replying
  <2>4. ListBehind => ListBehind'
    BY <2>1, <2>2, <2>3 DEF ListBehind
  <2>5. QED
    BY <2>1, <2>2, <2>3, <2>4 DEF ListInv
<1>7. ASSUME List!ServeList PROVE ListInv'
  <2>1. /\ UNCHANGED <<flags, create, calls, missed>>
        /\ \E v \in {flags, NoData} : list' = RQ!Answer(list, v)
    BY <1>7, ListOps DEF List!ServeList
  <2>2. Shape(list') /\ list'.data = list.data /\ Current(list', flags)
    BY <1>0, <2>1, Answering
  <2>3. QED
    BY <2>1, <2>2 DEF ListInv
\* A failure unmounts the panel of a created flag, and is on display itself.
<1>8. ASSUME List!ListArrives PROVE ListInv'
  <2>1. list' = RQ!Arrive(list) /\ list.net = "answered" /\ UNCHANGED <<flags, missed>>
    BY <1>8, ListOps DEF List!ListArrives
  <2>2. /\ Shape(list')
        /\ list.data # NoData => list'.data # NoData
        /\ Current(list, flags) => Current(list', flags)
    BY <1>0, <2>1, Arriving
  <2>3. ~List!Shown(list') => Current(list', flags)
    BY <1>0, <2>1 DEF List!Shown, Current, RQ!Arrive, Shape
  <2>4. /\ DOMAIN create' = {"at", "key", "keyError"}
        /\ List!Shown(list') => create' = create
    BY <1>0, <1>8 DEF List!ListArrives, List!Remounted, List!FreshForm, List!Closed
  <2> DEFINE g == [c \in calls |-> IF c.arg.op = "create" /\ ~List!Shown(list')
                                   THEN [c EXCEPT !.from = "gone"] ELSE c]
  <2>5. calls' = {g[c] : c \in calls}
    BY <1>8 DEF List!ListArrives
  <2>6. \A c \in calls : g[c].st = c.st /\ CallShape(g[c])
    BY <1>0 DEF CallShapes, CallShape
  <2> HIDE DEF g
  <2>7. CallShapes(calls') /\ (Applied(calls) => Applied(calls')) /\ (calls' # {} => calls # {})
    BY <1>0, <2>5, <2>6, Disowning
  <2>8. QED
    BY <2>1, <2>2, <2>3, <2>4, <2>7 DEF ListInv, ListBehind
<1>9. ASSUME List!Focus PROVE ListInv'
  <2>1. list' = RQ!Fetch(list) /\ UNCHANGED <<flags, create, calls, missed>>
    BY <1>9, ListOps DEF List!Focus
  <2>2. /\ Shape(list') /\ list'.data = list.data
        /\ Current(list, flags) => Current(list', flags)
    BY <1>0, <2>1, Fetching
  <2>3. QED
    BY <2>1, <2>2 DEF ListInv, ListBehind
<1>10. ASSUME List!onCreated PROVE ListInv'
  <2>1. /\ list' = RQ!Invalidate(list) /\ list.data # NoData /\ UNCHANGED <<flags, calls, missed>>
        /\ DOMAIN create' = {"at", "key", "keyError"}
    BY <1>10, ListOps DEF List!onCreated, List!Shown, List!Closed
  <2>2. Shape(list') /\ list'.data = list.data /\ Current(list', flags)
    BY <1>0, <2>1, Invalidating
  <2>3. QED
    BY <2>1, <2>2 DEF ListInv
<1>11. ASSUME List!CancelCreate PROVE ListInv'
  <2>1. /\ UNCHANGED <<flags, list, missed>> /\ create.at = "form"
        /\ DOMAIN create' = {"at", "key", "keyError"}
    BY <1>11 DEF List!CancelCreate, List!Closed
  <2> DEFINE g == [c \in calls |-> IF c.arg.op = "create" THEN [c EXCEPT !.from = "gone"] ELSE c]
  <2>2. calls' = {g[c] : c \in calls}
    BY <1>11 DEF List!CancelCreate
  <2>3. \A c \in calls : g[c].st = c.st /\ CallShape(g[c])
    BY <1>0 DEF CallShapes, CallShape
  <2> HIDE DEF g
  <2>4. CallShapes(calls') /\ (Applied(calls) => Applied(calls')) /\ (calls' # {} => calls # {})
    BY <1>0, <2>2, <2>3, Disowning
  <2>5. QED
    BY <2>1, <2>4 DEF ListInv, ListBehind
<1>12. ASSUME NEW k, List!Toggle(k) PROVE ListInv'
  <2>1. list.data # NoData
    BY <1>12 DEF List!Toggle, List!Rows, List!Shown
  <2>2. QED
    BY <1>2, <1>12, <2>1, ListOps DEF List!Toggle, List!Send
<1>13. ASSUME List!ConfirmDelete \/ List!SubmitCreate PROVE ListInv'
  BY <1>2, <1>13, ListOps DEF List!ConfirmDelete, List!SubmitCreate, List!Send, List!Shown
<1>14. ASSUME NEW k, List!DeleteIntent(k) \/ List!CancelDelete PROVE ListInv'
  BY <1>0, <1>1, <1>14 DEF List!DeleteIntent, List!CancelDelete
<1>15. ASSUME NEW k, List!TypeKey(k) PROVE ListInv'
  <2>1. /\ UNCHANGED <<flags, list, calls, missed>> /\ create.at # "created"
        /\ DOMAIN create' = {"at", "key", "keyError"}
    BY <1>0, <1>15 DEF List!TypeKey, List!Typed
  <2>2. QED
    BY <1>1, <2>1
<1>16. ASSUME List!OpenCreate PROVE ListInv'
  <2>1. /\ UNCHANGED <<flags, list, calls, missed>> /\ create.at # "created"
        /\ DOMAIN create' = {"at", "key", "keyError"}
    BY <1>16 DEF List!OpenCreate, List!NoDialog, List!FreshForm, List!Closed
  <2>2. QED
    BY <1>1, <2>1
<1>17. QED
  BY <1>3, <1>4, <1>5, <1>6, <1>7, <1>8, <1>9, <1>10, <1>11, <1>12, <1>13, <1>14, <1>15, <1>16
     DEF List!ListNext

\* At rest, once the panel of a created flag is closed, the list of an
\* environment has every flag in its stored state, for any number of flags and
\* of toggles that overtake each other, unless a success was lost or a creation
\* answered after its form was gone, or while its key field was empty
\* (flags.tsx 101-114, 291-299, flag-create-modal.tsx 184, 233).
THEOREM FlagListShown == Spec => []EnvironmentFlagsAtRest
<1> DEFINE Inv == part = "list" => ListInv
<1>1. Init => Inv
  BY ListInitially DEF Init
<1>2. Inv /\ [Next]_<<part, calls, liveOnly, cardOnly, bothLists, listOnly, projOnly,
                      envOnly, listOrEnv>> => Inv'
  <2> SUFFICES ASSUME Inv, [Next]_<<part, calls, liveOnly, cardOnly, bothLists, listOnly, projOnly,
                                    envOnly, listOrEnv>>,
                      part' = "list"
               PROVE  ListInv'
    OBVIOUS
  <2>1. CASE Next
    <3>1. ListInv /\ List!ListNext
      BY <2>1 DEF Next
    <3>2. QED
      BY <3>1, ListStep
  <2>2. CASE UNCHANGED <<part, calls, liveOnly, cardOnly, bothLists, listOnly, projOnly,
                         envOnly, listOrEnv>>
    BY <2>2 DEF listOnly, bothLists, ListInv, ListBehind
  <2>3. QED
    BY <2>1, <2>2
<1>3. Inv => EnvironmentFlagsAtRest
  BY DEF EnvironmentFlagsAtRest, List!FlagListAtRest, List!Shown, ListInv, ListBehind, Applied, Current
<1>4. QED
  BY <1>1, <1>2, <1>3, PTL DEF Spec

-----------------------------------------------------------------------------
(***************************************************************************)
(* WebProjectFlags. A change asks for the view on display only, so of the   *)
(* others nothing is said of what they hold: they will be asked for when    *)
(* they are shown. But an answer on its way to any of them is of the flags  *)
(* there are, since every change that is answered puts the views that are   *)
(* loading among those behind, and showing a view that is loading waits for *)
(* that answer.                                                             *)
(***************************************************************************)
OnItsWay(q, t) == q.net = "answered" /\ q.snap # NoData => q.snap = t

ViewCurrent(q, t, onDisplay) == OnItsWay(q, t) /\ (onDisplay => Current(q, t))

SliceOf(f, v) ==
  LET found == f \cap v.term
      before(k) == Cardinality({j \in found : IF v.order = "asc" THEN j < k ELSE j > k})
  IN [flags |-> {k \in found : before(k) \div PerPage = v.page - 1},
      total |-> Cardinality(found)]

\* No view is shown without having been asked for.
Loaded(q) == q.net = "idle" => q.data # NoData \/ q.err

ProjViews ==
  \A v \in Proj!Views : \/ Applied(calls) \/ v \in behind
                        \/ ViewCurrent(cache[v], SliceOf(flags, v), v = view)

ProjInv ==
  /\ CallShapes(calls)
  /\ DOMAIN cache = Proj!Views /\ view \in Proj!Views
  /\ \A v \in Proj!Views : Shape(cache[v])
  /\ Loaded(cache[view])
  /\ ProjViews

LEMMA ProjOps ==
  /\ \A q : /\ Proj!Fetch(q) = RQ!Fetch(q) /\ Proj!Invalidate(q) = RQ!Invalidate(q)
            /\ Proj!Arrive(q) = RQ!Arrive(q) /\ Proj!Start(q) = RQ!Start(q)
            /\ Proj!FirstLoad(q) <=> RQ!FirstLoad(q)
            /\ \A v : Proj!Answer(q, v) = RQ!Answer(q, v)
  /\ \A cs, c, ok : Proj!Served(cs, c, ok) = RQ!Served(cs, c, ok)
  /\ \A n, a : Proj!Sent(n, a) = RQ!Sent(n, a)
  /\ Proj!NoQuery = RQ!NoQuery
BY DEF Proj!Start, RQ!Start, Proj!Fetch, RQ!Fetch, Proj!Invalidate, RQ!Invalidate, Proj!FirstLoad,
       RQ!FirstLoad, Proj!Arrive, RQ!Arrive, Proj!Answer, RQ!Answer, Proj!Served, RQ!Served,
       Proj!Sent, RQ!Sent, Proj!NoQuery, RQ!NoQuery

LEMMA ProjCardinality == \A S : Proj!Cardinality(S) = Cardinality(S)
BY Zenon DEF Proj!Cardinality, Cardinality

LEMMA ProjSlice == \A v : Proj!Slice(v) = SliceOf(flags, v)
BY ProjCardinality DEF Proj!Slice, SliceOf

\* What a request does to a view, on display or not.
LEMMA ViewAsked ==
  ASSUME NEW q, Shape(q), NEW t
  PROVE  /\ Loaded(RQ!Fetch(q)) /\ Loaded(RQ!Invalidate(q))
         /\ OnItsWay(q, t) \/ q.net = "idle" => Current(RQ!Fetch(q), t) /\ OnItsWay(RQ!Fetch(q), t)
         /\ Current(RQ!Invalidate(q), t) => OnItsWay(RQ!Invalidate(q), t)
         /\ q.net = "idle" => OnItsWay(q, t)
         /\ RQ!FirstLoad(q) => q.net # "idle"
BY DEF Shape, Loaded, OnItsWay, Current, RQ!Fetch, RQ!Invalidate, RQ!FirstLoad, RQ!Start

LEMMA ViewAnswered ==
  ASSUME NEW q, Shape(q), NEW t, NEW v \in {t, NoData}, q.net = "sent"
  PROVE  Loaded(RQ!Answer(q, v)) /\ \A d \in BOOLEAN : ViewCurrent(RQ!Answer(q, v), t, d)
BY DEF Shape, Loaded, OnItsWay, ViewCurrent, Current, RQ!Answer

LEMMA ViewArrived ==
  ASSUME NEW q, Shape(q), NEW t, q.net = "answered", NEW d \in BOOLEAN
  PROVE  Loaded(RQ!Arrive(q)) /\ (ViewCurrent(q, t, d) => ViewCurrent(RQ!Arrive(q), t, d))
BY DEF Shape, Loaded, OnItsWay, ViewCurrent, Current, RQ!Arrive

LEMMA ProjInitially == Proj!Init => ProjInv
<1> SUFFICES ASSUME Proj!Init PROVE ProjInv
  OBVIOUS
<1>1. Proj!First \in Proj!Views
  BY ViewsAssumption, ProjCardinality DEF Proj!First, Proj!Views, Proj!Pages
<1>2. /\ cache = [v \in Proj!Views |-> IF v = Proj!First THEN RQ!Start(RQ!NoQuery) ELSE RQ!NoQuery]
      /\ view = Proj!First /\ calls = {}
  BY ProjOps DEF Proj!Init
<1>3. \A v \in Proj!Views : Shape(cache[v]) /\ Current(cache[v], SliceOf(flags, v))
  BY <1>2, Initially
<1>4. cache[view].net = "sent"
  BY <1>1, <1>2 DEF RQ!Start, RQ!NoQuery
<1>5. QED
  BY <1>1, <1>2, <1>3, <1>4 DEF ProjInv, ProjViews, Loaded, ViewCurrent, OnItsWay, Current, CallShapes

\* Another view is shown: asked for if it is not loading already.
LEMMA ProjGoes ==
  ASSUME ProjInv, NEW asks, NEW v \in Proj!Views, v \in asks, Proj!Go(asks, v)
  PROVE  ProjInv'
<1>1. /\ view' = v
      /\ cache' = [w \in Proj!Views |-> IF w \in asks THEN RQ!Fetch(cache[w]) ELSE cache[w]]
      /\ behind' = behind \ {w \in asks : cache[w].net = "idle"}
      /\ UNCHANGED <<flags, calls>>
  BY ProjOps DEF Proj!Go
<1>2. ASSUME NEW w \in Proj!Views
      PROVE  /\ Shape(cache'[w])
             /\ w = v => Loaded(cache'[w])
             /\ \/ Applied(calls) \/ w \in behind'
                \/ ViewCurrent(cache'[w], SliceOf(flags, w), w = v)
  <2>1. Shape(cache[w])
    BY DEF ProjInv
  <2>2. \/ Applied(calls) \/ w \in behind
        \/ OnItsWay(cache[w], SliceOf(flags, w))
    BY DEF ProjInv, ProjViews, ViewCurrent
  <2>3. CASE w \in asks
    <3>1. cache'[w] = RQ!Fetch(cache[w])
      BY <1>1, <2>3
    <3>2. Shape(cache'[w]) /\ Loaded(cache'[w])
      BY <2>1, <3>1, Fetching, ViewAsked
    <3>3. \/ Applied(calls) \/ w \in behind'
          \/ OnItsWay(cache[w], SliceOf(flags, w)) \/ cache[w].net = "idle"
      BY <1>1, <2>2
    <3>4. OnItsWay(cache[w], SliceOf(flags, w)) \/ cache[w].net = "idle"
          => ViewCurrent(cache'[w], SliceOf(flags, w), w = v)
      BY <2>1, <3>1, ViewAsked DEF ViewCurrent
    <3>5. QED
      BY <3>2, <3>3, <3>4
  <2>4. CASE w \notin asks
    BY <1>1, <2>1, <2>2, <2>4 DEF ViewCurrent
  <2>5. QED
    BY <2>3, <2>4
<1>3. QED
  BY <1>1, <1>2 DEF ProjInv, ProjViews

\* The view on display is asked for again. Whatever had been applied, the views
\* this leaves out are behind, or not loading.
LEMMA ProjReasks ==
  ASSUME ProjInv, Proj!Reask, UNCHANGED <<flags, view>>, CallShapes(calls')
  PROVE  ProjInv'
<1>1. /\ cache' = [cache EXCEPT ![view] = RQ!Invalidate(cache[view])]
      /\ behind' = (behind \cup Proj!Late) \ (IF RQ!FirstLoad(cache[view]) THEN {} ELSE {view})
  BY ProjOps DEF Proj!Reask, Proj!current, ProjInv
<1>2. ASSUME NEW w \in Proj!Views
      PROVE  /\ Shape(cache'[w])
             /\ w = view => Loaded(cache'[w])
             /\ w \in behind' \/ ViewCurrent(cache'[w], SliceOf(flags, w), w = view)
  <2>1. Shape(cache[w]) /\ DOMAIN cache = Proj!Views
    BY DEF ProjInv
  <2>2. CASE w = view
    <3>1. cache'[w] = RQ!Invalidate(cache[w])
      BY <1>1, <2>1, <2>2
    <3>2. Shape(cache'[w]) /\ Loaded(cache'[w])
      BY <2>1, <3>1, Invalidating, ViewAsked
    <3>3. CASE RQ!FirstLoad(cache[w])
      BY <1>1, <2>1, <2>2, <3>2, <3>3, ViewAsked DEF Proj!Late
    <3>4. CASE ~RQ!FirstLoad(cache[w])
      <4>1. Current(cache'[w], SliceOf(flags, w))
        BY <2>1, <3>1, <3>4, Invalidating
      <4>2. QED
        BY <2>1, <3>1, <3>2, <4>1, ViewAsked DEF ViewCurrent
    <3>5. QED
      BY <3>3, <3>4
  <2>3. CASE w # view
    <3>1. cache'[w] = cache[w]
      BY <1>1, <2>1, <2>3
    <3>2. w \in behind' \/ cache[w].net = "idle"
      BY <1>1, <2>3 DEF Proj!Late
    <3>3. QED
      BY <2>1, <2>3, <3>1, <3>2, ViewAsked DEF ViewCurrent
  <2>4. QED
    BY <2>2, <2>3
<1>3. QED
  BY <1>1, <1>2 DEF ProjInv, ProjViews

\* A reply that asks for nothing: every view it may concern is behind.
LEMMA ProjFallsBehind ==
  ASSUME ProjInv, behind' = behind \cup Proj!Late \cup {view}, UNCHANGED <<flags, cache, view>>,
         CallShapes(calls')
  PROVE  ProjInv'
<1>1. ASSUME NEW w \in Proj!Views
      PROVE  w \in behind' \/ ViewCurrent(cache[w], SliceOf(flags, w), w = view)
  <2>1. Shape(cache[w])
    BY DEF ProjInv
  <2>2. w \in behind' \/ (w # view /\ cache[w].net = "idle")
    BY DEF Proj!Late
  <2>3. QED
    BY <2>1, <2>2, ViewAsked DEF ViewCurrent
<1>2. QED
  BY <1>1 DEF ProjInv, ProjViews

\* One view is asked for, read by the server, or arrives.
LEMMA ProjMoves ==
  ASSUME ProjInv, NEW v \in Proj!Views, NEW q, cache' = [cache EXCEPT ![v] = q],
         Shape(q), v = view => Loaded(q), UNCHANGED <<flags, view>>,
         CallShapes(calls'), Applied(calls) => Applied(calls'),
         \A w \in behind : w # v => w \in behind',
         \/ Applied(calls) \/ v \in behind'
         \/ ViewCurrent(q, SliceOf(flags, v), v = view)
  PROVE  ProjInv'
<1>1. cache'[v] = q /\ \A w \in Proj!Views : w # v => cache'[w] = cache[w]
  BY DEF ProjInv
<1>2. ASSUME NEW w \in Proj!Views
      PROVE  /\ Shape(cache'[w])
             /\ w = view => Loaded(cache'[w])
             /\ \/ Applied(calls') \/ w \in behind'
                \/ ViewCurrent(cache'[w], SliceOf(flags, w), w = view)
  <2>1. CASE w = v
    BY <1>1, <2>1
  <2>2. CASE w # v
    BY <1>1, <2>2 DEF ProjInv, ProjViews
  <2>3. QED
    BY <2>1, <2>2
<1>3. QED
  BY <1>2 DEF ProjInv, ProjViews

\* Nothing of the list changes, and no reply comes.
LEMMA ProjRests ==
  ASSUME ProjInv, UNCHANGED <<flags, cache, view, behind>>,
         CallShapes(calls'), Applied(calls) => Applied(calls')
  PROVE  ProjInv'
BY DEF ProjInv, ProjViews

LEMMA ProjStep == ProjInv /\ Proj!PflNext => ProjInv'
<1> SUFFICES ASSUME ProjInv, Proj!PflNext PROVE ProjInv'
  OBVIOUS
<1>0. /\ CallShapes(calls) /\ view \in Proj!Views /\ DOMAIN cache = Proj!Views
      /\ \A v \in Proj!Views : Shape(cache[v])
  BY DEF ProjInv
<1>1. ASSUME NEW t \in Terms, Proj!Search(t) PROVE ProjInv'
  <2> DEFINE v == [view EXCEPT !.term = t, !.page = 1]
  <2>1. v \in Proj!Views
    <3>1. 1 \in Proj!Pages
      BY ViewsAssumption, ProjCardinality DEF Proj!Pages
    <3>2. QED
      BY <1>0, <3>1 DEF Proj!Views
  <2>2. Proj!Go({[view EXCEPT !.term = t], v}, v)
    BY <1>1 DEF Proj!Search
  <2> HIDE DEF v
  <2>3. QED
    BY <2>1, <2>2, ProjGoes
<1>2. ASSUME NEW p \in Proj!Pages, Proj!SetPage(p) PROVE ProjInv'
  <2> DEFINE v == [view EXCEPT !.page = p]
  <2>1. v \in Proj!Views
    BY <1>0 DEF Proj!Views
  <2>2. Proj!Go({v}, v)
    BY <1>2 DEF Proj!SetPage
  <2> HIDE DEF v
  <2>3. QED
    BY <2>1, <2>2, ProjGoes
<1>3. ASSUME NEW o \in Orders, Proj!SetSort(o) PROVE ProjInv'
  <2> DEFINE v == [view EXCEPT !.order = o]
  <2>1. v \in Proj!Views
    BY <1>0 DEF Proj!Views
  <2>2. Proj!Go({v}, v)
    BY <1>3 DEF Proj!SetSort
  <2> HIDE DEF v
  <2>3. QED
    BY <2>1, <2>2, ProjGoes
<1>4. ASSUME NEW op, NEW k, Proj!Send(op, k), UNCHANGED <<flags, cache, view, behind>> PROVE ProjInv'
  <2> DEFINE a == [op |-> op, key |-> k]
  <2>1. calls' = calls \cup {RQ!Sent(Proj!Free(calls), a)}
    BY <1>4, ProjOps DEF Proj!Send
  <2>2. CallShapes(calls') /\ (Applied(calls) => Applied(calls'))
    BY <1>0, <2>1, Sending
  <2>3. QED
    BY <1>4, <2>2, ProjRests
<1>5. ASSUME Proj!CancelCreate PROVE ProjInv'
  <2> DEFINE g == [c \in calls |-> IF c.arg.op = "create" THEN [c EXCEPT !.from = "gone"] ELSE c]
  <2>1. calls' = {g[c] : c \in calls} /\ UNCHANGED <<flags, cache, view, behind>>
    BY <1>5 DEF Proj!CancelCreate
  <2>2. \A c \in calls : g[c].st = c.st /\ CallShape(g[c])
    BY <1>0 DEF CallShapes, CallShape
  <2> HIDE DEF g
  <2>3. CallShapes(calls') /\ (Applied(calls) => Applied(calls'))
    BY <1>0, <2>1, <2>2, Disowning
  <2>4. QED
    BY <2>1, <2>3, ProjRests
<1>6. ASSUME NEW c \in calls, Proj!ServeCall(c) PROVE ProjInv'
  <2>1. PICK ok \in {(c.arg.op = "create") # (c.arg.key \in flags), FALSE} :
               /\ calls' = RQ!Served(calls, c, ok)
               /\ ~ok => flags' = flags
    BY <1>6, ProjOps DEF Proj!ServeCall
  <2>2. c.st = "sent" /\ UNCHANGED <<cache, view, behind>>
    BY <1>6 DEF Proj!ServeCall
  <2>3. /\ CallShapes(calls')
        /\ Applied(calls) => Applied(calls')
        /\ ok => Applied(calls')
    BY <1>0, <2>1, <2>2, Serving
  <2>4. CASE ok
    BY <2>2, <2>3, <2>4 DEF ProjInv, ProjViews
  <2>5. CASE ~ok
    BY <2>1, <2>2, <2>3, <2>5, ProjRests
  <2>6. QED
    BY <2>4, <2>5
<1>7. ASSUME NEW c \in calls, Proj!DeleteReply(c) PROVE ProjInv'
  <2>1. calls' = calls \ {c} /\ Proj!Reask /\ UNCHANGED <<flags, view>>
    BY <1>7 DEF Proj!DeleteReply
  <2>2. CallShapes(calls')
    BY <1>0, <2>1, Replying
  <2>3. QED
    BY <2>1, <2>2, ProjReasks
<1>8. ASSUME NEW c \in calls, Proj!CreateReply(c) PROVE ProjInv'
  <2>1. /\ calls' = calls \ {c} /\ behind' = behind \cup Proj!Late \cup {view}
        /\ UNCHANGED <<flags, cache, view>>
    BY <1>8 DEF Proj!CreateReply
  <2>2. CallShapes(calls')
    BY <1>0, <2>1, Replying
  <2>3. QED
    BY <2>1, <2>2, ProjFallsBehind
<1>9. ASSUME NEW c \in calls, Proj!ErrorReply(c) PROVE ProjInv'
  <2>1. /\ calls' = calls \ {c} /\ UNCHANGED <<flags, cache, view>>
        /\ behind' = IF c.st = "applied" THEN behind \cup Proj!Late \cup {view} ELSE behind
    BY <1>9 DEF Proj!ErrorReply, Proj!Succeeded
  <2>2. CallShapes(calls') /\ (Applied(calls) /\ c.st # "applied" => Applied(calls'))
    BY <1>0, <2>1, Replying
  <2>3. CASE c.st = "applied"
    BY <2>1, <2>2, <2>3, ProjFallsBehind
  <2>4. CASE c.st # "applied"
    BY <2>1, <2>2, <2>4, ProjRests
  <2>5. QED
    BY <2>3, <2>4
<1>10. ASSUME Proj!onCreated PROVE ProjInv'
  BY <1>0, <1>10, ProjReasks DEF Proj!onCreated
<1>11. ASSUME NEW v \in Proj!Views, Proj!ServeSlice(v) PROVE ProjInv'
  <2>1. cache[v].net = "sent" /\ UNCHANGED <<flags, view, calls, behind>>
    BY <1>11 DEF Proj!ServeSlice
  <2>2. PICK d \in {SliceOf(flags, v), NoData} : cache' = [cache EXCEPT ![v] = RQ!Answer(cache[v], d)]
    BY <1>0, <1>11, ProjOps, ProjSlice DEF Proj!ServeSlice
  <2> DEFINE q == RQ!Answer(cache[v], d)
  <2>3. Shape(q) /\ Loaded(q) /\ ViewCurrent(q, SliceOf(flags, v), v = view)
    BY <1>0, <2>1, Answering, ViewAnswered
  <2> HIDE DEF q
  <2>4. cache' = [cache EXCEPT ![v] = q]
    BY <2>2 DEF q
  <2>5. QED
    BY <1>0, <2>1, <2>3, <2>4, ProjMoves
<1>12. ASSUME NEW v \in Proj!Views, Proj!SliceArrives(v) PROVE ProjInv'
  <2> DEFINE q == RQ!Arrive(cache[v])
             g == [c \in calls |-> IF c.arg.op = "create" /\ ~Proj!Body'
                                   THEN [c EXCEPT !.from = "gone"] ELSE c]
  <2>1. /\ cache[v].net = "answered" /\ UNCHANGED <<flags, view, behind>>
        /\ cache' = [cache EXCEPT ![v] = q]
    BY <1>0, <1>12, ProjOps DEF Proj!SliceArrives
  <2>2. calls' = {g[c] : c \in calls}
    BY <1>12 DEF Proj!SliceArrives
  <2>3. \A c \in calls : g[c].st = c.st /\ CallShape(g[c])
    BY <1>0 DEF CallShapes, CallShape
  <2> HIDE DEF g
  <2>4. CallShapes(calls') /\ (Applied(calls) => Applied(calls'))
    BY <1>0, <2>2, <2>3, Disowning
  <2>5. /\ Shape(q) /\ Loaded(q)
        /\ ViewCurrent(cache[v], SliceOf(flags, v), v = view) => ViewCurrent(q, SliceOf(flags, v), v = view)
    BY <1>0, <2>1, Arriving, ViewArrived
  <2>6. \/ Applied(calls) \/ v \in behind
        \/ ViewCurrent(cache[v], SliceOf(flags, v), v = view)
    BY DEF ProjInv, ProjViews
  <2> HIDE DEF q
  <2>7. QED
    BY <2>1, <2>4, <2>5, <2>6, ProjMoves
<1>13. ASSUME Proj!Focus PROVE ProjInv'
  <2> DEFINE q == RQ!Fetch(cache[view])
  <2>1. /\ cache[view].net = "idle" /\ UNCHANGED <<flags, view, calls>> /\ behind' = behind \ {view}
        /\ cache' = [cache EXCEPT ![view] = q]
    BY <1>0, <1>13, ProjOps DEF Proj!Focus, Proj!current
  <2>2. Shape(q) /\ Loaded(q) /\ ViewCurrent(q, SliceOf(flags, view), TRUE)
    BY <1>0, <2>1, Fetching, ViewAsked DEF ViewCurrent
  <2> HIDE DEF q
  <2>3. QED
    BY <1>0, <2>1, <2>2, ProjMoves
<1>14. ASSUME NEW k, Proj!SubmitCreate(k) \/ Proj!ConfirmDelete PROVE ProjInv'
  BY <1>4, <1>14 DEF Proj!SubmitCreate, Proj!ConfirmDelete
<1>15. ASSUME NEW k, Proj!DeleteIntent(k) \/ Proj!CancelDelete \/ Proj!OpenCreate \/ Proj!ClearKey
       PROVE  ProjInv'
  BY <1>0, <1>15, ProjRests DEF Proj!DeleteIntent, Proj!CancelDelete, Proj!OpenCreate, Proj!ClearKey
<1>16. QED
  BY <1>1, <1>2, <1>3, <1>5, <1>6, <1>7, <1>8, <1>9, <1>10, <1>11, <1>12, <1>13, <1>14, <1>15
     DEF Proj!PflNext

\* At rest the project's list shows the slice of the stored flags that its
\* page, search and order stand for, for any number of flags and views, with
\* searches that overtake each other, cached pages from before a change and
\* placeholders, unless a change could not ask for that view again or its reply
\* was lost (flags.tsx 81-109, 131-134).
THEOREM ProjectFlagsShown == Spec => []ProjectFlagsAtRest
<1> DEFINE Inv == part = "project" => ProjInv
<1>1. Init => Inv
  BY ProjInitially DEF Init
<1>2. Inv /\ [Next]_<<part, calls, liveOnly, cardOnly, bothLists, listOnly, projOnly,
                      envOnly, listOrEnv>> => Inv'
  <2> SUFFICES ASSUME Inv, [Next]_<<part, calls, liveOnly, cardOnly, bothLists, listOnly, projOnly,
                                    envOnly, listOrEnv>>,
                      part' = "project"
               PROVE  ProjInv'
    OBVIOUS
  <2>1. CASE Next
    <3>1. ProjInv /\ Proj!PflNext
      BY <2>1 DEF Next
    <3>2. QED
      BY <3>1, ProjStep
  <2>2. CASE UNCHANGED <<part, calls, liveOnly, cardOnly, bothLists, listOnly, projOnly,
                         envOnly, listOrEnv>>
    BY <2>2 DEF projOnly, bothLists, ProjInv, ProjViews
  <2>3. QED
    BY <2>1, <2>2
<1>3. Inv => ProjectFlagsAtRest
  <2> SUFFICES ASSUME ProjInv, Proj!Body, cache[view].net = "idle", calls = {}, view \notin behind
               PROVE  Proj!data = Proj!Slice(view)
    BY DEF ProjectFlagsAtRest, Proj!SliceAtRest, Proj!current
  <2>1. cache[view].data # NoData /\ ~cache[view].err /\ Proj!data = cache[view].data
    BY DEF ProjInv, Loaded, Proj!Body, Proj!data, Proj!current
  <2>2. Current(cache[view], SliceOf(flags, view))
    BY DEF ProjInv, ProjViews, Applied, ViewCurrent
  <2>3. QED
    BY <2>1, <2>2, ProjSlice DEF Current
<1>4. QED
  BY <1>1, <1>2, <1>3, PTL DEF Spec

-----------------------------------------------------------------------------
(***************************************************************************)
(* WebFlagLive. A row may be out of date if it is in doubt, if a toggle of  *)
(* this tab was committed and its reply is on its way, or if an event of    *)
(* the page's environment is. A change that is published and not committed  *)
(* will be one of these: it is of a request in flight, or announced by an   *)
(* event that has not been handled, or in doubt. Requests are told apart by *)
(* their numbers, or a commit could be taken for that of another one.       *)
(***************************************************************************)
LiveCalls(cs) ==
  /\ IsFiniteSet(cs)
  /\ \A c \in cs : CallShape(c) /\ c.n # 0
  /\ \A c, d \in cs : c.n = d.n => c = d

LiveDue(cs, e) == \E c \in cs : c.st = "applied" /\ c.arg.env = e

Announced(e) == e \in doubt \/ (e = PageEnv /\ events > 0)

LiveTx ==
  tx # NoData => IF tx.by = 0 THEN Announced(tx.env)
                 ELSE \E c \in calls : c.n = tx.by /\ c.st = "sent" /\ c.arg.env = tx.env

LiveRows ==
  \A e \in Envs : Announced(e) \/ LiveDue(calls, e) \/ Current(row[e], enabled[e])

LiveInv ==
  /\ LiveCalls(calls) /\ events \in Nat
  /\ DOMAIN row = Envs /\ DOMAIN enabled = Envs
  /\ \A e \in Envs : Shape(row[e])
  /\ LiveTx /\ LiveRows

LEMMA LiveOps ==
  /\ \A q : /\ Live!Fetch(q) = RQ!Fetch(q) /\ Live!Invalidate(q) = RQ!Invalidate(q)
            /\ Live!Arrive(q) = RQ!Arrive(q) /\ Live!Start(q) = RQ!Start(q)
            /\ Live!FirstLoad(q) <=> RQ!FirstLoad(q)
            /\ \A v : Live!Answer(q, v) = RQ!Answer(q, v)
  /\ \A cs, c, ok : Live!Served(cs, c, ok) = RQ!Served(cs, c, ok)
  /\ \A n, a : Live!Sent(n, a) = RQ!Sent(n, a)
  /\ Live!NoQuery = RQ!NoQuery
BY DEF Live!Start, RQ!Start, Live!Fetch, RQ!Fetch, Live!Invalidate, RQ!Invalidate, Live!FirstLoad,
       RQ!FirstLoad, Live!Arrive, RQ!Arrive, Live!Answer, RQ!Answer, Live!Served, RQ!Served,
       Live!Sent, RQ!Sent, Live!NoQuery, RQ!NoQuery

LEMMA LiveFree == \A cs : Live!Free(cs) = RQ!Free(cs)
<1>1. \A S : Live!Cardinality(S) = RQ!Cardinality(S)
  BY Zenon DEF Live!Cardinality, RQ!Cardinality
<1>2. QED
  BY <1>1 DEF Live!Free, RQ!Free

\* There is a number that no request in flight has.
LEMMA FreeIsFree ==
  ASSUME NEW cs, IsFiniteSet(cs)
  PROVE  Live!Free(cs) # 0 /\ \A c \in cs : c.n # Live!Free(cs)
BY FreeIsNumber, LiveFree

LEMMA LiveInitially == Live!Init => LiveInv
<1> SUFFICES ASSUME Live!Init PROVE LiveInv
  OBVIOUS
<1>1. /\ row = [e \in Envs |-> RQ!NoQuery] /\ calls = {} /\ tx = NoData
      /\ DOMAIN enabled = Envs /\ events = 0
  BY LiveOps DEF Live!Init
<1>2. \A e \in Envs : Shape(row[e]) /\ Current(row[e], enabled[e])
  BY <1>1, Initially
<1>3. LiveCalls(calls)
  BY <1>1, FS_EmptySet DEF LiveCalls
<1>4. QED
  BY <1>1, <1>2, <1>3 DEF LiveInv, LiveTx, LiveRows

LEMMA LiveCallSent ==
  ASSUME NEW cs, LiveCalls(cs), NEW a
  PROVE  /\ LiveCalls(cs \cup {RQ!Sent(Live!Free(cs), a)})
         /\ cs \subseteq cs \cup {RQ!Sent(Live!Free(cs), a)}
<1> DEFINE d == RQ!Sent(Live!Free(cs), a)
<1>1. CallShape(d) /\ d.n = Live!Free(cs)
  BY DEF RQ!Sent, CallShape
<1>2. d.n # 0 /\ \A c \in cs : c.n # d.n
  BY <1>1, FreeIsFree DEF LiveCalls
<1> HIDE DEF d
<1>3. IsFiniteSet(cs \cup {d})
  BY FS_AddElement DEF LiveCalls
<1>4. LiveCalls(cs \cup {d})
  BY <1>1, <1>2, <1>3 DEF LiveCalls
<1>5. QED
  BY <1>4 DEF d

\* The same requests by number, some of them disowned or ended.
LEMMA LiveCallsMapped ==
  ASSUME NEW cs, LiveCalls(cs), NEW g, NEW ds, ds = {g[c] : c \in cs}, g = [c \in cs |-> g[c]],
         \A c \in cs : g[c].n = c.n /\ g[c].arg = c.arg /\ CallShape(g[c])
  PROVE  LiveCalls(ds)
<1>1. g \in Surjection(cs, ds)
  <2>1. g \in [cs -> ds]
    OBVIOUS
  <2>2. \A d \in ds : \E c \in cs : g[c] = d
    OBVIOUS
  <2>3. QED
    BY <2>1, <2>2 DEF Surjection
<1>2. IsFiniteSet(ds)
  BY <1>1, FS_Surjection DEF LiveCalls
<1>3. \A d \in ds : \E c \in cs : d = g[c]
  OBVIOUS
<1>4. QED
  BY <1>2, <1>3 DEF LiveCalls

LEMMA LiveCallEnds ==
  ASSUME NEW cs, LiveCalls(cs), NEW c \in cs
  PROVE  LiveCalls(cs \ {c})
BY FS_RemoveElement DEF LiveCalls

\* What the tab does: no change is made, none of its requests that are with the
\* server is forgotten, and what was on its way comes, is still on its way or
\* leaves the row in doubt.
LEMMA LiveFrame ==
  ASSUME LiveInv, UNCHANGED <<enabled, tx>>, LiveCalls(calls'), DOMAIN row' = Envs,
         \A e \in Envs : Shape(row'[e]) /\ (Current(row[e], enabled[e]) => Current(row'[e], enabled[e])),
         doubt \subseteq doubt', events' \in Nat,
         events > 0 => \/ events' > 0 \/ PageEnv \in doubt'
                       \/ tx = NoData /\ (PageEnv \in Envs => Current(row'[PageEnv], enabled[PageEnv])),
         \A e \in Envs : LiveDue(calls, e) => \/ LiveDue(calls', e) \/ e \in doubt'
                                              \/ Current(row'[e], enabled[e]),
         \A c \in calls : c.st = "sent" =>
           \E d \in calls' : d.n = c.n /\ d.st = "sent" /\ d.arg = c.arg
  PROVE  LiveInv'
<1>1. LiveTx'
  BY DEF LiveInv, LiveTx, Announced
<1>2. ASSUME NEW e \in Envs
      PROVE  \/ e \in doubt' \/ (e = PageEnv /\ events' > 0) \/ LiveDue(calls', e)
             \/ Current(row'[e], enabled[e])
  <2>1. Announced(e) \/ LiveDue(calls, e) \/ Current(row[e], enabled[e])
    BY DEF LiveInv, LiveRows
  <2>2. QED
    BY <2>1 DEF Announced
<1>3. LiveRows'
  BY <1>2 DEF LiveRows, Announced
<1>4. QED
  BY <1>1, <1>3 DEF LiveInv

\* A change is published: it is of a request, announced, or in doubt.
LEMMA LivePublishes ==
  ASSUME LiveInv, NEW ch, Live!Publish(ch), LiveCalls(calls'), calls \subseteq calls',
         ch.by # 0 => \E c \in calls : c.n = ch.by /\ c.st = "sent" /\ c.arg.env = ch.env
  PROVE  LiveInv'
<1>1. /\ tx' = ch /\ UNCHANGED <<enabled, row>>
      /\ \/ ch.env = PageEnv /\ events' = events + 1 /\ doubt' = doubt
         \/ events' = events /\ doubt' = IF ch.by = 0 THEN doubt \cup {ch.env} ELSE doubt
  BY DEF Live!Publish
<1>2. events' \in Nat /\ (events > 0 => events' > 0) /\ doubt \subseteq doubt'
  BY <1>1 DEF LiveInv
<1>3. ch.by = 0 => ch.env \in doubt' \/ (ch.env = PageEnv /\ events' > 0)
  BY <1>1 DEF LiveInv
<1>4. LiveTx'
  BY <1>1, <1>3 DEF LiveTx, Announced
<1>5. LiveRows'
  BY <1>1, <1>2 DEF LiveInv, LiveRows, Announced, LiveDue
<1>6. QED
  BY <1>1, <1>2, <1>4, <1>5 DEF LiveInv

LEMMA LiveCommits ==
  ASSUME LiveInv, NEW ok \in BOOLEAN, Live!EndTx(ok)
  PROVE  LiveInv'
<1> DEFINE st == IF ok THEN "applied" ELSE "refused"
           g == [c \in calls |-> IF c.n = tx.by THEN [c EXCEPT !.st = st] ELSE c]
<1>1. /\ tx # NoData /\ tx' = NoData /\ UNCHANGED <<row, events, doubt>>
      /\ enabled' = IF ok THEN [enabled EXCEPT ![tx.env] = tx.to] ELSE enabled
  BY DEF Live!EndTx
<1>2. calls' = {g[c] : c \in calls} /\ g = [c \in calls |-> g[c]]
  BY DEF Live!EndTx
<1>3. LiveCalls(calls) /\ LiveTx /\ LiveRows
  BY DEF LiveInv
<1>4. \A c \in calls : g[c].n = c.n /\ g[c].arg = c.arg /\ CallShape(g[c])
  BY <1>3 DEF LiveCalls, CallShape
<1>5. \A c \in calls : /\ c.n = tx.by => g[c].st = st
                       /\ c.n # tx.by => g[c] = c
  BY <1>3 DEF LiveCalls, CallShape
<1> HIDE DEF g
<1>6. LiveCalls(calls')
  BY <1>2, <1>3, <1>4, LiveCallsMapped
\* The request of the change is with the server, so no other one is affected.
<1>7. \A c \in calls : c.n = tx.by => c.st = "sent"
  BY <1>1, <1>3 DEF LiveTx, LiveCalls
<1>8. ASSUME NEW e \in Envs, LiveDue(calls, e) PROVE LiveDue(calls', e)
  <2>1. PICK c \in calls : c.st = "applied" /\ c.arg.env = e
    BY <1>8 DEF LiveDue
  <2>2. g[c] = c /\ g[c] \in calls'
    BY <1>2, <1>5, <1>7, <2>1
  <2>3. QED
    BY <2>1, <2>2 DEF LiveDue
<1>9. ok => Announced(tx.env) \/ LiveDue(calls', tx.env)
  <2> SUFFICES ASSUME ok, tx.by # 0 PROVE LiveDue(calls', tx.env)
    BY <1>1, <1>3 DEF LiveTx
  <2>1. PICK c \in calls : c.n = tx.by /\ c.arg.env = tx.env
    BY <1>1, <1>3 DEF LiveTx
  <2>2. g[c] \in calls' /\ g[c].st = "applied" /\ g[c].arg.env = tx.env
    BY <1>2, <1>4, <1>5, <2>1
  <2>3. QED
    BY <2>2 DEF LiveDue
<1>10. DOMAIN enabled' = Envs /\ \A e \in Envs : ~ok \/ e # tx.env => enabled'[e] = enabled[e]
  BY <1>1 DEF LiveInv
<1>11. ASSUME NEW e \in Envs
       PROVE  Announced(e) \/ LiveDue(calls', e) \/ Current(row[e], enabled'[e])
  BY <1>3, <1>8, <1>9, <1>10 DEF LiveRows
<1>12. LiveRows'
  BY <1>1, <1>11 DEF LiveRows, Announced
<1>13. QED
  BY <1>1, <1>6, <1>10, <1>12 DEF LiveInv, LiveTx

LEMMA LiveReads ==
  ASSUME LiveInv, NEW e \in Envs, Live!ServeRow(e)
  PROVE  LiveInv'
<1>1. PICK v \in {enabled[e], NoData} :
             /\ row' = [row EXCEPT ![e] = RQ!Answer(row[e], v)]
             /\ tx # NoData => doubt' = doubt
             /\ doubt' \subseteq doubt /\ \A x \in doubt : x # e => x \in doubt'
  BY LiveOps DEF Live!ServeRow, LiveInv
<1>2. UNCHANGED <<enabled, tx, events, calls>>
  BY DEF Live!ServeRow
<1>3. DOMAIN row' = Envs /\ row'[e] = RQ!Answer(row[e], v) /\ \A x \in Envs : x # e => row'[x] = row[x]
  BY <1>1 DEF LiveInv
<1>4. Shape(row'[e]) /\ Current(row'[e], enabled[e])
  BY <1>3, Answering DEF LiveInv
<1>5. LiveTx'
  BY <1>1, <1>2 DEF LiveInv, LiveTx, Announced
<1>6. ASSUME NEW x \in Envs
      PROVE  /\ Shape(row'[x])
             /\ \/ x \in doubt' \/ (x = PageEnv /\ events > 0)
                \/ LiveDue(calls, x) \/ Current(row'[x], enabled[x])
  <2>1. CASE x = e
    BY <1>4, <2>1
  <2>2. CASE x # e
    BY <1>1, <1>3, <2>2 DEF LiveInv, LiveRows, Announced
  <2>3. QED
    BY <2>1, <2>2
<1>7. LiveRows'
  BY <1>2, <1>6 DEF LiveRows, Announced
<1>8. QED
  BY <1>2, <1>3, <1>5, <1>6, <1>7 DEF LiveInv

\* The rows are asked for: none of them becomes less current.
LEMMA LiveAsks ==
  ASSUME LiveInv, UNCHANGED <<enabled, tx, events, calls, doubt>>, DOMAIN row' = Envs,
         \A e \in Envs : \/ row'[e] = row[e] \/ row'[e] = RQ!Fetch(row[e])
                         \/ row[e].net = "answered" /\ row'[e] = RQ!Arrive(row[e])
  PROVE  LiveInv'
<1>1. ASSUME NEW e \in Envs
      PROVE  Shape(row'[e]) /\ (Current(row[e], enabled[e]) => Current(row'[e], enabled[e]))
  <2>1. Shape(row[e])
    BY DEF LiveInv
  <2>2. QED
    BY <2>1, Fetching, Arriving
<1>2. LiveCalls(calls) /\ events \in Nat
  BY DEF LiveInv
<1>3. QED
  BY <1>1, <1>2, LiveFrame

\* The page is hidden or left; what was on its way to it is not read.
LEMMA LiveUnmounts ==
  ASSUME LiveInv, UNCHANGED <<enabled, tx, row>>, events' \in {events, 0},
         doubt' = IF events = events' THEN doubt ELSE doubt \cup {PageEnv},
         calls' = calls \/ calls' = Live!Unmounted(calls)
  PROVE  LiveInv'
<1>1. /\ LiveCalls(calls) /\ DOMAIN row = Envs /\ \A e \in Envs : Shape(row[e])
      /\ events \in Nat
  BY DEF LiveInv
<1>2. events' \in Nat /\ doubt \subseteq doubt' /\ (events > 0 => events' > 0 \/ PageEnv \in doubt')
  BY <1>1
<1>3. PICK g : /\ calls' = {g[c] : c \in calls} /\ g = [c \in calls |-> g[c]]
               /\ \A c \in calls : /\ g[c].n = c.n /\ g[c].arg = c.arg /\ CallShape(g[c])
                                   /\ g[c].st = c.st
  <2>1. CASE calls' = calls
    <3> DEFINE g == [c \in calls |-> c]
    <3>1. /\ calls' = {g[c] : c \in calls} /\ g = [c \in calls |-> g[c]]
          /\ \A c \in calls : g[c] = c /\ CallShape(g[c])
      BY <1>1, <2>1 DEF LiveCalls
    <3>2. QED
      BY <3>1
  <2>2. CASE calls' = Live!Unmounted(calls)
    <3> DEFINE g == [c \in calls |-> [c EXCEPT !.from = "gone"]]
    <3>1. /\ calls' = {g[c] : c \in calls} /\ g = [c \in calls |-> g[c]]
          /\ \A c \in calls : /\ g[c].n = c.n /\ g[c].arg = c.arg /\ CallShape(g[c])
                              /\ g[c].st = c.st
      BY <1>1, <2>2 DEF LiveCalls, Live!Unmounted, CallShape
    <3> HIDE DEF g
    <3>2. QED
      BY <3>1
  <2>3. QED
    BY <2>1, <2>2
<1>4. LiveCalls(calls')
  BY <1>1, <1>3, LiveCallsMapped
<1>5. \A c \in calls : g[c] \in calls'
  BY <1>3
<1>6. \A e \in Envs : LiveDue(calls, e) => LiveDue(calls', e)
  BY <1>3, <1>5 DEF LiveDue
<1>7. \A c \in calls : c.st = "sent" => \E d \in calls' : d.n = c.n /\ d.st = "sent" /\ d.arg = c.arg
  BY <1>3, <1>5
<1>8. QED
  BY <1>1, <1>2, <1>4, <1>6, <1>7, LiveFrame

LEMMA LiveHandles ==
  ASSUME LiveInv, Live!HandleEvent
  PROVE  LiveInv'
<1>1. /\ events > 0 /\ events' = events - 1 /\ UNCHANGED <<enabled, tx, calls>>
      /\ row' = [e \in Envs |-> IF body = "shown" THEN RQ!Invalidate(row[e]) ELSE row[e]]
      /\ doubt' = IF body = "shown" /\ ~RQ!FirstLoad(row[PageEnv]) /\ tx = NoData THEN doubt
                  ELSE doubt \cup {PageEnv}
  BY LiveOps DEF Live!HandleEvent
<1>2. events' \in Nat /\ doubt \subseteq doubt' /\ LiveCalls(calls)
  BY <1>1 DEF LiveInv
<1>3. ASSUME NEW e \in Envs
      PROVE  /\ Shape(row'[e])
             /\ Current(row[e], enabled[e]) => Current(row'[e], enabled[e])
             /\ body = "shown" /\ ~RQ!FirstLoad(row[e]) => Current(row'[e], enabled[e])
  <2>1. Shape(row[e]) /\ row'[e] = IF body = "shown" THEN RQ!Invalidate(row[e]) ELSE row[e]
    BY <1>1 DEF LiveInv
  <2>2. QED
    BY <2>1, Invalidating
<1>4. \/ PageEnv \in doubt'
      \/ tx = NoData /\ (PageEnv \in Envs => Current(row'[PageEnv], enabled[PageEnv]))
  BY <1>1, <1>3
<1>5. DOMAIN row' = Envs
  BY <1>1
<1>6. QED
  BY <1>1, <1>2, <1>3, <1>4, <1>5, LiveFrame

\* A reply leaves the other requests, and its own row asked for or in doubt.
LEMMA LiveReplies ==
  ASSUME LiveInv, NEW c \in calls, Live!ToggleReply(c) \/ Live!ErrorReply(c)
  PROVE  LiveInv'
<1>1. /\ c.st # "sent" /\ calls' = calls \ {c} /\ UNCHANGED <<enabled, tx, events>>
  BY DEF Live!ToggleReply, Live!ErrorReply, Live!Succeeded, Live!Failing
<1>2. LiveCalls(calls') /\ events \in Nat
  BY <1>1, LiveCallEnds DEF LiveInv
<1>3. /\ DOMAIN row' = Envs /\ doubt \subseteq doubt'
      /\ \A e \in Envs : row'[e] = row[e] \/ (e = c.arg.env /\ row'[e] = RQ!Invalidate(row[e]))
  BY LiveOps DEF Live!ToggleReply, Live!ErrorReply, LiveInv
<1>4. ASSUME NEW e \in Envs, e = c.arg.env, c.st = "applied"
      PROVE  e \in doubt' \/ (~RQ!FirstLoad(row[e]) /\ row'[e] = RQ!Invalidate(row[e]))
  <2>1. CASE Live!ToggleReply(c)
    BY <1>4, <2>1, LiveOps DEF Live!ToggleReply, LiveInv
  <2>2. CASE Live!ErrorReply(c)
    BY <1>4, <2>2 DEF Live!ErrorReply, Live!Succeeded
  <2>3. QED
    BY <2>1, <2>2
<1>5. ASSUME NEW e \in Envs
      PROVE  /\ Shape(row'[e])
             /\ Current(row[e], enabled[e]) => Current(row'[e], enabled[e])
             /\ e = c.arg.env /\ c.st = "applied" => e \in doubt' \/ Current(row'[e], enabled[e])
  <2>1. Shape(row[e])
    BY DEF LiveInv
  <2>2. QED
    BY <1>3, <1>4, <2>1, Invalidating
<1>6. \A e \in Envs : LiveDue(calls, e) => LiveDue(calls', e) \/ (e = c.arg.env /\ c.st = "applied")
  BY <1>1 DEF LiveDue
<1>7. \A d \in calls : d.st = "sent" => d \in calls'
  BY <1>1
<1>8. QED
  BY <1>1, <1>2, <1>3, <1>5, <1>6, <1>7, LiveFrame

LEMMA LiveToggles ==
  ASSUME LiveInv, NEW e \in Envs, Live!Toggle(e)
  PROVE  LiveInv'
<1> DEFINE a == [op |-> "toggle", env |-> e, to |-> ~row[e].data]
<1>1. calls' = calls \cup {RQ!Sent(Live!Free(calls), a)} /\ UNCHANGED <<enabled, tx, row, events, doubt>>
  BY LiveOps DEF Live!Toggle
<1> HIDE DEF a
<1>2. LiveCalls(calls) /\ events \in Nat /\ DOMAIN row = Envs /\ \A x \in Envs : Shape(row[x])
  BY DEF LiveInv
<1>3. LiveCalls(calls') /\ calls \subseteq calls'
  BY <1>1, <1>2, LiveCallSent
<1>4. \A x \in Envs : LiveDue(calls, x) => LiveDue(calls', x)
  BY <1>3 DEF LiveDue
<1>5. QED
  BY <1>1, <1>2, <1>3, <1>4, LiveFrame

LEMMA LiveStep == LiveInv /\ Live!LiveNext => LiveInv'
<1> SUFFICES ASSUME LiveInv, Live!LiveNext PROVE LiveInv'
  OBVIOUS
<1>0. LiveCalls(calls) /\ DOMAIN row = Envs
  BY DEF LiveInv
<1>1. CASE Live!ShowBody \/ Live!Focus
  <2>1. row' = [e \in Envs |-> RQ!Fetch(row[e])] /\ UNCHANGED <<enabled, tx, events, calls, doubt>>
    BY <1>1, LiveOps DEF Live!ShowBody, Live!Focus
  <2>2. QED
    BY <2>1, LiveAsks
<1>2. ASSUME NEW e \in Envs, Live!RowArrives(e) PROVE LiveInv'
  <2>1. /\ row[e].net = "answered" /\ row' = [row EXCEPT ![e] = RQ!Arrive(row[e])]
        /\ UNCHANGED <<enabled, tx, events, calls, doubt>>
    BY <1>0, <1>2, LiveOps DEF Live!RowArrives
  <2>2. DOMAIN row' = Envs /\ row'[e] = RQ!Arrive(row[e]) /\ \A x \in Envs : x # e => row'[x] = row[x]
    BY <1>0, <2>1
  <2>3. QED
    BY <2>1, <2>2, LiveAsks
<1>3. ASSUME Live!Enter \/ \E ok \in BOOLEAN : Live!Connect(ok) PROVE LiveInv'
  <2>1. UNCHANGED <<enabled, tx, row, events, calls, doubt>>
    BY <1>3 DEF Live!Enter, Live!Connect
  <2>2. QED
    BY <1>0, <2>1, LiveAsks
<1>4. CASE Live!HideBody
  <2>1. UNCHANGED <<enabled, tx, row, events, doubt>> /\ calls' = Live!Unmounted(calls)
    BY <1>4 DEF Live!HideBody
  <2>2. QED
    BY <2>1, LiveUnmounts
<1>5. CASE Live!Leave \/ Live!StreamEnds
  <2>1. /\ UNCHANGED <<enabled, tx, row>> /\ events' = 0
        /\ doubt' = IF events = 0 THEN doubt ELSE doubt \cup {PageEnv}
        /\ calls' = calls \/ calls' = Live!Unmounted(calls)
    BY <1>5 DEF Live!Leave, Live!StreamEnds
  <2>2. QED
    BY <2>1, LiveUnmounts
<1>6. CASE Live!HandleEvent
  BY <1>6, LiveHandles
<1>7. ASSUME NEW ok \in BOOLEAN, Live!EndTx(ok) PROVE LiveInv'
  BY <1>7, LiveCommits
<1>8. ASSUME NEW e \in Envs, Live!Toggle(e) \/ Live!ServeRow(e) PROVE LiveInv'
  BY <1>8, LiveToggles, LiveReads
<1>9. ASSUME NEW e \in Envs, Live!OtherToggle(e) PROVE LiveInv'
  <2> DEFINE ch == [env |-> e, to |-> ~enabled[e], by |-> 0]
  <2>1. Live!Publish(ch) /\ calls' = calls /\ ch.by = 0
    BY <1>9 DEF Live!OtherToggle
  <2> HIDE DEF ch
  <2>2. QED
    BY <1>0, <2>1, LivePublishes
<1>10. ASSUME NEW c \in calls, Live!ServeToggle(c) PROVE LiveInv'
  <2> DEFINE ch == [env |-> c.arg.env, to |-> c.arg.to, by |-> c.n]
  <2>1. Live!Publish(ch) /\ calls' = calls /\ c.st = "sent" /\ ch.by = c.n /\ ch.env = c.arg.env
    BY <1>10 DEF Live!ServeToggle
  <2> HIDE DEF ch
  <2>2. QED
    BY <1>0, <2>1, LivePublishes
<1>11. ASSUME NEW c \in calls, Live!ToggleReply(c) \/ Live!ErrorReply(c) PROVE LiveInv'
  BY <1>11, LiveReplies
<1>12. QED
  BY <1>1, <1>2, <1>3, <1>4, <1>5, <1>6, <1>7, <1>8, <1>9, <1>10, <1>11 DEF Live!LiveNext

\* At rest every toggle of the flag page shows the stored state, for any number
\* of environments and of changes made here and by others, unless since the row
\* was read an event or a reply was lost, or an event came before its commit or
\* during the first load (flags.$key.tsx 457-473, useFlagSSE.ts 79-88).
THEOREM TogglesShown == Spec => []TogglesAtRest
<1> DEFINE Inv == part = "toggles" => LiveInv
<1>1. Init => Inv
  BY LiveInitially DEF Init
<1>2. Inv /\ [Next]_<<part, calls, liveOnly, cardOnly, bothLists, listOnly, projOnly,
                      envOnly, listOrEnv>> => Inv'
  <2> SUFFICES ASSUME Inv, [Next]_<<part, calls, liveOnly, cardOnly, bothLists, listOnly, projOnly,
                                    envOnly, listOrEnv>>,
                      part' = "toggles"
               PROVE  LiveInv'
    OBVIOUS
  <2>1. CASE Next
    <3>1. LiveInv /\ Live!LiveNext
      BY <2>1 DEF Next
    <3>2. QED
      BY <3>1, LiveStep
  <2>2. CASE UNCHANGED <<part, calls, liveOnly, cardOnly, bothLists, listOnly, projOnly,
                         envOnly, listOrEnv>>
    BY <2>2 DEF liveOnly, LiveInv, LiveTx, LiveRows, Announced
  <2>3. QED
    BY <2>1, <2>2
<1>3. Inv => TogglesAtRest
  <2> SUFFICES ASSUME LiveInv, NEW e \in Envs, Live!Settled(e), e \notin doubt
               PROVE  row[e].data = enabled[e]
    BY DEF TogglesAtRest, Live!RowsAtRest
  <2>1. /\ Live!Shown(row[e]) /\ row[e].net = "idle" /\ calls = {} /\ events = 0
    BY DEF Live!Settled, Live!RowShown
  <2>2. ~Announced(e) /\ ~LiveDue(calls, e)
    BY <2>1 DEF Announced, LiveDue
  <2>3. QED
    BY <2>1, <2>2 DEF LiveInv, LiveRows, Current, Live!Shown
<1>4. QED
  BY <1>1, <1>2, <1>3, PTL DEF Spec

-----------------------------------------------------------------------------
(***************************************************************************)
(* WebFlagCard. The draft of a card that is not being edited is the stored  *)
(* flag. It was when it was copied; a save of this card stores the draft,   *)
(* which does not change until the reply, and ends the edit mode; a         *)
(* deletion takes the card away, so until that is answered nothing is said. *)
(* Away from the page the cache may hold anything, but an answer on its way *)
(* to it is the stored flag, or the page will find the two set apart.       *)
(***************************************************************************)
HereSave(c) == c.from = "here" /\ c.arg.op = "save"

Deleted(cs) == \E c \in cs : c.st = "applied" /\ c.arg.op = "delete"

CardCalls(cs) ==
  /\ \A c \in cs : CallShape(c) /\ c.arg.op \in {"save", "delete"} /\ c.from \in {"here", "gone"}
  /\ \A c, d \in cs : HereSave(c) /\ HereSave(d) => c = d

CardMounted ==
  /\ card \in BOOLEAN /\ editing \in BOOLEAN
  /\ card => at = "flag" /\ Card!Shown(query)
  /\ \A c \in calls : HereSave(c) => card /\ editing

CardQuery == Applied(calls) \/ ViewCurrent(query, flag, at = "flag")

CardSaves ==
  \A c \in calls : HereSave(c) => /\ c.arg.flag = draft
                                  /\ c.st = "applied" => flag = draft \/ Deleted(calls)

CardDraft == card /\ ~editing => draft = flag \/ Deleted(calls)

CardInv ==
  /\ Shape(query) /\ CardCalls(calls) /\ CardMounted
  /\ apart \/ (CardQuery /\ CardSaves /\ CardDraft)

LEMMA CardOps ==
  /\ \A q : /\ Card!Fetch(q) = RQ!Fetch(q) /\ Card!Invalidate(q) = RQ!Invalidate(q)
            /\ Card!Arrive(q) = RQ!Arrive(q) /\ Card!Start(q) = RQ!Start(q)
            /\ Card!FirstLoad(q) <=> RQ!FirstLoad(q)
            /\ \A v : Card!Answer(q, v) = RQ!Answer(q, v)
  /\ \A cs, c, ok : Card!Served(cs, c, ok) = RQ!Served(cs, c, ok)
  /\ \A n, a : Card!Sent(n, a) = RQ!Sent(n, a)
  /\ Card!NoQuery = RQ!NoQuery
BY DEF Card!Start, RQ!Start, Card!Fetch, RQ!Fetch, Card!Invalidate, RQ!Invalidate, Card!FirstLoad,
       RQ!FirstLoad, Card!Arrive, RQ!Arrive, Card!Answer, RQ!Answer, Card!Served, RQ!Served,
       Card!Sent, RQ!Sent, Card!NoQuery, RQ!NoQuery

LEMMA CardInitially == Card!Init => CardInv
<1> SUFFICES ASSUME Card!Init PROVE CardInv
  OBVIOUS
<1>1. query = RQ!Start(RQ!NoQuery) /\ calls = {} /\ card = FALSE /\ editing = FALSE
  BY CardOps DEF Card!Init
<1>2. Shape(query) /\ Current(query, flag)
  BY <1>1, Initially
<1>3. QED
  BY <1>1, <1>2
     DEF CardInv, CardCalls, CardMounted, CardQuery, CardSaves, CardDraft, ViewCurrent, OnItsWay, Current

\* The requests of a card that is unmounted, or left with its page, go on alone.
LEMMA CardDisowns ==
  ASSUME NEW cs, CardCalls(cs), NEW ds,
         \/ ds = Card!Unmounted(cs)
         \/ ds = {IF c.arg.op = "save" THEN [c EXCEPT !.from = "gone"] ELSE c : c \in cs}
  PROVE  /\ CardCalls(ds) /\ \A d \in ds : ~HereSave(d)
         /\ Applied(cs) => Applied(ds)
         /\ Deleted(cs) => Deleted(ds)
<1>1. PICK g : /\ ds = {g[c] : c \in cs}
               /\ \A c \in cs : /\ g[c].st = c.st /\ g[c].arg = c.arg /\ CallShape(g[c])
                                /\ g[c].from \in {"here", "gone"} /\ ~HereSave(g[c])
  <2>1. CASE ds = Card!Unmounted(cs)
    <3> DEFINE g == [c \in cs |-> [c EXCEPT !.from = "gone"]]
    <3>1. /\ ds = {g[c] : c \in cs}
          /\ \A c \in cs : /\ g[c].st = c.st /\ g[c].arg = c.arg /\ CallShape(g[c])
                           /\ g[c].from \in {"here", "gone"} /\ ~HereSave(g[c])
      BY <2>1 DEF Card!Unmounted, CardCalls, CallShape, HereSave
    <3> HIDE DEF g
    <3>2. QED
      BY <3>1
  <2>2. CASE ds = {IF c.arg.op = "save" THEN [c EXCEPT !.from = "gone"] ELSE c : c \in cs}
    <3> DEFINE g == [c \in cs |-> IF c.arg.op = "save" THEN [c EXCEPT !.from = "gone"] ELSE c]
    <3>1. /\ ds = {g[c] : c \in cs}
          /\ \A c \in cs : /\ g[c].st = c.st /\ g[c].arg = c.arg /\ CallShape(g[c])
                           /\ g[c].from \in {"here", "gone"} /\ ~HereSave(g[c])
      BY <2>2 DEF CardCalls, CallShape, HereSave
    <3> HIDE DEF g
    <3>2. QED
      BY <3>1
  <2>3. QED
    BY <2>1, <2>2
<1>2. (\A c \in cs : g[c] \in ds) /\ \A d \in ds : \E c \in cs : d = g[c]
  BY <1>1
<1>3. CardCalls(ds) /\ \A d \in ds : ~HereSave(d)
  BY <1>1, <1>2 DEF CardCalls
<1>4. Applied(cs) => Applied(ds)
  BY <1>1, <1>2 DEF Applied
<1>5. Deleted(cs) => Deleted(ds)
  BY <1>1, <1>2 DEF Deleted
<1>6. QED
  BY <1>3, <1>4, <1>5

\* The card is mounted from an answer or unmounted, with the page or without.
LEMMA CardMounts ==
  ASSUME CardInv, NEW q, NEW onPage \in BOOLEAN, Card!Mount(q, onPage), query' = q, Shape(q),
         at' = "flag" <=> onPage, UNCHANGED flag,
         Applied(calls) \/ ViewCurrent(query, flag, at = "flag") =>
           Applied(calls) \/ ViewCurrent(q, flag, at' = "flag")
  PROVE  CardInv'
<1>1. card' = (onPage /\ Card!Shown(q))
  BY DEF Card!Mount
<1>2. CardCalls(calls) /\ CardMounted
  BY DEF CardInv
<1>3. CASE card' = card
  <2>1. UNCHANGED <<editing, draft, calls, apart>>
    BY <1>3 DEF Card!Mount
  <2>2. CardMounted'
    BY <1>1, <1>2, <1>3, <2>1 DEF CardMounted, Card!Shown
  <2>3. CardQuery => CardQuery'
    BY <2>1 DEF CardQuery
  <2>4. QED
    BY <1>2, <1>3, <2>1, <2>2, <2>3 DEF CardInv, CardSaves, CardDraft
<1>4. CASE card' # card
  <2>1. /\ editing' = FALSE
        /\ apart \/ (card' /\ q.data # flag) => apart'
        /\ card' => draft' = q.data
        /\ \/ calls' = Card!Unmounted(calls)
           \/ calls' = {IF c.arg.op = "save" THEN [c EXCEPT !.from = "gone"] ELSE c : c \in calls}
    BY <1>4 DEF Card!Mount
  <2>2. /\ CardCalls(calls') /\ \A d \in calls' : ~HereSave(d)
        /\ Applied(calls) => Applied(calls')
    BY <1>2, <2>1, CardDisowns
  <2>3. CardMounted'
    BY <1>1, <2>1, <2>2 DEF CardMounted, Card!Shown
  <2>4. CardQuery => CardQuery'
    BY <2>2 DEF CardQuery
  <2>5. QED
    BY <2>1, <2>2, <2>3, <2>4 DEF CardInv, CardSaves, CardDraft
<1>5. QED
  BY <1>3, <1>4

\* The server has answered c, which goes on as d.
Replaced(cs, ds, c, d) ==
  /\ c \in cs /\ c.st = "sent" /\ d.st # "sent" /\ CallShape(d)
  /\ d.from = c.from /\ d.arg.op = c.arg.op
  /\ d \in ds /\ c \notin ds /\ \A x \in ds : x = d \/ x \in cs
  /\ \A x \in cs : x.st # "sent" => x \in ds

LEMMA ServedReplaces ==
  ASSUME NEW cs, CallShapes(cs), NEW c \in cs, c.st = "sent", NEW ok
  PROVE  \E d : /\ Replaced(cs, RQ!Served(cs, c, ok), c, d) /\ d.arg = c.arg
                /\ d.st = IF ok THEN "applied" ELSE "refused"
<1> DEFINE d == [c EXCEPT !.st = IF ok THEN "applied" ELSE "refused"]
<1>1. /\ d.st = (IF ok THEN "applied" ELSE "refused") /\ d.from = c.from /\ d.arg = c.arg
      /\ CallShape(d)
  BY DEF CallShapes, CallShape
<1>2. RQ!Served(cs, c, ok) = (cs \ {c}) \cup {d}
  BY DEF RQ!Served
<1> HIDE DEF d
<1>3. Replaced(cs, RQ!Served(cs, c, ok), c, d)
  BY <1>1, <1>2 DEF Replaced
<1>4. QED
  BY <1>1, <1>3

\* Nothing but the edit mode or the dialog changes.
LEMMA CardEdits ==
  ASSUME CardInv, UNCHANGED <<flag, query, at, card, calls>>, editing' \in BOOLEAN,
         apart => apart',
         \A c \in calls : HereSave(c) => editing',
         draft' # draft => apart' \/ \A c \in calls : ~HereSave(c),
         ~editing' => apart' \/ draft' = flag \/ (draft' = draft /\ ~editing)
  PROVE  CardInv'
<1>1. CardMounted'
  BY DEF CardInv, CardMounted
<1>2. CASE apart'
  BY <1>1, <1>2 DEF CardInv
<1>3. CASE ~apart'
  <2>1. CardQuery' /\ CardSaves'
    BY <1>3 DEF CardInv, CardQuery, CardSaves
  <2>2. CardDraft'
    BY <1>3 DEF CardInv, CardDraft
  <2>3. QED
    BY <1>1, <2>1, <2>2 DEF CardInv
<1>4. QED
  BY <1>2, <1>3

\* A request is sent: a save has the draft, and is the only one of this card.
LEMMA CardSends ==
  ASSUME CardInv, NEW op \in {"save", "delete"}, NEW f, Card!Send(op, f),
         UNCHANGED <<flag, query, at, card, editing, draft, apart>>,
         op = "save" => f = draft /\ card /\ editing /\ ~Card!isPending(calls, "save")
  PROVE  CardInv'
<1> DEFINE a == [op |-> op, flag |-> f]
           d == RQ!Sent(Card!Free(calls), a)
<1>1. calls' = calls \cup {d}
  BY CardOps DEF Card!Send
<1>2. /\ CallShape(d) /\ d.st = "sent" /\ d.from = "here" /\ d.arg.op = op /\ d.arg.flag = f
  BY DEF RQ!Sent, CallShape
<1> HIDE DEF d
<1>3. HereSave(d) => f = draft /\ card /\ editing /\ \A c \in calls : ~HereSave(c)
  BY <1>2 DEF HereSave, Card!isPending
<1>4. CardCalls(calls') /\ CardMounted'
  BY <1>1, <1>2, <1>3 DEF CardInv, CardCalls, CardMounted
<1>5. (Applied(calls) => Applied(calls')) /\ (Deleted(calls) => Deleted(calls'))
  BY <1>1 DEF Applied, Deleted
<1>6. CardQuery => CardQuery'
  BY <1>5 DEF CardQuery
<1>7. CardSaves => CardSaves'
  BY <1>1, <1>2, <1>3, <1>5 DEF CardSaves
<1>8. CardDraft => CardDraft'
  BY <1>5 DEF CardDraft
<1>9. QED
  BY <1>4, <1>6, <1>7, <1>8 DEF CardInv

LEMMA CardServes ==
  ASSUME CardInv, NEW c \in calls, Card!ServeCall(c)
  PROVE  CardInv'
<1>1. PICK ok \in {flag # NoData, FALSE} :
             /\ calls' = RQ!Served(calls, c, ok)
             /\ flag' = IF ok THEN c.arg.flag ELSE flag
             /\ apart \/ (ok /\ c.from = "gone") => apart'
  BY CardOps DEF Card!ServeCall
<1>2. c.st = "sent" /\ UNCHANGED <<query, at, card, editing, draft>>
  BY DEF Card!ServeCall
<1>3. CardCalls(calls) /\ CallShapes(calls) /\ CardMounted
  BY DEF CardInv, CardCalls, CallShapes
<1>4. PICK d : /\ Replaced(calls, calls', c, d) /\ d.arg = c.arg
               /\ d.st = IF ok THEN "applied" ELSE "refused"
  BY <1>1, <1>2, <1>3, ServedReplaces
<1>5. CardCalls(calls')
  BY <1>3, <1>4 DEF CardCalls, Replaced, HereSave
<1>6. CardMounted'
  BY <1>2, <1>3, <1>4 DEF CardMounted, Replaced, HereSave
<1>7. (Applied(calls) => Applied(calls')) /\ (Deleted(calls) => Deleted(calls'))
  BY <1>4 DEF Applied, Deleted, Replaced
<1>8. CASE ~ok
  <2>1. flag' = flag /\ d.st # "applied"
    BY <1>1, <1>4, <1>8
  <2>2. CardQuery => CardQuery'
    BY <1>2, <1>7, <2>1 DEF CardQuery
  <2>3. CardSaves => CardSaves'
    BY <1>2, <1>4, <1>7, <2>1 DEF CardSaves, Replaced, HereSave
  <2>4. CardDraft => CardDraft'
    BY <1>2, <1>7, <2>1 DEF CardDraft
  <2>5. QED
    BY <1>1, <1>2, <1>5, <1>6, <2>2, <2>3, <2>4 DEF CardInv
<1>9. CASE ok
  <2>1. flag' = c.arg.flag /\ d.st = "applied" /\ d \in calls' /\ (c.from = "gone" => apart')
    BY <1>1, <1>4, <1>9 DEF Replaced
  <2>2. CardQuery'
    BY <2>1 DEF CardQuery, Applied
  <2>3. CASE c.from = "gone"
    BY <1>2, <1>5, <1>6, <2>1, <2>3 DEF CardInv
  <2>4. CASE c.arg.op = "delete"
    <3>1. Deleted(calls')
      BY <1>4, <2>1, <2>4 DEF Deleted
    <3>2. CardSaves => CardSaves'
      BY <1>2, <1>4, <2>4, <3>1 DEF CardSaves, Replaced, HereSave
    <3>3. CardDraft'
      BY <3>1 DEF CardDraft
    <3>4. QED
      BY <1>1, <1>2, <1>5, <1>6, <2>2, <3>2, <3>3 DEF CardInv
  <2>5. CASE HereSave(c)
    <3>1. CardSaves => flag' = draft /\ d.arg.flag = draft
      BY <1>4, <2>1, <2>5 DEF CardSaves
    <3>2. \A x \in calls' : HereSave(x) => x = d
      BY <1>3, <1>4, <2>5 DEF CardCalls, Replaced
    <3>3. CardSaves => CardSaves'
      BY <1>2, <3>1, <3>2 DEF CardSaves
    <3>4. CardDraft'
      BY <1>2, <1>3, <2>5 DEF CardDraft, CardMounted
    <3>5. QED
      BY <1>1, <1>2, <1>5, <1>6, <2>2, <3>3, <3>4 DEF CardInv
  <2>6. QED
    BY <1>3, <2>3, <2>4, <2>5 DEF CardCalls, HereSave
<1>10. QED
  BY <1>8, <1>9

LEMMA CardReplyEnds ==
  ASSUME NEW cs, CardCalls(cs), NEW c \in cs
  PROVE  /\ CardCalls(cs \ {c})
         /\ Applied(cs) => Applied(cs \ {c}) \/ c.st = "applied"
         /\ Deleted(cs) => Deleted(cs \ {c}) \/ (c.st = "applied" /\ c.arg.op = "delete")
         /\ HereSave(c) => \A d \in cs \ {c} : ~HereSave(d)
BY DEF CardCalls, Applied, Deleted

LEMMA CardSaveReplies ==
  ASSUME CardInv, NEW c \in calls, Card!SaveReply(c)
  PROVE  CardInv'
<1>1. /\ c.st = "applied" /\ c.arg.op = "save" /\ calls' = calls \ {c}
      /\ editing' = (editing /\ c.from = "gone")
      /\ query' = IF at = "flag" THEN RQ!Invalidate(query) ELSE query
      /\ apart \/ c.from = "gone" => apart'
      /\ UNCHANGED <<flag, at, card, draft>>
  BY CardOps DEF Card!SaveReply, Card!Succeeded
<1>2. CardCalls(calls) /\ CardMounted /\ Shape(query)
  BY DEF CardInv
<1>3. /\ CardCalls(calls')
      /\ Deleted(calls) => Deleted(calls')
      /\ HereSave(c) => \A d \in calls' : ~HereSave(d)
  BY <1>1, <1>2, CardReplyEnds
<1>4. /\ Shape(query') /\ query'.data = query.data
      /\ card => Card!Shown(query')
      /\ card => Current(query', flag) /\ OnItsWay(query', flag)
  <2>1. /\ Shape(RQ!Invalidate(query)) /\ RQ!Invalidate(query).data = query.data
        /\ query.data # NoData => Current(RQ!Invalidate(query), flag)
    BY <1>2, Invalidating
  <2>2. ~query.err => ~RQ!Invalidate(query).err
    BY <1>2 DEF RQ!Invalidate, RQ!Start, Shape
  <2>3. QED
    BY <1>1, <1>2, <2>1, <2>2 DEF CardMounted, Card!Shown, Current, OnItsWay
<1>5. CardMounted'
  <2>1. editing' \in BOOLEAN /\ (c.from = "gone" => (editing => editing'))
    BY <1>1
  <2>2. \A d \in calls' : HereSave(d) => card /\ editing'
    BY <1>1, <1>2, <1>3, <2>1 DEF CardMounted, CardCalls, HereSave
  <2>3. QED
    BY <1>1, <1>2, <1>4, <2>1, <2>2 DEF CardMounted
<1>6. CASE c.from = "gone"
  BY <1>1, <1>3, <1>4, <1>5, <1>6 DEF CardInv
<1>7. CASE c.from # "gone"
  <2>1. HereSave(c) /\ card
    BY <1>1, <1>2, <1>7 DEF CardCalls, CardMounted, HereSave
  <2>2. CardQuery' /\ CardSaves'
    BY <1>1, <1>3, <1>4, <2>1 DEF CardQuery, CardSaves, ViewCurrent
  <2>3. CardSaves => CardDraft'
    BY <1>1, <1>3, <2>1 DEF CardSaves, CardDraft
  <2>4. QED
    BY <1>1, <1>3, <1>4, <1>5, <2>2, <2>3 DEF CardInv
<1>8. QED
  BY <1>6, <1>7

LEMMA CardDeleteReplies ==
  ASSUME CardInv, NEW c \in calls, Card!DeleteReply(c)
  PROVE  CardInv'
<1>1. /\ at' = "list" /\ card' = FALSE /\ editing' = FALSE
      /\ calls' = Card!Unmounted(calls \ {c})
      /\ apart \/ query.net # "idle" => apart'
      /\ UNCHANGED <<flag, query>>
  BY DEF Card!DeleteReply
<1>2. CardCalls(calls \ {c}) /\ Shape(query)
  BY CardReplyEnds DEF CardInv
<1>3. CardCalls(calls') /\ \A d \in calls' : ~HereSave(d)
  BY <1>1, <1>2, CardDisowns
<1>4. CardMounted' /\ CardSaves' /\ CardDraft'
  BY <1>1, <1>3 DEF CardMounted, CardSaves, CardDraft
<1>5. query.net = "idle" => CardQuery'
  BY <1>1, <1>2 DEF CardQuery, ViewCurrent, OnItsWay
<1>6. QED
  BY <1>1, <1>2, <1>3, <1>4, <1>5 DEF CardInv

LEMMA CardErrorReplies ==
  ASSUME CardInv, NEW c \in calls, Card!ErrorReply(c)
  PROVE  CardInv'
<1>1. /\ calls' = calls \ {c} /\ (apart \/ c.st = "applied" => apart')
      /\ UNCHANGED <<flag, query, at, card, editing, draft>>
  BY DEF Card!ErrorReply, Card!Succeeded
<1>2. /\ CardCalls(calls')
      /\ Applied(calls) => Applied(calls') \/ c.st = "applied"
      /\ Deleted(calls) => Deleted(calls') \/ c.st = "applied"
  BY <1>1, CardReplyEnds DEF CardInv
<1>3. CardMounted'
  BY <1>1 DEF CardInv, CardMounted
<1>4. CASE c.st = "applied"
  BY <1>1, <1>2, <1>3, <1>4 DEF CardInv
<1>5. CASE c.st # "applied"
  BY <1>1, <1>2, <1>3, <1>5 DEF CardInv, CardQuery, CardSaves, CardDraft
<1>6. QED
  BY <1>4, <1>5

\* The flag is asked for, or read by the server.
LEMMA CardAsks ==
  ASSUME CardInv, UNCHANGED <<flag, at, card, editing, draft, calls, apart>>,
         \/ at = "flag" /\ query' \in {RQ!Fetch(query), RQ!Invalidate(query)}
         \/ \E v \in {flag, NoData} : query' = RQ!Answer(query, v)
  PROVE  CardInv'
<1>1. Shape(query) /\ CardMounted
  BY DEF CardInv
<1>2. /\ Shape(query') /\ query'.data = query.data
      /\ Current(query, flag) => Current(query', flag)
  BY <1>1, Fetching, Invalidating, Answering
<1>3. OnItsWay(query, flag) => OnItsWay(query', flag)
  BY <1>1 DEF OnItsWay, Shape, RQ!Fetch, RQ!Invalidate, RQ!Start, RQ!Answer
<1>4. ~query.err => ~query'.err
  BY <1>1 DEF Shape, RQ!Fetch, RQ!Invalidate, RQ!Start, RQ!Answer
<1>5. CardMounted'
  BY <1>1, <1>2, <1>4 DEF CardMounted, Card!Shown
<1>6. CardQuery => CardQuery'
  BY <1>2, <1>3 DEF CardQuery, ViewCurrent
<1>7. QED
  BY <1>2, <1>5, <1>6 DEF CardInv, CardSaves, CardDraft

LEMMA CardStep == CardInv /\ Card!CardNext => CardInv'
<1> SUFFICES ASSUME CardInv, Card!CardNext PROVE CardInv'
  OBVIOUS
<1>0. Shape(query) /\ CardMounted /\ CardCalls(calls)
  BY DEF CardInv
<1>1. CASE Card!Edit
  BY <1>1, CardEdits DEF Card!Edit
<1>2. CASE Card!DeleteIntent \/ Card!CancelDelete
  BY <1>0, <1>2, CardEdits DEF Card!DeleteIntent, Card!CancelDelete, CardMounted
<1>3. CASE Card!cancelEdit
  <2>1. \A c \in calls : ~HereSave(c)
    BY <1>3 DEF Card!cancelEdit, Card!isPending, HereSave
  <2>2. QED
    BY <1>3, <2>1, CardEdits DEF Card!cancelEdit
<1>4. ASSUME NEW k, Card!RemoveVariant(k) \/ Card!AddVariant(k) \/ Card!SetDefault(k) PROVE CardInv'
  <2>1. PICK d : Card!Change(d)
    BY <1>4 DEF Card!RemoveVariant, Card!AddVariant, Card!SetDefault
  <2>2. apart' \/ \A c \in calls : ~HereSave(c)
    BY <2>1 DEF Card!Change, Card!isPending, HereSave
  <2>3. QED
    BY <1>0, <2>1, <2>2, CardEdits DEF Card!Change, CardMounted
<1>5. CASE Card!Save \/ Card!ConfirmDelete
  BY <1>5, CardSends DEF Card!Save, Card!ConfirmDelete, Card!Bare
<1>6. ASSUME NEW f, Card!OtherEdit(f) PROVE CardInv'
  BY <1>0, <1>6 DEF Card!OtherEdit, CardInv, CardMounted
<1>7. ASSUME NEW c \in calls,
             Card!ServeCall(c) \/ Card!SaveReply(c) \/ Card!DeleteReply(c) \/ Card!ErrorReply(c)
      PROVE  CardInv'
  BY <1>7, CardServes, CardSaveReplies, CardDeleteReplies, CardErrorReplies
<1>8. CASE Card!ServeFlag
  BY <1>8, CardOps, CardAsks DEF Card!ServeFlag
<1>9. CASE Card!Focus \/ Card!HandleEvent
  BY <1>9, CardOps, CardAsks DEF Card!Focus, Card!HandleEvent, Card!Refetch
<1>10. CASE Card!FlagArrives
  <2> DEFINE q == RQ!Arrive(query)
  <2>1. query.net = "answered" /\ query' = q /\ UNCHANGED <<flag, at>> /\ Card!Mount(q, at = "flag")
    BY <1>10, CardOps DEF Card!FlagArrives
  <2>2. Shape(q) /\ (ViewCurrent(query, flag, at = "flag") => ViewCurrent(q, flag, at = "flag"))
    BY <1>0, <2>1, Arriving, ViewArrived
  <2> HIDE DEF q
  <2>3. QED
    BY <2>1, <2>2, CardMounts
<1>11. CASE Card!Leave
  <2>1. at' = "away" /\ Card!Mount(query, FALSE) /\ UNCHANGED <<flag, query>>
    BY <1>11 DEF Card!Leave
  <2>2. ViewCurrent(query, flag, at = "flag") => ViewCurrent(query, flag, FALSE)
    BY DEF ViewCurrent
  <2>3. QED
    BY <1>0, <2>1, <2>2, CardMounts
<1>12. CASE Card!Enter
  <2> DEFINE q == RQ!Fetch(query)
  <2>1. at' = "flag" /\ query' = q /\ Card!Mount(q, TRUE) /\ UNCHANGED flag
    BY <1>12, CardOps DEF Card!Enter
  <2>2. Shape(q) /\ (ViewCurrent(query, flag, at = "flag") => ViewCurrent(q, flag, TRUE))
    BY <1>0, Fetching, ViewAsked DEF ViewCurrent
  <2> HIDE DEF q
  <2>3. QED
    BY <2>1, <2>2, CardMounts
<1>13. QED
  BY <1>1, <1>2, <1>3, <1>4, <1>5, <1>6, <1>7, <1>8, <1>9, <1>10, <1>11, <1>12 DEF Card!CardNext

\* At rest, outside the edit mode, the card shows the stored flag and an edit
\* starts from it, for any variants and any number of edits, saves, refetches
\* and visits, unless somebody else changed the flag, a save was lost or came
\* with its card gone, or the draft changed or was copied while a newer flag
\* was on its way (flags.$key.tsx 77-83, 161-191).
THEOREM CardShown == Spec => []CardAtRest
<1> DEFINE Inv == part = "card" => CardInv
<1>1. Init => Inv
  BY CardInitially DEF Init
<1>2. Inv /\ [Next]_<<part, calls, liveOnly, cardOnly, bothLists, listOnly, projOnly,
                      envOnly, listOrEnv>> => Inv'
  <2> SUFFICES ASSUME Inv, [Next]_<<part, calls, liveOnly, cardOnly, bothLists, listOnly, projOnly,
                                    envOnly, listOrEnv>>,
                      part' = "card"
               PROVE  CardInv'
    OBVIOUS
  <2>1. CASE Next
    <3>1. CardInv /\ Card!CardNext
      BY <2>1 DEF Next
    <3>2. QED
      BY <3>1, CardStep
  <2>2. CASE UNCHANGED <<part, calls, liveOnly, cardOnly, bothLists, listOnly, projOnly,
                         envOnly, listOrEnv>>
    BY <2>2 DEF cardOnly, CardInv, CardMounted, CardQuery, CardSaves, CardDraft, Card!Shown
  <2>3. QED
    BY <2>1, <2>2
<1>3. Inv => CardAtRest
  <2> SUFFICES ASSUME CardInv, card, ~editing, ~apart, calls = {}, query.net = "idle"
               PROVE  query.data = flag /\ draft = flag
    BY DEF CardAtRest, Card!EditStartsFromStored
  <2>1. ~Applied(calls) /\ ~Deleted(calls)
    BY DEF Applied, Deleted
  <2>2. at = "flag" /\ query.data # NoData /\ ~query.err
    BY DEF CardInv, CardMounted, Card!Shown
  <2>3. QED
    BY <2>1, <2>2 DEF CardInv, CardQuery, CardDraft, ViewCurrent, Current
<1>4. QED
  BY <1>1, <1>2, <1>3, PTL DEF Spec

-----------------------------------------------------------------------------
(* The environments page. What is sent to be stored has a name: a field     *)
(* with the focus is being edited, and a name that is stored is no NoData.  *)
EnvRow == [id : Env!Ids, name : Keys]
EnvForm == [open : BOOLEAN, slug : Keys \cup {NoData}, slugError : BOOLEAN]

EnvArg == {a \in [op : {"create", "rename", "delete"}, env : Keys,
                  name : Keys \cup {NoData}, id : Env!Ids] :
           a.op # "delete" => a.name \in Keys}

EnvTyped ==
  /\ envs \in Env!Tables /\ envList \in RQ!Query(Env!Tables)
  /\ place \in Env!Places /\ lost \in BOOLEAN
  /\ field \in [Keys -> Keys \cup {NoData}]
  /\ focus \in {NoData} \cup {s \in Keys : field[s] # NoData}
  /\ form \in EnvForm /\ pendingDelete \in Keys \cup {NoData}
  /\ Requests(calls, EnvArg) /\ asked \in 0 .. MaxRenames

LEMMA EnvTypes == EnvTyped => Env!TypeOK
<1> DEFINE A == [op : {"create", "rename", "delete"}, env : Keys,
                 name : Keys \cup {NoData}, id : Env!Ids]
<1>1. EnvArg \subseteq A
  BY DEF EnvArg
<1>2. RQ!Request(EnvArg) \subseteq Env!Request(A)
  BY <1>1 DEF RQ!Request, Env!Request
<1>3. Env!Query(Env!Tables) = RQ!Query(Env!Tables)
  BY DEF RQ!Query, Env!Query
<1>4. QED
  BY <1>2, <1>3 DEF EnvTyped, Env!TypeOK, EnvForm, Requests

LEMMA EnvFree == \A cs : Env!Free(cs) = RQ!Free(cs)
<1>1. \A S : Env!Cardinality(S) = RQ!Cardinality(S)
  BY Zenon DEF Env!Cardinality, RQ!Cardinality
<1>2. QED
  BY <1>1 DEF Env!Free, RQ!Free

LEMMA EnvTables ==
  \A t : t \in Env!Tables <=> DOMAIN t \subseteq Keys /\ t \in [DOMAIN t -> EnvRow]
BY TableTypes DEF Env!Tables, EnvRow

LEMMA EnvTypedAtFirst == Env!Init => EnvTyped
<1> SUFFICES ASSUME Env!Init PROVE EnvTyped
  OBVIOUS
<1>1. envList \in RQ!Query(Env!Tables)
  BY EnvOps, FirstQueryTypes DEF Env!Init
<1>2. /\ calls = {} /\ asked = 0 /\ place = "page" /\ lost = FALSE /\ pendingDelete = NoData
      /\ focus = NoData /\ field = Env!NoFields /\ form = Env!EmptyForm
  BY DEF Env!Init
<1>3. Requests(calls, EnvArg)
  BY <1>2, FS_EmptySet DEF Requests
<1>4. 0 \in 0 .. MaxRenames
  BY BoundsAssumption
<1>5. envs \in Env!Tables
  <2>1. DOMAIN envs \subseteq Keys /\ envs \in [DOMAIN envs -> [id : {0}, name : Keys]]
    BY TableTypes DEF Env!Init
  <2>2. [id : {0}, name : Keys] \subseteq EnvRow
    BY <1>4 DEF EnvRow, Env!Ids
  <2>3. envs \in [DOMAIN envs -> EnvRow]
    BY <2>1, <2>2
  <2>4. QED
    BY <2>1, <2>3, EnvTables
<1>6. QED
  BY <1>1, <1>2, <1>3, <1>4, <1>5 DEF EnvTyped, EnvForm, Env!NoFields, Env!EmptyForm, Env!Places

LEMMA EnvServesTyped ==
  ASSUME EnvTyped, NEW c \in calls, Env!ServeCall(c)
  PROVE  EnvTyped'
<1> DEFINE a == c.arg
           new == [s \in DOMAIN envs \cup {a.env} |->
                     IF s = a.env THEN [id |-> a.id, name |-> a.name] ELSE envs[s]]
           named == [envs EXCEPT ![a.env].name = a.name]
           left == [s \in DOMAIN envs \ {a.env} |-> envs[s]]
<1>1. /\ Requests(calls, EnvArg) /\ c \in RQ!Request(EnvArg) /\ a \in EnvArg
      /\ envs \in Env!Tables
  BY DEF EnvTyped, Requests, RQ!Request
<1>2. DOMAIN envs \subseteq Keys /\ envs \in [DOMAIN envs -> EnvRow]
  BY <1>1, EnvTables
<1>3. PICK ok \in {(a.op = "create") # (a.env \in DOMAIN envs), FALSE} :
             /\ calls' = RQ!Served(calls, c, ok)
             /\ ~ok => envs' = envs
             /\ ok /\ a.op = "create" => envs' = new
             /\ ok /\ a.op = "rename" => envs' = named
             /\ ok /\ a.op = "delete" => envs' = left
  BY EnvOps DEF Env!ServeCall
<1>4. a.op \in {"create", "rename", "delete"} /\ a.env \in Keys /\ a.id \in Env!Ids
  BY <1>1 DEF EnvArg
<1>5. envs' \in Env!Tables
  <2>1. CASE ~ok
    BY <1>1, <1>3, <2>1
  <2>2. CASE ok /\ a.op = "create"
    <3>1. a.name \in Keys
      BY <1>1, <2>2 DEF EnvArg
    <3>2. DOMAIN new \subseteq Keys /\ new \in [DOMAIN new -> EnvRow]
      BY <1>2, <1>4, <3>1 DEF EnvRow
    <3>3. QED
      BY <1>3, <2>2, <3>2, EnvTables
  <2>3. CASE ok /\ a.op = "rename"
    <3>1. a.name \in Keys
      BY <1>1, <2>3 DEF EnvArg
    <3>2. DOMAIN named \subseteq Keys /\ named \in [DOMAIN named -> EnvRow]
      BY <1>2, <3>1 DEF EnvRow
    <3>3. QED
      BY <1>3, <2>3, <3>2, EnvTables
  <2>4. CASE ok /\ a.op = "delete"
    <3>1. DOMAIN left \subseteq Keys /\ left \in [DOMAIN left -> EnvRow]
      BY <1>2
    <3>2. QED
      BY <1>3, <2>4, <3>1, EnvTables
  <2>5. QED
    BY <1>4, <2>1, <2>2, <2>3, <2>4
<1>6. Requests(calls', EnvArg)
  BY <1>1, <1>3, RequestTypes
<1>7. UNCHANGED <<envList, place, field, focus, form, pendingDelete, lost, asked>>
  BY DEF Env!ServeCall
<1>8. QED
  BY <1>5, <1>6, <1>7 DEF EnvTyped

LEMMA EnvTypedStep == EnvTyped /\ Env!EnvNext => EnvTyped'
<1> SUFFICES ASSUME EnvTyped, Env!EnvNext PROVE EnvTyped'
  OBVIOUS
<1>0. /\ Requests(calls, EnvArg) /\ IsFiniteSet(calls) /\ MaxRenames \in Nat
      /\ envList \in RQ!Query(Env!Tables) /\ envs \in Env!Tables
  BY BoundsAssumption DEF EnvTyped, Requests
<1>form. form \in EnvForm /\ Env!EmptyForm \in EnvForm
  BY DEF EnvTyped, EnvForm, Env!EmptyForm
\* What a row shows is a name.
<1>1. ASSUME NEW s \in Env!Rows PROVE envList.data[s].name \in Keys /\ s \in Keys
  <2>1. Env!Shown(envList) /\ s \in DOMAIN envList.data
    BY DEF Env!Rows
  <2>2. envList.data \in Env!Tables
    BY <1>0, <2>1 DEF Env!Shown, RQ!Query
  <2>3. envList.data[s] \in EnvRow /\ s \in Keys
    BY <2>1, <2>2, EnvTables
  <2>4. QED
    BY <2>3 DEF EnvRow
\* A request is sent.
<1>2. ASSUME NEW op \in {"create", "rename", "delete"}, NEW s \in Keys, NEW n, Env!Send(op, s, n),
             n \in Keys \/ (op = "delete" /\ n = NoData)
      PROVE  Requests(calls', EnvArg) /\ asked' \in 0 .. MaxRenames
  <2> DEFINE a == [op |-> op, env |-> s, name |-> n, id |-> asked']
  <2>1. /\ asked < MaxRenames /\ asked' = asked + 1
        /\ calls' = calls \cup {RQ!Sent(RQ!Free(calls), a)}
    BY <1>2, EnvOps, EnvFree DEF Env!Send
  <2>2. asked' \in 0 .. MaxRenames
    BY <1>0, <2>1 DEF EnvTyped
  <2>3. a \in EnvArg
    BY <1>2, <2>2 DEF EnvArg, Env!Ids
  <2> HIDE DEF a
  <2>4. RQ!Free(calls) \in Nat
    BY <1>0, FreeIsNumber
  <2>5. QED
    BY <1>0, <2>1, <2>2, <2>3, <2>4, RequestTypes
<1>3. ASSUME NEW s \in Keys, Env!startEdit(s) \/ Env!Refocus(s) \/ Env!cancelEdit(s)
      PROVE  EnvTyped'
  <2>1. /\ s \in Env!Rows /\ UNCHANGED <<envs, envList, place, form, pendingDelete, calls, lost, asked>>
        /\ \/ field' = [field EXCEPT ![s] = envList.data[s].name] /\ focus' = s
           \/ field[s] # NoData /\ field' = field /\ focus' = s
           \/ field' = [field EXCEPT ![s] = NoData] /\ focus' = NoData
    BY <1>3 DEF Env!startEdit, Env!Refocus, Env!cancelEdit
  <2>2. field \in [Keys -> Keys \cup {NoData}]
    BY DEF EnvTyped
  <2>3. field' \in [Keys -> Keys \cup {NoData}] /\ focus' \in {NoData} \cup {r \in Keys : field'[r] # NoData}
    BY <1>1, <2>1, <2>2, NoDataAssumption
  <2>4. QED
    BY <2>1, <2>3 DEF EnvTyped
<1>4. ASSUME NEW s \in Keys, NEW n \in Keys, Env!TypeName(s, n) PROVE EnvTyped'
  <2>1. /\ focus = s /\ focus' = s /\ field' = [field EXCEPT ![s] = n]
        /\ UNCHANGED <<envs, envList, place, form, pendingDelete, calls, lost, asked>>
    BY <1>4 DEF Env!TypeName
  <2>2. field' \in [Keys -> Keys \cup {NoData}] /\ focus' \in {r \in Keys : field'[r] # NoData}
    BY <2>1, NoDataAssumption DEF EnvTyped
  <2>3. QED
    BY <2>1, <2>2 DEF EnvTyped
<1>5. ASSUME NEW s \in Keys, Env!PressEnter(s) \/ Env!Blur(s) PROVE EnvTyped'
  <2>1. /\ Env!saveEdit(s) /\ focus' \in {NoData, focus}
        /\ focus' = focus => focus' = NoData \/ field'[s] # NoData
    <3>1. CASE Env!PressEnter(s)
      BY <3>1 DEF Env!PressEnter
    <3>2. CASE Env!Blur(s)
      BY <3>2 DEF Env!Blur
    <3>3. QED
      BY <1>5, <3>1, <3>2
  <2>2. /\ focus = s /\ s \in Env!Rows /\ UNCHANGED <<envs, envList, place, form, pendingDelete, lost>>
        /\ \/ field' = [field EXCEPT ![s] = NoData] /\ UNCHANGED <<calls, asked>>
           \/ Env!Send("rename", s, field[s]) /\ field' = field
    BY <2>1 DEF Env!saveEdit
  <2>3. field[s] \in Keys
    BY <2>2, NoDataAssumption DEF EnvTyped
  <2>4. Requests(calls', EnvArg) /\ asked' \in 0 .. MaxRenames
    <3>1. CASE UNCHANGED <<calls, asked>>
      BY <1>0, <3>1 DEF EnvTyped
    <3>2. CASE Env!Send("rename", s, field[s])
      BY <1>2, <2>3, <3>2
    <3>3. QED
      BY <2>2, <3>1, <3>2
  <2>5. field' \in [Keys -> Keys \cup {NoData}]
    BY <2>2 DEF EnvTyped
  <2>6. focus' \in {NoData} \cup {r \in Keys : field'[r] # NoData}
    BY <2>1, <2>2
  <2>7. QED
    BY <2>2, <2>4, <2>5, <2>6 DEF EnvTyped
<1>6. ASSUME Env!OpenCreate \/ Env!CancelCreate \/ Env!CancelDelete PROVE EnvTyped'
  <2>1. /\ UNCHANGED <<envs, envList, place, field, focus, calls, lost, asked>>
        /\ form' \in {form, [form EXCEPT !.open = TRUE], Env!EmptyForm}
        /\ pendingDelete' \in {pendingDelete, NoData}
    BY <1>6 DEF Env!OpenCreate, Env!CancelCreate, Env!CancelDelete
  <2>2. form' \in EnvForm
    BY <1>form, <2>1 DEF EnvForm
  <2>3. QED
    BY <2>1, <2>2 DEF EnvTyped
<1>7. ASSUME NEW s \in Keys, Env!TypeSlug(s) \/ Env!DeleteIntent(s) PROVE EnvTyped'
  <2>1. /\ UNCHANGED <<envs, envList, place, field, focus, calls, lost, asked>>
        /\ form' \in {form, [form EXCEPT !.slug = s, !.slugError = FALSE]}
        /\ pendingDelete' \in {pendingDelete, s}
    BY <1>7 DEF Env!TypeSlug, Env!DeleteIntent
  <2>2. form' \in EnvForm
    BY <2>1 DEF EnvTyped, EnvForm
  <2>3. QED
    BY <2>1, <2>2 DEF EnvTyped
<1>8. ASSUME NEW n \in Keys, Env!SubmitCreate(n) PROVE EnvTyped'
  <2>1. /\ UNCHANGED <<envs, envList, place, field, focus, form, pendingDelete, lost>>
        /\ form.slug # NoData /\ Env!Send("create", form.slug, n)
    BY <1>8 DEF Env!SubmitCreate
  <2>2. form.slug \in Keys
    BY <2>1 DEF EnvTyped, EnvForm
  <2>3. Requests(calls', EnvArg) /\ asked' \in 0 .. MaxRenames
    BY <1>2, <2>1, <2>2
  <2>4. QED
    BY <2>1, <2>3 DEF EnvTyped
<1>9. ASSUME Env!ConfirmDelete PROVE EnvTyped'
  <2>1. /\ UNCHANGED <<envs, envList, place, field, focus, form, pendingDelete, lost>>
        /\ pendingDelete # NoData /\ Env!Send("delete", pendingDelete, NoData)
    BY <1>9 DEF Env!ConfirmDelete
  <2>2. pendingDelete \in Keys
    BY <2>1 DEF EnvTyped
  <2>3. Requests(calls', EnvArg) /\ asked' \in 0 .. MaxRenames
    BY <1>2, <2>1, <2>2
  <2>4. QED
    BY <2>1, <2>3 DEF EnvTyped
\* A reply may close a field and ask for the list again.
<1>10. ASSUME NEW c \in calls,
              Env!RenameReply(c) \/ Env!CreateReply(c) \/ Env!DeleteReply(c) \/ Env!ErrorReply(c)
       PROVE  EnvTyped'
  <2>1. /\ calls' = calls \ {c} /\ UNCHANGED <<envs, place, asked>>
        /\ envList' \in {envList, RQ!Invalidate(envList)}
        /\ pendingDelete' \in {pendingDelete, NoData}
        /\ Env!CloseField(c) \/ UNCHANGED <<field, focus>>
    BY <1>10, EnvOps DEF Env!RenameReply, Env!CreateReply, Env!DeleteReply, Env!ErrorReply, Env!Reask
  <2>2. lost' \in BOOLEAN
    BY <1>10 DEF Env!RenameReply, Env!CreateReply, Env!DeleteReply, Env!ErrorReply, Env!Reask, EnvTyped
  <2>3. \/ form' \in {form, Env!EmptyForm}
        \/ \E e \in BOOLEAN : form' = [form EXCEPT !.slugError = @ \/ e]
    BY <1>10 DEF Env!RenameReply, Env!CreateReply, Env!DeleteReply, Env!ErrorReply
  <2>4. form' \in EnvForm
    BY <1>form, <2>3 DEF EnvForm
  <2>5. field' \in [Keys -> Keys \cup {NoData}] /\ focus' \in {NoData} \cup {r \in Keys : field'[r] # NoData}
    <3>1. field \in [Keys -> Keys \cup {NoData}] /\ focus \in {NoData} \cup {r \in Keys : field[r] # NoData}
      BY DEF EnvTyped
    <3>2. CASE UNCHANGED <<field, focus>>
      BY <3>1, <3>2
    <3>3. CASE Env!CloseField(c)
      BY <3>1, <3>3 DEF Env!CloseField
    <3>4. QED
      BY <2>1, <3>2, <3>3
  <2>6. Requests(calls', EnvArg)
    BY <1>0, <2>1, RequestTypes
  <2>7. envList' \in RQ!Query(Env!Tables)
    BY <1>0, <2>1, QueryTypes
  <2>8. QED
    BY <2>1, <2>2, <2>4, <2>5, <2>6, <2>7 DEF EnvTyped
<1>11. ASSUME Env!ServeList \/ Env!Focus \/ \E p \in Env!Places : Env!Enter(p) PROVE EnvTyped'
  <2>1. /\ UNCHANGED <<envs, field, focus, form, pendingDelete, calls, lost, asked>>
        /\ place' \in Env!Places
    BY <1>11 DEF Env!ServeList, Env!Focus, Env!Enter, EnvTyped
  <2>2. envList' = RQ!Fetch(envList) \/ \E v \in {envs, NoData} : envList' = RQ!Answer(envList, v)
    BY <1>11, EnvOps DEF Env!ServeList, Env!Focus, Env!Enter
  <2>3. envList' \in RQ!Query(Env!Tables)
    BY <1>0, <2>2, QueryTypes
  <2>4. QED
    BY <2>1, <2>3 DEF EnvTyped
<1>12. ASSUME Env!ListArrives PROVE EnvTyped'
  <2>1. PICK kept \in SUBSET Keys :
               /\ field' = [s \in Keys |-> IF s \in kept THEN field[s] ELSE NoData]
               /\ focus' = IF focus \in kept THEN focus ELSE NoData
    BY <1>12 DEF Env!ListArrives
  <2>2. /\ envList' = RQ!Arrive(envList) /\ UNCHANGED <<envs, place, pendingDelete, lost, asked>>
        /\ form' \in {form, [Env!EmptyForm EXCEPT !.open = form.open]}
    BY <1>12, EnvOps DEF Env!ListArrives
  <2>3. PICK g : /\ calls' = {g[c] : c \in calls} /\ g = [c \in calls |-> g[c]]
                 /\ \A c \in calls : \E o \in {c.from, "gone", "page", "here"} :
                                       g[c] = [c EXCEPT !.from = o]
    <3> DEFINE same == {s \in Keys : /\ Env!Shown(envList) /\ Env!Shown(envList')
                                     /\ s \in DOMAIN envList.data \cap DOMAIN envList'.data
                                     /\ envList.data[s].id = envList'.data[s].id}
               owner(c) == CASE c.from # "here" -> c.from
                             [] c.from = "here" /\ c.arg.op = "rename" /\ c.arg.env \notin same -> "gone"
                             [] c.from = "here" /\ c.arg.op = "create" /\ ~Env!Shown(envList') -> "page"
                             [] OTHER -> "here"
               f == [c \in calls |-> [c EXCEPT !.from = owner(c)]]
    <3>1. calls' = {f[c] : c \in calls}
      BY <1>12 DEF Env!ListArrives
    <3>2. \A c : owner(c) \in {c.from, "gone", "page", "here"}
      OBVIOUS
    <3> HIDE DEF owner
    <3>3. f = [c \in calls |-> f[c]] /\ \A c \in calls : f[c] = [c EXCEPT !.from = owner(c)]
      OBVIOUS
    <3> HIDE DEF f
    <3>4. \A c \in calls : \E o \in {c.from, "gone", "page", "here"} : f[c] = [c EXCEPT !.from = o]
      BY <3>2, <3>3
    <3>5. QED
      BY <3>1, <3>3, <3>4
  <2>4. \A c \in calls : g[c] \in RQ!Request(EnvArg)
    BY <1>0, <2>3 DEF Requests, RQ!Request
  <2>5. Requests(calls', EnvArg)
    BY <1>0, <2>3, <2>4, ImageTypes
  <2>6. envList' \in RQ!Query(Env!Tables)
    BY <1>0, <2>2, QueryTypes
  <2>7. form' \in EnvForm
    BY <2>2 DEF EnvTyped, EnvForm, Env!EmptyForm
  <2>8. field' \in [Keys -> Keys \cup {NoData}] /\ focus' \in {NoData} \cup {r \in Keys : field'[r] # NoData}
    BY <2>1 DEF EnvTyped
  <2>9. QED
    BY <2>2, <2>5, <2>6, <2>7, <2>8 DEF EnvTyped
<1>13. ASSUME NEW p \in Env!Places, Env!Leave(p) PROVE EnvTyped'
  <2> DEFINE g == [c \in calls |-> [c EXCEPT !.from = "gone"]]
  <2>1. /\ place' = p /\ field' = Env!NoFields /\ focus' = NoData /\ form' = Env!EmptyForm
        /\ pendingDelete' = NoData /\ UNCHANGED <<envs, envList, lost, asked>>
        /\ calls' = {g[c] : c \in calls} /\ g = [c \in calls |-> g[c]]
    BY <1>13 DEF Env!Leave, Env!Unmounted
  <2>2. \A c \in calls : g[c] \in RQ!Request(EnvArg)
    BY <1>0 DEF Requests, RQ!Request
  <2> HIDE DEF g
  <2>3. Requests(calls', EnvArg)
    BY <1>0, <2>1, <2>2, ImageTypes
  <2>4. QED
    BY <2>1, <2>3 DEF EnvTyped, EnvForm, Env!NoFields, Env!EmptyForm
<1>14. QED
  BY <1>3, <1>4, <1>5, <1>6, <1>7, <1>8, <1>9, <1>10, <1>11, <1>12, <1>13, EnvServesTyped
     DEF Env!EnvNext

-----------------------------------------------------------------------------
(* The flags of an environment. The number of the latest toggle is bounded  *)
(* by the requests sent, of which those in flight are some.                 *)
ListArg == [op : {"toggle", "delete", "create"}, key : Keys, enabled : BOOLEAN]

ListTyped ==
  /\ flags \in List!Tables /\ list \in RQ!Query(List!Tables)
  /\ pendingDelete \in Keys \cup {NoData} /\ create \in List!Modals(Keys)
  /\ Requests(calls, ListArg) /\ Cardinality(calls) <= asked
  /\ latest \in 0 .. MaxCalls /\ asked \in 0 .. MaxCalls
  /\ missed \in BOOLEAN

LEMMA ListTypes == ListTyped => List!TypeOK
<1>1. RQ!Request(ListArg) = List!Request(ListArg) /\ List!Query(List!Tables) = RQ!Query(List!Tables)
  BY DEF RQ!Query, List!Query, RQ!Request, List!Request
<1>2. QED
  BY <1>1 DEF ListTyped, List!TypeOK, ListArg, Requests

LEMMA ListFree == \A cs : List!Free(cs) = RQ!Free(cs)
<1>1. \A S : List!Cardinality(S) = RQ!Cardinality(S)
  BY Zenon DEF List!Cardinality, RQ!Cardinality
<1>2. QED
  BY <1>1 DEF List!Free, RQ!Free

LEMMA ListTables ==
  \A t : t \in List!Tables <=> DOMAIN t \subseteq Keys /\ t \in [DOMAIN t -> BOOLEAN]
BY TableTypes DEF List!Tables

\* What becomes of the create dialog is one.
LEMMA ListModals ==
  ASSUME NEW m \in List!Modals(Keys)
  PROVE  /\ List!Closed \in List!Modals(Keys) /\ List!FreshForm \in List!Modals(Keys)
         /\ List!Created(m) \in List!Modals(Keys) /\ List!Remounted(m) \in List!Modals(Keys)
         /\ \A k \in Keys \cup {NoData} : List!Typed(m, k) \in List!Modals(Keys)
         /\ \A e \in BOOLEAN : List!Refused(m, e) \in List!Modals(Keys)
BY DEF List!Modals, List!Closed, List!FreshForm, List!Created, List!Remounted, List!Typed, List!Refused

LEMMA ListTypedAtFirst == List!Init => ListTyped
<1> SUFFICES ASSUME List!Init PROVE ListTyped
  OBVIOUS
<1>1. list \in RQ!Query(List!Tables)
  BY ListOps, FirstQueryTypes DEF List!Init
<1>2. /\ calls = {} /\ asked = 0 /\ latest = 0 /\ missed = FALSE /\ pendingDelete = NoData
      /\ create = List!Closed
  BY DEF List!Init
<1>3. Requests(calls, ListArg) /\ Cardinality(calls) <= asked
  BY <1>2, FS_EmptySet DEF Requests
<1>4. 0 \in 0 .. MaxCalls
  BY BoundsAssumption
<1>5. flags \in List!Tables
  <2>1. DOMAIN flags \subseteq Keys /\ flags \in [DOMAIN flags -> {FALSE}]
    BY TableTypes DEF List!Init
  <2>2. flags \in [DOMAIN flags -> BOOLEAN]
    BY <2>1
  <2>3. QED
    BY <2>1, <2>2, ListTables
<1>6. create \in List!Modals(Keys)
  BY <1>2 DEF List!Modals, List!Closed
<1>7. QED
  BY <1>1, <1>2, <1>3, <1>4, <1>5, <1>6 DEF ListTyped

LEMMA ListServesTyped ==
  ASSUME ListTyped, NEW c \in calls, List!ServeCall(c)
  PROVE  ListTyped'
<1> DEFINE a == c.arg
           left == [k \in DOMAIN flags \ {a.key} |-> flags[k]]
           set == [k \in DOMAIN flags \cup {a.key} |-> IF k = a.key THEN a.enabled ELSE flags[k]]
<1>1. /\ Requests(calls, ListArg) /\ c \in RQ!Request(ListArg) /\ a \in ListArg
      /\ flags \in List!Tables /\ IsFiniteSet(calls)
  BY DEF ListTyped, Requests, RQ!Request
<1>2. DOMAIN flags \subseteq Keys /\ flags \in [DOMAIN flags -> BOOLEAN]
  BY <1>1, ListTables
<1>3. PICK ok \in {(a.op = "create") # (a.key \in DOMAIN flags), FALSE} :
             calls' = RQ!Served(calls, c, ok) /\ flags' \in {flags, left, set}
  BY ListOps DEF List!ServeCall
<1>4. DOMAIN left \subseteq Keys /\ left \in [DOMAIN left -> BOOLEAN]
  BY <1>2
<1>5. DOMAIN set \subseteq Keys /\ set \in [DOMAIN set -> BOOLEAN]
  BY <1>1, <1>2 DEF ListArg
<1> HIDE DEF left, set
<1>6. flags' \in List!Tables
  BY <1>1, <1>3, <1>4, <1>5, ListTables
<1>7. Requests(calls', ListArg)
  BY <1>1, <1>3, RequestTypes
<1>8. UNCHANGED <<list, pendingDelete, create, latest, missed, asked>>
  BY DEF List!ServeCall
<1>9. Cardinality(calls') <= asked'
  BY <1>1, <1>3, <1>8, RequestCounts DEF ListTyped
<1>10. QED
  BY <1>6, <1>7, <1>8, <1>9 DEF ListTyped

LEMMA ListTypedStep == ListTyped /\ List!ListNext => ListTyped'
<1> SUFFICES ASSUME ListTyped, List!ListNext PROVE ListTyped'
  OBVIOUS
<1>0. /\ Requests(calls, ListArg) /\ IsFiniteSet(calls) /\ Cardinality(calls) \in Nat
      /\ MaxCalls \in Nat /\ list \in RQ!Query(List!Tables) /\ flags \in List!Tables
      /\ asked \in Nat /\ create \in List!Modals(Keys)
  BY BoundsAssumption, FS_CardinalityType DEF ListTyped, Requests
<1>1. ASSUME NEW k \in List!Rows PROVE k \in Keys /\ list.data[k] \in BOOLEAN
  <2>1. List!Shown(list) /\ k \in DOMAIN list.data
    BY DEF List!Rows
  <2>2. list.data \in List!Tables
    BY <1>0, <2>1 DEF List!Shown, RQ!Query
  <2>3. QED
    BY <2>1, <2>2, ListTables
\* A request is sent.
<1>2. ASSUME NEW op \in {"toggle", "delete", "create"}, NEW k \in Keys, NEW e \in BOOLEAN,
             List!Send(op, k, e), latest' \in {latest, RQ!Free(calls)},
             UNCHANGED <<flags, list, pendingDelete, create, missed>>
      PROVE  ListTyped'
  <2> DEFINE a == [op |-> op, key |-> k, enabled |-> e]
  <2>1. /\ asked < MaxCalls /\ asked' = asked + 1
        /\ calls' = calls \cup {RQ!Sent(RQ!Free(calls), a)}
    BY <1>2, ListOps, ListFree DEF List!Send
  <2>2. a \in ListArg
    BY DEF ListArg
  <2> HIDE DEF a
  <2>3. RQ!Free(calls) \in 1 .. Cardinality(calls) + 1 /\ RQ!Free(calls) \in Nat
    BY <1>0, FreeIsNumber
  <2>4. Requests(calls', ListArg)
    BY <1>0, <2>1, <2>2, <2>3, RequestTypes
  <2>5. Cardinality(calls') \in Nat /\ Cardinality(calls') <= Cardinality(calls) + 1
    BY <1>0, <2>1, RequestCounts
  <2>6. Cardinality(calls') <= asked' /\ asked' \in 0 .. MaxCalls /\ latest' \in 0 .. MaxCalls
    BY <1>0, <1>2, <2>1, <2>3, <2>5 DEF ListTyped
  <2>7. QED
    BY <1>2, <2>4, <2>6 DEF ListTyped
<1>3. ASSUME NEW k \in Keys, List!Toggle(k) PROVE ListTyped'
  <2>1. /\ k \in List!Rows /\ List!Send("toggle", k, ~list.data[k]) /\ latest' = RQ!Free(calls)
        /\ UNCHANGED <<flags, list, pendingDelete, create, missed>>
    BY <1>3, ListFree DEF List!Toggle
  <2>2. (~list.data[k]) \in BOOLEAN
    BY <1>1, <2>1
  <2>3. QED
    BY <1>2, <2>1, <2>2
<1>4. ASSUME List!ConfirmDelete \/ List!SubmitCreate PROVE ListTyped'
  <2>1. /\ UNCHANGED <<flags, list, pendingDelete, create, latest, missed>>
        /\ \/ pendingDelete # NoData /\ List!Send("delete", pendingDelete, FALSE)
           \/ create.key # NoData /\ List!Send("create", create.key, FALSE)
    BY <1>4 DEF List!ConfirmDelete, List!SubmitCreate, List!CanSubmit
  <2>2. pendingDelete # NoData => pendingDelete \in Keys
    BY DEF ListTyped
  <2>3. create.key # NoData => create.key \in Keys
    BY <1>0 DEF List!Modals
  <2>4. QED
    BY <1>2, <2>1, <2>2, <2>3
<1>5. ASSUME \/ List!CancelDelete \/ List!OpenCreate \/ List!onCreated
             \/ \E k \in Keys : List!DeleteIntent(k)
             \/ \E k \in Keys \cup {NoData} : List!TypeKey(k)
      PROVE  ListTyped'
  <2>1. /\ UNCHANGED <<flags, calls, latest, missed, asked>>
        /\ list' \in {list, RQ!Invalidate(list)} /\ pendingDelete' \in {pendingDelete, NoData} \cup Keys
        /\ \/ create' \in {create, List!FreshForm, List!Closed}
           \/ \E k \in Keys \cup {NoData} : create' = List!Typed(create, k)
    BY <1>5, ListOps DEF List!CancelDelete, List!OpenCreate, List!onCreated, List!DeleteIntent,
                         List!TypeKey
  <2>2. create' \in List!Modals(Keys)
    BY <1>0, <2>1, ListModals
  <2>3. list' \in RQ!Query(List!Tables)
    BY <1>0, <2>1, QueryTypes
  <2>4. QED
    BY <2>1, <2>2, <2>3 DEF ListTyped
\* A request may be disowned.
<1>6. ASSUME NEW g, calls' = {g[c] : c \in calls}, g = [c \in calls |-> g[c]],
             \A c \in calls : g[c] \in {c, [c EXCEPT !.from = "gone"]},
             UNCHANGED <<flags, pendingDelete, latest, missed, asked>>,
             list' \in RQ!Query(List!Tables), create' \in List!Modals(Keys)
      PROVE  ListTyped'
  <2>1. \A c \in calls : g[c] \in RQ!Request(ListArg)
    BY <1>0, <1>6 DEF Requests, RQ!Request
  <2>2. Requests(calls', ListArg) /\ Cardinality(calls') <= Cardinality(calls)
    BY <1>0, <1>6, <2>1, ImageTypes
  <2>3. Cardinality(calls') \in Nat
    BY <2>2, FS_CardinalityType DEF Requests
  <2>4. Cardinality(calls') <= asked'
    BY <1>0, <1>6, <2>2, <2>3 DEF ListTyped
  <2>5. QED
    BY <1>6, <2>2, <2>4 DEF ListTyped
<1>7. ASSUME List!CancelCreate PROVE ListTyped'
  <2> DEFINE g == [c \in calls |-> IF c.arg.op = "create" THEN [c EXCEPT !.from = "gone"] ELSE c]
  <2>1. /\ calls' = {g[c] : c \in calls} /\ g = [c \in calls |-> g[c]]
        /\ \A c \in calls : g[c] \in {c, [c EXCEPT !.from = "gone"]}
        /\ UNCHANGED <<flags, list, pendingDelete, latest, missed, asked>> /\ create' = List!Closed
    BY <1>7 DEF List!CancelCreate
  <2> HIDE DEF g
  <2>2. create' \in List!Modals(Keys) /\ list' \in RQ!Query(List!Tables)
    BY <1>0, <2>1, ListModals
  <2>3. QED
    BY <1>6, <2>1, <2>2
<1>8. ASSUME List!ListArrives PROVE ListTyped'
  <2> DEFINE g == [c \in calls |-> IF c.arg.op = "create" /\ ~List!Shown(list')
                                   THEN [c EXCEPT !.from = "gone"] ELSE c]
  <2>1. /\ calls' = {g[c] : c \in calls} /\ g = [c \in calls |-> g[c]]
        /\ \A c \in calls : g[c] \in {c, [c EXCEPT !.from = "gone"]}
        /\ UNCHANGED <<flags, pendingDelete, latest, missed, asked>>
        /\ create' \in {create, List!Remounted(create)} /\ list' = RQ!Arrive(list)
    BY <1>8, ListOps DEF List!ListArrives
  <2> HIDE DEF g
  <2>2. create' \in List!Modals(Keys)
    BY <1>0, <2>1, ListModals
  <2>3. list' \in RQ!Query(List!Tables)
    BY <1>0, <2>1, QueryTypes
  <2>4. QED
    BY <1>6, <2>1, <2>2, <2>3
<1>9. ASSUME NEW c \in calls, List!ToggleOrDeleteReply(c) \/ List!CreateReply(c) \/ List!ErrorReply(c)
      PROVE  ListTyped'
  <2>1. /\ calls' = calls \ {c} /\ latest' \in {0, latest} /\ UNCHANGED <<flags, asked>>
        /\ list' \in {list, RQ!Invalidate(list)} /\ pendingDelete' \in {NoData, pendingDelete}
    BY <1>9, ListOps DEF List!ToggleOrDeleteReply, List!CreateReply, List!ErrorReply, List!Settle
  <2>2. missed' \in BOOLEAN
    BY <1>9 DEF List!ToggleOrDeleteReply, List!CreateReply, List!ErrorReply, ListTyped
  <2>3. \/ create' \in {create, List!Created(create)}
        \/ \E e \in BOOLEAN : create' = List!Refused(create, e)
    BY <1>9 DEF List!ToggleOrDeleteReply, List!CreateReply, List!ErrorReply
  <2>4. create' \in List!Modals(Keys)
    BY <1>0, <2>3, ListModals
  <2>5. Requests(calls', ListArg)
    BY <1>0, <2>1, RequestTypes
  <2>6. Cardinality(calls') \in Nat /\ Cardinality(calls') <= Cardinality(calls)
    BY <1>0, <2>1, RequestCounts
  <2>7. list' \in RQ!Query(List!Tables)
    BY <1>0, <2>1, QueryTypes
  <2>8. QED
    BY <1>0, <2>1, <2>2, <2>4, <2>5, <2>6, <2>7 DEF ListTyped
<1>10. ASSUME List!ServeList \/ List!Focus PROVE ListTyped'
  <2>1. UNCHANGED <<flags, pendingDelete, create, calls, latest, missed, asked>>
    BY <1>10 DEF List!ServeList, List!Focus
  <2>2. list' = RQ!Fetch(list) \/ \E v \in {flags, NoData} : list' = RQ!Answer(list, v)
    BY <1>10, ListOps DEF List!ServeList, List!Focus
  <2>3. list' \in RQ!Query(List!Tables)
    BY <1>0, <2>2, QueryTypes
  <2>4. QED
    BY <2>1, <2>3 DEF ListTyped
<1>11. QED
  BY <1>3, <1>4, <1>5, <1>7, <1>8, <1>9, <1>10, ListServesTyped DEF List!ListNext

-----------------------------------------------------------------------------
(* The flags of a project. *)
ProjArg == [op : {"delete", "create"}, key : Numbers]
ProjSlices == [flags : SUBSET Numbers, total : 0 .. Cardinality(Numbers)]

ProjTyped ==
  /\ flags \subseteq Numbers /\ cache \in [Proj!Views -> RQ!Query(ProjSlices)]
  /\ view \in Proj!Views /\ prev \in Proj!Views /\ behind \subseteq Proj!Views
  /\ pendingDelete \in Numbers \cup {NoData} /\ create \in Proj!Modals(Numbers)
  /\ Requests(calls, ProjArg)
  /\ asked \in 0 .. MaxMutations /\ moves \in 0 .. MaxMoves

LEMMA ProjTypes == ProjTyped => Proj!TypeOK
<1>1. RQ!Request(ProjArg) = Proj!Request(ProjArg) /\ Proj!Query(ProjSlices) = RQ!Query(ProjSlices)
  BY DEF RQ!Query, Proj!Query, RQ!Request, Proj!Request
<1>2. ProjSlices = [flags : SUBSET Numbers, total : 0 .. Proj!Cardinality(Numbers)]
  BY ProjCardinality DEF ProjSlices
<1>3. QED
  BY <1>1, <1>2 DEF ProjTyped, Proj!TypeOK, ProjArg, Requests

LEMMA ProjFree == \A cs : Proj!Free(cs) = RQ!Free(cs)
<1>1. \A S : Proj!Cardinality(S) = RQ!Cardinality(S)
  BY Zenon DEF Proj!Cardinality, RQ!Cardinality
<1>2. QED
  BY <1>1 DEF Proj!Free, RQ!Free

\* What becomes of the create dialog is one.
LEMMA ProjModals ==
  ASSUME NEW m \in Proj!Modals(Numbers)
  PROVE  /\ Proj!Closed \in Proj!Modals(Numbers) /\ Proj!FreshForm \in Proj!Modals(Numbers)
         /\ Proj!Created(m) \in Proj!Modals(Numbers) /\ Proj!Remounted(m) \in Proj!Modals(Numbers)
         /\ \A k \in Numbers \cup {NoData} : Proj!Typed(m, k) \in Proj!Modals(Numbers)
BY DEF Proj!Modals, Proj!Closed, Proj!FreshForm, Proj!Created, Proj!Remounted, Proj!Typed

\* A slice has no more flags than there are.
LEMMA ProjSliceTypes ==
  ASSUME NEW v, flags \subseteq Numbers
  PROVE  Proj!Slice(v) \in ProjSlices
<1> DEFINE found == flags \cap v.term
<1>1. found \subseteq Numbers
  OBVIOUS
<1>2. /\ IsFiniteSet(found) /\ Cardinality(found) <= Cardinality(Numbers)
      /\ Cardinality(Numbers) \in Nat
  <2> HIDE DEF found
  <2>1. QED
    BY <1>1, ViewsAssumption, FS_Subset
<1>3. Cardinality(found) \in Nat
  BY <1>2, FS_CardinalityType
<1>4. PICK S \in SUBSET found : Proj!Slice(v) = [flags |-> S, total |-> Cardinality(found)]
  BY ProjCardinality DEF Proj!Slice
<1> HIDE DEF found
<1>5. Cardinality(found) \in 0 .. Cardinality(Numbers)
  BY <1>2, <1>3
<1>6. QED
  BY <1>1, <1>4, <1>5 DEF ProjSlices

LEMMA ProjTypedAtFirst == Proj!Init => ProjTyped
<1> SUFFICES ASSUME Proj!Init PROVE ProjTyped
  OBVIOUS
<1>1. RQ!NoQuery \in RQ!Query(ProjSlices) /\ RQ!Start(RQ!NoQuery) \in RQ!Query(ProjSlices)
  BY FirstQueryTypes
<1>2. cache \in [Proj!Views -> RQ!Query(ProjSlices)]
  BY <1>1, ProjOps DEF Proj!Init
<1>3. /\ calls = {} /\ asked = 0 /\ moves = 0 /\ pendingDelete = NoData /\ behind = {}
      /\ create = Proj!Closed /\ flags \subseteq Numbers /\ view = Proj!First /\ prev = Proj!First
  BY DEF Proj!Init
<1>4. Requests(calls, ProjArg)
  BY <1>3, FS_EmptySet DEF Requests
<1>5. 0 \in 0 .. MaxMutations /\ 0 \in 0 .. MaxMoves
  BY BoundsAssumption
<1>6. create \in Proj!Modals(Numbers)
  BY <1>3 DEF Proj!Modals, Proj!Closed
<1>7. Proj!First \in Proj!Views
  BY ViewsAssumption, ProjCardinality DEF Proj!First, Proj!Views, Proj!Pages
<1>8. QED
  BY <1>2, <1>3, <1>4, <1>5, <1>6, <1>7 DEF ProjTyped

LEMMA ProjTypedStep == ProjTyped /\ Proj!PflNext => ProjTyped'
<1> SUFFICES ASSUME ProjTyped, Proj!PflNext PROVE ProjTyped'
  OBVIOUS
<1>0. /\ Requests(calls, ProjArg) /\ IsFiniteSet(calls) /\ MaxMutations \in Nat /\ MaxMoves \in Nat
      /\ create \in Proj!Modals(Numbers) /\ view \in Proj!Views
  BY BoundsAssumption DEF ProjTyped, Requests
<1>1. cache \in [Proj!Views -> RQ!Query(ProjSlices)] /\ behind \subseteq Proj!Views
  BY DEF ProjTyped
<1>2. ASSUME NEW w \in Proj!Views
      PROVE  /\ RQ!Fetch(cache[w]) \in RQ!Query(ProjSlices)
             /\ RQ!Invalidate(cache[w]) \in RQ!Query(ProjSlices)
             /\ RQ!Arrive(cache[w]) \in RQ!Query(ProjSlices)
             /\ \A d \in ProjSlices \cup {NoData} : RQ!Answer(cache[w], d) \in RQ!Query(ProjSlices)
  <2> DEFINE q == cache[w]
  <2>1. q \in RQ!Query(ProjSlices)
    BY <1>1
  <2> HIDE DEF q
  <2>2. QED
    BY <2>1, QueryTypes DEF q
<1>3. Proj!Late \subseteq Proj!Views
  BY DEF Proj!Late
\* Another view is shown.
<1>4. ASSUME NEW asks, NEW v \in Proj!Views, Proj!Go(asks, v) PROVE ProjTyped'
  <2>1. /\ moves < MaxMoves /\ moves' = moves + 1 /\ view' = v
        /\ cache' = [w \in Proj!Views |-> IF w \in asks THEN RQ!Fetch(cache[w]) ELSE cache[w]]
        /\ behind' \subseteq behind /\ prev' \in {view, prev}
        /\ UNCHANGED <<flags, pendingDelete, create, calls, asked>>
    BY <1>4, ProjOps DEF Proj!Go
  <2>2. cache' \in [Proj!Views -> RQ!Query(ProjSlices)]
    BY <1>1, <1>2, <2>1
  <2>3. moves' \in 0 .. MaxMoves
    BY <1>0, <2>1 DEF ProjTyped
  <2>4. QED
    BY <2>1, <2>2, <2>3 DEF ProjTyped
<1>5. ASSUME \/ \E t \in Terms : Proj!Search(t)
             \/ \E p \in Proj!Pages : Proj!SetPage(p)
             \/ \E o \in Orders : Proj!SetSort(o)
      PROVE  ProjTyped'
  <2>1. 1 \in Proj!Pages
    BY ViewsAssumption, ProjCardinality DEF Proj!Pages
  <2>2. ASSUME NEW t \in Terms, Proj!Search(t) PROVE ProjTyped'
    <3> DEFINE v == [view EXCEPT !.term = t, !.page = 1]
    <3>1. v \in Proj!Views
      BY <1>0, <2>1 DEF Proj!Views
    <3>2. \E asks : Proj!Go(asks, v)
      BY <2>2 DEF Proj!Search
    <3> HIDE DEF v
    <3>3. QED
      BY <1>4, <3>1, <3>2
  <2>3. ASSUME NEW p \in Proj!Pages, Proj!SetPage(p) PROVE ProjTyped'
    <3> DEFINE v == [view EXCEPT !.page = p]
    <3>1. v \in Proj!Views
      BY <1>0 DEF Proj!Views
    <3>2. \E asks : Proj!Go(asks, v)
      BY <2>3 DEF Proj!SetPage
    <3> HIDE DEF v
    <3>3. QED
      BY <1>4, <3>1, <3>2
  <2>4. ASSUME NEW o \in Orders, Proj!SetSort(o) PROVE ProjTyped'
    <3> DEFINE v == [view EXCEPT !.order = o]
    <3>1. v \in Proj!Views
      BY <1>0 DEF Proj!Views
    <3>2. \E asks : Proj!Go(asks, v)
      BY <2>4 DEF Proj!SetSort
    <3> HIDE DEF v
    <3>3. QED
      BY <1>4, <3>1, <3>2
  <2>5. QED
    BY <1>5, <2>2, <2>3, <2>4
\* A request is sent.
<1>6. ASSUME NEW op \in {"delete", "create"}, NEW k \in Numbers, Proj!Send(op, k)
      PROVE  Requests(calls', ProjArg) /\ asked' \in 0 .. MaxMutations
  <2> DEFINE a == [op |-> op, key |-> k]
  <2>1. /\ asked < MaxMutations /\ asked' = asked + 1
        /\ calls' = calls \cup {RQ!Sent(RQ!Free(calls), a)}
    BY <1>6, ProjOps, ProjFree DEF Proj!Send
  <2>2. a \in ProjArg
    BY DEF ProjArg
  <2> HIDE DEF a
  <2>3. RQ!Free(calls) \in Nat
    BY <1>0, FreeIsNumber
  <2>4. asked' \in 0 .. MaxMutations
    BY <1>0, <2>1 DEF ProjTyped
  <2>5. QED
    BY <1>0, <2>1, <2>2, <2>3, <2>4, RequestTypes
<1>7. ASSUME Proj!ConfirmDelete \/ \E k \in Numbers : Proj!SubmitCreate(k) PROVE ProjTyped'
  <2>1. /\ UNCHANGED <<flags, cache, view, prev, pendingDelete, behind, moves>>
        /\ \/ pendingDelete # NoData /\ Proj!Send("delete", pendingDelete) /\ create' = create
           \/ \E k \in Numbers : Proj!Send("create", k) /\ create' = Proj!Typed(create, k)
    BY <1>7 DEF Proj!ConfirmDelete, Proj!SubmitCreate
  <2>2. pendingDelete # NoData => pendingDelete \in Numbers
    BY DEF ProjTyped
  <2>3. Requests(calls', ProjArg) /\ asked' \in 0 .. MaxMutations
    BY <1>6, <2>1, <2>2
  <2>4. create' \in Proj!Modals(Numbers)
    BY <1>0, <2>1, ProjModals
  <2>5. QED
    BY <2>1, <2>3, <2>4 DEF ProjTyped
<1>8. ASSUME Proj!Reask PROVE /\ cache' \in [Proj!Views -> RQ!Query(ProjSlices)]
                              /\ behind' \subseteq Proj!Views
  <2>1. /\ cache' = [cache EXCEPT ![view] = RQ!Invalidate(cache[view])]
        /\ behind' \subseteq behind \cup Proj!Late
    BY <1>8, ProjOps DEF Proj!Reask
  <2>2. RQ!Invalidate(cache[view]) \in RQ!Query(ProjSlices)
    BY <1>0, <1>2
  <2>3. QED
    BY <1>0, <1>1, <1>3, <2>1, <2>2
<1>9. ASSUME \/ Proj!CancelDelete \/ Proj!OpenCreate \/ Proj!ClearKey \/ Proj!onCreated
             \/ \E k \in Numbers : Proj!DeleteIntent(k)
      PROVE  ProjTyped'
  <2>1. /\ UNCHANGED <<flags, view, prev, calls, asked, moves>>
        /\ UNCHANGED <<cache, behind>> \/ Proj!Reask
        /\ pendingDelete' \in {pendingDelete, NoData} \cup Numbers
        /\ create' \in {create, Proj!FreshForm, Proj!Closed, Proj!Typed(create, NoData)}
    BY <1>9 DEF Proj!CancelDelete, Proj!OpenCreate, Proj!ClearKey, Proj!onCreated, Proj!DeleteIntent
  <2>2. create' \in Proj!Modals(Numbers)
    BY <1>0, <2>1, ProjModals
  <2>3. cache' \in [Proj!Views -> RQ!Query(ProjSlices)] /\ behind' \subseteq Proj!Views
    BY <1>1, <1>8, <2>1
  <2>4. QED
    BY <2>1, <2>2, <2>3 DEF ProjTyped
\* A request may be disowned.
<1>10. ASSUME NEW g, calls' = {g[c] : c \in calls}, g = [c \in calls |-> g[c]],
              \A c \in calls : g[c] \in {c, [c EXCEPT !.from = "gone"]}
       PROVE  Requests(calls', ProjArg)
  <2>1. \A c \in calls : g[c] \in RQ!Request(ProjArg)
    BY <1>0, <1>10 DEF Requests, RQ!Request
  <2>2. QED
    BY <1>0, <1>10, <2>1, ImageTypes
<1>11. ASSUME Proj!CancelCreate PROVE ProjTyped'
  <2> DEFINE g == [c \in calls |-> IF c.arg.op = "create" THEN [c EXCEPT !.from = "gone"] ELSE c]
  <2>1. /\ calls' = {g[c] : c \in calls} /\ g = [c \in calls |-> g[c]]
        /\ \A c \in calls : g[c] \in {c, [c EXCEPT !.from = "gone"]}
        /\ UNCHANGED <<flags, cache, view, prev, pendingDelete, behind, asked, moves>>
        /\ create' = Proj!Closed
    BY <1>11 DEF Proj!CancelCreate
  <2> HIDE DEF g
  <2>2. create' \in Proj!Modals(Numbers)
    BY <1>0, <2>1, ProjModals
  <2>3. Requests(calls', ProjArg)
    BY <1>10, <2>1
  <2>4. QED
    BY <2>1, <2>2, <2>3 DEF ProjTyped
<1>12. ASSUME NEW v \in Proj!Views, Proj!SliceArrives(v) PROVE ProjTyped'
  <2> DEFINE g == [c \in calls |-> IF c.arg.op = "create" /\ ~Proj!Body'
                                   THEN [c EXCEPT !.from = "gone"] ELSE c]
  <2>1. /\ calls' = {g[c] : c \in calls} /\ g = [c \in calls |-> g[c]]
        /\ \A c \in calls : g[c] \in {c, [c EXCEPT !.from = "gone"]}
        /\ UNCHANGED <<flags, view, prev, pendingDelete, behind, asked, moves>>
        /\ cache' = [cache EXCEPT ![v] = RQ!Arrive(cache[v])]
        /\ create' \in {create, Proj!Remounted(create)}
    BY <1>12, ProjOps DEF Proj!SliceArrives
  <2> HIDE DEF g
  <2>2. create' \in Proj!Modals(Numbers)
    BY <1>0, <2>1, ProjModals
  <2>3. Requests(calls', ProjArg)
    BY <1>10, <2>1
  <2>4. RQ!Arrive(cache[v]) \in RQ!Query(ProjSlices)
    BY <1>2
  <2>5. cache' \in [Proj!Views -> RQ!Query(ProjSlices)]
    BY <1>1, <2>1, <2>4
  <2>6. QED
    BY <2>1, <2>2, <2>3, <2>5 DEF ProjTyped
<1>13. ASSUME NEW c \in calls, Proj!ServeCall(c) PROVE ProjTyped'
  <2>1. c \in RQ!Request(ProjArg) /\ c.arg.key \in Numbers
    BY <1>0 DEF Requests, RQ!Request, ProjArg
  <2>2. PICK ok \in {(c.arg.op = "create") # (c.arg.key \in flags), FALSE} :
               /\ calls' = RQ!Served(calls, c, ok)
               /\ flags' \in {flags, flags \ {c.arg.key}, flags \cup {c.arg.key}}
    BY <1>13, ProjOps DEF Proj!ServeCall
  <2>3. UNCHANGED <<cache, view, prev, pendingDelete, create, behind, asked, moves>>
    BY <1>13 DEF Proj!ServeCall
  <2>4. Requests(calls', ProjArg)
    BY <1>0, <2>1, <2>2, RequestTypes
  <2>5. flags' \subseteq Numbers
    BY <2>1, <2>2 DEF ProjTyped
  <2>6. QED
    BY <2>3, <2>4, <2>5 DEF ProjTyped
<1>14. ASSUME NEW v \in Proj!Views, Proj!ServeSlice(v) PROVE ProjTyped'
  <2>1. /\ UNCHANGED <<flags, view, prev, pendingDelete, create, calls, behind, asked, moves>>
        /\ \E d \in {Proj!Slice(v), NoData} : cache' = [cache EXCEPT ![v] = RQ!Answer(cache[v], d)]
    BY <1>14, ProjOps DEF Proj!ServeSlice
  <2>2. Proj!Slice(v) \in ProjSlices
    BY ProjSliceTypes DEF ProjTyped
  <2>3. \A d \in {Proj!Slice(v), NoData} : RQ!Answer(cache[v], d) \in RQ!Query(ProjSlices)
    BY <1>2, <2>2
  <2>4. cache' \in [Proj!Views -> RQ!Query(ProjSlices)]
    BY <1>1, <2>1, <2>3
  <2>5. QED
    BY <2>1, <2>4 DEF ProjTyped
<1>15. ASSUME NEW c \in calls, Proj!DeleteReply(c) \/ Proj!CreateReply(c) \/ Proj!ErrorReply(c)
       PROVE  ProjTyped'
  <2>1. /\ calls' = calls \ {c} /\ UNCHANGED <<flags, view, prev, asked, moves>>
        /\ Proj!Reask \/ (cache' = cache /\ behind' \subseteq behind \cup Proj!Late \cup {view})
        /\ pendingDelete' \in {pendingDelete, NoData} /\ create' \in {create, Proj!Created(create)}
    BY <1>15 DEF Proj!DeleteReply, Proj!CreateReply, Proj!ErrorReply
  <2>2. Requests(calls', ProjArg)
    BY <1>0, <2>1, RequestTypes
  <2>3. create' \in Proj!Modals(Numbers)
    BY <1>0, <2>1, ProjModals
  <2>4. cache' \in [Proj!Views -> RQ!Query(ProjSlices)] /\ behind' \subseteq Proj!Views
    BY <1>0, <1>1, <1>3, <1>8, <2>1
  <2>5. QED
    BY <2>1, <2>2, <2>3, <2>4 DEF ProjTyped
<1>16. ASSUME Proj!Focus PROVE ProjTyped'
  <2>1. /\ cache' = [cache EXCEPT ![view] = RQ!Fetch(cache[view])] /\ behind' \subseteq behind
        /\ UNCHANGED <<flags, view, prev, pendingDelete, create, calls, asked, moves>>
    BY <1>16, ProjOps DEF Proj!Focus
  <2>2. RQ!Fetch(cache[view]) \in RQ!Query(ProjSlices)
    BY <1>0, <1>2
  <2>3. cache' \in [Proj!Views -> RQ!Query(ProjSlices)]
    BY <1>1, <2>1, <2>2
  <2>4. QED
    BY <2>1, <2>3 DEF ProjTyped
<1>17. QED
  BY <1>5, <1>7, <1>9, <1>11, <1>12, <1>13, <1>14, <1>15, <1>16 DEF Proj!PflNext

-----------------------------------------------------------------------------
(* The card. While it is mounted there is a flag on display and a draft of  *)
(* one, so a draft keeps its default among its variants.                    *)
CardArg == [op : {"save", "delete"}, flag : Card!Flags \cup {NoData}]

CardTyped ==
  /\ flag \in Card!Flags \cup {NoData} /\ query \in RQ!Query(Card!Flags)
  /\ at \in {"flag", "list", "away"}
  /\ card \in BOOLEAN /\ editing \in BOOLEAN /\ deleting \in BOOLEAN /\ apart \in BOOLEAN
  /\ draft \in Card!Flags \cup {NoData}
  /\ card => draft \in Card!Flags /\ query.data \in Card!Flags
  /\ Requests(calls, CardArg) /\ requests \in 0 .. MaxRequests

LEMMA CardTypes == CardTyped => Card!TypeOK
<1>1. RQ!Request(CardArg) = Card!Request(CardArg) /\ Card!Query(Card!Flags) = RQ!Query(Card!Flags)
  BY DEF RQ!Query, Card!Query, RQ!Request, Card!Request
<1>2. QED
  BY <1>1 DEF CardTyped, Card!TypeOK, CardArg, Requests

LEMMA CardFree == \A cs : Card!Free(cs) = RQ!Free(cs)
<1>1. \A S : Card!Cardinality(S) = RQ!Cardinality(S)
  BY Zenon DEF Card!Cardinality, RQ!Cardinality
<1>2. QED
  BY <1>1 DEF Card!Free, RQ!Free

LEMMA CardTypedAtFirst == Card!Init => CardTyped
<1> SUFFICES ASSUME Card!Init PROVE CardTyped
  OBVIOUS
<1>1. query \in RQ!Query(Card!Flags)
  BY CardOps, FirstQueryTypes DEF Card!Init
<1>2. calls = {} /\ requests = 0
  BY DEF Card!Init
<1>3. Requests(calls, CardArg)
  BY <1>2, FS_EmptySet DEF Requests
<1>4. 0 \in 0 .. MaxRequests
  BY BoundsAssumption
<1>5. QED
  BY <1>1, <1>2, <1>3, <1>4 DEF CardTyped, Card!Init

\* The card is mounted with the flag that is shown, or unmounted.
LEMMA CardMountsTyped ==
  ASSUME CardTyped, NEW q \in RQ!Query(Card!Flags), query' = q, NEW there \in BOOLEAN,
         Card!Mount(q, there), flag' = flag, at' \in {"flag", "list", "away"}, requests' = requests
  PROVE  CardTyped'
<1>0. Requests(calls, CardArg)
  BY DEF CardTyped
<1>1. card' \in BOOLEAN /\ (card' => q.data \in Card!Flags)
  BY DEF Card!Mount, Card!Shown, RQ!Query
<1>2. CASE card' = card
  <2>1. UNCHANGED <<editing, draft, deleting, calls, apart>>
    BY <1>2 DEF Card!Mount
  <2>2. QED
    BY <1>1, <1>2, <2>1 DEF CardTyped
<1>3. CASE card' # card
  <2>1. /\ editing' = FALSE /\ apart' = (apart \/ (card' /\ q.data # flag))
        /\ draft' = IF card' THEN q.data ELSE NoData
        /\ deleting' = (deleting /\ there)
    BY <1>3 DEF Card!Mount
  <2>2. \E g : /\ calls' = {g[c] : c \in calls} /\ g = [c \in calls |-> g[c]]
               /\ \A c \in calls : g[c] \in {c, [c EXCEPT !.from = "gone"]}
    <3>1. CASE ~there
      <4> DEFINE g == [c \in calls |-> [c EXCEPT !.from = "gone"]]
      <4>1. calls' = {g[c] : c \in calls} /\ \A c \in calls : g[c] \in {c, [c EXCEPT !.from = "gone"]}
        BY <1>3, <3>1 DEF Card!Mount, Card!Unmounted
      <4>2. g = [c \in calls |-> g[c]]
        OBVIOUS
      <4> HIDE DEF g
      <4>3. QED
        BY <4>1, <4>2
    <3>2. CASE there
      <4> DEFINE g == [c \in calls |-> IF c.arg.op = "save" THEN [c EXCEPT !.from = "gone"] ELSE c]
      <4>1. calls' = {g[c] : c \in calls} /\ \A c \in calls : g[c] \in {c, [c EXCEPT !.from = "gone"]}
        BY <1>3, <3>2 DEF Card!Mount
      <4>2. g = [c \in calls |-> g[c]]
        OBVIOUS
      <4> HIDE DEF g
      <4>3. QED
        BY <4>1, <4>2
    <3>3. QED
      BY <3>1, <3>2
  <2>3. PICK g : /\ calls' = {g[c] : c \in calls} /\ g = [c \in calls |-> g[c]]
                 /\ \A c \in calls : g[c] \in {c, [c EXCEPT !.from = "gone"]}
    BY <2>2
  <2>4. \A c \in calls : g[c] \in RQ!Request(CardArg)
    BY <1>0, <2>3 DEF Requests, RQ!Request
  <2>5. Requests(calls', CardArg)
    BY <1>0, <2>3, <2>4, ImageTypes
  <2>6. apart' \in BOOLEAN /\ deleting' \in BOOLEAN
    BY <1>1, <2>1 DEF CardTyped
  <2>7. draft' \in Card!Flags \cup {NoData} /\ (card' => draft' \in Card!Flags)
    BY <1>1, <2>1
  <2>8. QED
    BY <1>1, <2>1, <2>5, <2>6, <2>7 DEF CardTyped
<1>4. QED
  BY <1>2, <1>3

LEMMA CardTypedStep == CardTyped /\ Card!CardNext => CardTyped'
<1> SUFFICES ASSUME CardTyped, Card!CardNext PROVE CardTyped'
  OBVIOUS
<1>0. /\ Requests(calls, CardArg) /\ IsFiniteSet(calls) /\ MaxRequests \in Nat
      /\ query \in RQ!Query(Card!Flags)
  BY BoundsAssumption DEF CardTyped, Requests
<1>1. ASSUME Card!Edit \/ Card!cancelEdit \/ Card!DeleteIntent \/ Card!CancelDelete PROVE CardTyped'
  <2>1. /\ card /\ UNCHANGED <<flag, query, at, card, calls, requests>>
        /\ editing' \in BOOLEAN /\ deleting' \in BOOLEAN /\ apart' \in BOOLEAN
        /\ draft' \in {draft, query.data}
    BY <1>1 DEF Card!Edit, Card!cancelEdit, Card!DeleteIntent, Card!CancelDelete, Card!Bare, CardTyped
  <2>2. QED
    BY <2>1 DEF CardTyped
<1>2. ASSUME NEW k \in Keys, card, Card!RemoveVariant(k) \/ Card!AddVariant(k) \/ Card!SetDefault(k)
      PROVE  CardTyped'
  <2>1. draft \in Card!Flags
    BY <1>2 DEF CardTyped
  <2>2. \E d \in Card!Flags : Card!Change(d)
    <3>1. CASE Card!RemoveVariant(k)
      <4>1. [draft EXCEPT !.variants = @ \ {k}] \in Card!Flags
        BY <2>1, <3>1 DEF Card!Flags, Card!RemoveVariant
      <4>2. QED
        BY <3>1, <4>1 DEF Card!RemoveVariant
    <3>2. CASE Card!AddVariant(k)
      <4>1. [draft EXCEPT !.variants = @ \cup {k}] \in Card!Flags
        BY <2>1 DEF Card!Flags
      <4>2. QED
        BY <3>2, <4>1 DEF Card!AddVariant
    <3>3. CASE Card!SetDefault(k)
      <4>1. [draft EXCEPT !.default = k] \in Card!Flags
        BY <2>1, <3>3 DEF Card!Flags, Card!SetDefault
      <4>2. QED
        BY <3>3, <4>1 DEF Card!SetDefault
    <3>4. QED
      BY <1>2, <3>1, <3>2, <3>3
  <2>3. PICK d \in Card!Flags : Card!Change(d)
    BY <2>2
  <2>4. /\ draft' = d /\ apart' \in BOOLEAN
        /\ UNCHANGED <<flag, query, at, card, editing, deleting, calls, requests>>
    BY <2>3 DEF Card!Change, Card!isPending, CardTyped
  <2>5. QED
    BY <2>4 DEF CardTyped
<1>3. ASSUME Card!Save \/ Card!ConfirmDelete PROVE CardTyped'
  <2>1. PICK a \in CardArg : /\ requests < MaxRequests /\ requests' = requests + 1
                             /\ calls' = calls \cup {RQ!Sent(RQ!Free(calls), a)}
    <3>1. [op |-> "save", flag |-> draft] \in CardArg /\ [op |-> "delete", flag |-> NoData] \in CardArg
      BY DEF CardArg, CardTyped
    <3>2. QED
      BY <1>3, <3>1, CardOps, CardFree DEF Card!Save, Card!ConfirmDelete, Card!Send
  <2>2. UNCHANGED <<flag, query, at, card, editing, draft, deleting, apart>>
    BY <1>3 DEF Card!Save, Card!ConfirmDelete
  <2>3. RQ!Free(calls) \in Nat
    BY <1>0, FreeIsNumber
  <2>4. Requests(calls', CardArg)
    BY <1>0, <2>1, <2>3, RequestTypes
  <2>5. requests' \in 0 .. MaxRequests
    BY <1>0, <2>1 DEF CardTyped
  <2>6. QED
    BY <2>2, <2>4, <2>5 DEF CardTyped
<1>4. ASSUME NEW c \in calls, Card!ServeCall(c) PROVE CardTyped'
  <2>1. c \in RQ!Request(CardArg) /\ c.arg.flag \in Card!Flags \cup {NoData}
    BY <1>0 DEF Requests, RQ!Request, CardArg
  <2>2. PICK ok \in {flag # NoData, FALSE} :
               /\ calls' = RQ!Served(calls, c, ok) /\ flag' \in {flag, c.arg.flag}
               /\ apart' = (apart \/ (ok /\ c.from = "gone"))
    BY <1>4, CardOps DEF Card!ServeCall
  <2>3. UNCHANGED <<query, at, card, editing, draft, deleting, requests>>
    BY <1>4 DEF Card!ServeCall
  <2>4. Requests(calls', CardArg)
    BY <1>0, <2>1, <2>2, RequestTypes
  <2>5. apart' \in BOOLEAN
    BY <2>2 DEF CardTyped
  <2>6. QED
    BY <2>1, <2>2, <2>3, <2>4, <2>5 DEF CardTyped
<1>5. ASSUME NEW f \in Card!Flags, Card!OtherEdit(f) PROVE CardTyped'
  <2>1. /\ requests < MaxRequests /\ requests' = requests + 1 /\ flag' = f /\ apart' = TRUE
        /\ UNCHANGED <<query, at, card, editing, draft, deleting, calls>>
    BY <1>5 DEF Card!OtherEdit
  <2>2. requests' \in 0 .. MaxRequests
    BY <1>0, <2>1 DEF CardTyped
  <2>3. QED
    BY <2>1, <2>2 DEF CardTyped
<1>6. ASSUME Card!ServeFlag \/ Card!Focus \/ Card!HandleEvent PROVE CardTyped'
  <2>1. UNCHANGED <<flag, at, card, editing, draft, deleting, calls, apart, requests>>
    BY <1>6 DEF Card!ServeFlag, Card!Focus, Card!HandleEvent, Card!Refetch
  <2>2. \/ query' \in {RQ!Fetch(query), RQ!Invalidate(query)}
        \/ \E v \in {flag, NoData} : query' = RQ!Answer(query, v)
    BY <1>6, CardOps DEF Card!ServeFlag, Card!Focus, Card!HandleEvent, Card!Refetch
  <2>3. query' \in RQ!Query(Card!Flags)
    BY <1>0, <2>2, QueryTypes DEF CardTyped
  <2>4. query'.data = query.data
    BY <1>0, <2>2 DEF RQ!Query, RQ!Fetch, RQ!Invalidate, RQ!Start, RQ!Answer
  <2>5. QED
    BY <2>1, <2>3, <2>4 DEF CardTyped
<1>7. ASSUME NEW c \in calls, Card!SaveReply(c) \/ Card!ErrorReply(c) PROVE CardTyped'
  <2>1. /\ calls' = calls \ {c} /\ UNCHANGED <<flag, at, card, draft, deleting, requests>>
        /\ query' \in {query, RQ!Invalidate(query)}
    BY <1>7, CardOps DEF Card!SaveReply, Card!ErrorReply
  <2>2. editing' \in BOOLEAN /\ apart' \in BOOLEAN
    BY <1>7 DEF Card!SaveReply, Card!ErrorReply, CardTyped
  <2>3. query' \in RQ!Query(Card!Flags) /\ query'.data = query.data
    <3>1. query' \in RQ!Query(Card!Flags)
      BY <1>0, <2>1, QueryTypes
    <3>2. query'.data = query.data
      BY <1>0, <2>1 DEF RQ!Query, RQ!Invalidate, RQ!Start
    <3>3. QED
      BY <3>1, <3>2
  <2>4. Requests(calls', CardArg)
    BY <1>0, <2>1, RequestTypes
  <2>5. QED
    BY <2>1, <2>2, <2>3, <2>4 DEF CardTyped
<1>8. ASSUME NEW c \in calls, Card!DeleteReply(c) PROVE CardTyped'
  <2> DEFINE cs == calls \ {c}
             g == [d \in cs |-> [d EXCEPT !.from = "gone"]]
  <2>1. /\ at' = "list" /\ card' = FALSE /\ editing' = FALSE /\ draft' = NoData /\ deleting' = FALSE
        /\ apart' \in BOOLEAN /\ UNCHANGED <<flag, query, requests>>
        /\ calls' = {g[d] : d \in cs} /\ g = [d \in cs |-> g[d]]
    BY <1>8 DEF Card!DeleteReply, Card!Unmounted
  <2>2. Requests(cs, CardArg)
    BY <1>0, RequestTypes
  <2>3. \A d \in cs : g[d] \in RQ!Request(CardArg)
    BY <1>0 DEF Requests, RQ!Request
  <2> HIDE DEF g, cs
  <2>4. Requests(calls', CardArg)
    BY <2>1, <2>2, <2>3, ImageTypes
  <2>5. QED
    BY <2>1, <2>4 DEF CardTyped
<1>9. ASSUME Card!FlagArrives \/ Card!Leave \/ Card!Enter PROVE CardTyped'
  <2>1. /\ query' \in {query, RQ!Arrive(query), RQ!Fetch(query)}
        /\ flag' = flag /\ requests' = requests
    BY <1>9, CardOps DEF Card!FlagArrives, Card!Leave, Card!Enter
  <2>2. \E there \in BOOLEAN : Card!Mount(query', there) /\ at' \in {"flag", "list", "away"}
    <3>1. CASE Card!FlagArrives
      BY <3>1 DEF Card!FlagArrives, CardTyped
    <3>2. CASE Card!Leave
      BY <3>2 DEF Card!Leave, Card!Mount
    <3>3. CASE Card!Enter
      BY <3>3 DEF Card!Enter
    <3>4. QED
      BY <1>9, <3>1, <3>2, <3>3
  <2>3. PICK q : q = query'
    OBVIOUS
  <2>4. q \in RQ!Query(Card!Flags)
    BY <1>0, <2>1, <2>3, QueryTypes
  <2>5. QED
    BY <2>1, <2>2, <2>3, <2>4, CardMountsTyped
<1>10. QED
  BY <1>1, <1>2, <1>3, <1>4, <1>5, <1>6, <1>7, <1>8, <1>9 DEF Card!CardNext

-----------------------------------------------------------------------------
(* The toggles. There are no more events than changes: every change is      *)
(* published once, so the events on their way and the requests that are     *)
(* still to be published are together no more than the changes made.        *)
LiveArg == [op : {"toggle"}, env : Envs, to : BOOLEAN]

Unpublished(cs, t) == {c \in cs : c.st = "sent" /\ (t = NoData \/ t.by # c.n)}

LiveTyped ==
  /\ enabled \in [Envs -> BOOLEAN] /\ tx \in Live!Change \cup {NoData}
  /\ row \in [Envs -> RQ!Query(BOOLEAN)]
  /\ body \in {"away", "hidden", "shown"} /\ stream \in {"none", "connecting", "open", "dead"}
  /\ Requests(calls, LiveArg) /\ doubt \subseteq Envs
  /\ events \in Nat /\ toggles \in 0 .. MaxToggles
  /\ events + Cardinality(Unpublished(calls, tx)) <= toggles

LEMMA LiveTypes == LiveTyped => Live!TypeOK
<1> SUFFICES ASSUME LiveTyped PROVE Live!TypeOK
  OBVIOUS
<1>1. RQ!Request(LiveArg) = Live!Request(LiveArg) /\ Live!Query(BOOLEAN) = RQ!Query(BOOLEAN)
  BY DEF RQ!Query, Live!Query, RQ!Request, Live!Request
<1>2. Cardinality(Unpublished(calls, tx)) \in Nat
  <2> DEFINE U == Unpublished(calls, tx)
  <2>1. U \subseteq calls /\ IsFiniteSet(calls)
    BY DEF Unpublished, LiveTyped, Requests
  <2> HIDE DEF U
  <2>2. QED
    BY <2>1, FS_Subset, FS_CardinalityType DEF U
<1>3. events \in 0 .. MaxToggles
  BY <1>2, BoundsAssumption DEF LiveTyped
<1>4. QED
  BY <1>1, <1>3 DEF LiveTyped, Live!TypeOK, LiveArg, Requests

\* Counting the requests that are still to be published.
LEMMA UnpublishedCounts ==
  ASSUME NEW cs, IsFiniteSet(cs), NEW t
  PROVE  /\ Cardinality(Unpublished(cs, t)) \in Nat
         /\ \A ds, u : Unpublished(ds, u) \subseteq Unpublished(cs, t)
               => /\ Cardinality(Unpublished(ds, u)) \in Nat
                  /\ Cardinality(Unpublished(ds, u)) <= Cardinality(Unpublished(cs, t))
         /\ \A x : /\ Cardinality(Unpublished(cs \cup {x}, t)) \in Nat
                   /\ Cardinality(Unpublished(cs \cup {x}, t)) <= Cardinality(Unpublished(cs, t)) + 1
         /\ \A u : \A c \in Unpublished(cs, t) :
              Unpublished(cs, u) \subseteq Unpublished(cs, t) \ {c}
               => /\ Cardinality(Unpublished(cs, u)) \in Nat
                  /\ Cardinality(Unpublished(cs, u)) + 1 <= Cardinality(Unpublished(cs, t))
<1> DEFINE U == Unpublished(cs, t)
<1>1. U \subseteq cs
  BY DEF Unpublished
<1>2. IsFiniteSet(U) /\ Cardinality(U) \in Nat
  <2> HIDE DEF U
  <2>1. QED
    BY <1>1, FS_Subset, FS_CardinalityType
<1>3. ASSUME NEW V, V \subseteq U PROVE Cardinality(V) \in Nat /\ Cardinality(V) <= Cardinality(U)
  <2> HIDE DEF U
  <2>1. IsFiniteSet(V) /\ Cardinality(V) <= Cardinality(U)
    BY <1>2, <1>3, FS_Subset
  <2>2. QED
    BY <2>1, FS_CardinalityType
<1>4. ASSUME NEW x
      PROVE  /\ Cardinality(Unpublished(cs \cup {x}, t)) \in Nat
             /\ Cardinality(Unpublished(cs \cup {x}, t)) <= Cardinality(U) + 1
  <2> DEFINE V == Unpublished(cs \cup {x}, t)
  <2>1. V \subseteq U \cup {x}
    BY DEF Unpublished
  <2> HIDE DEF U, V
  <2>2. IsFiniteSet(U \cup {x}) /\ Cardinality(U \cup {x}) \in {Cardinality(U), Cardinality(U) + 1}
    BY <1>2, FS_AddElement
  <2> DEFINE W == U \cup {x}
  <2>3. V \subseteq W /\ IsFiniteSet(W) /\ Cardinality(W) <= Cardinality(U) + 1 /\ Cardinality(W) \in Nat
    BY <1>2, <2>1, <2>2
  <2> HIDE DEF W
  <2>4. IsFiniteSet(V) /\ Cardinality(V) <= Cardinality(W)
    BY <2>3, FS_Subset
  <2>5. Cardinality(V) \in Nat
    BY <2>4, FS_CardinalityType
  <2>6. QED
    BY <1>2, <2>3, <2>4, <2>5 DEF V
<1>5. ASSUME NEW V, NEW c \in U, V \subseteq U \ {c}
      PROVE  Cardinality(V) \in Nat /\ Cardinality(V) + 1 <= Cardinality(U)
  <2> DEFINE W == U \ {c}
  <2>1. IsFiniteSet(W) /\ Cardinality(W) = Cardinality(U) - 1
    <3> HIDE DEF U
    <3>1. QED
      BY <1>2, <1>5, FS_RemoveElement
  <2>2. V \subseteq W
    BY <1>5
  <2> HIDE DEF U, W
  <2>3. IsFiniteSet(V) /\ Cardinality(V) <= Cardinality(W)
    BY <2>1, <2>2, FS_Subset
  <2>4. Cardinality(V) \in Nat
    BY <2>3, FS_CardinalityType
  <2>5. QED
    BY <1>2, <2>1, <2>3, <2>4
<1> HIDE DEF U
<1>6. QED
  BY <1>2, <1>3, <1>4, <1>5 DEF U

LEMMA LiveTypedAtFirst == Live!Init => LiveTyped
<1> SUFFICES ASSUME Live!Init PROVE LiveTyped
  OBVIOUS
<1>1. RQ!NoQuery \in RQ!Query(BOOLEAN)
  BY FirstQueryTypes
<1>2. row \in [Envs -> RQ!Query(BOOLEAN)]
  BY <1>1, LiveOps DEF Live!Init
<1>3. calls = {} /\ events = 0 /\ toggles = 0
  BY DEF Live!Init
<1>4. Requests(calls, LiveArg)
  BY <1>3, FS_EmptySet DEF Requests
<1>5. Cardinality(Unpublished(calls, tx)) = 0
  <2>1. Unpublished(calls, tx) = {}
    BY <1>3 DEF Unpublished
  <2>2. QED
    BY <2>1, FS_EmptySet
<1>6. 0 \in 0 .. MaxToggles
  BY BoundsAssumption
<1>7. QED
  BY <1>2, <1>3, <1>4, <1>5, <1>6 DEF LiveTyped, Live!Init

\* A change is published, by a request or by somebody else.
LEMMA LivePublishTyped ==
  ASSUME NEW ch \in Live!Change, Live!Publish(ch), PageEnv \in Envs, doubt \subseteq Envs,
         events \in Nat
  PROVE  /\ tx = NoData /\ tx' = ch /\ events' \in Nat /\ events' <= events + 1
         /\ doubt' \subseteq Envs /\ UNCHANGED <<enabled, row, body, stream>>
BY DEF Live!Publish, Live!Change

\* The requests are disowned, and no more of them are to be published.
LEMMA LiveDisownTyped ==
  ASSUME LiveTyped, calls' = Live!Unmounted(calls)
  PROVE  /\ Requests(calls', LiveArg)
         /\ Cardinality(Unpublished(calls', tx)) \in Nat
         /\ Cardinality(Unpublished(calls', tx)) <= Cardinality(Unpublished(calls, tx))
<1> DEFINE g == [c \in calls |-> [c EXCEPT !.from = "gone"]]
           U == Unpublished(calls, tx)
           V == Unpublished(calls', tx)
           h == [c \in U |-> g[c]]
<1>0. Requests(calls, LiveArg) /\ IsFiniteSet(calls)
  BY DEF LiveTyped, Requests
<1>1. calls' = {g[c] : c \in calls} /\ g = [c \in calls |-> g[c]]
  BY DEF Live!Unmounted
<1>2. \A c \in calls : g[c] \in RQ!Request(LiveArg) /\ g[c].st = c.st /\ g[c].n = c.n
  BY <1>0 DEF Requests, RQ!Request
<1> HIDE DEF g
<1>3. Requests(calls', LiveArg)
  BY <1>0, <1>1, <1>2, ImageTypes
<1>4. U \subseteq calls /\ \A c \in U : g[c] \in V
  BY <1>1, <1>2 DEF Unpublished
<1>5. \A d \in V : \E c \in U : g[c] = d
  <2> SUFFICES ASSUME NEW d \in V PROVE \E c \in U : g[c] = d
    OBVIOUS
  <2>1. PICK c \in calls : g[c] = d
    BY <1>1 DEF Unpublished
  <2>2. c \in U
    BY <1>2, <2>1 DEF Unpublished
  <2>3. QED
    BY <2>1, <2>2
<1>6. h \in [U -> V] /\ \A d \in V : \E c \in U : h[c] = d
  <2> HIDE DEF U, V
  <2>1. QED
    BY <1>4, <1>5
<1> HIDE DEF U, V, h
<1>7. IsFiniteSet(U)
  BY <1>0, <1>4, FS_Subset
<1>8. IsFiniteSet(V) /\ Cardinality(V) <= Cardinality(U)
  BY <1>6, <1>7, FS_Surjection DEF Surjection
<1>9. Cardinality(V) \in Nat
  BY <1>8, FS_CardinalityType
<1>10. QED
  BY <1>3, <1>8, <1>9 DEF U, V

LEMMA LiveTypedStep == LiveTyped /\ Live!LiveNext => LiveTyped'
<1> SUFFICES ASSUME LiveTyped, Live!LiveNext PROVE LiveTyped'
  OBVIOUS
<1>0. /\ Requests(calls, LiveArg) /\ IsFiniteSet(calls) /\ MaxToggles \in Nat
      /\ Cardinality(Unpublished(calls, tx)) \in Nat /\ toggles \in Nat
  BY BoundsAssumption, UnpublishedCounts DEF LiveTyped, Requests
<1>1. ASSUME NEW e \in Envs
      PROVE  /\ RQ!Fetch(row[e]) \in RQ!Query(BOOLEAN) /\ RQ!Invalidate(row[e]) \in RQ!Query(BOOLEAN)
             /\ RQ!Arrive(row[e]) \in RQ!Query(BOOLEAN)
             /\ \A v \in BOOLEAN \cup {NoData} : RQ!Answer(row[e], v) \in RQ!Query(BOOLEAN)
  <2> DEFINE q == row[e]
  <2>1. q \in RQ!Query(BOOLEAN)
    BY DEF LiveTyped
  <2> HIDE DEF q
  <2>2. QED
    BY <2>1, QueryTypes DEF q
<1>2. ASSUME NEW e \in Envs, Live!Toggle(e) PROVE LiveTyped'
  <2> DEFINE a == [op |-> "toggle", env |-> e, to |-> ~row[e].data]
             x == RQ!Sent(RQ!Free(calls), a)
  <2>1. /\ Live!RowShown(e) /\ toggles < MaxToggles /\ toggles' = toggles + 1
        /\ calls' = calls \cup {x} /\ UNCHANGED <<enabled, tx, row, body, stream, events, doubt>>
    BY <1>2, LiveOps, LiveFree DEF Live!Toggle
  <2>2. row[e].data \in BOOLEAN
    BY <2>1 DEF Live!RowShown, Live!Shown, LiveTyped, RQ!Query
  <2>3. a \in LiveArg
    BY <2>2 DEF LiveArg
  <2>4. RQ!Free(calls) \in Nat
    BY <1>0, FreeIsNumber
  <2> HIDE DEF a
  <2>5. Requests(calls', LiveArg)
    BY <1>0, <2>1, <2>3, <2>4, RequestTypes
  <2> HIDE DEF x
  <2>6. /\ Cardinality(Unpublished(calls', tx')) \in Nat
        /\ Cardinality(Unpublished(calls', tx')) <= Cardinality(Unpublished(calls, tx)) + 1
    BY <1>0, <2>1, UnpublishedCounts
  <2>7. toggles' \in 0 .. MaxToggles /\ events' + Cardinality(Unpublished(calls', tx')) <= toggles'
    BY <1>0, <2>1, <2>6 DEF LiveTyped
  <2>8. QED
    BY <2>1, <2>5, <2>7 DEF LiveTyped
\* The rows are asked for again, answered, or on their way.
<1>3. ASSUME UNCHANGED <<enabled, tx, calls, toggles>>, row' \in [Envs -> RQ!Query(BOOLEAN)],
             body' \in {"away", "hidden", "shown"}, stream' \in {"none", "connecting", "open", "dead"},
             doubt' \subseteq Envs, events' \in Nat, events' <= events
      PROVE  LiveTyped'
  <2>1. events' + Cardinality(Unpublished(calls', tx')) <= toggles'
    BY <1>0, <1>3 DEF LiveTyped
  <2>2. QED
    BY <1>3, <2>1 DEF LiveTyped
<1>4. ASSUME Live!ShowBody \/ Live!Focus \/ Live!HandleEvent PROVE LiveTyped'
  <2>1. /\ UNCHANGED <<enabled, tx, stream, calls, toggles>> /\ body' \in {body, "shown"}
        /\ doubt' \subseteq doubt \cup {PageEnv} /\ events' \in {events, events - 1}
        /\ events' # events => events > 0
    BY <1>4 DEF Live!ShowBody, Live!Focus, Live!HandleEvent
  <2>2. row' \in [Envs -> RQ!Query(BOOLEAN)]
    <3>1. \/ row' = [e \in Envs |-> RQ!Fetch(row[e])]
          \/ row' = [e \in Envs |-> IF body = "shown" THEN RQ!Invalidate(row[e]) ELSE row[e]]
      BY <1>4, LiveOps DEF Live!ShowBody, Live!Focus, Live!HandleEvent
    <3>2. QED
      BY <1>1, <3>1 DEF LiveTyped
  <2>3. events' \in Nat /\ events' <= events
    BY <2>1 DEF LiveTyped
  <2>4. QED
    BY <1>3, <2>1, <2>2, <2>3, PageEnvAssumption DEF LiveTyped
<1>5. ASSUME NEW e \in Envs, Live!ServeRow(e) \/ Live!RowArrives(e) PROVE LiveTyped'
  <2>1. /\ UNCHANGED <<enabled, tx, body, stream, events, calls, toggles>> /\ doubt' \subseteq doubt
        /\ \/ row' = [row EXCEPT ![e] = RQ!Arrive(row[e])]
           \/ \E v \in {enabled[e], NoData} : row' = [row EXCEPT ![e] = RQ!Answer(row[e], v)]
    BY <1>5, LiveOps DEF Live!ServeRow, Live!RowArrives
  <2>2. enabled[e] \in BOOLEAN
    BY DEF LiveTyped
  <2>3. row' \in [Envs -> RQ!Query(BOOLEAN)]
    <3>1. PICK q \in RQ!Query(BOOLEAN) : row' = [row EXCEPT ![e] = q]
      BY <1>1, <2>1, <2>2
    <3>2. QED
      BY <3>1 DEF LiveTyped
  <2>4. QED
    BY <1>3, <2>1, <2>3 DEF LiveTyped
<1>6. ASSUME Live!StreamEnds \/ Live!Enter \/ \E ok \in BOOLEAN : Live!Connect(ok) PROVE LiveTyped'
  <2>1. /\ UNCHANGED <<enabled, tx, row, calls, toggles>> /\ body' \in {body, "hidden"}
        /\ stream' \in {"connecting", "open", "dead"} /\ events' \in {events, 0}
        /\ doubt' \subseteq doubt \cup {PageEnv}
    BY <1>6 DEF Live!StreamEnds, Live!Enter, Live!Connect
  <2>2. events' \in Nat /\ events' <= events
    BY <2>1 DEF LiveTyped
  <2>3. QED
    BY <1>3, <2>1, <2>2, PageEnvAssumption DEF LiveTyped
<1>7. ASSUME Live!HideBody \/ Live!Leave PROVE LiveTyped'
  <2>1. /\ calls' = Live!Unmounted(calls) /\ UNCHANGED <<enabled, tx, row, toggles>>
        /\ body' \in {"away", "hidden"} /\ stream' \in {stream, "none"} /\ events' \in {events, 0}
        /\ doubt' \subseteq doubt \cup {PageEnv}
    BY <1>7 DEF Live!HideBody, Live!Leave
  <2>2. /\ Requests(calls', LiveArg)
        /\ Cardinality(Unpublished(calls', tx)) \in Nat
        /\ Cardinality(Unpublished(calls', tx)) <= Cardinality(Unpublished(calls, tx))
    BY <2>1, LiveDisownTyped
  <2>3. events' \in Nat /\ events' <= events
    BY <2>1 DEF LiveTyped
  <2>4. events' + Cardinality(Unpublished(calls', tx')) <= toggles'
    BY <1>0, <2>1, <2>2, <2>3 DEF LiveTyped
  <2>5. QED
    BY <2>1, <2>2, <2>3, <2>4, PageEnvAssumption DEF LiveTyped
\* A request is published: it was still to be, and no longer is.
<1>8. ASSUME NEW c \in calls, Live!ServeToggle(c) PROVE LiveTyped'
  <2> DEFINE ch == [env |-> c.arg.env, to |-> c.arg.to, by |-> c.n]
  <2>1. ch \in Live!Change
    BY <1>0 DEF Requests, RQ!Request, LiveArg, Live!Change
  <2>2. c.st = "sent" /\ Live!Publish(ch) /\ UNCHANGED <<calls, toggles>>
    BY <1>8 DEF Live!ServeToggle
  <2>3. ch # NoData /\ ch.by = c.n
    BY <2>1, NoDataAssumption
  <2> HIDE DEF ch
  <2>4. /\ tx = NoData /\ tx' = ch /\ events' \in Nat /\ events' <= events + 1
        /\ doubt' \subseteq Envs /\ UNCHANGED <<enabled, row, body, stream>>
    BY <2>1, <2>2, LivePublishTyped, PageEnvAssumption DEF LiveTyped
  <2>5. c \in Unpublished(calls, tx) /\ Unpublished(calls, ch) \subseteq Unpublished(calls, tx) \ {c}
    BY <2>2, <2>3, <2>4 DEF Unpublished
  <2>6. /\ Cardinality(Unpublished(calls, ch)) \in Nat
        /\ Cardinality(Unpublished(calls, ch)) + 1 <= Cardinality(Unpublished(calls, tx))
    BY <1>0, <2>5, UnpublishedCounts
  <2>7. events' + Cardinality(Unpublished(calls', tx')) <= toggles'
    BY <1>0, <2>2, <2>4, <2>6 DEF LiveTyped
  <2>8. QED
    BY <2>1, <2>2, <2>4, <2>7 DEF LiveTyped
<1>9. ASSUME NEW e \in Envs, Live!OtherToggle(e) PROVE LiveTyped'
  <2> DEFINE ch == [env |-> e, to |-> ~enabled[e], by |-> 0]
  <2>1. ch \in Live!Change
    BY DEF Live!Change, LiveTyped
  <2>2. /\ toggles < MaxToggles /\ toggles' = toggles + 1 /\ Live!Publish(ch) /\ calls' = calls
    BY <1>9 DEF Live!OtherToggle
  <2> HIDE DEF ch
  <2>3. /\ tx = NoData /\ tx' = ch /\ events' \in Nat /\ events' <= events + 1
        /\ doubt' \subseteq Envs /\ UNCHANGED <<enabled, row, body, stream>>
    BY <2>1, <2>2, LivePublishTyped, PageEnvAssumption DEF LiveTyped
  <2>4. Unpublished(calls, ch) \subseteq Unpublished(calls, tx)
    BY <2>3 DEF Unpublished
  <2>5. /\ Cardinality(Unpublished(calls, ch)) \in Nat
        /\ Cardinality(Unpublished(calls, ch)) <= Cardinality(Unpublished(calls, tx))
    BY <1>0, <2>4, UnpublishedCounts
  <2>6. toggles' \in 0 .. MaxToggles /\ events' + Cardinality(Unpublished(calls', tx')) <= toggles'
    BY <1>0, <2>2, <2>3, <2>5 DEF LiveTyped
  <2>7. QED
    BY <2>1, <2>2, <2>3, <2>6 DEF LiveTyped
\* The transaction ends, and the request that made it is no longer to be sent.
<1>10. ASSUME NEW ok \in BOOLEAN, Live!EndTx(ok) PROVE LiveTyped'
  <2> DEFINE g == [c \in calls |-> IF c.n = tx.by
                                   THEN [c EXCEPT !.st = IF ok THEN "applied" ELSE "refused"] ELSE c]
  <2>1. /\ tx # NoData /\ tx' = NoData /\ UNCHANGED <<row, body, stream, events, doubt, toggles>>
        /\ enabled' \in {enabled, [enabled EXCEPT ![tx.env] = tx.to]}
        /\ calls' = {g[c] : c \in calls} /\ g = [c \in calls |-> g[c]]
    BY <1>10 DEF Live!EndTx
  <2>2. \A c \in calls : g[c] \in RQ!Request(LiveArg) /\ (g[c].st = "sent" => g[c] = c /\ c.n # tx.by)
    BY <1>0 DEF Requests, RQ!Request
  <2> HIDE DEF g
  <2>3. Requests(calls', LiveArg)
    BY <1>0, <2>1, <2>2, ImageTypes
  <2>4. tx \in Live!Change
    BY <2>1 DEF LiveTyped
  <2>5. enabled' \in [Envs -> BOOLEAN]
    BY <2>1, <2>4 DEF LiveTyped, Live!Change
  <2>6. Unpublished(calls', tx') \subseteq Unpublished(calls, tx)
    BY <2>1, <2>2 DEF Unpublished
  <2>7. /\ Cardinality(Unpublished(calls', tx')) \in Nat
        /\ Cardinality(Unpublished(calls', tx')) <= Cardinality(Unpublished(calls, tx))
    BY <1>0, <2>6, UnpublishedCounts
  <2>8. events' + Cardinality(Unpublished(calls', tx')) <= toggles'
    BY <1>0, <2>1, <2>7 DEF LiveTyped
  <2>9. QED
    BY <2>1, <2>3, <2>5, <2>8 DEF LiveTyped
<1>11. ASSUME NEW c \in calls, Live!ToggleReply(c) \/ Live!ErrorReply(c) PROVE LiveTyped'
  <2>1. c.arg.env \in Envs
    BY <1>0 DEF Requests, RQ!Request, LiveArg
  <2>2. /\ calls' = calls \ {c} /\ UNCHANGED <<enabled, tx, body, stream, events, toggles>>
        /\ row' \in {row, [row EXCEPT ![c.arg.env] = RQ!Invalidate(row[c.arg.env])]}
        /\ doubt' \subseteq doubt \cup {c.arg.env}
    BY <1>11, LiveOps DEF Live!ToggleReply, Live!ErrorReply
  <2>3. RQ!Invalidate(row[c.arg.env]) \in RQ!Query(BOOLEAN)
    BY <1>1, <2>1
  <2>4. row' \in [Envs -> RQ!Query(BOOLEAN)]
    BY <2>2, <2>3 DEF LiveTyped
  <2>5. Requests(calls', LiveArg)
    BY <1>0, <2>2, RequestTypes
  <2>6. Unpublished(calls', tx') \subseteq Unpublished(calls, tx)
    BY <2>2 DEF Unpublished
  <2>7. /\ Cardinality(Unpublished(calls', tx')) \in Nat
        /\ Cardinality(Unpublished(calls', tx')) <= Cardinality(Unpublished(calls, tx))
    BY <1>0, <2>6, UnpublishedCounts
  <2>8. events' + Cardinality(Unpublished(calls', tx')) <= toggles'
    BY <1>0, <2>2, <2>7 DEF LiveTyped
  <2>9. QED
    BY <2>1, <2>2, <2>4, <2>5, <2>8 DEF LiveTyped
<1>12. QED
  BY <1>2, <1>4, <1>5, <1>6, <1>7, <1>8, <1>9, <1>10, <1>11 DEF Live!LiveNext

-----------------------------------------------------------------------------
\* The server's flags, the cache entries, the dialogs and the requests in flight
\* of the part on display are of their types: what is sent to be stored has a
\* key or a name, a draft keeps its default among its variants, and no more
\* events are on their way than changes were made, for any number of requests
\* (flags.$key.tsx 77-191, flags.tsx 101-299, settings.environments.tsx 62-207,
\* useFlagSSE.ts 79-88).
THEOREM PartsAreWellTyped == Spec => []TypeOK
<1> DEFINE Inv == /\ part = "toggles" => LiveTyped
                  /\ part = "card" => CardTyped
                  /\ part = "list" => ListTyped
                  /\ part = "project" => ProjTyped
                  /\ part = "environments" => EnvTyped
           all == <<part, calls, liveOnly, cardOnly, bothLists, listOnly, projOnly, envOnly, listOrEnv>>
<1>1. Init => Inv
  BY LiveTypedAtFirst, CardTypedAtFirst, ListTypedAtFirst, ProjTypedAtFirst, EnvTypedAtFirst DEF Init
<1>2. Inv /\ [Next]_all => Inv'
  <2> SUFFICES ASSUME Inv, [Next]_all PROVE Inv'
    OBVIOUS
  <2>1. CASE Next
    BY <2>1, LiveTypedStep, CardTypedStep, ListTypedStep, ProjTypedStep, EnvTypedStep DEF Next
  <2>2. CASE UNCHANGED all
    <3>1. part' = part
      BY <2>2
    <3>2. LiveTyped => LiveTyped'
      BY <2>2 DEF liveOnly, LiveTyped
    <3>3. CardTyped => CardTyped'
      BY <2>2 DEF cardOnly, CardTyped
    <3>4. ListTyped => ListTyped'
      BY <2>2 DEF listOnly, bothLists, listOrEnv, ListTyped
    <3>5. ProjTyped => ProjTyped'
      BY <2>2 DEF projOnly, bothLists, listOrEnv, ProjTyped
    <3>6. EnvTyped => EnvTyped'
      BY <2>2 DEF envOnly, listOrEnv, EnvTyped
    <3>7. QED
      BY <3>1, <3>2, <3>3, <3>4, <3>5, <3>6
  <2>3. QED
    BY <2>1, <2>2
<1>3. Inv => TypeOK
  BY LiveTypes, CardTypes, ListTypes, ProjTypes, EnvTypes DEF TypeOK
<1>4. QED
  BY <1>1, <1>2, <1>3, PTL DEF Spec
=============================================================================
