--------------------------- MODULE WebRulesProofs ---------------------------
(***************************************************************************)
(* Proofs about WebRules for any rules, priorities and number of requests,  *)
(* and about WebRuleEditor for any variants, weights and conditions.        *)
(***************************************************************************)
EXTENDS MCWebRules, FiniteSetTheorems, SequenceTheorems, WellFoundedInduction, TLAPS

-----------------------------------------------------------------------------
(* Requests in flight and the cache entry, whatever they are about. *)

CallShape(c) == DOMAIN c = {"n", "arg", "st", "from"}

\* The image of a finite set is no larger.
LEMMA FiniteImage ==
  ASSUME NEW S, IsFiniteSet(S), NEW T, NEW f \in [S -> T], \A t \in T : \E x \in S : f[x] = t
  PROVE  IsFiniteSet(T) /\ Cardinality(T) <= Cardinality(S)
BY FS_Surjection DEF Surjection

\* The number of a request that is sent is not the number of one in flight: of
\* one more numbers than there are requests, one is free.
LEMMA FreeIsFresh ==
  ASSUME NEW cs, IsFiniteSet(cs)
  PROVE  Free(cs) \in Nat /\ \A c \in cs : c.n # Free(cs)
<1> DEFINE N == 1 .. Cardinality(cs) + 1
           Used == {c.n : c \in cs}
           F == N \ Used
<1>1. Cardinality(cs) \in Nat
  BY FS_CardinalityType
<1>2. IsFiniteSet(Used) /\ Cardinality(Used) <= Cardinality(cs) /\ Cardinality(Used) \in Nat
  <2>1. [c \in cs |-> c.n] \in [cs -> Used]
    OBVIOUS
  <2>2. \A t \in Used : \E c \in cs : [x \in cs |-> x.n][c] = t
    OBVIOUS
  <2> HIDE DEF Used
  <2>3. IsFiniteSet(Used) /\ Cardinality(Used) <= Cardinality(cs)
    BY <2>1, <2>2, FiniteImage
  <2>4. QED
    BY <2>3, FS_CardinalityType
<1>3. IsFiniteSet(N) /\ Cardinality(N) = Cardinality(cs) + 1
  BY <1>1, FS_Interval
<1>4. F # {}
  <2> SUFFICES ASSUME F = {} PROVE FALSE
    OBVIOUS
  <2>1. N \subseteq Used
    OBVIOUS
  <2>2. Cardinality(N) <= Cardinality(Used)
    BY <1>2, <2>1, FS_Subset
  <2>3. QED
    BY <1>1, <1>2, <1>3, <2>2
<1>5. PICK n \in N : \A c \in cs : c.n # n
  BY <1>4
<1>6. N \subseteq Nat
  BY <1>1
<1>7. Free(cs) = CHOOSE m \in N : \A c \in cs : c.n # m
  BY DEF Free
<1> HIDE DEF F, Used, N
<1>8. QED
  BY <1>5, <1>6, <1>7

QueryShape(q) ==
  /\ DOMAIN q = {"data", "err", "net", "snap"}
  /\ q.err \in BOOLEAN /\ q.net \in {"idle", "sent", "answered"}

LEMMA Started ==
  ASSUME NEW q, QueryShape(q)
  PROVE  /\ QueryShape(Start(q)) /\ Start(q).net = "sent" /\ Start(q).data = q.data
         /\ q.data # NoData => Invalidate(q) = Start(q)
         /\ QueryShape(Invalidate(q)) /\ Invalidate(q).data = q.data
BY DEF QueryShape, Start, Invalidate, FirstLoad

LEMMA ServedQuery ==
  ASSUME NEW q, QueryShape(q), NEW v
  PROVE  /\ QueryShape(Answer(q, v)) /\ Answer(q, v).net = "answered"
         /\ Answer(q, v).snap = v /\ Answer(q, v).data = q.data
BY DEF QueryShape, Answer

LEMMA Arrived ==
  ASSUME NEW q, QueryShape(q)
  PROVE  /\ QueryShape(Arrive(q)) /\ Arrive(q).net = "idle" /\ Arrive(q).snap = NoData
         /\ IF q.snap = NoData THEN Arrive(q).err /\ Arrive(q).data = q.data
                               ELSE Arrive(q).data = q.snap
BY DEF QueryShape, Arrive

\* A rule is on display only if the list is.
LEMMA ListedIsShown ==
  ASSUME NEW q, NEW o, NEW i \in DOMAIN Listed(q, o)
  PROVE  q.data # NoData
<1>1. CASE ~Shown(q)
  <2>1. Listed(q, o) = <<>>
    BY <1>1 DEF Listed
  <2>2. QED
    BY <2>1
<1>2. CASE Shown(q)
  BY <1>2 DEF Shown
<1>3. QED
  BY <1>1, <1>2

-----------------------------------------------------------------------------
(***************************************************************************)
(* The requests of the page. A new rule has no id yet, the PATCH of a drag  *)
(* no conditions, so only creations and updates pass the check; and the     *)
(* requests that share a number are those of one drag, together at the page *)
(* or together given up by it.                                              *)
(***************************************************************************)
ArgOK(a) ==
  /\ a.op \in {"create", "update", "delete", "reorder"}
  /\ a.op = "create" => a.id = NoData
  /\ a.op = "update" => a.id \in Ids
  /\ a.op = "reorder" => ~a.draft.ok

CallOK(c) ==
  /\ CallShape(c) /\ ArgOK(c.arg)
  /\ c.st = "checked" => c.arg.op \in {"create", "update"}

SameDrag(c, d) == c.n = d.n /\ c.arg.op = "reorder" => d.arg.op = "reorder" /\ d.from = c.from

CallsOK(cs) ==
  /\ IsFiniteSet(cs)
  /\ \A c \in cs : CallOK(c)
  /\ \A c, d \in cs : SameDrag(c, d)

\* The same request, at another stage or given up by its row.
Same(c, d) ==
  /\ CallShape(d) /\ d.n = c.n /\ d.arg = c.arg
  /\ d.st = "checked" => d.arg.op \in {"create", "update"}
  /\ c.arg.op = "reorder" => d.from = c.from

LEMMA SameCallsOK ==
  ASSUME NEW cs, CallsOK(cs), NEW ds, IsFiniteSet(ds), \A d \in ds : \E c \in cs : Same(c, d)
  PROVE  CallsOK(ds)
<1>1. ASSUME NEW d \in ds PROVE CallOK(d)
  BY DEF CallsOK, CallOK, Same
<1>2. ASSUME NEW d \in ds, NEW e \in ds PROVE SameDrag(d, e)
  <2>1. PICK c \in cs : Same(c, d)
    OBVIOUS
  <2>2. PICK b \in cs : Same(b, e)
    OBVIOUS
  <2>3. SameDrag(c, b)
    BY DEF CallsOK
  <2>4. QED
    BY <2>1, <2>2, <2>3 DEF Same, SameDrag
<1>3. QED
  BY <1>1, <1>2 DEF CallsOK

LEMMA FewerCallsOK ==
  ASSUME NEW cs, CallsOK(cs), NEW ds \in SUBSET cs
  PROVE  CallsOK(ds)
BY FS_Subset DEF CallsOK

LEMMA BecomesOK ==
  ASSUME NEW cs, CallsOK(cs), NEW c \in cs, NEW st,
         st = "checked" => c.arg.op \in {"create", "update"}
  PROVE  /\ CallsOK((cs \ {c}) \cup {[c EXCEPT !.st = st]})
         /\ Same(c, [c EXCEPT !.st = st]) /\ [c EXCEPT !.st = st].st = st
         /\ [c EXCEPT !.st = st].from = c.from
<1> DEFINE e == [c EXCEPT !.st = st]
           ds == (cs \ {c}) \cup {e}
<1>1. CallOK(c)
  BY DEF CallsOK
<1>2. Same(c, e) /\ e.st = st /\ e.from = c.from
  BY <1>1 DEF CallOK, CallShape, Same
<1> HIDE DEF e
<1>3. \A d \in cs : Same(d, d)
  BY DEF CallsOK, CallOK, Same
<1>4. IsFiniteSet(cs \ {c})
  BY FS_RemoveElement DEF CallsOK
<1>5. IsFiniteSet(ds)
  BY <1>4, FS_AddElement
<1>6. \A d \in ds : \E b \in cs : Same(b, d)
  BY <1>2, <1>3
<1> HIDE DEF ds
<1>7. CallsOK(ds)
  BY <1>5, <1>6, SameCallsOK
<1>8. QED
  BY <1>2, <1>7 DEF ds, e

\* Unmounting rows gives up their updates.
Rendered(cs, shownIds) ==
  {IF c.arg.op = "update" /\ c.arg.id \notin shownIds THEN [c EXCEPT !.from = "gone"] ELSE c : c \in cs}

LEMMA RenderedOK ==
  ASSUME NEW cs, CallsOK(cs), NEW ids
  PROVE  /\ CallsOK(Rendered(cs, ids))
         /\ \A d \in Rendered(cs, ids) : \E c \in cs : Same(c, d) /\ d.st = c.st
         /\ \A c \in cs : \E d \in Rendered(cs, ids) : Same(c, d) /\ d.st = c.st
<1> DEFINE f == [c \in cs |-> IF c.arg.op = "update" /\ c.arg.id \notin ids
                              THEN [c EXCEPT !.from = "gone"] ELSE c]
           ds == Rendered(cs, ids)
<1>1. f \in [cs -> ds] /\ \A d \in ds : \E c \in cs : f[c] = d
  BY DEF Rendered
<1>2. ASSUME NEW c \in cs PROVE Same(c, f[c]) /\ f[c].st = c.st
  BY DEF CallsOK, CallOK, CallShape, Same
<1> HIDE DEF f, ds
<1>3. IsFiniteSet(ds)
  BY <1>1, FiniteImage DEF CallsOK
<1>4. \A d \in ds : \E c \in cs : Same(c, d) /\ d.st = c.st
  BY <1>1, <1>2
<1>5. \A c \in cs : \E d \in ds : Same(c, d) /\ d.st = c.st
  BY <1>1, <1>2
<1>6. CallsOK(ds)
  BY <1>3, <1>4, SameCallsOK
<1>7. QED
  BY <1>4, <1>5, <1>6 DEF ds

\* Requests that are sent have a number of their own.
LEMMA SentOK ==
  ASSUME NEW cs, CallsOK(cs), NEW args, IsFiniteSet(args), \A a \in args : ArgOK(a),
         \/ \E a : args = {a}
         \/ \A a \in args : a.op = "reorder"
  PROVE  CallsOK(cs \cup {Sent(Free(cs), a) : a \in args})
<1> DEFINE n == Free(cs)
           fresh == {Sent(n, a) : a \in args}
           f == [a \in args |-> Sent(n, a)]
<1>1. \A c \in cs : c.n # n
  BY FreeIsFresh DEF CallsOK
<1> HIDE DEF n
<1>2. f \in [args -> fresh] /\ \A c \in fresh : \E a \in args : f[a] = c
  OBVIOUS
<1>3. IsFiniteSet(fresh)
  <2> HIDE DEF f, fresh
  <2>1. QED
    BY <1>2, FiniteImage
<1>4. \A c \in fresh : CallOK(c) /\ c.n = n /\ c.from = "here" /\ c.arg \in args
  BY DEF Sent, CallOK, CallShape
<1>5. \A c, d \in fresh : SameDrag(c, d)
  <2>1. CASE \E a : args = {a}
    <3>1. PICK a : args = {a}
      BY <2>1
    <3>2. \A c \in fresh : c = Sent(n, a)
      BY <3>1
    <3>3. QED
      BY <3>2 DEF SameDrag
  <2>2. CASE \A a \in args : a.op = "reorder"
    BY <1>4, <2>2 DEF SameDrag
  <2>3. QED
    BY <2>1, <2>2
<1>6. \A c \in cs, d \in fresh : SameDrag(c, d) /\ SameDrag(d, c)
  BY <1>1, <1>4 DEF SameDrag
<1> HIDE DEF fresh
<1>7. IsFiniteSet(cs \cup fresh)
  BY <1>3, FS_Union DEF CallsOK
<1>8. CallsOK(cs \cup fresh)
  BY <1>4, <1>5, <1>6, <1>7 DEF CallsOK
<1>9. QED
  BY <1>8 DEF fresh, n

-----------------------------------------------------------------------------
(***************************************************************************)
(* The page has data as long as it has requests, tables list rules, and an  *)
(* optimistic order is on display only while its drag, or a later one, has  *)
(* a request that the page still waits for.                                 *)
(***************************************************************************)
PageInv ==
  /\ CallsOK(calls) /\ QueryShape(query)
  /\ calls # {} => query.data # NoData
  /\ order # NoData => \E c \in calls : c.arg.op = "reorder" /\ c.from = "here"
  /\ DOMAIN rules \subseteq Ids
  /\ query.data # NoData => DOMAIN query.data \subseteq Ids
  /\ query.snap # NoData => DOMAIN query.snap \subseteq Ids

\* Opening, typing and cancelling change nothing but rows and drafts.
Typing ==
  \/ AddRule \/ EditNew \/ CancelNew
  \/ \E i \in Ids : startEdit(i) \/ cancelEdit(i) \/ AskDelete(i) \/ KeepRule(i)
  \/ \E i \in Ids, p \in Typed : Edit(i, p)

LEMMA TypingIsLocal ==
  ASSUME Typing \/ UNCHANGED ruleVars
  PROVE  UNCHANGED <<rules, gone, query, order, calls, missed, raced>>
BY DEF Typing, AddRule, EditNew, CancelNew, startEdit, cancelEdit, AskDelete, KeepRule, Edit, ruleVars

\* Saving, deleting and adding send one request.
Asking == handleAdd \/ \E i \in Ids : handleUpdate(i) \/ confirmDelete(i)

LEMMA AskingSends ==
  ASSUME PageInv, Asking
  PROVE  /\ UNCHANGED <<rules, gone, query, order, missed, raced>> /\ query.data # NoData
         /\ \E a : ArgOK(a) /\ calls' = calls \cup {Sent(Free(calls), a)}
         /\ CallsOK(calls')
<1>1. ASSUME NEW i \in Ids, handleUpdate(i) \/ confirmDelete(i)
      PROVE  /\ UNCHANGED <<rules, gone, query, order, missed, raced>> /\ query.data # NoData
             /\ \E a : ArgOK(a) /\ calls' = calls \cup {Sent(Free(calls), a)}
  <2>1. query.data # NoData
    BY <1>1, ListedIsShown DEF handleUpdate, confirmDelete, shown
  <2>2. QED
    BY <1>1, <2>1 DEF handleUpdate, confirmDelete, Send, ArgOK
<1>2. ASSUME handleAdd
      PROVE  /\ UNCHANGED <<rules, gone, query, order, missed, raced>> /\ query.data # NoData
             /\ \E a : ArgOK(a) /\ calls' = calls \cup {Sent(Free(calls), a)}
  <2> DEFINE a == [op |-> "create", id |-> NoData, draft |-> new]
  <2>1. ArgOK(a)
    BY DEF ArgOK
  <2>2. /\ UNCHANGED <<rules, gone, query, order, missed, raced>> /\ query.data # NoData
        /\ calls' = calls \cup {Sent(Free(calls), a)}
    BY <1>2 DEF handleAdd, Send, Shown
  <2> HIDE DEF a
  <2>3. QED
    BY <2>1, <2>2
<1>3. /\ UNCHANGED <<rules, gone, query, order, missed, raced>> /\ query.data # NoData
      /\ \E a : ArgOK(a) /\ calls' = calls \cup {Sent(Free(calls), a)}
  BY <1>1, <1>2 DEF Asking
<1>4. PICK a : ArgOK(a) /\ calls' = calls \cup {Sent(Free(calls), a)}
  BY <1>3
<1>5. CallsOK(calls \cup {Sent(Free(calls), b) : b \in {a}})
  <2>1. IsFiniteSet({a})
    BY FS_Singleton
  <2>2. QED
    BY <1>4, <2>1, SentOK DEF PageInv
<1>6. {Sent(Free(calls), b) : b \in {a}} = {Sent(Free(calls), a)}
  OBVIOUS
<1>7. QED
  BY <1>3, <1>4, <1>5, <1>6

\* A drag puts its order on display and sends a request per rule that moved, or
\* none and asks for the list.
LEMMA DragSends ==
  ASSUME IsFiniteSet(Ids), PageInv, NEW a \in Ids, NEW b \in Ids, handleDragEnd(a, b)
  PROVE  /\ UNCHANGED <<rules, gone, missed, raced>> /\ query.data # NoData /\ CallsOK(calls')
         /\ \A c \in calls : \E d \in calls' : Same(c, d) /\ d.st = c.st
         /\ \A d \in calls' : \/ \E c \in calls : Same(c, d) /\ d.st = c.st
                              \/ d.st = "sent"
         /\ \/ query' = Invalidate(query) /\ order' = NoData
            \/ query' = query /\ \E d \in calls' : d.arg.op = "reorder" /\ d.from = "here"
<1>0. PICK p \in Places(shown) :
        LET updated == Reordered(p, a, b)
            changed == {i \in DOMAIN updated \cap DOMAIN query.data : query.data[i] # updated[i]}
            patch(i) == [op |-> "reorder", id |-> i, draft |-> [prio |-> updated[i], ok |-> FALSE]]
        IN IF changed = {} THEN Show(Invalidate(query), NoData, calls)
           ELSE Show(query, updated, calls \cup {Sent(Free(calls), patch(i)) : i \in changed})
  BY DEF handleDragEnd
<1> DEFINE updated == Reordered(p, a, b)
           changed == {i \in DOMAIN updated \cap DOMAIN query.data : query.data[i] # updated[i]}
           patch(i) == [op |-> "reorder", id |-> i, draft |-> [prio |-> updated[i], ok |-> FALSE]]
           args == {patch(i) : i \in changed}
           sent == {Sent(Free(calls), patch(i)) : i \in changed}
<1>1. /\ a \in DOMAIN shown /\ UNCHANGED <<rules, gone, missed, raced>>
      /\ IF changed = {} THEN Show(Invalidate(query), NoData, calls)
         ELSE Show(query, updated, calls \cup sent)
  BY <1>0 DEF handleDragEnd
<1>2. query.data # NoData
  BY <1>1, ListedIsShown DEF shown
<1>3. CallsOK(calls)
  BY DEF PageInv
<1>4. \A i \in changed : /\ patch(i).op = "reorder" /\ ArgOK(patch(i))
                         /\ Sent(Free(calls), patch(i)).st = "sent"
                         /\ Sent(Free(calls), patch(i)).from = "here"
                         /\ Sent(Free(calls), patch(i)).arg.op = "reorder"
  BY DEF ArgOK, Sent
<1>5. IsFiniteSet(args)
  <2>1. changed \in SUBSET Ids
    BY <1>2 DEF PageInv
  <2>2. IsFiniteSet(changed)
    BY <2>1, FS_Subset
  <2>3. [i \in changed |-> patch(i)] \in [changed -> args]
        /\ \A x \in args : \E i \in changed : [j \in changed |-> patch(j)][i] = x
    OBVIOUS
  <2> HIDE DEF changed, args
  <2>4. QED
    BY <2>2, <2>3, FiniteImage
<1>6. CallsOK(calls \cup sent)
  <2>1. sent = {Sent(Free(calls), x) : x \in args}
    OBVIOUS
  <2>2. \A x \in args : ArgOK(x) /\ x.op = "reorder"
    BY <1>4
  <2> HIDE DEF sent, args
  <2>3. QED
    BY <1>3, <1>5, <2>1, <2>2, SentOK
<1>7. \A d \in sent : d.st = "sent" /\ d.from = "here" /\ d.arg.op = "reorder"
  BY <1>4
<1>8. changed # {} => sent # {}
  OBVIOUS
<1> HIDE DEF changed, sent, updated
<1>9. CASE changed = {}
  <2>1. /\ query' = Invalidate(query) /\ order' = NoData
        /\ \E ids : calls' = Rendered(calls, ids)
    BY <1>1, <1>9 DEF Show, Rendered
  <2>2. QED
    BY <1>1, <1>2, <1>3, <2>1, RenderedOK
<1>10. CASE changed # {}
  <2> DEFINE all == calls \cup sent
  <2>1. query' = query /\ \E ids : calls' = Rendered(all, ids)
    BY <1>1, <1>10 DEF Show, Rendered
  <2>a. CallsOK(all) /\ calls \subseteq all /\ sent \subseteq all
    BY <1>6
  <2>b. \A x \in all : x \in calls \/ x \in sent
    OBVIOUS
  <2> HIDE DEF all
  <2>2. PICK ids : calls' = Rendered(all, ids)
    BY <2>1
  <2>3. /\ CallsOK(calls')
        /\ \A d \in calls' : \E c \in all : Same(c, d) /\ d.st = c.st
        /\ \A c \in all : \E d \in calls' : Same(c, d) /\ d.st = c.st
    BY <2>a, <2>2, RenderedOK
  <2>4. PICK c \in sent : TRUE
    BY <1>8, <1>10
  <2>5. PICK d \in calls' : Same(c, d)
    BY <2>a, <2>3
  <2>6. d.arg.op = "reorder" /\ d.from = "here"
    BY <1>7, <2>4, <2>5 DEF Same
  <2>7. \A e \in calls' : (\E x \in calls : Same(x, e) /\ e.st = x.st) \/ e.st = "sent"
    BY <1>7, <2>b, <2>3
  <2>8. QED
    BY <1>1, <1>2, <2>1, <2>a, <2>3, <2>5, <2>6, <2>7
<1>11. QED
  BY <1>9, <1>10

\* A request keeps its stage and what it asks for.
Stays(c, d) == d.st = c.st /\ d.arg = c.arg

\* A drag that fails is given up by the page with all its requests.
Others(cs, c) == {d \in cs \ {c} : d.n = c.n}
GivenUp(cs, c) == (cs \ ({c} \cup Others(cs, c))) \cup Unmounted(Others(cs, c))

LEMMA UnmountOK ==
  ASSUME NEW cs, CallsOK(cs), NEW c \in cs, c.arg.op = "reorder"
  PROVE  /\ CallsOK(GivenUp(cs, c))
         /\ \A d \in GivenUp(cs, c) : \E x \in cs \ {c} : Stays(x, d)
         /\ \A x \in cs \ {c} : \E d \in GivenUp(cs, c) : Stays(x, d)
<1> DEFINE others == {d \in cs \ {c} : d.n = c.n}
           ds == GivenUp(cs, c)
           rest == cs \ ({c} \cup others)
           un == Unmounted(others)
           f == [d \in others |-> [d EXCEPT !.from = "gone"]]
<1>1. \A x \in rest : x \in cs \ {c} /\ x.n # c.n /\ CallOK(x)
  BY DEF CallsOK
<1>2. \A x \in others : x \in cs \ {c} /\ x.n = c.n /\ x.arg.op = "reorder" /\ CallOK(x)
  BY DEF CallsOK, SameDrag
<1>3. f \in [others -> un] /\ \A d \in un : \E x \in others : f[x] = d
  BY DEF Unmounted
<1>4. \A x \in others : /\ CallOK(f[x]) /\ f[x].n = c.n /\ f[x].from = "gone"
                        /\ f[x].arg.op = "reorder" /\ Stays(x, f[x])
  BY <1>2 DEF CallOK, CallShape, Stays
<1>0. ds = rest \cup un
  BY DEF GivenUp, Others
<1> HIDE DEF f, un, ds
<1>5. \A d \in un : CallOK(d) /\ d.n = c.n /\ d.from = "gone" /\ d.arg.op = "reorder"
  BY <1>3, <1>4
<1>6. IsFiniteSet(rest) /\ IsFiniteSet(others)
  BY FS_Subset DEF CallsOK
<1>7. IsFiniteSet(un)
  BY <1>3, <1>6, FiniteImage
<1>8. IsFiniteSet(ds)
  <2> HIDE DEF rest
  <2>1. IsFiniteSet(rest \cup un)
    BY <1>6, <1>7, FS_Union
  <2>2. QED
    BY <1>0, <2>1
<1>9. \A x, y \in ds : SameDrag(x, y)
  <2>1. \A x, y \in rest : SameDrag(x, y)
    BY DEF CallsOK
  <2>2. \A x, y \in un : SameDrag(x, y)
    BY <1>5 DEF SameDrag
  <2>3. \A x \in rest, y \in un : SameDrag(x, y) /\ SameDrag(y, x)
    BY <1>1, <1>5 DEF SameDrag
  <2> HIDE DEF rest
  <2>4. QED
    BY <1>0, <2>1, <2>2, <2>3
<1>10. CallsOK(ds)
  <2>1. \A x \in ds : CallOK(x)
    BY <1>0, <1>1, <1>5
  <2>2. QED
    BY <1>8, <1>9, <2>1 DEF CallsOK
<1>11. \A d \in ds : \E x \in cs \ {c} : Stays(x, d)
  <2>1. \A d \in rest : Stays(d, d)
    BY DEF Stays
  <2>2. \A d \in un : \E x \in cs \ {c} : Stays(x, d)
    BY <1>2, <1>3, <1>4
  <2>3. QED
    BY <1>0, <1>1, <2>1, <2>2
<1>12. \A x \in cs \ {c} : \E d \in ds : Stays(x, d)
  <2>1. ASSUME NEW x \in others PROVE \E d \in ds : Stays(x, d)
    BY <1>0, <1>3, <1>4
  <2>2. ASSUME NEW x \in rest PROVE \E d \in ds : Stays(x, d)
    BY <1>0 DEF Stays
  <2>3. QED
    BY <2>1, <2>2
<1>13. QED
  BY <1>10, <1>11, <1>12 DEF ds

\* The reply to one request of a drag: the others keep their stages, and an order
\* stays on display only if a request of the page's own drag is left.
LEMMA DragAnswered ==
  ASSUME PageInv, NEW c \in calls, DragReply(c)
  PROVE  /\ UNCHANGED <<rules, gone, raced>> /\ CallsOK(calls') /\ (missed => missed')
         /\ \A d \in calls' : \E x \in calls \ {c} : Stays(x, d)
         /\ \A x \in calls \ {c} : \E d \in calls' : Stays(x, d)
         /\ \/ query' = Invalidate(query)
            \/ query' = query /\ (Succeeded(c) => missed')
         /\ order' # NoData => \E d \in calls' : d.arg.op = "reorder" /\ d.from = "here"
<1> DEFINE others == {d \in calls \ {c} : d.n = c.n}
           done(ok) == ok /\ c.from = "here" /\ others = {}
           failed(ok) == ~ok /\ c.from = "here"
           q(ok) == IF done(ok) THEN Invalidate(query) ELSE query
           o(ok) == IF done(ok) \/ failed(ok) THEN NoData ELSE order
           cs(ok) == IF failed(ok) THEN (calls \ ({c} \cup others)) \cup Unmounted(others)
                                   ELSE calls \ {c}
<1>1. PICK ok \in {Succeeded(c), FALSE} :
        Show(q(ok), o(ok), cs(ok)) /\ missed' = (missed \/ (Succeeded(c) /\ ~done(ok)))
  BY DEF DragReply
<1>2. c.arg.op = "reorder" /\ UNCHANGED <<rules, gone, raced>> /\ CallsOK(calls)
  BY DEF DragReply, PageInv
<1>3. /\ query' = q(ok) /\ order' = o(ok) /\ calls' = Rendered(cs(ok), DOMAIN Listed(q(ok), o(ok)))
      /\ missed' = (missed \/ (Succeeded(c) /\ ~done(ok)))
  <2> HIDE DEF q, o, cs, done
  <2>1. QED
    BY <1>1 DEF Show, Rendered
<1>4. /\ CallsOK(cs(ok)) /\ \A d \in cs(ok) : \E x \in calls \ {c} : Stays(x, d)
      /\ \A x \in calls \ {c} : \E d \in cs(ok) : Stays(x, d)
  <2>1. CASE failed(ok)
    <3>1. cs(ok) = GivenUp(calls, c)
      BY <2>1 DEF GivenUp, Others
    <3> HIDE DEF cs
    <3>2. QED
      BY <1>2, <3>1, UnmountOK
  <2>2. CASE ~failed(ok)
    <3>1. cs(ok) = calls \ {c} /\ cs(ok) \in SUBSET calls
      BY <2>2
    <3> HIDE DEF cs
    <3>2. QED
      BY <1>2, <3>1, FewerCallsOK DEF Stays
  <2>3. QED
    BY <2>1, <2>2
<1>5. ~done(ok) /\ ~failed(ok) /\ order # NoData => \E d \in cs(ok) : d.arg.op = "reorder" /\ d.from = "here"
  <2> SUFFICES ASSUME ~done(ok), ~failed(ok), order # NoData
               PROVE  \E d \in calls \ {c} : d.arg.op = "reorder" /\ d.from = "here"
    OBVIOUS
  <2>1. CASE c.from # "here"
    BY <2>1 DEF PageInv
  <2>2. CASE c.from = "here"
    <3>1. PICK d \in others : TRUE
      BY <2>2
    <3>2. SameDrag(c, d)
      BY <1>2, <3>1 DEF CallsOK
    <3>3. QED
      BY <1>2, <2>2, <3>1, <3>2 DEF SameDrag
  <2>3. QED
    BY <2>1, <2>2
<1> HIDE DEF cs, done, failed, others
<1>6. PICK ids : calls' = Rendered(cs(ok), ids)
  BY <1>3, Zenon
<1>7. /\ CallsOK(calls')
      /\ \A d \in calls' : \E x \in cs(ok) : Same(x, d) /\ d.st = x.st
      /\ \A x \in cs(ok) : \E d \in calls' : Same(x, d) /\ d.st = x.st
  BY <1>4, <1>6, RenderedOK
<1>8. \A d \in calls' : \E x \in calls \ {c} : Stays(x, d)
  BY <1>4, <1>7 DEF Same, Stays
<1>9. \A x \in calls \ {c} : \E d \in calls' : Stays(x, d)
  BY <1>4, <1>7 DEF Same, Stays
<1>10. /\ \/ query' = Invalidate(query)
          \/ query' = query /\ (Succeeded(c) => missed')
       /\ missed => missed'
  BY <1>3
<1>11. order' # NoData => \E d \in calls' : d.arg.op = "reorder" /\ d.from = "here"
  BY <1>3, <1>5, <1>7 DEF Same
<1>12. QED
  BY <1>2, <1>7, <1>8, <1>9, <1>10, <1>11

\* The server checks a request, refuses it or fails.
LEMMA ServerAnswers ==
  ASSUME PageInv, NEW c \in calls, CheckRule(c) \/ Refuse(c) \/ Fail(c)
  PROVE  /\ UNCHANGED <<rules, gone, query, order, missed, raced>> /\ CallsOK(calls') /\ c.st = "sent"
         /\ \E e : /\ calls' = (calls \ {c}) \cup {e} /\ Same(c, e) /\ e.from = c.from
                  /\ e.st # "applied" /\ (e.st = "checked" => Accepted(c))
<1>1. PICK st \in {"checked", "refused"} :
        /\ Becomes(c, st) /\ c.st = "sent"
        /\ st = "checked" => Accepted(c) /\ c.arg.op # "delete"
        /\ UNCHANGED <<rules, gone, query, order, missed, raced>>
  BY DEF CheckRule, Refuse, Fail
<1>2. CallsOK(calls) /\ ArgOK(c.arg)
  BY DEF PageInv, CallsOK, CallOK
<1>3. st = "checked" => c.arg.op \in {"create", "update"}
  BY <1>1, <1>2 DEF Accepted, ArgOK
<1> DEFINE e == [c EXCEPT !.st = st]
<1>4. /\ CallsOK((calls \ {c}) \cup {e}) /\ Same(c, e) /\ e.st = st /\ e.from = c.from
  BY <1>2, <1>3, BecomesOK
<1>5. calls' = (calls \ {c}) \cup {e}
  BY <1>1 DEF Becomes
<1> HIDE DEF e
<1>6. QED
  BY <1>1, <1>4, <1>5

\* The server writes or deletes a rule.
LEMMA ServerWrites ==
  ASSUME PageInv, NEW c \in calls, WriteRule(c) \/ DeleteRule(c)
  PROVE  /\ UNCHANGED <<query, order, missed>> /\ CallsOK(calls') /\ DOMAIN rules' \subseteq Ids
         /\ \E e : /\ calls' = (calls \ {c}) \cup {e} /\ Same(c, e) /\ e.from = c.from
                  /\ e.st = "applied"
<1>1. Becomes(c, "applied") /\ UNCHANGED <<query, order, missed>>
  BY DEF WriteRule, DeleteRule
<1>2. CallsOK(calls)
  BY DEF PageInv
<1>c. ArgOK(c.arg) /\ DOMAIN rules \subseteq Ids
  BY DEF PageInv, CallsOK, CallOK
<1>a. PICK st : st = "applied"
  OBVIOUS
<1>b. st = "checked" => c.arg.op \in {"create", "update"}
  BY <1>a
<1> DEFINE e == [c EXCEPT !.st = st]
<1>3. /\ CallsOK((calls \ {c}) \cup {e}) /\ Same(c, e) /\ e.st = st /\ e.from = c.from
  BY <1>2, <1>b, BecomesOK
<1>4. calls' = (calls \ {c}) \cup {e}
  BY <1>1, <1>a DEF Becomes
<1>5. DOMAIN rules' \subseteq Ids
  <2>1. CASE DeleteRule(c)
    BY <1>c, <2>1 DEF DeleteRule
  <2>2. CASE WriteRule(c)
    <3>1. PICK i \in IF c.arg.op = "update" THEN {c.arg.id} ELSE Ids \ (DOMAIN rules \cup gone) :
            rules' = [j \in DOMAIN rules \cup {i} |-> IF j = i THEN c.arg.draft.prio ELSE rules[j]]
      BY <2>2 DEF WriteRule
    <3>2. i \in Ids
      BY <1>c, <3>1 DEF ArgOK
    <3>3. DOMAIN rules' = DOMAIN rules \cup {i}
      BY <3>1
    <3>4. QED
      BY <1>c, <3>2, <3>3
  <2>3. QED
    BY <2>1, <2>2
<1> HIDE DEF e
<1>6. QED
  BY <1>1, <1>a, <1>3, <1>4, <1>5

\* The reply to a mutation: a success asks for the rules or is lost.
LEMMA Replied ==
  ASSUME PageInv, NEW c \in calls, SuccessReply(c) \/ ErrorReply(c)
  PROVE  /\ UNCHANGED <<rules, gone, order, raced>> /\ CallsOK(calls') /\ (missed => missed')
         /\ c.arg.op # "reorder" /\ calls' = calls \ {c}
         /\ \/ query' = Invalidate(query)
            \/ query' = query /\ (Succeeded(c) => missed')
<1>1. /\ UNCHANGED <<rules, gone, order, raced>> /\ (missed => missed')
      /\ c.arg.op # "reorder" /\ calls' = calls \ {c}
      /\ \/ query' = Invalidate(query)
         \/ query' = query /\ (Succeeded(c) => missed')
  <2>1. CASE SuccessReply(c)
    BY <2>1 DEF SuccessReply
  <2>2. CASE ErrorReply(c)
    BY <2>2 DEF ErrorReply
  <2>3. QED
    BY <2>1, <2>2
<1>2. CallsOK(calls')
  BY <1>1, FewerCallsOK DEF PageInv
<1>3. QED
  BY <1>1, <1>2

\* An answer is shown; rows that it does not list are unmounted.
LEMMA AnswerShown ==
  ASSUME PageInv, ListArrives
  PROVE  /\ UNCHANGED <<rules, gone, order, missed, raced>> /\ query' = Arrive(query)
         /\ CallsOK(calls')
         /\ \A d \in calls' : \E c \in calls : Same(c, d) /\ d.st = c.st
         /\ \A c \in calls : \E d \in calls' : Same(c, d) /\ d.st = c.st
<1>1. UNCHANGED <<rules, gone, missed, raced>> /\ Show(Arrive(query), order, calls)
  BY DEF ListArrives
<1>2. /\ query' = Arrive(query) /\ order' = order
      /\ \E ids : calls' = Rendered(calls, ids)
  BY <1>1 DEF Show, Rendered
<1>3. QED
  BY <1>1, <1>2, RenderedOK DEF PageInv

-----------------------------------------------------------------------------
LEMMA PageInit == Init => PageInv
<1> SUFFICES ASSUME Init PROVE PageInv
  OBVIOUS
<1>1. CallsOK(calls)
  BY FS_EmptySet DEF Init, CallsOK
<1>2. QueryShape(query) /\ query.data = NoData /\ query.snap = NoData
  BY DEF Init, Start, NoQuery, QueryShape
<1>3. DOMAIN rules \subseteq Ids
  BY DEF Init
<1>4. QED
  BY <1>1, <1>2, <1>3 DEF PageInv, Init

LEMMA PageStep ==
  ASSUME IsFiniteSet(Ids), PageInv, [RuleNext]_ruleVars
  PROVE  PageInv'
<1> DEFINE Kept == /\ QueryShape(query')
                   /\ query.data # NoData => query'.data # NoData
                   /\ query'.data # NoData => DOMAIN query'.data \subseteq Ids
                   /\ query'.snap # NoData => DOMAIN query'.snap \subseteq Ids
<1>1. query' = query => Kept
  BY DEF PageInv
<1>2. query' = Start(query) => Kept
  BY DEF PageInv, QueryShape, Start
<1>3. query' = Invalidate(query) => Kept
  BY <1>1, <1>2 DEF Invalidate
<1> HIDE DEF Kept
<1>4. CASE Typing \/ UNCHANGED ruleVars
  BY <1>4, TypingIsLocal DEF PageInv
<1>5. CASE Asking
  BY <1>5, AskingSends DEF PageInv
<1>6. ASSUME NEW a \in Ids, NEW b \in Ids, handleDragEnd(a, b) PROVE PageInv'
  <2>1. /\ UNCHANGED <<rules, gone, missed, raced>> /\ query.data # NoData /\ CallsOK(calls')
        /\ \/ query' = Invalidate(query) /\ order' = NoData
           \/ query' = query /\ \E d \in calls' : d.arg.op = "reorder" /\ d.from = "here"
    BY <1>6, DragSends
  <2>2. Kept
    BY <1>1, <1>3, <2>1
  <2>3. QED
    BY <2>1, <2>2 DEF PageInv, Kept
<1>7. ASSUME NEW c \in calls, CheckRule(c) \/ Refuse(c) \/ Fail(c) PROVE PageInv'
  BY <1>7, ServerAnswers DEF PageInv, Same
<1>8. ASSUME NEW c \in calls, WriteRule(c) \/ DeleteRule(c) PROVE PageInv'
  BY <1>8, ServerWrites DEF PageInv, Same
<1>9. ASSUME NEW c \in calls, SuccessReply(c) \/ ErrorReply(c) PROVE PageInv'
  <2>1. Kept
    BY <1>1, <1>3, <1>9, Replied
  <2>2. QED
    BY <1>9, <2>1, Replied DEF PageInv, Kept
<1>10. ASSUME NEW c \in calls, DragReply(c) PROVE PageInv'
  <2>1. /\ UNCHANGED <<rules, gone, raced>> /\ CallsOK(calls')
        /\ query' = Invalidate(query) \/ query' = query
        /\ order' # NoData => \E d \in calls' : d.arg.op = "reorder" /\ d.from = "here"
    BY <1>10, DragAnswered
  <2>2. Kept
    BY <1>1, <1>3, <2>1
  <2>3. QED
    BY <2>1, <2>2 DEF PageInv, Kept
<1>11. CASE ServeList
  <2>1. PICK v \in {rules, NoData} : query' = Answer(query, v)
    BY <1>11 DEF ServeList
  <2>2. Kept
    BY <2>1, ServedQuery DEF PageInv, Kept
  <2>3. UNCHANGED <<rules, order, calls>>
    BY <1>11 DEF ServeList
  <2>4. QED
    BY <2>2, <2>3 DEF PageInv, Kept
<1>12. CASE ListArrives
  <2>1. Kept
    BY <1>12, AnswerShown, Arrived DEF PageInv, Kept
  <2>2. QED
    BY <1>12, <2>1, AnswerShown DEF PageInv, Kept, Same
<1>13. CASE Focus
  <2>1. Kept
    BY <1>2, <1>13 DEF Focus, Fetch
  <2>2. UNCHANGED <<rules, order, calls>>
    BY <1>13 DEF Focus
  <2>3. QED
    BY <2>1, <2>2 DEF PageInv, Kept
<1>14. QED
  BY <1>4, <1>5, <1>6, <1>7, <1>8, <1>9, <1>10, <1>11, <1>12, <1>13
  DEF RuleNext, Typing, Asking

\* Every request in flight either was, at the same stage and about the same, or
\* has just been sent.
Stages(cs, ds) == \A d \in ds : d.st = "sent" \/ \E c \in cs : Stays(c, d)

\* The steps of the page leave the stages of its requests alone.
PageStages ==
  \/ Typing \/ UNCHANGED ruleVars \/ Asking \/ ServeList \/ ListArrives \/ Focus
  \/ \E a, b \in Ids : handleDragEnd(a, b)
  \/ \E c \in calls : SuccessReply(c) \/ ErrorReply(c) \/ DragReply(c)

LEMMA StagesKept ==
  ASSUME IsFiniteSet(Ids), PageInv, PageStages
  PROVE  rules' = rules /\ raced' = raced /\ Stages(calls, calls')
<1>1. CASE Typing \/ UNCHANGED ruleVars
  BY <1>1, TypingIsLocal DEF Stages, Stays
<1>2. CASE Asking
  BY <1>2, AskingSends DEF Stages, Stays, Sent
<1>3. CASE ServeList \/ Focus
  BY <1>3 DEF ServeList, Focus, Stages, Stays
<1>4. CASE ListArrives
  BY <1>4, AnswerShown DEF Stages, Stays, Same
<1>5. ASSUME NEW a \in Ids, NEW b \in Ids, handleDragEnd(a, b)
      PROVE  rules' = rules /\ raced' = raced /\ Stages(calls, calls')
  BY <1>5, DragSends DEF Stages, Stays, Same
<1>6. ASSUME NEW c \in calls, SuccessReply(c) \/ ErrorReply(c)
      PROVE  rules' = rules /\ raced' = raced /\ Stages(calls, calls')
  BY <1>6, Replied DEF Stages, Stays
<1>7. ASSUME NEW c \in calls, DragReply(c)
      PROVE  rules' = rules /\ raced' = raced /\ Stages(calls, calls')
  BY <1>7, DragAnswered DEF Stages
<1>8. QED
  BY <1>1, <1>2, <1>3, <1>4, <1>5, <1>6, <1>7 DEF PageStages

-----------------------------------------------------------------------------
(***************************************************************************)
(* Priorities. PrioritiesAreDistinct is not inductive: what a request that  *)
(* has passed the check will write must still be free when it writes. As    *)
(* long as no write fell between a check and its write, it is.              *)
(***************************************************************************)
Distinct(t) == \A i, j \in DOMAIN t : t[i] = t[j] => i = j
MayWrite(t, a) == \A i \in DOMAIN t : t[i] = a.draft.prio => i = a.id

PrioInv ==
  ~raced => Distinct(rules) /\ \A c \in calls : c.st = "checked" => MayWrite(rules, c.arg)

LEMMA PrioStep ==
  ASSUME IsFiniteSet(Ids), NoData \notin Ids, PageInv, PrioInv, [RuleNext]_ruleVars
  PROVE  PrioInv'
<1>1. CASE PageStages
  <2>1. rules' = rules /\ raced' = raced /\ Stages(calls, calls')
    BY <1>1, StagesKept
  <2>2. QED
    BY <2>1 DEF PrioInv, Stages, Stays
<1>2. ASSUME NEW c \in calls, CheckRule(c) \/ Refuse(c) \/ Fail(c) PROVE PrioInv'
  <2>1. PICK e : /\ calls' = (calls \ {c}) \cup {e} /\ Same(c, e)
                 /\ e.st = "checked" => Accepted(c)
    BY <1>2, ServerAnswers
  <2>2. rules' = rules /\ raced' = raced
    BY <1>2, ServerAnswers
  <2>3. e.st = "checked" => MayWrite(rules, e.arg)
    BY <2>1 DEF Same, Accepted, MayWrite
  <2>4. QED
    BY <2>1, <2>2, <2>3 DEF PrioInv
<1>3. ASSUME NEW c \in calls, DeleteRule(c) PROVE PrioInv'
  <2>1. PICK e : calls' = (calls \ {c}) \cup {e} /\ e.st = "applied"
    BY <1>3, ServerWrites
  <2>2. raced' = raced /\ rules' = [j \in DOMAIN rules \ {c.arg.id} |-> rules[j]]
    BY <1>3 DEF DeleteRule
  <2>3. Distinct(rules) => Distinct(rules')
    BY <2>2 DEF Distinct
  <2>4. ASSUME NEW d \in calls, MayWrite(rules, d.arg) PROVE MayWrite(rules', d.arg)
    BY <2>2, <2>4 DEF MayWrite
  <2>5. QED
    BY <2>1, <2>2, <2>3, <2>4 DEF PrioInv
<1>4. ASSUME NEW c \in calls, WriteRule(c) PROVE PrioInv'
  <2> SUFFICES ASSUME ~raced'
               PROVE  /\ Distinct(rules')
                      /\ \A d \in calls' : d.st = "checked" => MayWrite(rules', d.arg)
    BY DEF PrioInv
  <2>1. PICK e : calls' = (calls \ {c}) \cup {e} /\ e.st = "applied"
    BY <1>4, ServerWrites
  <2>2. ~raced /\ (\A d \in calls \ {c} : d.st # "checked") /\ c.st = "checked"
    BY <1>4 DEF WriteRule
  <2>3. \A d \in calls' : d.st # "checked"
    BY <2>1, <2>2
  <2>4. Distinct(rules) /\ MayWrite(rules, c.arg)
    BY <2>2 DEF PrioInv
  <2>5. CallOK(c) /\ DOMAIN rules \subseteq Ids
    BY DEF PageInv, CallsOK
  <2>6. PICK i \in IF c.arg.op = "update" THEN {c.arg.id} ELSE Ids \ (DOMAIN rules \cup gone) :
          rules' = [j \in DOMAIN rules \cup {i} |-> IF j = i THEN c.arg.draft.prio ELSE rules[j]]
    BY <1>4 DEF WriteRule
  <2>7. \A j \in DOMAIN rules : j # i => rules[j] # c.arg.draft.prio
    <3>1. CASE c.arg.op = "update"
      BY <2>4, <2>6, <3>1 DEF MayWrite
    <3>2. CASE c.arg.op # "update"
      <4>1. c.arg.id = NoData
        BY <2>2, <2>5, <3>2 DEF CallOK, ArgOK
      <4>2. QED
        BY <2>4, <2>5, <4>1 DEF MayWrite
    <3>3. QED
      BY <3>1, <3>2
  <2>8. Distinct(rules')
    BY <2>4, <2>6, <2>7 DEF Distinct
  <2>9. QED
    BY <2>3, <2>8
<1>5. QED
  BY <1>1, <1>2, <1>3, <1>4 DEF RuleNext, PageStages, Typing, Asking

\* No two rules of a flag have one priority, whatever the page asks for, unless a
\* rule was written between another request's check and its write: the server
\* refuses a priority in use, and an update may keep its own (PrioritiesAreDistinct,
\* rule_service.go 35-48, 70-84). Ids are finitely many and none is NoData.
THEOREM Distinctness ==
  ASSUME IsFiniteSet(Ids), NoData \notin Ids
  PROVE  Spec => []PrioritiesAreDistinct
<1>1. Init => PageInv
  BY PageInit
<1>2. Init => PrioInv
  BY DEF Init, PrioInv, Distinct
<1>3. PageInv /\ PrioInv /\ [RuleNext]_ruleVars => PageInv' /\ PrioInv'
  BY PageStep, PrioStep
<1>4. PrioInv => PrioritiesAreDistinct
  BY DEF PrioInv, PrioritiesAreDistinct, Distinct
<1>5. QED
  BY <1>1, <1>2, <1>3, <1>4, PTL DEF Spec

-----------------------------------------------------------------------------
(***************************************************************************)
(* The list. It is behind the server only while a success is on its way to  *)
(* the page, which then asks again, or after one was lost.                  *)
(***************************************************************************)
Behind == missed \/ \E c \in calls : c.st = "applied"

Current(q, t) ==
  /\ q.net = "idle" /\ ~q.err /\ q.data # NoData => q.data = t
  /\ q.net = "answered" /\ q.snap # NoData => q.snap = t

ListInv == Behind \/ Current(query, rules)

\* A request under way that has not been served yet will be.
LEMMA AskedIsCurrent ==
  ASSUME NEW q, QueryShape(q), NEW t
  PROVE  /\ Current(Start(q), t)
         /\ q.data # NoData => Current(Invalidate(q), t)
BY Started DEF Current

LEMMA ListStep ==
  ASSUME IsFiniteSet(Ids), PageInv, ListInv, [RuleNext]_ruleVars
  PROVE  ListInv'
<1>1. QueryShape(query) /\ (calls # {} => query.data # NoData)
  BY DEF PageInv
<1>2. query' = Start(query) => ListInv'
  BY <1>1, AskedIsCurrent DEF ListInv
<1>3. query.data # NoData /\ query' = Invalidate(query) => ListInv'
  BY <1>1, AskedIsCurrent DEF ListInv
<1>4. query' = query /\ rules' = rules /\ (Behind => Behind') => ListInv'
  BY DEF ListInv
<1>5. CASE Typing \/ UNCHANGED ruleVars
  <2>1. query' = query /\ rules' = rules /\ missed' = missed /\ calls' = calls
    BY <1>5, TypingIsLocal
  <2>2. QED
    BY <1>4, <2>1 DEF Behind
<1>6. CASE Asking
  <2>1. query' = query /\ rules' = rules /\ missed' = missed /\ calls \subseteq calls'
    BY <1>6, AskingSends
  <2>2. QED
    BY <1>4, <2>1 DEF Behind
<1>7. ASSUME NEW a \in Ids, NEW b \in Ids, handleDragEnd(a, b) PROVE ListInv'
  <2>1. /\ rules' = rules /\ missed' = missed /\ query.data # NoData
        /\ query' = Invalidate(query) \/ query' = query
        /\ \A c \in calls : \E d \in calls' : d.st = c.st
    BY <1>7, DragSends
  <2>2. Behind => Behind'
    BY <2>1 DEF Behind
  <2>3. QED
    BY <1>3, <1>4, <2>1, <2>2
<1>8. ASSUME NEW c \in calls, CheckRule(c) \/ Refuse(c) \/ Fail(c) PROVE ListInv'
  <2>1. /\ query' = query /\ rules' = rules /\ missed' = missed /\ c.st = "sent"
        /\ \E e : calls' = (calls \ {c}) \cup {e}
    BY <1>8, ServerAnswers
  <2>2. Behind => Behind'
    BY <2>1 DEF Behind
  <2>3. QED
    BY <1>4, <2>1, <2>2
<1>9. ASSUME NEW c \in calls, WriteRule(c) \/ DeleteRule(c) PROVE ListInv'
  BY <1>9, ServerWrites DEF ListInv, Behind
<1>10. ASSUME NEW c \in calls,
              (\A x \in calls \ {c} : \E d \in calls' : d.st = x.st), missed => missed',
              rules' = rules,
              query' = Invalidate(query) \/ (query' = query /\ (Succeeded(c) => missed'))
       PROVE  ListInv'
  <2>1. CASE query' = Invalidate(query)
    BY <1>1, <1>3, <2>1
  <2>2. CASE query' = query /\ (Succeeded(c) => missed')
    <3>1. Behind => Behind'
      BY <1>10, <2>2 DEF Behind, Succeeded
    <3>2. QED
      BY <1>4, <1>10, <2>2, <3>1
  <2>3. QED
    BY <1>10, <2>1, <2>2
<1>11. ASSUME NEW c \in calls, SuccessReply(c) \/ ErrorReply(c) PROVE ListInv'
  BY <1>10, <1>11, Replied
<1>12. ASSUME NEW c \in calls, DragReply(c) PROVE ListInv'
  BY <1>10, <1>12, DragAnswered DEF Stays
<1>13. CASE ServeList
  <2>1. PICK v \in {rules, NoData} : query' = Answer(query, v)
    BY <1>13 DEF ServeList
  <2>2. rules' = rules
    BY <1>13 DEF ServeList
  <2>3. QED
    BY <1>1, <2>1, <2>2, ServedQuery DEF ListInv, Current
<1>14. CASE ListArrives
  <2>1. query.net = "answered"
    BY <1>14 DEF ListArrives
  <2>2. /\ rules' = rules /\ missed' = missed /\ query' = Arrive(query)
        /\ \A c \in calls : \E d \in calls' : d.st = c.st
    BY <1>14, AnswerShown
  <2>3. Behind => Behind'
    BY <2>2 DEF Behind
  <2>4. Current(query, rules) => Current(query', rules')
    BY <1>1, <2>1, <2>2, Arrived DEF Current
  <2>5. QED
    BY <2>3, <2>4 DEF ListInv
<1>15. CASE Focus
  BY <1>2, <1>15 DEF Focus, Fetch
<1>16. QED
  BY <1>5, <1>6, <1>7, <1>8, <1>9, <1>11, <1>12, <1>13, <1>14, <1>15
  DEF RuleNext, Typing, Asking

\* When nothing is in flight and no success was lost, the rules page shows the
\* stored rules with their priorities and no optimistic order is left, after any
\* interleaving of edits, drags that fail in part and refreshes (RulesAtRest,
\* rules.tsx 121-203). Ids are finitely many.
THEOREM RulesShown ==
  ASSUME IsFiniteSet(Ids)
  PROVE  Spec => []RulesAtRest
<1>1. Init => PageInv
  BY PageInit
<1>2. Init => ListInv
  BY DEF Init, ListInv, Current, Start, NoQuery
<1>3. PageInv /\ ListInv /\ [RuleNext]_ruleVars => PageInv' /\ ListInv'
  BY PageStep, ListStep
<1>4. PageInv /\ ListInv => RulesAtRest
  BY DEF PageInv, ListInv, Behind, Current, RulesAtRest, Shown
<1>5. QED
  BY <1>1, <1>2, <1>3, <1>4, PTL DEF Spec

-----------------------------------------------------------------------------
(***************************************************************************)
(* The rule form. Conditions and entries are of sets that every change of   *)
(* the form keeps them in, so that a change of one says nothing of others.  *)
(***************************************************************************)
Fits(c) ==
  c.values # <<>> => (Form!isSegmentOperator(c.operator) <=> c.values = <<"segment">>)

Fit == {c \in Form!Condition : Fits(c)}
Named == {e \in Form!Entry : e.variantKey # ""}

FormInv ==
  /\ variants \in {<<>>, Keys}
  /\ draft \in [conditions : Seq(Fit), variantKey : Form!KeySet, rollout : Seq(Form!Entry)]
  /\ early \in BOOLEAN
  /\ ~early => draft.rollout \in Seq(Named)
  /\ ~early /\ draft.rollout = <<>> => draft.variantKey # ""

\* Taking an item out of a sequence leaves a sequence of the same items.
LEMMA RemovedIsSeq ==
  ASSUME NEW S, NEW s \in Seq(S), NEW i \in DOMAIN s
  PROVE  Form!RemoveAt(s, i) \in Seq(S)
<1>1. SubSeq(s, 1, i - 1) \in Seq(S) /\ SubSeq(s, i + 1, Len(s)) \in Seq(S)
  OBVIOUS
<1>2. QED
  BY <1>1 DEF Form!RemoveAt

\* A sequence with an item changed.
LEMMA ChangedIsSeq ==
  ASSUME NEW S, NEW s \in Seq(S), NEW i \in DOMAIN s, NEW x \in S
  PROVE  [s EXCEPT ![i] = x] \in Seq(S)
OBVIOUS

\* Sequences of some of the items.
LEMMA MoreSeqs ==
  ASSUME NEW S, NEW T, S \subseteq T, NEW s \in Seq(S)
  PROVE  s \in Seq(T)
OBVIOUS

\* The variants the form knows, by position.
LEMMA VariantsAreCounted ==
  ASSUME variants \in {<<>>, Keys}
  PROVE  DOMAIN variants = 1 .. Len(variants) /\ Len(variants) \in Nat
<1>1. <<>> \in Seq(STRING)
  BY EmptySeq
<1>2. variants \in Seq(STRING)
  BY <1>1, KeysAssumption
<1>3. QED
  BY <1>2

\* The variants the form knows have keys.
LEMMA VariantsAreNamed ==
  ASSUME variants \in {<<>>, Keys}
  PROVE  /\ Keys[1] \in Form!KeySet /\ Keys[1] # ""
         /\ \A i \in DOMAIN variants : variants[i] \in Form!KeySet /\ variants[i] # ""
         /\ Form!FirstVariant \in Form!KeySet
         /\ variants # <<>> => Form!FirstVariant # ""
<1>1. \A i \in DOMAIN Keys : Keys[i] \in Form!KeySet /\ Keys[i] # ""
  BY KeysAssumption DEF Form!KeySet
<1>2. 1 \in DOMAIN Keys
  <2>1. Keys \in Seq(STRING) /\ Keys # <<>>
    BY KeysAssumption
  <2>2. \A s \in Seq(STRING) : s # <<>> => Len(s) \in Nat \ {0}
    BY EmptySeq
  <2>3. Len(Keys) \in Nat \ {0} /\ DOMAIN Keys = 1 .. Len(Keys)
    BY <2>1, <2>2
  <2>4. QED
    BY <2>3
<1>3. "" \in Form!KeySet
  BY DEF Form!KeySet, Form!NoKey
<1>4. CASE variants = <<>>
  <2>1. Form!FirstVariant = ""
    BY <1>4 DEF Form!FirstVariant, Form!NoKey
  <2>2. DOMAIN variants = {}
    BY <1>4
  <2>3. QED
    BY <1>1, <1>2, <1>3, <1>4, <2>1, <2>2
<1>5. CASE variants = Keys /\ variants # <<>>
  BY <1>1, <1>2, <1>5 DEF Form!FirstVariant
<1>6. QED
  BY <1>4, <1>5

\* The first of some positions is one of them.
LEMMA FirstIsOne ==
  ASSUME NEW P, P \subseteq Nat, P # {}
  PROVE  (CHOOSE j \in P : \A k \in P : j <= k) \in P
<1>1. PICK j \in P : \A k \in P : ~(<<k, j>> \in OpToRel(<, Nat))
  BY NatLessThanWellFounded, WFMin
<1>2. ASSUME NEW k \in P, k < j PROVE FALSE
  <2>1. <<k, j>> \in OpToRel(<, Nat)
    BY <1>2 DEF OpToRel
  <2>2. QED
    BY <1>1, <2>1
<1>3. \A k \in P : j <= k
  BY <1>2
<1>4. QED
  BY <1>3

-----------------------------------------------------------------------------
LEMMA FormStarts == Form!Init => FormInv
<1> SUFFICES ASSUME Form!Init PROVE FormInv
  OBVIOUS
<1>1. variants \in {<<>>, Keys}
  BY DEF Form!Init
<1>2. CASE /\ draft = [conditions |-> <<>>, variantKey |-> Form!FirstVariant, rollout |-> <<>>]
           /\ early = (variants = <<>>)
  <2>1. /\ Form!FirstVariant \in Form!KeySet
        /\ variants # <<>> => Form!FirstVariant # ""
    BY <1>1, VariantsAreNamed
  <2>2. <<>> \in Seq(Fit) /\ <<>> \in Seq(Form!Entry) /\ <<>> \in Seq(Named)
    BY EmptySeq
  <2>3. draft.variantKey = Form!FirstVariant /\ draft.rollout = <<>>
    BY <1>2
  <2>4. QED
    BY <1>1, <1>2, <2>1, <2>2, <2>3 DEF FormInv
<1>3. ASSUME NEW op \in Form!SEGMENT_OPERATORS \cup {"eq"},
             draft = [conditions |-> <<[attribute |-> ~Form!isSegmentOperator(op), operator |-> op,
                        values |-> <<IF Form!isSegmentOperator(op) THEN "segment" ELSE "text">>]>>,
                      variantKey |-> Keys[1], rollout |-> <<>>],
             early = FALSE
      PROVE  FormInv
  <2> DEFINE c == [attribute |-> ~Form!isSegmentOperator(op), operator |-> op,
                   values |-> <<IF Form!isSegmentOperator(op) THEN "segment" ELSE "text">>]
  <2>1. c \in Form!Condition
    BY <1>3 DEF Form!Condition, Form!Operators, Form!SEGMENT_OPERATORS, Form!isSegmentOperator
  <2>2. Fits(c)
    BY <1>3 DEF Fits
  <2>3. c \in Fit
    BY <2>1, <2>2 DEF Fit
  <2>4. draft.conditions = <<c>> /\ draft.variantKey = Keys[1] /\ draft.rollout = <<>>
    BY <1>3
  <2>5. Keys[1] \in Form!KeySet /\ Keys[1] # ""
    BY <1>1, VariantsAreNamed
  <2>6. draft = [conditions |-> <<c>>, variantKey |-> Keys[1], rollout |-> <<>>]
    BY <1>3
  <2> HIDE DEF c
  <2>7. <<c>> \in Seq(Fit) /\ <<>> \in Seq(Form!Entry) /\ <<>> \in Seq(Named)
    BY <2>3, EmptySeq
  <2>8. QED
    BY <1>1, <1>3, <2>4, <2>5, <2>6, <2>7 DEF FormInv
<1>4. QED
  BY <1>2, <1>3 DEF Form!Init

\* A change of the conditions that leaves each of them fitting its operator.
LEMMA ConditionsChange ==
  ASSUME FormInv, NEW cs \in Seq(Fit),
         draft' = [conditions |-> cs, variantKey |-> draft.variantKey, rollout |-> draft.rollout],
         UNCHANGED <<variants, early>>
  PROVE  FormInv'
<1>1. draft'.rollout = draft.rollout /\ draft'.variantKey = draft.variantKey
  OBVIOUS
<1>2. QED
  BY <1>1 DEF FormInv

\* A change of one condition, in what it has of attribute, operator and values.
LEMMA ConditionChanges ==
  ASSUME FormInv, NEW i \in DOMAIN draft.conditions, NEW c \in Fit,
         draft' = [draft EXCEPT !.conditions = [draft.conditions EXCEPT ![i] = c]],
         UNCHANGED <<variants, early>>
  PROVE  FormInv'
<1> DEFINE cs == [draft.conditions EXCEPT ![i] = c]
<1>1. draft.conditions \in Seq(Fit)
  BY DEF FormInv
<1>2. cs \in Seq(Fit)
  BY <1>1, ChangedIsSeq
<1>3. draft' = [conditions |-> cs, variantKey |-> draft.variantKey, rollout |-> draft.rollout]
  BY DEF FormInv
<1> HIDE DEF cs
<1>4. QED
  BY <1>2, <1>3, ConditionsChange

\* A change of the entries that leaves one at least, each with its variant.
LEMMA EntriesChange ==
  ASSUME FormInv, NEW es \in Seq(Form!Entry), es # <<>>,
         ~early => es \in Seq(Named),
         draft' = [draft EXCEPT !.rollout = es], UNCHANGED <<variants, early>>
  PROVE  FormInv'
<1>1. draft' = [conditions |-> draft.conditions, variantKey |-> draft.variantKey, rollout |-> es]
  BY DEF FormInv
<1>2. draft'.rollout = es /\ draft'.variantKey = draft.variantKey
  BY <1>1
<1>3. QED
  BY <1>1, <1>2 DEF FormInv

\* What each change of a condition leaves of it fits its operator.
LEMMA EditedFits ==
  ASSUME NEW c \in Fit
  PROVE  /\ \A set \in BOOLEAN : [c EXCEPT !.attribute = set] \in Fit
         /\ \A op \in Form!Operators : [c EXCEPT !.operator = op, !.values = <<>>] \in Fit
         /\ \A v \in IF Form!isSegmentOperator(c.operator) THEN {<<"segment">>}
                     ELSE {<<>>, <<"text">>, <<"text", "text">>} : [c EXCEPT !.values = v] \in Fit
<1>0. c \in Form!Condition /\ Fits(c)
  BY DEF Fit
<1>1. ASSUME NEW set \in BOOLEAN PROVE [c EXCEPT !.attribute = set] \in Fit
  <2> DEFINE d == [c EXCEPT !.attribute = set]
  <2>1. d \in Form!Condition /\ d.values = c.values /\ d.operator = c.operator
    BY <1>0 DEF Form!Condition
  <2>2. Fits(d)
    BY <1>0, <2>1 DEF Fits
  <2>3. QED
    BY <2>1, <2>2 DEF Fit
<1>2. ASSUME NEW op \in Form!Operators
      PROVE  [c EXCEPT !.operator = op, !.values = <<>>] \in Fit
  <2> DEFINE d == [c EXCEPT !.operator = op, !.values = <<>>]
  <2>1. d \in Form!Condition /\ d.values = <<>>
    BY <1>0 DEF Form!Condition
  <2>2. Fits(d)
    BY <2>1 DEF Fits
  <2>3. QED
    BY <2>1, <2>2 DEF Fit
<1>3. ASSUME NEW v \in IF Form!isSegmentOperator(c.operator) THEN {<<"segment">>}
                       ELSE {<<>>, <<"text">>, <<"text", "text">>}
      PROVE  [c EXCEPT !.values = v] \in Fit
  <2> DEFINE d == [c EXCEPT !.values = v]
  <2>1. d \in Form!Condition /\ d.values = v /\ d.operator = c.operator
    BY <1>0 DEF Form!Condition
  <2>2. v # <<>> => (Form!isSegmentOperator(c.operator) <=> v = <<"segment">>)
    <3>1. <<"text">> # <<"segment">>
      OBVIOUS
    <3>2. <<"text", "text">> # <<"segment">>
      OBVIOUS
    <3>3. QED
      BY <3>1, <3>2
  <2>3. Fits(d)
    BY <2>1, <2>2 DEF Fits
  <2>4. QED
    BY <2>1, <2>3 DEF Fit
<1>4. QED
  BY <1>1, <1>2, <1>3

LEMMA ConditionsKeep ==
  ASSUME FormInv, NEW i,
         \/ Form!addCondition \/ Form!removeCondition(i)
         \/ \E set \in BOOLEAN : Form!SetAttribute(i, set)
         \/ \E op \in Form!Operators : Form!SetOperator(i, op)
         \/ \E v : Form!SetValues(i, v)
  PROVE  FormInv'
<1>1. /\ draft.conditions \in Seq(Fit)
      /\ draft = [conditions |-> draft.conditions, variantKey |-> draft.variantKey,
                  rollout |-> draft.rollout]
  BY DEF FormInv
<1> DEFINE cond == draft.conditions[i]
<1>2. i \in DOMAIN draft.conditions => cond \in Fit
  BY <1>1
<1>3. CASE Form!addCondition
  <2> DEFINE c == [attribute |-> FALSE, operator |-> "eq", values |-> <<"text">>]
             cs == Append(draft.conditions, c)
  <2>1. c \in Form!Condition
    BY DEF Form!Condition, Form!Operators
  <2>2. ~Form!isSegmentOperator(c.operator) /\ c.values # <<"segment">>
    BY DEF Form!isSegmentOperator, Form!SEGMENT_OPERATORS
  <2>3. c \in Fit
    BY <2>1, <2>2 DEF Fit, Fits
  <2>4. /\ draft' = [conditions |-> cs, variantKey |-> draft.variantKey, rollout |-> draft.rollout]
        /\ UNCHANGED <<variants, early>>
    BY <1>1, <1>3 DEF Form!addCondition, Form!Change
  <2> HIDE DEF c
  <2>5. cs \in Seq(Fit)
    BY <1>1, <2>3
  <2> HIDE DEF cs
  <2>6. QED
    BY <2>4, <2>5, ConditionsChange
<1>4. CASE Form!removeCondition(i)
  <2> DEFINE cs == Form!RemoveAt(draft.conditions, i)
  <2>1. /\ draft' = [draft EXCEPT !.conditions = cs]
        /\ UNCHANGED <<variants, early>> /\ i \in DOMAIN draft.conditions
    BY <1>4 DEF Form!removeCondition, Form!Change
  <2>2. cs \in Seq(Fit)
    BY <1>1, <2>1, RemovedIsSeq
  <2> HIDE DEF cs
  <2>3. draft' = [conditions |-> cs, variantKey |-> draft.variantKey, rollout |-> draft.rollout]
    BY <1>1, <2>1
  <2>4. QED
    BY <2>1, <2>2, <2>3, ConditionsChange
<1>5. ASSUME NEW set \in BOOLEAN, Form!SetAttribute(i, set) PROVE FormInv'
  <2> DEFINE c == [cond EXCEPT !.attribute = set]
  <2>1. i \in DOMAIN draft.conditions /\ UNCHANGED <<variants, early>>
    BY <1>5 DEF Form!SetAttribute, Form!Change
  <2>2. draft' = [draft EXCEPT !.conditions = [draft.conditions EXCEPT ![i] = c]]
    BY <1>5 DEF Form!SetAttribute, Form!Change
  <2>3. c \in Fit
    BY <1>2, <2>1, EditedFits
  <2> HIDE DEF c
  <2>4. QED
    BY <2>1, <2>2, <2>3, ConditionChanges
<1>6. ASSUME NEW op \in Form!Operators, Form!SetOperator(i, op) PROVE FormInv'
  <2> DEFINE c == [cond EXCEPT !.operator = op, !.values = <<>>]
  <2>1. i \in DOMAIN draft.conditions /\ UNCHANGED <<variants, early>>
    BY <1>6 DEF Form!SetOperator, Form!Change
  <2>2. draft' = [draft EXCEPT !.conditions = [draft.conditions EXCEPT ![i] = c]]
    BY <1>1, <1>6, <2>1 DEF Form!SetOperator, Form!Change
  <2>3. c \in Fit
    BY <1>2, <2>1, EditedFits
  <2> HIDE DEF c
  <2>4. QED
    BY <2>1, <2>2, <2>3, ConditionChanges
<1>7. ASSUME NEW v, Form!SetValues(i, v) PROVE FormInv'
  <2> DEFINE c == [cond EXCEPT !.values = v]
  <2>1. i \in DOMAIN draft.conditions /\ UNCHANGED <<variants, early>>
    BY <1>7 DEF Form!SetValues, Form!Change
  <2>2. draft' = [draft EXCEPT !.conditions = [draft.conditions EXCEPT ![i] = c]]
    BY <1>7 DEF Form!SetValues, Form!Change
  <2>3. v \in IF Form!isSegmentOperator(cond.operator) THEN {<<"segment">>}
              ELSE {<<>>, <<"text">>, <<"text", "text">>}
    BY <1>7 DEF Form!SetValues
  <2>4. c \in Fit
    <3>1. cond \in Fit
      BY <1>2, <2>1
    <3> HIDE DEF cond
    <3>2. QED
      BY <2>3, <3>1, EditedFits
  <2> HIDE DEF c
  <2>5. QED
    BY <2>1, <2>2, <2>4, ConditionChanges
<1>8. QED
  BY <1>3, <1>4, <1>5, <1>6, <1>7

-----------------------------------------------------------------------------
\* An entry whose variant the form knows.
LEMMA NewEntryIsNamed ==
  ASSUME variants \in {<<>>, Keys}, NEW j \in DOMAIN variants, NEW w \in {0, 50, 100}
  PROVE  [variantKey |-> variants[j], weight |-> w] \in Named
<1>1. variants[j] \in Form!KeySet /\ variants[j] # ""
  BY VariantsAreNamed
<1>2. w \in Weights
  BY WeightsAssumption
<1>3. QED
  BY <1>1, <1>2 DEF Named, Form!Entry

\* The switch to a rollout.
LEMMA RolloutStarts ==
  ASSUME FormInv, Form!RolloutOn
  PROVE  FormInv'
<1>1. /\ variants \in {<<>>, Keys} /\ early \in BOOLEAN /\ draft.conditions \in Seq(Fit)
      /\ draft = [conditions |-> draft.conditions, variantKey |-> draft.variantKey,
                  rollout |-> draft.rollout]
  BY DEF FormInv
<1>2. PICK es : /\ draft' = [draft EXCEPT !.variantKey = "", !.rollout = es]
                /\ es = IF Len(variants) >= 2
                        THEN <<[variantKey |-> variants[1], weight |-> 50],
                               [variantKey |-> variants[2], weight |-> 50]>>
                        ELSE <<[variantKey |-> Form!FirstVariant, weight |-> 100]>>
  BY DEF Form!RolloutOn, Form!NoKey
<1>3. early' = (early \/ variants = <<>>) /\ variants' = variants
  BY DEF Form!RolloutOn
<1>4. /\ es \in Seq(Form!Entry) /\ es # <<>>
      /\ variants # <<>> => es \in Seq(Named)
  <2>1. CASE Len(variants) >= 2
    <3>1. 1 \in DOMAIN variants /\ 2 \in DOMAIN variants
      BY <1>1, <2>1, VariantsAreCounted
    <3>2. /\ [variantKey |-> variants[1], weight |-> 50] \in Named
          /\ [variantKey |-> variants[2], weight |-> 50] \in Named
      BY <1>1, <3>1, NewEntryIsNamed
    <3>3. es \in Seq(Named) /\ es # <<>>
      BY <1>2, <2>1, <3>2
    <3>4. Named \subseteq Form!Entry
      BY DEF Named
    <3>5. QED
      BY <3>3, <3>4, MoreSeqs
  <2>2. CASE ~(Len(variants) >= 2)
    <3> DEFINE e == [variantKey |-> Form!FirstVariant, weight |-> 100]
    <3>1. Form!FirstVariant \in Form!KeySet /\ (variants # <<>> => Form!FirstVariant # "")
      BY <1>1, VariantsAreNamed
    <3>2. e \in Form!Entry /\ (variants # <<>> => e \in Named)
      BY <3>1, WeightsAssumption DEF Named, Form!Entry
    <3>3. es = <<e>>
      BY <1>2, <2>2
    <3> HIDE DEF e
    <3>4. QED
      BY <3>2, <3>3
  <2>3. QED
    BY <2>1, <2>2
<1>5. draft' = [conditions |-> draft.conditions, variantKey |-> "", rollout |-> es]
  BY <1>1, <1>2
<1>6. "" \in Form!KeySet
  BY DEF Form!KeySet, Form!NoKey
<1>7. draft'.rollout = es
  BY <1>5
<1>8. QED
  BY <1>1, <1>3, <1>4, <1>5, <1>6, <1>7 DEF FormInv

\* The switch back to one variant, and the choice of another.
LEMMA VariantChanges ==
  ASSUME FormInv, Form!RolloutOff \/ \E i : Form!SelectVariant(i)
  PROVE  FormInv'
<1>1. /\ variants \in {<<>>, Keys} /\ early \in BOOLEAN /\ draft.conditions \in Seq(Fit)
      /\ draft = [conditions |-> draft.conditions, variantKey |-> draft.variantKey,
                  rollout |-> draft.rollout]
  BY DEF FormInv
<1>2. <<>> \in Seq(Form!Entry) /\ <<>> \in Seq(Named)
  BY EmptySeq
<1>3. \E k \in Form!KeySet :
        /\ draft' = [conditions |-> draft.conditions, variantKey |-> k, rollout |-> <<>>]
        /\ early' \in BOOLEAN /\ variants' = variants
        /\ ~early' => k # ""
  <2>1. CASE Form!RolloutOff
    <3>1. /\ draft' = [draft EXCEPT !.rollout = <<>>, !.variantKey = Form!FirstVariant]
          /\ early' = (early \/ variants = <<>>) /\ variants' = variants
      BY <2>1 DEF Form!RolloutOff
    <3>2. Form!FirstVariant \in Form!KeySet /\ (variants # <<>> => Form!FirstVariant # "")
      BY <1>1, VariantsAreNamed
    <3>3. QED
      BY <1>1, <3>1, <3>2
  <2>2. ASSUME NEW i, Form!SelectVariant(i)
        PROVE  \E k \in Form!KeySet :
                 /\ draft' = [conditions |-> draft.conditions, variantKey |-> k, rollout |-> <<>>]
                 /\ early' \in BOOLEAN /\ variants' = variants
                 /\ ~early' => k # ""
    <3>1. /\ i \in DOMAIN variants /\ draft.rollout = <<>>
          /\ draft' = [draft EXCEPT !.variantKey = variants[i]]
          /\ early' = early /\ variants' = variants
      BY <2>2 DEF Form!SelectVariant, Form!Change
    <3>2. variants[i] \in Form!KeySet /\ variants[i] # ""
      BY <1>1, <3>1, VariantsAreNamed
    <3>3. QED
      BY <1>1, <3>1, <3>2
  <2>3. QED
    BY <2>1, <2>2
<1>4. PICK k \in Form!KeySet :
        /\ draft' = [conditions |-> draft.conditions, variantKey |-> k, rollout |-> <<>>]
        /\ early' \in BOOLEAN /\ variants' = variants
        /\ ~early' => k # ""
  BY <1>3
<1>5. draft'.variantKey = k /\ draft'.rollout = <<>>
  BY <1>4
<1>6. QED
  BY <1>1, <1>2, <1>4, <1>5 DEF FormInv

\* A rollout's entries are changed, taken out and added.
LEMMA EntriesKeep ==
  ASSUME FormInv,
         \/ Form!addEntry \/ \E i : Form!removeEntry(i)
         \/ \E i : \E e \in Form!Entry : Form!updateEntry(i, e)
  PROVE  FormInv'
<1>1. /\ variants \in {<<>>, Keys} /\ draft.rollout \in Seq(Form!Entry)
      /\ ~early => draft.rollout \in Seq(Named)
  BY DEF FormInv
<1>2. CASE Form!addEntry
  <2> DEFINE used == {draft.rollout[i].variantKey : i \in DOMAIN draft.rollout}
             unused == {j \in DOMAIN variants : variants[j] \notin used}
             first == CHOOSE j \in unused : \A k \in unused : j <= k
             key == IF unused = {} THEN Form!FirstVariant ELSE variants[first]
             e == [variantKey |-> key, weight |-> 0]
             es == Append(draft.rollout, e)
  <2>1. /\ draft' = [draft EXCEPT !.rollout = es] /\ UNCHANGED <<variants, early>>
        /\ draft.rollout # <<>> /\ Len(draft.rollout) < Len(variants)
    BY <1>2 DEF Form!addEntry, Form!Change
  <2> HIDE DEF used
  <2>2. 1 \in DOMAIN variants /\ DOMAIN variants \subseteq Nat /\ variants # <<>>
    BY <1>1, <2>1, VariantsAreCounted
  <2>3. \E j \in DOMAIN variants : key = variants[j]
    <3>1. CASE unused = {}
      BY <2>2, <3>1 DEF Form!FirstVariant
    <3>2. CASE unused # {}
      <4>1. unused \subseteq Nat
        BY <2>2
      <4>2. unused \subseteq DOMAIN variants
        OBVIOUS
      <4> HIDE DEF unused
      <4>3. first \in unused
        BY <3>2, <4>1, FirstIsOne
      <4>4. QED
        BY <3>2, <4>2, <4>3
    <3>3. QED
      BY <3>1, <3>2
  <2> HIDE DEF key
  <2>4. e \in Named
    BY <1>1, <2>3, NewEntryIsNamed
  <2> HIDE DEF e
  <2>5. /\ es \in Seq(Form!Entry) /\ es # <<>>
        /\ ~early => es \in Seq(Named)
    <3>1. e \in Form!Entry
      BY <2>4 DEF Named
    <3>2. QED
      BY <1>1, <2>4, <3>1
  <2> HIDE DEF es
  <2>6. QED
    BY <2>1, <2>5, EntriesChange
<1>3. ASSUME NEW i, Form!removeEntry(i) PROVE FormInv'
  <2> DEFINE es == Form!RemoveAt(draft.rollout, i)
  <2>1. /\ draft' = [draft EXCEPT !.rollout = es] /\ UNCHANGED <<variants, early>>
        /\ i \in DOMAIN draft.rollout /\ Len(draft.rollout) > 1
    BY <1>3 DEF Form!removeEntry, Form!Change
  <2>2. /\ es \in Seq(Form!Entry)
        /\ ~early => es \in Seq(Named)
    BY <1>1, <2>1, RemovedIsSeq
  <2>3. Len(es) = Len(draft.rollout) - 1
    BY <1>1, <2>1 DEF Form!RemoveAt
  <2>4. es # <<>>
    BY <1>1, <2>1, <2>2, <2>3
  <2> HIDE DEF es
  <2>5. QED
    BY <2>1, <2>2, <2>4, EntriesChange
<1>4. ASSUME NEW i, NEW e \in Form!Entry, Form!updateEntry(i, e) PROVE FormInv'
  <2> DEFINE es == [draft.rollout EXCEPT ![i] = e]
  <2>1. /\ draft' = [draft EXCEPT !.rollout = es] /\ UNCHANGED <<variants, early>>
        /\ i \in DOMAIN draft.rollout
        /\ e.variantKey \in {draft.rollout[i].variantKey} \cup {variants[j] : j \in DOMAIN variants}
    BY <1>4 DEF Form!updateEntry, Form!Change
  <2>2. es \in Seq(Form!Entry) /\ es # <<>>
    <3>1. es \in Seq(Form!Entry)
      BY <1>1, <2>1, ChangedIsSeq
    <3>2. DOMAIN es # {}
      BY <2>1
    <3>3. QED
      BY <3>1, <3>2
  <2>3. ASSUME ~early PROVE es \in Seq(Named)
    <3>1. draft.rollout \in Seq(Named) /\ draft.rollout[i] \in Named
      BY <1>1, <2>1, <2>3
    <3>2. e.variantKey # ""
      BY <1>1, <2>1, <3>1, VariantsAreNamed DEF Named
    <3>3. e \in Named
      BY <3>2 DEF Named
    <3>4. QED
      BY <2>1, <3>1, <3>3, ChangedIsSeq
  <2> HIDE DEF es
  <2>4. QED
    BY <2>1, <2>2, <2>3, EntriesChange
<1>5. QED
  BY <1>2, <1>3, <1>4

LEMMA FormStep ==
  ASSUME FormInv, Form!EditorNext
  PROVE  FormInv'
<1>1. CASE Form!VariantsArrive
  <2>1. variants' = Keys /\ UNCHANGED <<draft, early>>
    BY <1>1 DEF Form!VariantsArrive
  <2>2. QED
    BY <2>1 DEF FormInv
<1>2. QED
  BY <1>1, ConditionsKeep, RolloutStarts, VariantChanges, EntriesKeep DEF Form!EditorNext

\* Whatever is done to a draft in the form, for any variants, weights and number
\* of conditions: the values of each condition stay of the kind its operator
\* reads, and the draft says what to serve unless the form needed the variants
\* before they were there (RuleDraftIsCoherent, rules.tsx 586-608, 712-720, 785-793).
THEOREM DraftStaysCoherent == MCSpec => []RuleDraftIsCoherent
<1> DEFINE Inv == part \in {"page", "form"} /\ (part = "form" => FormInv)
<1>1. MCInit => Inv
  BY FormStarts DEF MCInit
<1>2. ASSUME Inv, [MCNext]_<<part, ruleVars, formVars>> PROVE Inv'
  <2>1. CASE UNCHANGED <<part, variants, draft, early>>
    BY <1>2, <2>1 DEF FormInv
  <2>2. CASE part = "form" /\ Form!EditorNext /\ UNCHANGED part
    BY <1>2, <2>2, FormStep
  <2>3. QED
    BY <1>2, <2>1, <2>2 DEF MCNext, formVars
<1>3. Inv => RuleDraftIsCoherent
  <2> SUFFICES ASSUME FormInv PROVE Form!ValuesFitOperator /\ Form!ServesSomething
    BY DEF RuleDraftIsCoherent
  <2>1. ASSUME NEW i \in DOMAIN draft.conditions PROVE Fits(draft.conditions[i])
    <3>1. draft.conditions \in Seq(Fit)
      BY DEF FormInv
    <3>2. draft.conditions[i] \in Fit
      BY <2>1, <3>1, ElementOfSeq
    <3>3. QED
      BY <3>2 DEF Fit
  <2>2. Form!ValuesFitOperator
    BY <2>1 DEF Form!ValuesFitOperator, Fits
  <2>3. ASSUME ~early, NEW i \in DOMAIN draft.rollout PROVE draft.rollout[i].variantKey # ""
    <3>1. draft.rollout \in Seq(Named)
      BY <2>3 DEF FormInv
    <3>2. draft.rollout[i] \in Named
      BY <2>3, <3>1, ElementOfSeq
    <3>3. QED
      BY <3>2 DEF Named
  <2>4. Form!ServesSomething
    BY <2>3 DEF FormInv, Form!ServesSomething, Form!NoKey
  <2>5. QED
    BY <2>2, <2>4
<1>4. QED
  BY <1>1, <1>2, <1>3, PTL DEF MCSpec

-----------------------------------------------------------------------------
(***************************************************************************)
(* Types of the page. Priorities are compared and counted up, so the next   *)
(* one exists and is one: this needs a largest among finitely many.         *)
(***************************************************************************)
LEMMA LargestExists ==
  ASSUME NEW S, IsFiniteSet(S), S # {}, S \subseteq Int
  PROVE  \E p \in S : \A q \in S : q <= p
<1> DEFINE above(p) == {q \in S : q > p}
           C == {Cardinality(above(p)) : p \in S}
<1>1. ASSUME NEW p \in S PROVE IsFiniteSet(above(p)) /\ Cardinality(above(p)) \in Nat
  <2>1. IsFiniteSet(above(p))
    BY FS_Subset
  <2> HIDE DEF above
  <2>2. QED
    BY <2>1, FS_CardinalityType
<1> HIDE DEF above
<1>2. C \subseteq Nat /\ C # {}
  BY <1>1
<1>3. PICK k \in C : \A l \in C : ~(<<l, k>> \in OpToRel(<, Nat))
  <2> HIDE DEF C
  <2>1. QED
    BY <1>2, NatLessThanWellFounded, WFMin
<1>4. PICK p \in S : k = Cardinality(above(p))
  BY <1>3
<1>5. ASSUME NEW q \in S, q > p PROVE FALSE
  <2>1. above(q) \in SUBSET above(p) /\ q \in above(p) /\ q \notin above(q)
    <3>1. p \in Int /\ q \in Int /\ ~(q > q)
      OBVIOUS
    <3>2. ASSUME NEW r \in S, r > q PROVE r > p
      <4>1. r \in Int
        OBVIOUS
      <4>2. QED
        BY <1>5, <3>1, <3>2, <4>1
    <3>3. QED
      BY <1>5, <3>1, <3>2 DEF above
  <2>2. Cardinality(above(q)) <= Cardinality(above(p)) /\ Cardinality(above(p)) # Cardinality(above(q))
    BY <1>1, <2>1, FS_Subset
  <2>3. Cardinality(above(q)) < k /\ Cardinality(above(q)) \in Nat /\ k \in Nat
    BY <1>1, <1>4, <2>2
  <2>4. <<Cardinality(above(q)), k>> \in OpToRel(<, Nat)
    BY <2>3 DEF OpToRel
  <2>5. Cardinality(above(q)) \in C
    OBVIOUS
  <2>6. QED
    BY <1>3, <2>4, <2>5
<1>6. QED
  BY <1>5

LEMMA PriosAreInts ==
  Prios \subseteq Int /\ (\A p \in Prios : p + 1 \in Prios) /\ \A p \in Nat \ {0} : p \in Prios
<1>1. Typed \subseteq Int
  BY TypedAssumption
<1>2. Prios \subseteq Int
  BY <1>1 DEF Prios
<1>3. ASSUME NEW p \in Int, p > 0 PROVE p \in Prios
  BY <1>3 DEF Prios
<1>4. ASSUME NEW p \in Int, NEW t \in Typed, t < p PROVE p \in Prios
  BY <1>4 DEF Prios
<1>5. ASSUME NEW p \in Prios PROVE p + 1 \in Prios
  <2>1. p \in Int /\ p + 1 \in Int
    BY <1>2
  <2>2. CASE p \in Typed
    <3>1. p < p + 1
      BY <2>1
    <3>2. QED
      BY <1>4, <2>1, <2>2, <3>1
  <2>3. CASE p > 0
    <3>1. p + 1 > 0
      BY <2>1, <2>3
    <3>2. QED
      BY <1>3, <2>1, <3>1
  <2>4. ASSUME NEW t \in Typed, t < p PROVE p + 1 \in Prios
    <3>1. t \in Int
      BY <1>1
    <3>2. t < p + 1
      BY <2>1, <2>4, <3>1
    <3>3. QED
      BY <1>4, <2>1, <3>2
  <2>5. QED
    BY <1>5, <2>2, <2>3, <2>4 DEF Prios
<1>6. ASSUME NEW p \in Nat \ {0} PROVE p \in Prios
  <2>1. p \in Int /\ p > 0
    OBVIOUS
  <2>2. QED
    BY <1>3, <2>1
<1>7. QED
  BY <1>2, <1>5, <1>6

\* The next priority of a table is a priority.
LEMMA NextIsPrio ==
  ASSUME NEW t, IsTable(t)
  PROVE  Blank(t) \in Draft
<1>1. CASE DOMAIN t = {}
  <2>1. nextPriority(t) = 1
    BY <1>1 DEF nextPriority
  <2>2. nextPriority(t) \in Prios
    BY <2>1, PriosAreInts
  <2>3. QED
    BY <2>2 DEF Blank, Draft
<1>2. CASE DOMAIN t # {}
  <2> DEFINE S == {t[i] : i \in DOMAIN t}
             f == [i \in DOMAIN t |-> t[i]]
             p == CHOOSE p \in S : \A i \in DOMAIN t : t[i] <= p
  <2>1. S \subseteq Prios /\ S # {}
    BY <1>2 DEF IsTable
  <2>2. IsFiniteSet(S)
    <3>1. IsFiniteSet(DOMAIN t)
      BY IdsAssumption, FS_Subset DEF IsTable
    <3>2. f \in [DOMAIN t -> S] /\ \A x \in S : \E i \in DOMAIN t : f[i] = x
      OBVIOUS
    <3> HIDE DEF f, S
    <3>3. QED
      BY <3>1, <3>2, FiniteImage
  <2>3. \E x \in S : \A y \in S : y <= x
    <3> HIDE DEF S
    <3>1. QED
      BY <2>1, <2>2, PriosAreInts, LargestExists
  <2>4. \E x \in S : \A i \in DOMAIN t : t[i] <= x
    BY <2>3
  <2>5. p \in S
    BY <2>4
  <2>6. nextPriority(t) = 1 + p
    BY <1>2 DEF nextPriority
  <2> HIDE DEF p, S
  <2>7. p \in Prios /\ p \in Int
    BY <2>1, <2>5, PriosAreInts
  <2>8. 1 + p = p + 1 /\ p + 1 \in Prios
    BY <2>7, PriosAreInts
  <2>9. QED
    BY <2>6, <2>8 DEF Blank, Draft
<1>3. QED
  BY <1>1, <1>2

\* A drag gives every rule on display a place, counted from 1.
LEMMA ReorderedIsTable ==
  ASSUME NEW t, IsTable(t), NEW p \in Places(t), NEW a \in DOMAIN t, NEW b \in DOMAIN t
  PROVE  IsTable(Reordered(p, a, b)) /\ DOMAIN Reordered(p, a, b) = DOMAIN t
<1> DEFINE n == Cardinality(DOMAIN t)
           r == Reordered(p, a, b)
<1>1. IsFiniteSet(DOMAIN t)
  BY IdsAssumption, FS_Subset DEF IsTable
<1>2. n \in Nat
  BY <1>1, FS_CardinalityType
<1>3. p \in [DOMAIN t -> 1 .. n]
  BY DEF Places
<1> HIDE DEF n
<1>4. DOMAIN r = DOMAIN t
  BY <1>3 DEF Reordered
<1>5. ASSUME NEW i \in DOMAIN t PROVE r[i] \in Nat \ {0}
  <2>1. p[a] \in Nat \ {0} /\ p[b] \in Nat \ {0} /\ p[i] \in Nat \ {0}
    BY <1>2, <1>3
  <2>2. r[i] = CASE i = a -> p[b]
                 [] p[a] < p[i] /\ p[i] <= p[b] -> p[i] - 1
                 [] p[b] <= p[i] /\ p[i] < p[a] -> p[i] + 1
                 [] OTHER -> p[i]
    BY <1>3 DEF Reordered
  <2> DEFINE x == p[a]
             y == p[b]
             z == p[i]
             v == r[i]
  <2>3. /\ i = a => v = y \/ v \in {z, z - 1, z + 1}
        /\ i # a /\ x < z /\ z <= y => v = z - 1 \/ v = z + 1
        /\ i # a /\ ~(x < z /\ z <= y) => v \in {z, z + 1}
        /\ x < z /\ z <= y => ~(y <= z /\ z < x)
    <3>1. ~((x < z /\ z <= y) /\ (y <= z /\ z < x))
      BY <2>1
    <3>2. i = a => ~(x < z) /\ ~(z < x)
      BY <2>1
    <3>3. QED
      BY <2>1, <2>2, <3>1, <3>2
  <2>4. CASE i = a
    <3>1. ~(x < z) /\ ~(z < x)
      BY <2>1, <2>4
    <3>2. v = y
      BY <2>2, <2>4, <3>1
    <3>3. QED
      BY <2>1, <3>2
  <2>5. CASE i # a /\ (x < z /\ z <= y)
    <3>1. ~(y <= z /\ z < x)
      BY <2>1, <2>5
    <3>2. v = z - 1
      BY <2>2, <2>5, <3>1
    <3>3. QED
      BY <2>1, <2>5, <3>2
  <2>6. CASE i # a /\ ~(x < z /\ z <= y)
    BY <2>1, <2>3, <2>6
  <2>7. QED
    BY <2>4, <2>5, <2>6
<1> HIDE DEF r
<1>6. \A i \in DOMAIN t : r[i] \in Prios
  BY <1>5, PriosAreInts
<1>7. QED
  BY <1>4, <1>6 DEF IsTable, r

-----------------------------------------------------------------------------
QueryTyped(q) ==
  /\ DOMAIN q = {"data", "err", "net", "snap"}
  /\ MayBeTable(q.data) /\ MayBeTable(q.snap)
  /\ q.err \in BOOLEAN /\ q.net \in {"idle", "sent", "answered"}

CallTyped(c) ==
  /\ DOMAIN c = {"n", "arg", "st", "from"} /\ c.n \in Nat
  /\ c.st \in {"sent", "checked", "applied", "refused"} /\ c.from \in {"here", "gone"}
  /\ c.arg \in Body

LEMMA TypeParts ==
  TypeOK <=>
    /\ IsTable(rules) /\ gone \subseteq Ids /\ QueryTyped(query)
    /\ MayBeTable(order) /\ MayBeTable(dropped)
    /\ row \in [Ids -> Row] /\ new \in Draft \cup {NoData}
    /\ \A c \in calls : CallTyped(c)
    /\ latest \in [{"update", "delete"} -> Nat]
    /\ missed \in BOOLEAN /\ raced \in BOOLEAN /\ asked \in 0 .. MaxRequests
BY DEF TypeOK, QueryTyped, CallTyped

LEMMA QueriesTyped ==
  ASSUME NEW q, QueryTyped(q)
  PROVE  /\ QueryTyped(Start(q)) /\ QueryTyped(Invalidate(q)) /\ QueryTyped(Fetch(q))
         /\ QueryTyped(Arrive(q))
         /\ \A v : MayBeTable(v) => QueryTyped(Answer(q, v))
<1>0. MayBeTable(NoData)
  BY DEF MayBeTable
<1>1. QueryTyped(Start(q))
  BY <1>0 DEF Start, QueryTyped
<1>2. QueryTyped(Invalidate(q)) /\ QueryTyped(Fetch(q))
  BY <1>1 DEF Invalidate, Fetch
<1>3. QueryTyped(Arrive(q))
  BY <1>0 DEF Arrive, QueryTyped
<1>4. ASSUME NEW v, MayBeTable(v) PROVE QueryTyped(Answer(q, v))
  BY <1>4 DEF Answer, QueryTyped
<1>5. QED
  BY <1>1, <1>2, <1>3, <1>4

\* What is on display is a table, of no rules if nothing is.
LEMMA ListedIsTable ==
  ASSUME NEW q, QueryTyped(q), NEW o, MayBeTable(o)
  PROVE  IsTable(Listed(q, o))
<1>1. CASE ~Shown(q)
  <2>1. Listed(q, o) = <<>>
    BY <1>1 DEF Listed
  <2>2. QED
    BY <2>1 DEF IsTable
<1>2. CASE Shown(q)
  <2>1. q.data # NoData /\ IsTable(q.data)
    BY <1>2 DEF Shown, QueryTyped, MayBeTable
  <2>2. CASE o # NoData
    BY <1>2, <2>2 DEF Listed, MayBeTable
  <2>3. CASE o = NoData
    BY <1>2, <2>1, <2>3 DEF Listed
  <2>4. QED
    BY <2>2, <2>3
<1>3. QED
  BY <1>1, <1>2

LEMMA IdleIsRow == Idle \in Row
BY DEF Idle, Row

\* What a render leaves of the rows and the requests.
LEMMA ShowTyped ==
  ASSUME row \in [Ids -> Row], NEW cs, \A c \in cs : CallTyped(c), NEW q, NEW o, Show(q, o, cs)
  PROVE  /\ query' = q /\ order' = o /\ row' \in [Ids -> Row]
         /\ \A c \in calls' : CallTyped(c)
<1>1. row' = [i \in Ids |-> IF i \in DOMAIN Listed(q, o) THEN row[i] ELSE Idle]
  BY DEF Show
<1>2. row' \in [Ids -> Row]
  BY <1>1, IdleIsRow
<1>3. ASSUME NEW d \in calls' PROVE CallTyped(d)
  <2>1. PICK c \in cs : d = IF c.arg.op = "update" /\ c.arg.id \notin DOMAIN Listed(q, o)
                            THEN [c EXCEPT !.from = "gone"] ELSE c
    BY <1>3 DEF Show
  <2>2. CallTyped(c) /\ CallTyped([c EXCEPT !.from = "gone"])
    BY DEF CallTyped
  <2>3. QED
    BY <2>1, <2>2
<1>4. QED
  BY <1>2, <1>3 DEF Show

LEMMA SentTyped ==
  ASSUME CallsOK(calls), NEW a \in Body
  PROVE  CallTyped(Sent(Free(calls), a)) /\ Free(calls) \in Nat
<1>1. Free(calls) \in Nat
  BY FreeIsFresh DEF CallsOK
<1>2. QED
  BY <1>1 DEF CallTyped, Sent

LEMMA StageTyped ==
  ASSUME \A c \in calls : CallTyped(c), NEW c \in calls,
         NEW st \in {"checked", "applied", "refused"}, Becomes(c, st)
  PROVE  \A d \in calls' : CallTyped(d)
<1>1. CallTyped([c EXCEPT !.st = st])
  BY DEF CallTyped
<1>2. QED
  BY <1>1 DEF Becomes

\* What is typed into rows and the new rule.
LEMMA TypingTyped ==
  ASSUME TypeOK, Typing \/ UNCHANGED ruleVars
  PROVE  TypeOK'
<1>1. IsTable(shown) /\ row \in [Ids -> Row] /\ new \in Draft \cup {NoData}
  BY TypeParts, ListedIsTable DEF shown
<1>2. ASSUME NEW i \in Ids, NEW mode, NEW d, SetRow(i, mode, d), [mode |-> mode, draft |-> d] \in Row
      PROVE  row' \in [Ids -> Row]
  BY <1>1, <1>2 DEF SetRow
<1>3. ASSUME row' \in [Ids -> Row], new' \in Draft \cup {NoData},
             UNCHANGED <<rules, gone, query, order, calls, latest, dropped, missed, raced, asked>>
      PROVE  TypeOK'
  BY <1>3 DEF TypeOK
<1>4. ASSUME NEW i \in Ids, startEdit(i) PROVE TypeOK'
  <2> DEFINE d == [prio |-> shown[i], ok |-> TRUE]
  <2>1. d \in Draft
    BY <1>1, <1>4 DEF startEdit, IsTable, Draft
  <2>2. SetRow(i, "edit", d)
    BY <1>4 DEF startEdit
  <2> HIDE DEF d
  <2>3. [mode |-> "edit", draft |-> d] \in Row
    BY <2>1 DEF Row
  <2>4. row' \in [Ids -> Row]
    BY <1>2, <2>2, <2>3
  <2>5. QED
    BY <1>1, <1>3, <1>4, <2>4 DEF startEdit
<1>5. ASSUME NEW i \in Ids, NEW p \in Typed, Edit(i, p) PROVE TypeOK'
  <2> DEFINE d == [row[i].draft EXCEPT !.prio = p]
  <2>1. row[i].draft \in Draft
    BY <1>1, <1>5 DEF Edit, Row
  <2>2. d \in Draft
    BY <2>1 DEF Draft, Prios
  <2>3. SetRow(i, "edit", d)
    BY <1>5 DEF Edit
  <2> HIDE DEF d
  <2>4. [mode |-> "edit", draft |-> d] \in Row
    BY <2>2 DEF Row
  <2>5. row' \in [Ids -> Row]
    BY <1>2, <2>3, <2>4
  <2>6. QED
    BY <1>1, <1>3, <1>5, <2>5 DEF Edit
<1>6. ASSUME NEW i \in Ids, cancelEdit(i) \/ AskDelete(i) \/ KeepRule(i) PROVE TypeOK'
  <2>1. PICK mode \in {"view", "confirm"} : SetRow(i, mode, NoData)
    BY <1>6 DEF cancelEdit, AskDelete, KeepRule
  <2>2. [mode |-> mode, draft |-> NoData] \in Row
    BY DEF Row
  <2>3. row' \in [Ids -> Row]
    BY <1>2, <2>1, <2>2
  <2>4. QED
    BY <1>1, <1>3, <1>6, <2>3 DEF cancelEdit, AskDelete, KeepRule
<1>7. CASE AddRule
  BY <1>1, <1>3, <1>7, NextIsPrio DEF AddRule
<1>8. CASE EditNew
  <2>1. new \in Draft
    BY <1>1, <1>8 DEF EditNew
  <2>2. new' \in Draft
    BY <1>8, <2>1 DEF EditNew, Draft
  <2>3. QED
    BY <1>1, <1>3, <1>8, <2>2 DEF EditNew
<1>9. CASE CancelNew
  BY <1>1, <1>3, <1>9 DEF CancelNew
<1>10. CASE UNCHANGED ruleVars
  BY <1>10 DEF ruleVars, TypeOK
<1>11. QED
  BY <1>4, <1>5, <1>6, <1>7, <1>8, <1>9, <1>10 DEF Typing

\* What is asked for.
LEMMA AskingTyped ==
  ASSUME PageInv, TypeOK, Asking
  PROVE  TypeOK'
<1>0. /\ IsTable(rules) /\ gone \subseteq Ids /\ QueryTyped(query)
      /\ MayBeTable(order) /\ row \in [Ids -> Row] /\ new \in Draft \cup {NoData}
      /\ \A c \in calls : CallTyped(c)
      /\ latest \in [{"update", "delete"} -> Nat]
      /\ missed \in BOOLEAN /\ raced \in BOOLEAN /\ asked \in 0 .. MaxRequests
  BY TypeParts
<1>1. ASSUME NEW op, NEW id, NEW d, Send(op, id, d), [op |-> op, id |-> id, draft |-> d] \in Body,
             UNCHANGED <<rules, gone, query, order, new, missed, raced>>,
             row' \in [Ids -> Row], latest' \in [{"update", "delete"} -> Nat]
      PROVE  TypeOK'
  <2> DEFINE a == [op |-> op, id |-> id, draft |-> d]
  <2>1. calls' = calls \cup {Sent(Free(calls), a)} /\ dropped' = NoData
    BY <1>1 DEF Send
  <2>2. asked' \in 0 .. MaxRequests
    BY <1>0, <1>1, TypedAssumption DEF Send
  <2>3. a \in Body
    BY <1>1
  <2> HIDE DEF a
  <2>4. \A c \in calls' : CallTyped(c)
    BY <1>0, <2>1, <2>3, SentTyped DEF PageInv
  <2>5. MayBeTable(dropped')
    BY <2>1 DEF MayBeTable
  <2>6. TypeOK'
    BY <1>0, <1>1, <2>2, <2>4, <2>5 DEF TypeOK, QueryTyped, CallTyped
  <2>7. QED
    BY <2>6
<1>2. Free(calls) \in Nat
  BY FreeIsFresh DEF PageInv, CallsOK
<1>3. ASSUME NEW i \in Ids, handleUpdate(i) PROVE TypeOK'
  <2>1. row[i].draft \in Draft
    BY <1>0, <1>3 DEF handleUpdate, Row
  <2>2. [op |-> "update", id |-> i, draft |-> row[i].draft] \in Body
    BY <2>1 DEF Body
  <2>3. latest' \in [{"update", "delete"} -> Nat] /\ row' = row
    BY <1>0, <1>2, <1>3 DEF handleUpdate
  <2>4. /\ Send("update", i, row[i].draft)
        /\ UNCHANGED <<rules, gone, query, order, new, missed, raced>>
    BY <1>3 DEF handleUpdate
  <2>5. QED
    BY <1>0, <1>1, <2>2, <2>3, <2>4
<1>4. ASSUME NEW i \in Ids, confirmDelete(i) PROVE TypeOK'
  <2>1. [op |-> "delete", id |-> i, draft |-> NoData] \in Body
    BY DEF Body
  <2>2. latest' \in [{"update", "delete"} -> Nat]
    BY <1>0, <1>2, <1>4 DEF confirmDelete
  <2>3. row' \in [Ids -> Row]
    <3>1. row' = [row EXCEPT ![i] = Idle]
      BY <1>4 DEF confirmDelete, SetRow, Idle
    <3>2. QED
      BY <1>0, <3>1, IdleIsRow
  <2>4. /\ Send("delete", i, NoData)
        /\ UNCHANGED <<rules, gone, query, order, new, missed, raced>>
    BY <1>4 DEF confirmDelete
  <2>5. QED
    BY <1>1, <2>1, <2>2, <2>3, <2>4
<1>5. CASE handleAdd
  <2>1. new \in Draft
    BY <1>0, <1>5 DEF handleAdd
  <2>2. [op |-> "create", id |-> NoData, draft |-> new] \in Body
    BY <2>1 DEF Body
  <2>3. /\ Send("create", NoData, new) /\ row' = row /\ latest' = latest
        /\ UNCHANGED <<rules, gone, query, order, new, missed, raced>>
    BY <1>5 DEF handleAdd
  <2>4. QED
    BY <1>0, <1>1, <2>2, <2>3
<1>6. QED
  BY <1>3, <1>4, <1>5 DEF Asking

LEMMA DragTyped ==
  ASSUME PageInv, TypeOK, NEW a \in Ids, NEW b \in Ids, handleDragEnd(a, b)
  PROVE  TypeOK'
<1>0. /\ IsTable(rules) /\ gone \subseteq Ids /\ QueryTyped(query)
      /\ MayBeTable(order) /\ row \in [Ids -> Row] /\ new \in Draft \cup {NoData}
      /\ \A c \in calls : CallTyped(c)
      /\ latest \in [{"update", "delete"} -> Nat]
      /\ missed \in BOOLEAN /\ raced \in BOOLEAN /\ asked \in 0 .. MaxRequests
  BY TypeParts
<1>1. PICK p \in Places(shown) :
        LET updated == Reordered(p, a, b)
            changed == {i \in DOMAIN updated \cap DOMAIN query.data : query.data[i] # updated[i]}
            patch(i) == [op |-> "reorder", id |-> i, draft |-> [prio |-> updated[i], ok |-> FALSE]]
        IN /\ IF changed = {} THEN Show(Invalidate(query), NoData, calls)
              ELSE Show(query, updated, calls \cup {Sent(Free(calls), patch(i)) : i \in changed})
           /\ dropped' = updated
  BY DEF handleDragEnd
<1> DEFINE updated == Reordered(p, a, b)
           changed == {i \in DOMAIN updated \cap DOMAIN query.data : query.data[i] # updated[i]}
           patch(i) == [op |-> "reorder", id |-> i, draft |-> [prio |-> updated[i], ok |-> FALSE]]
           all == calls \cup {Sent(Free(calls), patch(i)) : i \in changed}
<1>2. /\ {a, b} \subseteq DOMAIN shown /\ UNCHANGED <<rules, gone, new, latest, missed, raced>>
      /\ asked < MaxRequests /\ asked' = asked + 1
  BY DEF handleDragEnd
<1>3. IsTable(shown)
  BY <1>0, ListedIsTable DEF shown
<1>4. IsTable(updated)
  BY <1>2, <1>3, ReorderedIsTable
<1>5. ASSUME NEW c \in all PROVE CallTyped(c)
  <2>1. CASE c \in calls
    BY <1>0, <2>1
  <2>2. ASSUME NEW i \in changed, c = Sent(Free(calls), patch(i)) PROVE CallTyped(c)
    <3>1. i \in Ids /\ updated[i] \in Prios
      BY <1>4, <2>2 DEF IsTable
    <3> HIDE DEF updated, changed
    <3>2. patch(i) \in Body
      BY <3>1 DEF Body, Draft
    <3> HIDE DEF patch
    <3>3. QED
      BY <2>2, <3>2, SentTyped DEF PageInv
  <2>3. QED
    BY <1>5, <2>1, <2>2
<1>6. /\ IF changed = {} THEN Show(Invalidate(query), NoData, calls) ELSE Show(query, updated, all)
      /\ dropped' = updated
  BY <1>1
<1> HIDE DEF updated, changed, all
<1>7. QueryTyped(query') /\ MayBeTable(order') /\ row' \in [Ids -> Row] /\ \A c \in calls' : CallTyped(c)
  <2>1. CASE Show(Invalidate(query), NoData, calls)
    <3>1. MayBeTable(NoData)
      BY DEF MayBeTable
    <3>2. QED
      BY <1>0, <2>1, <3>1, ShowTyped, QueriesTyped
  <2>2. CASE Show(query, updated, all)
    <3>1. MayBeTable(updated)
      BY <1>4 DEF MayBeTable
    <3>2. QED
      BY <1>0, <1>5, <2>2, <3>1, ShowTyped
  <2>3. QED
    BY <1>6, <2>1, <2>2
<1>8. asked' \in 0 .. MaxRequests
  BY <1>0, <1>2, TypedAssumption
<1>9. MayBeTable(dropped')
  BY <1>4, <1>6 DEF MayBeTable
<1>10. QED
  BY <1>0, <1>2, <1>7, <1>8, <1>9 DEF TypeOK, QueryTyped, CallTyped

\* What the server does with a request.
LEMMA ServerTyped ==
  ASSUME PageInv, TypeOK, NEW c \in calls,
         CheckRule(c) \/ Refuse(c) \/ Fail(c) \/ WriteRule(c) \/ DeleteRule(c)
  PROVE  TypeOK'
<1>0. /\ IsTable(rules) /\ gone \subseteq Ids /\ QueryTyped(query)
      /\ MayBeTable(order) /\ MayBeTable(dropped) /\ row \in [Ids -> Row] /\ new \in Draft \cup {NoData}
      /\ \A d \in calls : CallTyped(d)
      /\ latest \in [{"update", "delete"} -> Nat]
      /\ missed \in BOOLEAN /\ raced \in BOOLEAN /\ asked \in 0 .. MaxRequests
  BY TypeParts
<1>1. ASSUME NEW st \in {"checked", "applied", "refused"}, Becomes(c, st),
             UNCHANGED <<query, order, row, new, latest, missed, asked>>,
             IsTable(rules'), gone' \subseteq Ids, MayBeTable(dropped'), raced' \in BOOLEAN
      PROVE  TypeOK'
  <2>1. \A d \in calls' : CallTyped(d)
    BY <1>0, <1>1, StageTyped
  <2>2. QED
    BY <1>0, <1>1, <2>1 DEF TypeOK, QueryTyped, CallTyped
<1>2. CASE CheckRule(c)
  BY <1>0, <1>1, <1>2 DEF CheckRule
<1>3. CASE Refuse(c)
  BY <1>0, <1>1, <1>3 DEF Refuse
<1>4. CASE Fail(c)
  <2>1. MayBeTable(NoData)
    BY DEF MayBeTable
  <2>2. QED
    BY <1>0, <1>1, <1>4, <2>1 DEF Fail
<1>5. CASE WriteRule(c)
  <2>1. c.arg \in Body /\ c.arg.op \in {"create", "update"}
    <3>1. CallOK(c) /\ c.st = "checked"
      BY <1>5 DEF PageInv, CallsOK, WriteRule
    <3>2. QED
      BY <1>0, <3>1 DEF CallOK, CallTyped
  <2>2. c.arg.draft \in Draft /\ (c.arg.op = "update" => c.arg.id \in Ids)
    BY <2>1 DEF Body
  <2>3. PICK i \in IF c.arg.op = "update" THEN {c.arg.id} ELSE Ids \ (DOMAIN rules \cup gone) :
          rules' = [j \in DOMAIN rules \cup {i} |-> IF j = i THEN c.arg.draft.prio ELSE rules[j]]
    BY <1>5 DEF WriteRule
  <2>4. i \in Ids /\ c.arg.draft.prio \in Prios
    BY <2>2, <2>3 DEF Draft
  <2>5. IsTable(rules')
    BY <1>0, <2>3, <2>4 DEF IsTable
  <2>6. raced' \in BOOLEAN
    BY <1>5 DEF WriteRule
  <2>7. QED
    BY <1>0, <1>1, <1>5, <2>5, <2>6 DEF WriteRule
<1>6. CASE DeleteRule(c)
  <2>1. c.arg.id \in Ids
    BY <1>0, <1>6 DEF DeleteRule, IsTable
  <2>2. IsTable(rules')
    BY <1>0, <1>6 DEF DeleteRule, IsTable
  <2>3. QED
    BY <1>0, <1>1, <1>6, <2>1, <2>2 DEF DeleteRule
<1>7. QED
  BY <1>2, <1>3, <1>4, <1>5, <1>6

\* What a reply does to the page.
LEMMA ReplyTyped ==
  ASSUME TypeOK, NEW c \in calls, SuccessReply(c) \/ ErrorReply(c) \/ DragReply(c)
  PROVE  TypeOK'
<1>0. /\ IsTable(rules) /\ gone \subseteq Ids /\ QueryTyped(query)
      /\ MayBeTable(order) /\ MayBeTable(dropped) /\ row \in [Ids -> Row] /\ new \in Draft \cup {NoData}
      /\ \A d \in calls : CallTyped(d)
      /\ latest \in [{"update", "delete"} -> Nat]
      /\ missed \in BOOLEAN /\ raced \in BOOLEAN /\ asked \in 0 .. MaxRequests
      /\ MayBeTable(NoData)
  BY TypeParts DEF MayBeTable
<1>1. ASSUME QueryTyped(query'), MayBeTable(order'), MayBeTable(dropped'), row' \in [Ids -> Row],
             new' \in Draft \cup {NoData}, \A d \in calls' : CallTyped(d),
             latest' \in [{"update", "delete"} -> Nat], missed' \in BOOLEAN,
             UNCHANGED <<rules, gone, raced, asked>>
      PROVE  TypeOK'
  BY <1>0, <1>1 DEF TypeOK, QueryTyped, CallTyped
<1>2. ASSUME Quiet(c) PROVE latest' \in [{"update", "delete"} -> Nat]
  BY <1>0, <1>2 DEF Quiet
<1>3. CASE SuccessReply(c)
  <2>1. row' \in [Ids -> Row]
    <3>1. row' = row \/ row' = [row EXCEPT ![c.arg.id] = Idle]
      BY <1>3 DEF SuccessReply
    <3>2. QED
      BY <1>0, <3>1, IdleIsRow
  <2>2. QueryTyped(query')
    BY <1>0, <1>3, QueriesTyped DEF SuccessReply
  <2>3. new' \in Draft \cup {NoData} /\ \A d \in calls' : CallTyped(d)
    BY <1>0, <1>3 DEF SuccessReply
  <2>4. QED
    BY <1>0, <1>1, <1>2, <1>3, <2>1, <2>2, <2>3 DEF SuccessReply
<1>4. CASE ErrorReply(c)
  <2>1. missed' \in BOOLEAN /\ MayBeTable(dropped') /\ \A d \in calls' : CallTyped(d)
    BY <1>0, <1>4 DEF ErrorReply
  <2>2. QED
    BY <1>0, <1>1, <1>2, <1>4, <2>1 DEF ErrorReply
<1>5. CASE DragReply(c)
  <2>1. PICK ok \in {Succeeded(c), FALSE} :
          LET others == {d \in calls \ {c} : d.n = c.n}
              done == ok /\ c.from = "here" /\ others = {}
              failed == ~ok /\ c.from = "here"
          IN /\ Show(IF done THEN Invalidate(query) ELSE query,
                     IF done \/ failed THEN NoData ELSE order,
                     IF failed THEN (calls \ ({c} \cup others)) \cup Unmounted(others)
                               ELSE calls \ {c})
             /\ missed' = (missed \/ (Succeeded(c) /\ ~done))
    BY <1>5 DEF DragReply
  <2> DEFINE others == {d \in calls \ {c} : d.n = c.n}
             done == ok /\ c.from = "here" /\ others = {}
             failed == ~ok /\ c.from = "here"
             q == IF done THEN Invalidate(query) ELSE query
             o == IF done \/ failed THEN NoData ELSE order
             cs == IF failed THEN (calls \ ({c} \cup others)) \cup Unmounted(others)
                             ELSE calls \ {c}
  <2>2. Show(q, o, cs) /\ missed' \in BOOLEAN
    BY <2>1
  <2>3. QueryTyped(q) /\ MayBeTable(o)
    BY <1>0, QueriesTyped
  <2>4. \A d \in cs : CallTyped(d)
    <3>1. others \subseteq calls
      OBVIOUS
    <3> HIDE DEF others
    <3>2. \A d \in Unmounted(others) : CallTyped(d)
      <4>1. \A d \in others : CallTyped([d EXCEPT !.from = "gone"])
        BY <1>0, <3>1 DEF CallTyped
      <4>2. QED
        BY <4>1 DEF Unmounted
    <3>3. QED
      BY <1>0, <3>2
  <2> HIDE DEF q, o, cs
  <2>5. /\ query' = q /\ order' = o /\ row' \in [Ids -> Row]
        /\ \A d \in calls' : CallTyped(d)
    BY <1>0, <2>2, <2>4, ShowTyped
  <2>6. UNCHANGED <<rules, gone, new, latest, dropped, raced, asked>>
    BY <1>5 DEF DragReply
  <2>7. QED
    BY <1>0, <1>1, <2>2, <2>3, <2>5, <2>6
<1>6. QED
  BY <1>3, <1>4, <1>5

\* What answers and refreshes do.
LEMMA ListTyped ==
  ASSUME TypeOK, ServeList \/ ListArrives \/ Focus
  PROVE  TypeOK'
<1>0. /\ IsTable(rules) /\ gone \subseteq Ids /\ QueryTyped(query)
      /\ MayBeTable(order) /\ MayBeTable(dropped) /\ row \in [Ids -> Row] /\ new \in Draft \cup {NoData}
      /\ \A d \in calls : CallTyped(d)
      /\ latest \in [{"update", "delete"} -> Nat]
      /\ missed \in BOOLEAN /\ raced \in BOOLEAN /\ asked \in 0 .. MaxRequests
      /\ MayBeTable(NoData) /\ MayBeTable(rules)
  BY TypeParts DEF MayBeTable
<1>1. ASSUME QueryTyped(query'), order' = order, row' \in [Ids -> Row],
             new' \in Draft \cup {NoData}, \A d \in calls' : CallTyped(d),
             UNCHANGED <<rules, gone, latest, dropped, missed, raced, asked>>
      PROVE  TypeOK'
  BY <1>0, <1>1 DEF TypeOK, QueryTyped, CallTyped
<1>2. CASE ServeList
  <2>1. PICK v \in {rules, NoData} : query' = Answer(query, v)
    BY <1>2 DEF ServeList
  <2>2. QueryTyped(query')
    BY <1>0, <2>1, QueriesTyped
  <2>3. QED
    BY <1>0, <1>1, <1>2, <2>2 DEF ServeList
<1>3. CASE Focus
  <2>1. QueryTyped(query')
    BY <1>0, <1>3, QueriesTyped DEF Focus
  <2>2. QED
    BY <1>0, <1>1, <1>3, <2>1 DEF Focus
<1>4. CASE ListArrives
  <2>1. /\ query' = Arrive(query) /\ order' = order /\ row' \in [Ids -> Row]
        /\ \A d \in calls' : CallTyped(d)
    <3>1. Show(Arrive(query), order, calls)
      BY <1>4 DEF ListArrives
    <3>2. QED
      BY <1>0, <3>1, ShowTyped
  <2>2. QueryTyped(query')
    BY <1>0, <2>1, QueriesTyped
  <2>3. Blank(<<>>) \in Draft /\ Blank(Listed(query', order)) \in Draft
    <3>1. IsTable(<<>>)
      BY DEF IsTable
    <3>2. IsTable(Listed(query', order))
      BY <1>0, <2>2, ListedIsTable
    <3>3. QED
      BY <3>1, <3>2, NextIsPrio
  <2>4. new' \in {Blank(<<>>), Blank(Listed(query', order)), new}
    BY <1>4 DEF ListArrives
  <2>5. QED
    BY <1>0, <1>1, <1>4, <2>1, <2>2, <2>3, <2>4 DEF ListArrives
<1>5. QED
  BY <1>2, <1>3, <1>4

LEMMA TypeStep ==
  ASSUME PageInv, TypeOK, [RuleNext]_ruleVars
  PROVE  TypeOK'
BY TypingTyped, AskingTyped, DragTyped, ServerTyped, ReplyTyped, ListTyped DEF RuleNext, Typing, Asking

LEMMA TypesStart ==
  ASSUME MCInit
  PROVE  TypeOK
<1>1. /\ IsTable(<<>>) /\ MayBeTable(NoData) /\ [i \in Ids |-> Idle] \in [Ids -> Row]
      /\ [o \in {"update", "delete"} |-> 0] \in [{"update", "delete"} -> Nat]
      /\ 0 \in 0 .. MaxRequests
  BY IdleIsRow, TypedAssumption DEF IsTable, MayBeTable
<1>2. QueryTyped(NoQuery)
  BY <1>1 DEF NoQuery, QueryTyped
<1>3. CASE NoPage
  BY <1>1, <1>2, <1>3 DEF NoPage, TypeOK, QueryTyped
<1>4. CASE Init
  <2>1. QueryTyped(query)
    BY <1>2, <1>4, QueriesTyped DEF Init
  <2>2. IsTable(rules)
    <3>1. PICK S \in SUBSET Ids : rules \in [S -> 1 .. Cardinality(S)]
      BY <1>4 DEF Init
    <3>2. Cardinality(S) \in Nat
      BY IdsAssumption, FS_Subset, FS_CardinalityType
    <3>3. \A i \in S : rules[i] \in Nat \ {0}
      BY <3>1, <3>2
    <3>4. QED
      BY <3>1, <3>3, PriosAreInts DEF IsTable
  <2>3. QED
    BY <1>1, <1>4, <2>1, <2>2 DEF Init, TypeOK, QueryTyped
<1>5. QED
  BY <1>3, <1>4 DEF MCInit

-----------------------------------------------------------------------------
(***************************************************************************)
(* Types of the form: a draft never has more conditions than the bound, nor *)
(* a rollout more entries than the flag has variants.                       *)
(***************************************************************************)
FormSize == Len(draft.conditions) <= MaxConditions /\ Len(draft.rollout) <= Len(Keys)

LEMMA BoundedSeq ==
  ASSUME NEW S, NEW s \in Seq(S), NEW n \in Nat, Len(s) <= n
  PROVE  s \in Form!SeqsOf(S, n)
<1>1. Len(s) \in 0 .. n /\ s \in [1 .. Len(s) -> S]
  OBVIOUS
<1>2. QED
  BY <1>1 DEF Form!SeqsOf

LEMMA KeysAreCounted == Len(Keys) \in Nat /\ Len(Keys) >= 1
<1>1. Keys \in Seq(STRING) /\ Keys # <<>>
  BY KeysAssumption
<1>2. Len(Keys) \in Nat
  BY <1>1, LenProperties
<1>3. Len(Keys) # 0
  BY <1>1, EmptySeq
<1>4. QED
  BY <1>2, <1>3

LEMMA RemovedIsShorter ==
  ASSUME NEW S, NEW s \in Seq(S), NEW i \in DOMAIN s
  PROVE  Len(Form!RemoveAt(s, i)) = Len(s) - 1
<1>1. Len(s) \in Nat /\ i \in 1 .. Len(s)
  OBVIOUS
<1> DEFINE a == SubSeq(s, 1, i - 1)
           b == SubSeq(s, i + 1, Len(s))
<1>2. a \in Seq(S) /\ Len(a) = i - 1
  OBVIOUS
<1>3. b \in Seq(S) /\ Len(b) = Len(s) - i
  OBVIOUS
<1> HIDE DEF a, b
<1>4. Len(a \o b) = Len(a) + Len(b)
  BY <1>2, <1>3, ConcatProperties
<1>5. Len(a \o b) = Len(s) - 1
  BY <1>1, <1>2, <1>3, <1>4
<1>6. QED
  BY <1>5 DEF Form!RemoveAt, a, b

LEMMA FormIsTyped ==
  ASSUME FormInv, FormSize
  PROVE  Form!TypeOK
<1>1. Fit \subseteq Form!Condition
  BY DEF Fit
<1>2. /\ draft.conditions \in Seq(Fit) /\ draft.rollout \in Seq(Form!Entry)
      /\ draft.variantKey \in Form!KeySet
      /\ draft = [conditions |-> draft.conditions, variantKey |-> draft.variantKey,
                  rollout |-> draft.rollout]
  BY DEF FormInv
<1>3. draft.conditions \in Seq(Form!Condition)
  BY <1>1, <1>2, MoreSeqs
<1>4. draft.conditions \in Form!SeqsOf(Form!Condition, MaxConditions)
  BY <1>3, ConditionsAssumption, BoundedSeq DEF FormSize
<1>5. draft.rollout \in Form!SeqsOf(Form!Entry, Len(Keys))
  BY <1>2, KeysAreCounted, BoundedSeq DEF FormSize
<1>6. QED
  BY <1>2, <1>4, <1>5 DEF FormInv, Form!TypeOK

LEMMA SizeStarts == Form!Init => FormSize
<1> SUFFICES ASSUME Form!Init PROVE FormSize
  OBVIOUS
<1>1. draft.rollout = <<>> /\ (draft.conditions = <<>> \/ \E c : draft.conditions = <<c>>)
  BY DEF Form!Init
<1>2. Len(draft.rollout) = 0 /\ Len(draft.conditions) \in {0, 1}
  BY <1>1
<1>3. MaxConditions \in Nat /\ MaxConditions >= 1 /\ Len(Keys) \in Nat
  BY KeysAreCounted, ConditionsAssumption
<1> DEFINE n == Len(draft.conditions)
           m == Len(draft.rollout)
           k == Len(Keys)
<1> HIDE DEF n, m, k
<1>4. n <= MaxConditions /\ m <= k
  <2>1. m = 0 /\ (n = 0 \/ n = 1) /\ k \in Nat
    BY <1>2, <1>3 DEF n, m, k
  <2>2. QED
    BY <1>3, <2>1
<1>5. QED
  BY <1>4 DEF FormSize, n, m, k

\* Conditions, and entries, that are as many as before.
LEMMA ConditionsSized ==
  ASSUME FormInv, FormSize, NEW cs, Len(cs) <= MaxConditions,
         draft' = [draft EXCEPT !.conditions = cs]
  PROVE  FormSize'
<1>1. draft'.conditions = cs /\ draft'.rollout = draft.rollout
  BY DEF FormInv
<1>2. QED
  BY <1>1 DEF FormSize

LEMMA EntriesSized ==
  ASSUME FormInv, FormSize, NEW es, Len(es) <= Len(Keys), NEW k,
         draft' = [draft EXCEPT !.variantKey = k, !.rollout = es]
  PROVE  FormSize'
<1>1. draft'.conditions = draft.conditions /\ draft'.rollout = es
  BY DEF FormInv
<1>2. QED
  BY <1>1 DEF FormSize

LEMMA SizeStep ==
  ASSUME FormInv, FormSize, Form!EditorNext
  PROVE  FormSize'
<1>1. /\ variants \in {<<>>, Keys}
      /\ draft.conditions \in Seq(Fit) /\ draft.rollout \in Seq(Form!Entry)
      /\ draft = [conditions |-> draft.conditions, variantKey |-> draft.variantKey,
                  rollout |-> draft.rollout]
  BY DEF FormInv
<1>2. /\ Len(draft.conditions) \in Nat /\ Len(draft.conditions) <= MaxConditions
      /\ Len(draft.rollout) \in Nat /\ Len(draft.rollout) <= Len(Keys)
      /\ MaxConditions \in Nat /\ Len(Keys) \in Nat /\ Len(Keys) >= 1
  BY <1>1, KeysAreCounted, ConditionsAssumption DEF FormSize
<1>3. Len(variants) \in Nat /\ Len(variants) <= Len(Keys)
  <2>1. CASE variants = <<>>
    <3>1. Len(variants) = 0
      BY <2>1
    <3>2. QED
      BY <1>2, <3>1
  <2>2. CASE variants = Keys
    BY <1>2, <2>2
  <2>3. QED
    BY <1>1, <2>1, <2>2
<1>4. ASSUME NEW i \in DOMAIN draft.conditions, NEW c,
             draft' = [draft EXCEPT !.conditions = [draft.conditions EXCEPT ![i] = c]]
      PROVE  FormSize'
  <2> DEFINE cs == [draft.conditions EXCEPT ![i] = c]
  <2>1. Len(cs) = Len(draft.conditions)
    BY <1>1
  <2> HIDE DEF cs
  <2>2. QED
    BY <1>2, <1>4, <2>1, ConditionsSized DEF cs
<1>5. CASE Form!addCondition
  <2> DEFINE cs == Append(draft.conditions, [attribute |-> FALSE, operator |-> "eq", values |-> <<"text">>])
  <2>1. draft' = [draft EXCEPT !.conditions = cs] /\ Len(draft.conditions) < MaxConditions
    BY <1>5 DEF Form!addCondition, Form!Change
  <2>2. Len(cs) = Len(draft.conditions) + 1
    BY <1>1
  <2>3. Len(cs) <= MaxConditions
    BY <1>2, <2>1, <2>2
  <2> HIDE DEF cs
  <2>4. QED
    BY <2>1, <2>3, ConditionsSized
<1>6. ASSUME NEW i, Form!removeCondition(i) PROVE FormSize'
  <2> DEFINE cs == Form!RemoveAt(draft.conditions, i)
  <2>1. draft' = [draft EXCEPT !.conditions = cs] /\ i \in DOMAIN draft.conditions
    BY <1>6 DEF Form!removeCondition, Form!Change
  <2>2. Len(cs) = Len(draft.conditions) - 1
    BY <1>1, <2>1, RemovedIsShorter
  <2>3. Len(cs) <= MaxConditions
    BY <1>2, <2>2
  <2> HIDE DEF cs
  <2>4. QED
    BY <2>1, <2>3, ConditionsSized
<1>7. ASSUME NEW i, NEW set, Form!SetAttribute(i, set) PROVE FormSize'
  BY <1>4, <1>7 DEF Form!SetAttribute, Form!Change
<1>8. ASSUME NEW i, NEW op, Form!SetOperator(i, op) PROVE FormSize'
  <2> DEFINE c == [draft.conditions[i] EXCEPT !.operator = op, !.values = <<>>]
  <2>1. i \in DOMAIN draft.conditions
    BY <1>8 DEF Form!SetOperator
  <2>2. draft' = [draft EXCEPT !.conditions = [draft.conditions EXCEPT ![i] = c]]
    BY <1>1, <1>8, <2>1 DEF Form!SetOperator, Form!Change
  <2> HIDE DEF c
  <2>3. QED
    BY <1>4, <2>1, <2>2
<1>9. ASSUME NEW i, NEW v, Form!SetValues(i, v) PROVE FormSize'
  BY <1>4, <1>9 DEF Form!SetValues, Form!Change
<1>10. CASE Form!addEntry
  <2> DEFINE used == {draft.rollout[i].variantKey : i \in DOMAIN draft.rollout}
             unused == {j \in DOMAIN variants : variants[j] \notin used}
             first == CHOOSE j \in unused : \A k \in unused : j <= k
             e == [variantKey |-> IF unused = {} THEN Form!FirstVariant ELSE variants[first],
                   weight |-> 0]
             es == Append(draft.rollout, e)
  <2>1. /\ draft' = [draft EXCEPT !.rollout = es] /\ Len(draft.rollout) < Len(variants)
    BY <1>10 DEF Form!addEntry, Form!Change
  <2> HIDE DEF e
  <2>2. Len(es) = Len(draft.rollout) + 1
    BY <1>1
  <2>3. Len(es) <= Len(Keys)
    BY <1>2, <1>3, <2>1, <2>2
  <2> HIDE DEF es
  <2>4. draft' = [draft EXCEPT !.variantKey = draft.variantKey, !.rollout = es]
    BY <1>1, <2>1
  <2>5. QED
    BY <2>3, <2>4, EntriesSized
<1>11. ASSUME NEW i, Form!removeEntry(i) PROVE FormSize'
  <2> DEFINE es == Form!RemoveAt(draft.rollout, i)
  <2>1. draft' = [draft EXCEPT !.rollout = es] /\ i \in DOMAIN draft.rollout
    BY <1>11 DEF Form!removeEntry, Form!Change
  <2>2. Len(es) = Len(draft.rollout) - 1
    BY <1>1, <2>1, RemovedIsShorter
  <2>3. Len(es) <= Len(Keys)
    BY <1>2, <2>2
  <2> HIDE DEF es
  <2>4. draft' = [draft EXCEPT !.variantKey = draft.variantKey, !.rollout = es]
    BY <1>1, <2>1
  <2>5. QED
    BY <2>3, <2>4, EntriesSized
<1>12. ASSUME NEW i, NEW e, Form!updateEntry(i, e) PROVE FormSize'
  <2> DEFINE es == [draft.rollout EXCEPT ![i] = e]
  <2>1. draft' = [draft EXCEPT !.rollout = es] /\ i \in DOMAIN draft.rollout
    BY <1>12 DEF Form!updateEntry, Form!Change
  <2>2. Len(es) = Len(draft.rollout)
    BY <1>1
  <2> HIDE DEF es
  <2>3. draft' = [draft EXCEPT !.variantKey = draft.variantKey, !.rollout = es]
    BY <1>1, <2>1
  <2>4. QED
    BY <1>2, <2>2, <2>3, EntriesSized
<1>13. CASE Form!RolloutOn
  <2>1. PICK es : /\ draft' = [draft EXCEPT !.variantKey = "", !.rollout = es]
                  /\ es = IF Len(variants) >= 2
                          THEN <<[variantKey |-> variants[1], weight |-> 50],
                                 [variantKey |-> variants[2], weight |-> 50]>>
                          ELSE <<[variantKey |-> Form!FirstVariant, weight |-> 100]>>
    BY <1>13 DEF Form!RolloutOn, Form!NoKey
  <2>2. CASE Len(variants) >= 2
    <3>1. Len(es) = 2
      BY <2>1, <2>2
    <3>2. Len(es) <= Len(Keys)
      BY <1>2, <1>3, <2>2, <3>1
    <3>3. QED
      BY <2>1, <3>2, EntriesSized
  <2>3. CASE ~(Len(variants) >= 2)
    <3>1. Len(es) = 1
      BY <2>1, <2>3
    <3>2. Len(es) <= Len(Keys)
      BY <1>2, <3>1
    <3>3. QED
      BY <2>1, <3>2, EntriesSized
  <2>4. QED
    BY <2>2, <2>3
<1>14. CASE Form!RolloutOff
  <2>1. draft' = [draft EXCEPT !.variantKey = Form!FirstVariant, !.rollout = <<>>]
    BY <1>1, <1>14 DEF Form!RolloutOff
  <2>2. Len(<<>>) <= Len(Keys)
    BY <1>2
  <2>3. QED
    BY <2>1, <2>2, EntriesSized
<1>15. ASSUME NEW i, Form!SelectVariant(i) PROVE FormSize'
  <2>1. draft' = [draft EXCEPT !.variantKey = variants[i]]
    BY <1>15 DEF Form!SelectVariant, Form!Change
  <2>2. draft' = [draft EXCEPT !.variantKey = variants[i], !.rollout = draft.rollout]
    BY <1>1, <2>1
  <2>3. QED
    BY <1>2, <2>2, EntriesSized
<1>16. CASE Form!VariantsArrive
  BY <1>16 DEF Form!VariantsArrive, FormSize
<1>17. QED
  BY <1>5, <1>6, <1>7, <1>8, <1>9, <1>10, <1>11, <1>12, <1>13, <1>14, <1>15, <1>16
  DEF Form!EditorNext

\* Whatever is done on the page and in the form, for any rules, priorities and
\* variants: a table lists rules with priorities above 0 or above what was typed,
\* a row has a draft exactly while it is edited, a request has the body its kind
\* needs, and a draft of the form keeps to the bounds and to the flag's variants
\* (DraftsAreWellTyped, rules.tsx 121-203, 540-608).
THEOREM DraftsStayWellTyped == MCSpec => []DraftsAreWellTyped
<1> DEFINE Inv == /\ part \in {"page", "form"} /\ TypeOK
                  /\ part = "page" => PageInv
                  /\ part = "form" => FormInv /\ FormSize
<1>1. MCInit => Inv
  BY TypesStart, PageInit, FormStarts, SizeStarts DEF MCInit
<1>2. ASSUME Inv, [MCNext]_<<part, ruleVars, formVars>> PROVE Inv'
  <2>1. CASE UNCHANGED <<part, ruleVars, formVars>>
    <3>1. TypeOK'
      BY <1>2, <2>1, TypingTyped
    <3>2. part = "page" => PageInv'
      BY <1>2, <2>1, IdsAssumption, PageStep
    <3>3. part = "form" => FormInv' /\ FormSize'
      BY <1>2, <2>1 DEF FormInv, FormSize, formVars
    <3>4. QED
      BY <1>2, <2>1, <3>1, <3>2, <3>3
  <2>2. CASE UNCHANGED part /\ part = "page" /\ RuleNext /\ UNCHANGED formVars
    <3>1. PageInv' /\ TypeOK'
      BY <1>2, <2>2, IdsAssumption, PageStep, TypeStep
    <3>2. QED
      BY <1>2, <2>2, <3>1
  <2>3. CASE UNCHANGED part /\ part = "form" /\ Form!EditorNext /\ UNCHANGED ruleVars
    <3>1. FormInv' /\ FormSize' /\ TypeOK'
      BY <1>2, <2>3, FormStep, SizeStep, TypingTyped
    <3>2. QED
      BY <1>2, <2>3, <3>1
  <2>4. QED
    BY <1>2, <2>1, <2>2, <2>3 DEF MCNext
<1>3. Inv => DraftsAreWellTyped
  BY FormIsTyped DEF DraftsAreWellTyped
<1>4. QED
  BY <1>1, <1>2, <1>3, PTL DEF MCSpec
=============================================================================
