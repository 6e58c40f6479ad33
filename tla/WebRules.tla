------------------------------ MODULE WebRules ------------------------------
(***************************************************************************)
(* The targeting rules of a flag in one environment: the page that lists,   *)
(* adds, edits, deletes and drags rules, and the server's rule service,     *)
(* which keeps the priorities of a flag's rules distinct by reading them    *)
(* before it writes, as two statements.                                     *)
(*                                                                          *)
(* A rule is its priority; of a draft the model also keeps whether it has   *)
(* the conditions and the variant that Rule.Validate demands. What can be   *)
(* typed into the editor is the subject of WebRuleEditor.                   *)
(***************************************************************************)
EXTENDS ReactQuery, Integers, Sequences, TLC

CONSTANTS Ids, Typed, MaxRequests   \* Typed: the priorities a user types

VARIABLES
  rules,     \* the server: the rules there are, by id
  gone,      \* the server: ids that were deleted
  query,     \* query ['rules', slug, env, key]
  order,     \* optimisticOrder, or NoData
  row,       \* per rule: what its row is doing, with the draft of its editor
  new,       \* the draft of the new rule, or NoData
  calls,     \* the requests in flight; those of one drag share a number
  latest,    \* the latest update and the latest deletion if pending, else 0
  dropped,   \* the order of the latest drag, if nothing failed or was asked since
  missed,    \* a success was lost
  raced,     \* a rule was written while another request had read and not yet written
  asked      \* mutations and drags so far

ruleVars == <<rules, gone, query, order, row, new, calls, latest, dropped, missed, raced, asked>>

\* A priority is typed, or above 0 or one that was typed.
Prios == Typed \cup {p \in Int : p > 0 \/ \E t \in Typed : t < p}
Draft == [prio : Prios, ok : BOOLEAN]
IsTable(t) == DOMAIN t \subseteq Ids /\ \A i \in DOMAIN t : t[i] \in Prios
MayBeTable(t) == t = NoData \/ IsTable(t)
Row == [mode : {"view", "confirm"}, draft : {NoData}] \cup [mode : {"edit"}, draft : Draft]
Body == [op : {"create"}, id : {NoData}, draft : Draft]
        \cup [op : {"update", "reorder"}, id : Ids, draft : Draft]
        \cup [op : {"delete"}, id : Ids, draft : {NoData}]
Idle == [mode |-> "view", draft |-> NoData]

TypeOK ==
  /\ IsTable(rules) /\ gone \subseteq Ids
  /\ DOMAIN query = {"data", "err", "net", "snap"}
  /\ MayBeTable(query.data) /\ MayBeTable(query.snap)
  /\ query.err \in BOOLEAN /\ query.net \in {"idle", "sent", "answered"}
  /\ MayBeTable(order) /\ MayBeTable(dropped)
  /\ row \in [Ids -> Row]
  /\ new \in Draft \cup {NoData}
  /\ \A c \in calls :
       /\ DOMAIN c = {"n", "arg", "st", "from"} /\ c.n \in Nat
       /\ c.st \in {"sent", "checked", "applied", "refused"} /\ c.from \in {"here", "gone"}
       /\ c.arg \in Body
  /\ latest \in [{"update", "delete"} -> Nat]
  /\ missed \in BOOLEAN /\ raced \in BOOLEAN /\ asked \in 0 .. MaxRequests

Init ==
  /\ \E S \in SUBSET Ids : \E f \in [S -> 1 .. Cardinality(S)] :
       /\ S # Ids /\ \A a, b \in S : f[a] = f[b] => a = b
       /\ rules = f
  /\ gone = {}
  /\ query = Start(NoQuery)
  /\ order = NoData /\ new = NoData /\ dropped = NoData
  /\ row = [i \in Ids |-> Idle]
  /\ calls = {} /\ latest = [o \in {"update", "delete"} |-> 0]
  /\ missed = FALSE /\ raced = FALSE /\ asked = 0

-----------------------------------------------------------------------------
\* The rules on display: the optimistic order, else the server's.
Listed(q, o) == CASE ~Shown(q) -> <<>> [] Shown(q) /\ o # NoData -> o [] OTHER -> q.data
shown == Listed(query, order)

Send(op, id, draft) ==
  /\ asked < MaxRequests /\ asked' = asked + 1
  /\ dropped' = NoData
  /\ calls' = calls \cup {Sent(Free(calls), [op |-> op, id |-> id, draft |-> draft])}

\* Only the latest request of an observer is its variables and has callbacks.
Pending(op, i) == \E c \in calls : c.n = latest[op] /\ c.arg.id = i

\* The list on display becomes that of q and o: the rows of rules that are not
\* on it are unmounted with their drafts, and all of them by the error block.
Show(q, o, cs) ==
  LET rendered == DOMAIN Listed(q, o)
  IN /\ query' = q /\ order' = o
     /\ row' = [i \in Ids |-> IF i \in rendered THEN row[i] ELSE Idle]
     /\ calls' = {IF c.arg.op = "update" /\ c.arg.id \notin rendered
                  THEN [c EXCEPT !.from = "gone"] ELSE c : c \in cs}

\* Mutant: priorities begin at 0.
nextPriorityFromZero(t) ==
  IF DOMAIN t = {} THEN 0
  ELSE 1 + CHOOSE p \in {t[i] : i \in DOMAIN t} : \A i \in DOMAIN t : t[i] <= p

nextPriority(t) ==
  IF DOMAIN t = {} THEN 1
  ELSE 1 + CHOOSE p \in {t[i] : i \in DOMAIN t} : \A i \in DOMAIN t : t[i] <= p

-----------------------------------------------------------------------------
(* The rows.                                                                *)
SetRow(i, mode, draft) == row' = [row EXCEPT ![i] = [mode |-> mode, draft |-> draft]]

\* The draft is the rule as shown, priority included.
startEdit(i) ==
  /\ i \in DOMAIN shown /\ row[i].mode = "view"
  /\ SetRow(i, "edit", [prio |-> shown[i], ok |-> TRUE])
  /\ UNCHANGED <<rules, gone, query, order, new, calls, latest, dropped, missed, raced, asked>>

\* Only the priority is typed here; a draft that lost its conditions is refused
\* the way that of a new rule is.
Edit(i, p) ==
  /\ i \in DOMAIN shown /\ row[i].mode = "edit" /\ p # row[i].draft.prio
  /\ SetRow(i, "edit", [row[i].draft EXCEPT !.prio = p])
  /\ UNCHANGED <<rules, gone, query, order, new, calls, latest, dropped, missed, raced, asked>>

cancelEdit(i) ==
  /\ i \in DOMAIN shown /\ row[i].mode = "edit" /\ ~Pending("update", i)
  /\ SetRow(i, "view", NoData)
  /\ UNCHANGED <<rules, gone, query, order, new, calls, latest, dropped, missed, raced, asked>>

handleUpdate(i) ==
  /\ i \in DOMAIN shown /\ row[i].mode = "edit" /\ ~Pending("update", i)
  /\ Send("update", i, row[i].draft)
  /\ latest' = [latest EXCEPT !["update"] = Free(calls)]
  /\ UNCHANGED <<rules, gone, query, order, row, new, missed, raced>>

AskDelete(i) ==
  /\ i \in DOMAIN shown /\ row[i].mode = "view" /\ ~Pending("delete", i)
  /\ SetRow(i, "confirm", NoData)
  /\ UNCHANGED <<rules, gone, query, order, new, calls, latest, dropped, missed, raced, asked>>

KeepRule(i) ==
  /\ i \in DOMAIN shown /\ row[i].mode = "confirm"
  /\ SetRow(i, "view", NoData)
  /\ UNCHANGED <<rules, gone, query, order, new, calls, latest, dropped, missed, raced, asked>>

confirmDelete(i) ==
  /\ i \in DOMAIN shown /\ row[i].mode = "confirm"
  /\ Send("delete", i, NoData)
  /\ latest' = [latest EXCEPT !["delete"] = Free(calls)]
  /\ SetRow(i, "view", NoData)
  /\ UNCHANGED <<rules, gone, query, order, new, missed, raced>>

-----------------------------------------------------------------------------
(* The new rule. Its priority is the next one when the form is opened, and  *)
(* it has no conditions yet.                                                *)
Blank(t) == [prio |-> nextPriority(t), ok |-> FALSE]

AddRule ==
  /\ Shown(query) /\ new = NoData
  /\ new' = Blank(shown)
  /\ UNCHANGED <<rules, gone, query, order, row, calls, latest, dropped, missed, raced, asked>>

EditNew ==
  /\ Shown(query) /\ new # NoData /\ ~new.ok
  /\ new' = [new EXCEPT !.ok = TRUE]
  /\ UNCHANGED <<rules, gone, query, order, row, calls, latest, dropped, missed, raced, asked>>

CancelNew ==
  /\ Shown(query) /\ new # NoData /\ ~isPending(calls, "create")
  /\ new' = NoData
  /\ UNCHANGED <<rules, gone, query, order, row, calls, latest, dropped, missed, raced, asked>>

handleAdd ==
  /\ Shown(query) /\ new # NoData /\ ~isPending(calls, "create")
  /\ Send("create", NoData, new)
  /\ UNCHANGED <<rules, gone, query, order, row, new, latest, missed, raced>>

-----------------------------------------------------------------------------
(* Dragging rule a onto rule b. The rules on display, in the order of their *)
(* priorities (in any order if these are equal), get the priorities 1, 2, 3 *)
(* ... in their new order, and each rule whose priority is not the cached   *)
(* one is sent a PATCH with its priority alone. If there is none the drag   *)
(* ends at once, as if all of them had succeeded.                           *)
Places(t) == {p \in [DOMAIN t -> 1 .. Cardinality(DOMAIN t)] :
  \A i, j \in DOMAIN t : (p[i] = p[j] => i = j) /\ (t[i] < t[j] => p[i] < p[j])}

Reordered(p, a, b) ==
  [i \in DOMAIN p |-> CASE i = a -> p[b]
                       [] p[a] < p[i] /\ p[i] <= p[b] -> p[i] - 1
                       [] p[b] <= p[i] /\ p[i] < p[a] -> p[i] + 1
                       [] OTHER -> p[i]]

handleDragEnd(a, b) ==
  /\ {a, b} \subseteq DOMAIN shown /\ a # b
  /\ asked < MaxRequests /\ asked' = asked + 1
  /\ \E p \in Places(shown) :
       LET updated == Reordered(p, a, b)
           changed == {i \in DOMAIN updated \cap DOMAIN query.data : query.data[i] # updated[i]}
           patch(i) == [op |-> "reorder", id |-> i, draft |-> [prio |-> updated[i], ok |-> FALSE]]
       IN /\ IF changed = {} THEN Show(Invalidate(query), NoData, calls)
             ELSE Show(query, updated, calls \cup {Sent(Free(calls), patch(i)) : i \in changed})
          /\ dropped' = updated
  /\ UNCHANGED <<rules, gone, new, latest, missed, raced>>

-----------------------------------------------------------------------------
(* The server.                                                              *)
Becomes(c, st) == calls' = (calls \ {c}) \cup {[c EXCEPT !.st = st]}

\* Mutant: the uniqueness check is left to the database.
AcceptedValid(c) == c.arg.draft.ok

\* Rule.Validate, and no other rule may have the priority. A body replaces the
\* whole rule, so one without conditions is refused.
Accepted(c) ==
  c.arg.draft.ok /\ \A i \in DOMAIN rules : rules[i] = c.arg.draft.prio => i = c.arg.id

CheckRule(c) ==
  /\ c.st = "sent" /\ c.arg.op # "delete"
  /\ Accepted(c)
  /\ Becomes(c, "checked")
  /\ UNCHANGED <<rules, gone, query, order, row, new, latest, dropped, missed, raced, asked>>

Refuse(c) ==
  /\ c.st = "sent"
  /\ IF c.arg.op = "delete" THEN c.arg.id \notin DOMAIN rules ELSE ~Accepted(c)
  /\ Becomes(c, "refused")
  /\ UNCHANGED <<rules, gone, query, order, row, new, latest, dropped, missed, raced, asked>>

\* The server, or the network on the way to it, fails.
Fail(c) ==
  /\ c.st = "sent"
  /\ Becomes(c, "refused")
  /\ dropped' = NoData
  /\ UNCHANGED <<rules, gone, query, order, row, new, latest, missed, raced, asked>>

\* Upsert: an update of a rule that is gone inserts it again.
WriteRule(c) ==
  /\ c.st = "checked"
  /\ Becomes(c, "applied")
  /\ \E i \in IF c.arg.op = "update" THEN {c.arg.id} ELSE Ids \ (DOMAIN rules \cup gone) :
       rules' = [j \in DOMAIN rules \cup {i} |-> IF j = i THEN c.arg.draft.prio ELSE rules[j]]
  /\ raced' = (raced \/ \E d \in calls \ {c} : d.st = "checked")
  /\ UNCHANGED <<gone, query, order, row, new, latest, dropped, missed, asked>>

DeleteRule(c) ==
  /\ c.st = "sent" /\ c.arg.op = "delete" /\ c.arg.id \in DOMAIN rules
  /\ Becomes(c, "applied")
  /\ rules' = [j \in DOMAIN rules \ {c.arg.id} |-> rules[j]]
  /\ gone' = gone \cup {c.arg.id}
  /\ UNCHANGED <<query, order, row, new, latest, dropped, missed, raced, asked>>

ServeList ==
  /\ query.net = "sent"
  /\ \E v \in {rules, NoData} : query' = Answer(query, v)
  /\ UNCHANGED <<rules, gone, order, row, new, calls, latest, dropped, missed, raced, asked>>

-----------------------------------------------------------------------------
(* Replies. Every success asks for the rules again; that of the latest      *)
(* update closes its editor, that of a creation the new row.                *)
Quiet(c) == latest' = [o \in DOMAIN latest |-> IF latest[o] = c.n THEN 0 ELSE latest[o]]

SuccessReply(c) ==
  /\ Succeeded(c) /\ c.arg.op # "reorder"
  /\ query' = Invalidate(query)
  /\ calls' = calls \ {c}
  /\ Quiet(c)
  /\ row' = IF c.arg.op = "update" /\ c.from = "here" /\ c.n = latest["update"]
            THEN [row EXCEPT ![c.arg.id] = Idle] ELSE row
  /\ new' = IF c.arg.op = "create" THEN NoData ELSE new
  /\ UNCHANGED <<rules, gone, order, dropped, missed, raced, asked>>

ErrorReply(c) ==
  /\ Failing(c) /\ c.arg.op # "reorder"
  /\ calls' = calls \ {c}
  /\ Quiet(c)
  /\ missed' = (missed \/ Succeeded(c))
  /\ dropped' = IF Succeeded(c) THEN NoData ELSE dropped
  /\ UNCHANGED <<rules, gone, query, order, row, new, raced, asked>>

\* Mutant: a failed drag keeps its optimistic order.
DragReplyNoRollback(c) ==
  /\ Failing(c) /\ c.arg.op = "reorder"
  /\ \E ok \in {Succeeded(c), FALSE} :
       LET others == {d \in calls \ {c} : d.n = c.n}
           done == ok /\ c.from = "here" /\ others = {}
       IN /\ Show(IF done THEN Invalidate(query) ELSE query,
                  IF done THEN NoData ELSE order, calls \ {c})
          /\ missed' = (missed \/ (Succeeded(c) /\ ~done))
  /\ UNCHANGED <<rules, gone, new, latest, dropped, raced, asked>>

\* Promise.all: the first failure of a drag drops the optimistic order, that of
\* a later drag too, and asks for nothing; the other replies of the drag are not
\* waited for. When all of them succeed the rules are asked for again.
DragReply(c) ==
  /\ Failing(c) /\ c.arg.op = "reorder"
  /\ \E ok \in {Succeeded(c), FALSE} :
       LET others == {d \in calls \ {c} : d.n = c.n}
           done == ok /\ c.from = "here" /\ others = {}
           failed == ~ok /\ c.from = "here"
       IN /\ Show(IF done THEN Invalidate(query) ELSE query,
                  IF done \/ failed THEN NoData ELSE order,
                  IF failed THEN (calls \ ({c} \cup others)) \cup Unmounted(others)
                            ELSE calls \ {c})
          /\ missed' = (missed \/ (Succeeded(c) /\ ~done))
  /\ UNCHANGED <<rules, gone, new, latest, dropped, raced, asked>>

ListArrives ==
  /\ query.net = "answered"
  /\ Show(Arrive(query), order, calls)
  /\ new' = IF new # NoData /\ ~Shown(query') THEN Blank(<<>>)
            ELSE IF new # NoData /\ ~Shown(query) THEN Blank(Listed(query', order)) ELSE new
  /\ UNCHANGED <<rules, gone, latest, dropped, missed, raced, asked>>

Focus ==
  /\ query.net = "idle"
  /\ query' = Fetch(query)
  /\ UNCHANGED <<rules, gone, order, row, new, calls, latest, dropped, missed, raced, asked>>

RuleNext ==
  \/ AddRule \/ EditNew \/ CancelNew \/ handleAdd
  \/ \E i \in Ids : \/ startEdit(i) \/ cancelEdit(i) \/ handleUpdate(i)
                    \/ AskDelete(i) \/ KeepRule(i) \/ confirmDelete(i)
  \/ \E i \in Ids, p \in Typed : Edit(i, p)
  \/ \E a, b \in Ids : handleDragEnd(a, b)
  \/ \E c \in calls : \/ CheckRule(c) \/ Refuse(c) \/ Fail(c) \/ WriteRule(c) \/ DeleteRule(c)
                      \/ SuccessReply(c) \/ ErrorReply(c) \/ DragReply(c)
  \/ ServeList \/ ListArrives \/ Focus

Spec == Init /\ [][RuleNext]_ruleVars
-----------------------------------------------------------------------------
\* At rest the page shows the stored rules with their priorities, and no
\* optimistic order is left: drags, rollbacks, edits and refreshes in any order
\* leave nothing behind, unless a success was lost (rules.tsx 121-203).
RulesAtRest ==
  /\ Shown(query) /\ ~missed /\ query.net = "idle" /\ calls = {}
  => order = NoData /\ query.data = rules

\* No two rules of a flag have one priority, so the first match is determined,
\* unless two requests read the priorities before either wrote its own
\* (rule_service.go 35-48, 70-84: the table has no unique constraint).
PrioritiesAreDistinct ==
  ~raced => \A i, j \in DOMAIN rules : rules[i] = rules[j] => i = j

\* A drag stores the order it was dropped in, if no request failed and nothing
\* else was asked for: the handle says "drag to reorder" (rules.tsx 161-203, 417).
DropIsStored == dropped # NoData /\ calls = {} => rules = dropped
=============================================================================
