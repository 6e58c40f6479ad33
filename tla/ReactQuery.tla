----------------------------- MODULE ReactQuery -----------------------------
(***************************************************************************)
(* What the web UI relies on of TanStack Query (version 5, web/package.json)*)
(* and is therefore assumed here: one cache entry per query key, shared by  *)
(* every component that uses the key, with at most one live request, and    *)
(* mutations that are a request with callbacks.                             *)
(*                                                                          *)
(*  - Mounting a query, focusing the window or pressing Retry starts a      *)
(*    request unless one is in flight, whatever made that one start.        *)
(*  - Invalidating a mounted query drops the answer in flight and asks      *)
(*    again, except during the first load, which is left alone.             *)
(*  - Invalidating a query nobody shows asks for nothing.                   *)
(*  - An equal answer leaves the same object in the cache, so an effect     *)
(*    that depends on it does not run.                                      *)
(*  - Leaving a page aborts no request and no mutation.                     *)
(*                                                                          *)
(* A request is two steps, the server's read and the arrival, because the   *)
(* hazards of a cache lie between the two.                                  *)
(***************************************************************************)
EXTENDS Naturals, FiniteSets

CONSTANT NoData

\* A cache entry: the data shown, whether the last request failed, and the
\* request in flight with the server's answer (NoData: it failed).
Query(D) == [data : D \cup {NoData}, err : BOOLEAN,
             net : {"idle", "sent", "answered"}, snap : D \cup {NoData}]

NoQuery == [data |-> NoData, err |-> FALSE, net |-> "idle", snap |-> NoData]

\* Starting a request clears an error only while there is no data.
Start(q) == [q EXCEPT !.net = "sent", !.snap = NoData,
                      !.err = @ /\ q.data # NoData]

Fetch(q) == IF q.net = "idle" THEN Start(q) ELSE q

FirstLoad(q) == q.net # "idle" /\ q.data = NoData

Invalidate(q) == IF FirstLoad(q) THEN q ELSE Start(q)

Answer(q, v) == [q EXCEPT !.net = "answered", !.snap = v]

Arrive(q) == IF q.snap = NoData
             THEN [q EXCEPT !.net = "idle", !.err = TRUE]
             ELSE [data |-> q.snap, err |-> FALSE,
                   net |-> "idle", snap |-> NoData]

\* What a component renders: isLoading, isError and otherwise the data.
Shown(q) == q.data # NoData /\ ~q.err

(***************************************************************************)
(* Mutations. A request is on its way to the server, or the server has      *)
(* applied or refused it and the reply is on its way back. The component    *)
(* that sent it is still there, or was unmounted alone, or with its page.   *)
(* An observer (useMutation) follows its latest request only, but the       *)
(* callbacks given to useMutation run for every one of them.                *)
(***************************************************************************)
Request(A) == [n : Nat, arg : A, st : {"sent", "applied", "refused"},
               from : {"here", "page", "gone"}]

\* mutate(a) sends a request; n tells it from the others in flight.
Free(calls) == CHOOSE n \in 1 .. Cardinality(calls) + 1 : \A c \in calls : c.n # n
Sent(n, a) == [n |-> n, arg |-> a, st |-> "sent", from |-> "here"]

\* A mutation whose button is disabled while it is pending: at most one of its
\* requests is of this mount.
isPending(calls, op) == \E c \in calls : c.from = "here" /\ c.arg.op = op

Served(calls, c, ok) ==
  (calls \ {c}) \cup {[c EXCEPT !.st = IF ok THEN "applied" ELSE "refused"]}

\* Unmounting a component aborts nothing.
Unmounted(calls) == {[c EXCEPT !.from = "gone"] : c \in calls}

\* The two ends of a request. The reply to an applied request can be lost,
\* and the caller then takes it for a failure.
Succeeded(c) == c.st = "applied"
Failing(c) == c.st \in {"applied", "refused"}
=============================================================================
