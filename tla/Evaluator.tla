----------------------------- MODULE Evaluator -----------------------------
(***************************************************************************)
(* domain.Evaluate: which variant a user gets.  The rules arrive in the    *)
(* order the query returned them, are sorted by priority and tried one     *)
(* after the other; the first enabled rule whose conditions all match wins *)
(* (a rollout rule only if the context names a user).  sort.Slice is not   *)
(* stable: rules of equal priority end up in any order.                    *)
(*                                                                         *)
(* A string is a sequence of letters, a rule is identified by its position *)
(* in the input, and the FNV hash of flag key and user is any bucket.      *)
(***************************************************************************)
EXTENDS Integers, Sequences, FiniteSets, SequencesExt

CONSTANTS
    RuleSet,       \* the rules an input may contain
    MaxRules,      \* bound: rules of one input
    Contexts,      \* evaluation contexts: [user, attributes, segments]
    Buckets        \* values of Bucket(flag.Key, ctx.UserID)

Percentages == 1 .. 100
SegmentOperators == {"in_segment", "not_in_segment"}
ScalarOperators == {"eq", "neq", "contains", "starts_with", "ends_with"} \cup SegmentOperators
ListOperators == {"in", "not_in"}

-----------------------------------------------------------------------------
(* Rule.Validate and Condition.Validate *)

ConditionIsValid(c) ==
    /\ c.operator \in ScalarOperators \cup ListOperators
    /\ c.operator \in ScalarOperators => Len(c.values) = 1
    /\ c.operator \in ListOperators => Len(c.values) > 0

\* The weights at some places of a rollout, added up: each is that many units.
Units(entries, places) == UNION {{n} \X (1 .. entries[n].weight) : n \in places}
Weight(entries, places) == Cardinality(Units(entries, places))

RuleIsValid(r) ==
    /\ r.conditions # <<>>
    /\ \A n \in DOMAIN r.conditions : ConditionIsValid(r.conditions[n])
    /\ r.rollout # <<>> =>
          /\ \A n \in DOMAIN r.rollout : r.rollout[n].weight \in Percentages
          /\ Weight(r.rollout, DOMAIN r.rollout) = 100

\* RuleService.Create and Update store only rules that pass Rule.Validate.
StoredRulesAreValid ==
    /\ \A r \in RuleSet :
          /\ RuleIsValid(r) /\ r.priority \in Int
          /\ Len(r.rollout) \in Nat /\ DOMAIN r.rollout = 1 .. Len(r.rollout)
    /\ Buckets \subseteq 0 .. 99 /\ MaxRules \in Nat

-----------------------------------------------------------------------------
(* matchesCondition, matchesAll, resolveRollout *)

HasSubstring(s, t) == \E n \in 0 .. Len(s) : IsPrefix(t, SubSeq(s, n + 1, Len(s)))

MatchesSegment(c, ctx) ==
    /\ c.values # <<>>
    /\ (c.operator = "in_segment") <=> (c.values[1] \in ctx.segments)

MatchesValue(c, val) ==
    CASE c.operator = "eq"          -> val = c.values[1]
      [] c.operator = "neq"         -> val # c.values[1]
      [] c.operator = "contains"    -> HasSubstring(val, c.values[1])
      [] c.operator = "starts_with" -> IsPrefix(c.values[1], val)
      [] c.operator = "ends_with"   -> IsSuffix(c.values[1], val)
      [] c.operator = "in"          -> \E n \in DOMAIN c.values : val = c.values[n]
      [] c.operator = "not_in"      -> \A n \in DOMAIN c.values : val # c.values[n]

MatchesCondition(c, ctx) ==
    IF c.operator \in SegmentOperators
    THEN MatchesSegment(c, ctx)
    ELSE /\ c.attribute \in DOMAIN ctx.attributes
         /\ MatchesValue(c, ctx.attributes[c.attribute])

MatchesAll(conditions, ctx) == \A n \in DOMAIN conditions : MatchesCondition(conditions[n], ctx)

\* The weight of the first n entries.
Cumulative(entries, n) == Weight(entries, 1 .. n)

\* Mutant: bucket <= cumulative.
ResolveRolloutLate(entries, bucket) ==
    LET hit == {n \in DOMAIN entries : bucket <= Cumulative(entries, n)}
    IN  IF hit = {} THEN entries[Len(entries)].variant ELSE entries[Min(hit)].variant

\* The first entry whose cumulative weight exceeds the bucket, or else the last one.
ResolveRollout(entries, bucket) ==
    LET hit == {n \in DOMAIN entries : bucket < Cumulative(entries, n)}
    IN  IF hit = {} THEN entries[Len(entries)].variant ELSE entries[Min(hit)].variant

-----------------------------------------------------------------------------
(* Evaluate *)

VARIABLES
    given, state, ctx, bucket,  \* the input; state is "nil" without a state row
    sorted,                     \* positions in rules, sorted by priority
    i,                          \* position of the loop in sorted, 0 before it
    result

input == <<given, state, ctx, bucket>>
evalVars == <<input, sorted, i, result>>

NoResult == [variant |-> "none", reason |-> "none", rule |-> 0]

EvalInit ==
    /\ given \in BoundedSeq(RuleSet, MaxRules)
    /\ state \in {"nil", "disabled", "enabled"}
    /\ ctx \in Contexts
    /\ bucket \in Buckets
    /\ sorted = <<>>
    /\ i = 0
    /\ result = NoResult

EvaluateDisabled ==
    /\ i = 0
    /\ result = NoResult
    /\ state # "enabled"
    /\ result' = [variant |-> "default", reason |-> "disabled", rule |-> 0]
    /\ UNCHANGED <<input, sorted, i>>

\* Mutant: descending order.
DescendingPriority(p) ==
    \A m, n \in DOMAIN p : m < n => given[p[m]].priority >= given[p[n]].priority

AscendingPriority(p) ==
    \A m, n \in DOMAIN p : m < n => given[p[m]].priority <= given[p[n]].priority

SortRules ==
    /\ i = 0
    /\ state = "enabled"
    /\ \E p \in {q \in SetToSeqs(DOMAIN given) : AscendingPriority(q)} : sorted' = p
    /\ i' = 1
    /\ UNCHANGED <<input, result>>

InLoop == i \in DOMAIN sorted /\ result = NoResult

\* Enabled, all conditions match, and a rollout has a user to place in a bucket.
Fires(r) ==
    /\ r.enabled
    /\ MatchesAll(r.conditions, ctx)
    /\ r.rollout # <<>> => ctx.user

VariantOf(r) == IF r.rollout # <<>> THEN ResolveRollout(r.rollout, bucket) ELSE r.variant

TryRule ==
    /\ InLoop
    /\ LET k == sorted[i] IN
         IF Fires(given[k])
         THEN /\ result' = [variant |-> VariantOf(given[k]), reason |-> "rule_match", rule |-> k]
              /\ i' = i
         ELSE /\ i' = i + 1
              /\ result' = result
    /\ UNCHANGED <<input, sorted>>

NoRuleFires ==
    /\ i = Len(sorted) + 1
    /\ result = NoResult
    /\ result' = [variant |-> "default", reason |-> "default", rule |-> 0]
    /\ UNCHANGED <<input, sorted, i>>

EvalNext == EvaluateDisabled \/ SortRules \/ TryRule \/ NoRuleFires

EvalSpec == EvalInit /\ [][EvalNext]_evalVars

-----------------------------------------------------------------------------
(* Properties *)

\* Rules that apply to the context, and those among them that should win.
Applicable == {k \in DOMAIN given : given[k].enabled /\ MatchesAll(given[k].conditions, ctx)
                                    /\ (given[k].rollout = <<>> \/ ctx.user)}
Winners == {k \in Applicable : \A m \in Applicable : given[k].priority <= given[m].priority}

\* Whatever order the rules arrive in, an applicable rule of least priority value
\* decides; without one, the default variant is returned, and the reason says so.
LeastPriorityWins ==
    result # NoResult =>
        /\ (result.reason = "disabled") <=> (state # "enabled")
        /\ (result.reason = "default") <=> (state = "enabled" /\ Applicable = {})
        /\ result.reason = "rule_match" => result.rule \in Winners

\* A rollout is exact: of the 100 buckets, a variant gets as many as the weights of
\* its entries add up to, so a weight is a percentage.
RolloutIsExact ==
    i = 1 => \A k \in DOMAIN given :
        LET entries == given[k].rollout
            served == {<<b, ResolveRollout(entries, b)>> : b \in 0 .. 99}
            share(v) == {b \in 0 .. 99 : <<b, v>> \in served}
            weight(v) == Weight(entries, {n \in DOMAIN entries : entries[n].variant = v})
        IN  \A v \in {entries[n].variant : n \in DOMAIN entries} :
                Cardinality(share(v)) = weight(v)
=============================================================================
