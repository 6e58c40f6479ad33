---------------------------- MODULE MCEvaluator ----------------------------
(* The rules and contexts Evaluator is checked on. *)
EXTENDS Naturals

Cond(op, vs) == [attribute |-> "plan", operator |-> op, values |-> vs]
pro == <<"p", "r", "o">>
p == <<"p">>
o == <<"o">>

\* Every operator, with values that match the attribute of some contexts only.
MCConditions ==
    {Cond(op, <<p>>) : op \in {"eq", "neq", "contains", "starts_with", "ends_with"}}
    \cup {Cond("ends_with", <<o>>), Cond("in", <<o, p>>), Cond("not_in", <<p, o>>)}
    \cup {Cond(op, <<"beta">>) : op \in {"in_segment", "not_in_segment"}}

MCContexts == [user : BOOLEAN, attributes : UNION {[A -> {p, pro}] : A \in SUBSET {"plan"}},
               segments : {{}, {"beta"}}]

Even == <<[variant |-> "a", weight |-> 50], [variant |-> "b", weight |-> 50]>>
Edge == <<[variant |-> "a", weight |-> 1], [variant |-> "b", weight |-> 98],
          [variant |-> "a", weight |-> 1]>>

NewRule(n, e, cs, r) ==
    [priority |-> n, enabled |-> e, conditions |-> cs, variant |-> "a", rollout |-> r]

\* Every operator, a disabled rule, a rule with two conditions, and two rollouts.
MCRules == UNION {
    {NewRule(n, TRUE, <<c>>, <<>>) : c \in MCConditions} \cup
    {NewRule(n, FALSE, <<Cond("contains", <<p>>)>>, <<>>),
     NewRule(n, TRUE, <<Cond("contains", <<p>>), Cond("in_segment", <<"beta">>)>>, <<>>),
     NewRule(n, TRUE, <<Cond("contains", <<p>>)>>, Even),
     NewRule(n, TRUE, <<Cond("contains", <<p>>)>>, Edge)} : n \in 0 .. 1}
=============================================================================
