--------------------------- MODULE WebRuleEditor ---------------------------
(***************************************************************************)
(* The form in which a targeting rule is written: conditions, and a variant *)
(* or a rollout over variants. The list of the flag's variants comes from a *)
(* query of its own, which may answer after the form was opened.            *)
(*                                                                          *)
(* Of a condition the model keeps whether it has an attribute, its operator *)
(* and what its values are: typed text or segments. Empty text drops out.   *)
(***************************************************************************)
EXTENDS Naturals, Sequences, SequencesExt

CONSTANTS
  Keys,      \* the flag's variants, strings, in order
  Weights,   \* the weights a user types; the form itself sets 0, 50 and 100
  MaxConditions

VARIABLES
  variants,  \* flagQuery.data?.variants ?? []
  draft,     \* the rule being written
  early      \* the form needed the variants before they were there

editorVars == <<variants, draft, early>>

NoKey == ""
KeySet == {Keys[i] : i \in DOMAIN Keys} \cup {NoKey}
SEGMENT_OPERATORS == {"in_segment", "not_in_segment"}
Operators == {"eq", "in", "gt"} \cup SEGMENT_OPERATORS
isSegmentOperator(op) == op \in SEGMENT_OPERATORS

Condition == [attribute : BOOLEAN, operator : Operators,
              values : {<<>>, <<"text">>, <<"text", "text">>, <<"segment">>}]
Entry == [variantKey : KeySet, weight : Weights]
SeqsOf(S, n) == UNION {[1 .. k -> S] : k \in 0 .. n}

TypeOK ==
  /\ variants \in {<<>>, Keys}
  /\ draft \in [conditions : SeqsOf(Condition, MaxConditions),
                variantKey : KeySet, rollout : SeqsOf(Entry, Len(Keys))]
  /\ early \in BOOLEAN

\* variants[0]?.key ?? ''
FirstVariant == IF variants = <<>> THEN NoKey ELSE variants[1]

\* A new rule, or a stored one that is edited.
Init ==
  /\ variants \in {<<>>, Keys}
  /\ \/ /\ draft = [conditions |-> <<>>, variantKey |-> FirstVariant, rollout |-> <<>>]
        /\ early = (variants = <<>>)
     \/ /\ \E op \in SEGMENT_OPERATORS \cup {"eq"} :
             draft = [conditions |-> <<[attribute |-> ~isSegmentOperator(op), operator |-> op,
                          values |-> <<IF isSegmentOperator(op) THEN "segment" ELSE "text">>]>>,
                      variantKey |-> Keys[1], rollout |-> <<>>]
        /\ early = FALSE

Change(d) == draft' = d /\ UNCHANGED <<variants, early>>

-----------------------------------------------------------------------------
(* Conditions.                                                              *)
SetAttribute(i, set) ==
  /\ i \in DOMAIN draft.conditions /\ draft.conditions[i].attribute # set
  /\ Change([draft EXCEPT !.conditions[i].attribute = set])

\* Mutant: the values survive a change of operator.
SetOperatorOnly(i, op) ==
  /\ i \in DOMAIN draft.conditions /\ draft.conditions[i].operator # op
  /\ Change([draft EXCEPT !.conditions[i].operator = op])

\* The values of the old operator are dropped.
SetOperator(i, op) ==
  /\ i \in DOMAIN draft.conditions /\ draft.conditions[i].operator # op
  /\ Change([draft EXCEPT !.conditions[i].operator = op, !.conditions[i].values = <<>>])

\* A selector of segments, or a text cut at commas.
SetValues(i, v) ==
  /\ i \in DOMAIN draft.conditions
  /\ v \in IF isSegmentOperator(draft.conditions[i].operator) THEN {<<"segment">>}
           ELSE {<<>>, <<"text">>, <<"text", "text">>}
  /\ Change([draft EXCEPT !.conditions[i].values = v])

addCondition ==
  /\ Len(draft.conditions) < MaxConditions
  /\ Change([draft EXCEPT !.conditions =
       Append(@, [attribute |-> FALSE, operator |-> "eq", values |-> <<"text">>])])

removeCondition(i) ==
  /\ i \in DOMAIN draft.conditions
  /\ Change([draft EXCEPT !.conditions = RemoveAt(@, i)])

-----------------------------------------------------------------------------
(* The variant, or the rollout.                                             *)
SelectVariant(i) ==
  /\ draft.rollout = <<>> /\ i \in DOMAIN variants
  /\ Change([draft EXCEPT !.variantKey = variants[i]])

RolloutOn ==
  /\ draft.rollout = <<>>
  /\ draft' = [draft EXCEPT !.variantKey = NoKey,
       !.rollout = IF Len(variants) >= 2
                   THEN <<[variantKey |-> variants[1], weight |-> 50],
                          [variantKey |-> variants[2], weight |-> 50]>>
                   ELSE <<[variantKey |-> FirstVariant, weight |-> 100]>>]
  /\ early' = (early \/ variants = <<>>)
  /\ UNCHANGED variants

RolloutOff ==
  /\ draft.rollout # <<>>
  /\ draft' = [draft EXCEPT !.rollout = <<>>, !.variantKey = FirstVariant]
  /\ early' = (early \/ variants = <<>>)
  /\ UNCHANGED variants

updateEntry(i, e) ==
  /\ i \in DOMAIN draft.rollout
  /\ e.variantKey \in {draft.rollout[i].variantKey} \cup {variants[j] : j \in DOMAIN variants}
  /\ Change([draft EXCEPT !.rollout[i] = e])

removeEntry(i) ==
  /\ i \in DOMAIN draft.rollout /\ Len(draft.rollout) > 1
  /\ Change([draft EXCEPT !.rollout = RemoveAt(@, i)])

\* The first variant without an entry, else the first one, with no weight.
addEntry ==
  LET used == {draft.rollout[i].variantKey : i \in DOMAIN draft.rollout}
      unused == {j \in DOMAIN variants : variants[j] \notin used}
      first == CHOOSE j \in unused : \A k \in unused : j <= k
  IN /\ draft.rollout # <<>> /\ Len(draft.rollout) < Len(variants)
     /\ Change([draft EXCEPT !.rollout =
          Append(@, [variantKey |-> IF unused = {} THEN FirstVariant ELSE variants[first],
                     weight |-> 0])])

VariantsArrive ==
  /\ variants = <<>> /\ variants' = Keys
  /\ UNCHANGED <<draft, early>>

EditorNext ==
  \/ addCondition \/ addEntry \/ RolloutOn \/ RolloutOff \/ VariantsArrive
  \/ \E i \in 1 .. MaxConditions :
       \/ removeCondition(i)
       \/ \E set \in BOOLEAN : SetAttribute(i, set)
       \/ \E op \in Operators : SetOperator(i, op)
       \/ \E v \in {c.values : c \in Condition} : SetValues(i, v)
  \/ \E i \in DOMAIN Keys : \/ SelectVariant(i) \/ removeEntry(i)
                            \/ \E e \in Entry : updateEntry(i, e)

Spec == Init /\ [][EditorNext]_editorVars
-----------------------------------------------------------------------------
\* A condition's values are of the kind its operator reads, a segment or text,
\* after any change of operators and of the conditions before it
\* (rules.tsx 586-608: "Reset values when switching to/from segment operators").
ValuesFitOperator ==
  \A i \in DOMAIN draft.conditions :
    LET c == draft.conditions[i]
    IN c.values # <<>> => (isSegmentOperator(c.operator) <=> c.values = <<"segment">>)

\* A draft always says what to serve, a variant or a rollout whose entries each
\* have one, through every change between the two, unless the form was opened
\* or switched before the variants were known: the empty key chosen then stays
\* when they arrive (rules.tsx 540, 712-720, 785-793).
ServesSomething ==
  ~early => IF draft.rollout = <<>> THEN draft.variantKey # NoKey
            ELSE \A i \in DOMAIN draft.rollout : draft.rollout[i].variantKey # NoKey
=============================================================================
