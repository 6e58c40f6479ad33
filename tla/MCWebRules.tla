----------------------------- MODULE MCWebRules -----------------------------
(***************************************************************************)
(* The targeting rules of a flag and the form a rule is written in, for     *)
(* TLC. WebRules keeps of a draft whether the server would take it, so the  *)
(* two have nothing in common: a behaviour is one of the page or one of the *)
(* form, chosen at the start, and the other stands still.                   *)
(***************************************************************************)
EXTENDS WebRules

CONSTANTS Keys, Weights, MaxConditions

VARIABLES part, variants, draft, early

MCKeys == <<"on", "off">>

Form == INSTANCE WebRuleEditor

\* The hypotheses of the theorems in WebRulesProofs.
ASSUME IdsAssumption == IsFiniteSet(Ids) /\ NoData \notin Ids
ASSUME TypedAssumption == Typed \subseteq Int /\ MaxRequests \in Nat
ASSUME ConditionsAssumption == MaxConditions \in Nat \ {0}

\* A flag has variants (Flag.Validate, flag.go 56), with keys that are not empty:
\* those added later are checked (flag_variant_handler.go 51), and the page that
\* creates flags types none; a flag created with one by the API is left out.
ASSUME KeysAssumption ==
  /\ Keys \in Seq(STRING) /\ Keys # <<>>
  /\ \A i \in DOMAIN Keys : Keys[i] # ""

ASSUME WeightsAssumption == {0, 50, 100} \subseteq Weights /\ Weights \subseteq 0 .. 100

formVars == <<variants, draft, early>>

\* A page that was not opened, on a flag without rules.
NoPage == /\ rules = <<>> /\ gone = {} /\ query = NoQuery /\ order = NoData
          /\ row = [i \in Ids |-> Idle] /\ new = NoData /\ calls = {}
          /\ latest = [o \in {"update", "delete"} |-> 0] /\ dropped = NoData
          /\ missed = FALSE /\ raced = FALSE /\ asked = 0
NoForm == variants = NoData /\ draft = NoData /\ early = NoData

MCInit == \/ part = "page" /\ Init /\ NoForm
          \/ part = "form" /\ Form!Init /\ NoPage

MCNext ==
  /\ UNCHANGED part
  /\ \/ part = "page" /\ RuleNext /\ UNCHANGED formVars
     \/ part = "form" /\ Form!EditorNext /\ UNCHANGED ruleVars

MCSpec == MCInit /\ [][MCNext]_<<part, ruleVars, formVars>>

Symmetry == Permutations(Ids)
-----------------------------------------------------------------------------
\* The rules of the server and of the cache, the drafts, the optimistic order
\* and the requests in flight are of the types their modules give.
DraftsAreWellTyped == TypeOK /\ (part = "form" => Form!TypeOK)

\* The values of a draft's conditions are of the kind their operators read, and
\* the draft says what to serve, unless the form needed the variants before they
\* were there (WebRuleEditor!ValuesFitOperator and ServesSomething,
\* rules.tsx 586-608, 712-720, 785-793).
RuleDraftIsCoherent == part = "form" => Form!ValuesFitOperator /\ Form!ServesSomething
=============================================================================
