------------------------------ MODULE MCRules ------------------------------
(***************************************************************************)
(* Targeting rules for TLC: where they are edited (MCWebRules) and where   *)
(* they are evaluated (Evaluator). An evaluation reads the rules it was    *)
(* given and nothing else, so a behaviour is one of the page, one of the   *)
(* form or one evaluation, chosen at the start.                            *)
(***************************************************************************)
EXTENDS MCWebRules, Evaluator

Inputs == INSTANCE MCEvaluator
MCRuleSet == Inputs!MCRules
MCContexts == Inputs!MCContexts

\* The hypothesis of the theorems in EvaluatorProofs.
ASSUME StoredRulesAssumption == StoredRulesAreValid

editorVars == <<part, ruleVars, formVars>>

\* Nothing was evaluated: there is no input and no result.
NoEvaluation == /\ given = NoData /\ state = NoData /\ ctx = NoData /\ bucket = NoData
                /\ sorted = <<>> /\ i = 0 /\ result = NoResult

RulesInit == \/ MCInit /\ NoEvaluation
             \/ part = "evaluation" /\ EvalInit /\ NoPage /\ NoForm

RulesNext ==
  \/ MCNext /\ UNCHANGED evalVars
  \/ part = "evaluation" /\ EvalNext /\ UNCHANGED editorVars
  \* Evaluate has returned.
  \/ part = "evaluation" /\ result # NoResult /\ UNCHANGED <<editorVars, evalVars>>

RulesSpec == RulesInit /\ [][RulesNext]_<<editorVars, evalVars>>
=============================================================================
