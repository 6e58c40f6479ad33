SPECIFICATION RulesSpec
SYMMETRY Symmetry
CONSTANTS
  NoData = NoData
  Ids = {i1, i2, i3}
  Typed = {1}
  MaxRequests = 2
  Keys <- MCKeys
  Weights = {0, 50, 100}
  MaxConditions = 2
  RuleSet <- MCRuleSet
  MaxRules = 2
  Contexts <- MCContexts
  Buckets = {0, 50, 99}
INVARIANTS
  DraftsAreWellTyped
  RulesAtRest
  PrioritiesAreDistinct
  RuleDraftIsCoherent
  LeastPriorityWins
  RolloutIsExact
