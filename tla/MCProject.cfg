SPECIFICATION ProjectSpec
SYMMETRY Symmetry
CONSTRAINT NotAstray
CONSTANTS
  NoData = NoData
  Users = {a, b, c}
  Slots = {s1, s2}
  Tasks = {s1, s2}
  Edits = {s1, s2}
  InsertCanFail = TRUE
  MaxProjects = 2
  Keys = {k}
  Slugs = {s1, s2}
  Lives = {1, 2}
  Variants = {a, b, c}
  RuleIds = {r}
  Drafts <- MCDrafts
INVARIANTS
  RowsAreWellFormed
  ProjectHasAdmin
  EveryPairHasState
  OnlyVariantsAreServed
PROPERTIES
  WritesStayInProject
CHECK_DEADLOCK FALSE
