SPECIFICATION Spec
SYMMETRY Symmetry
CONSTRAINT Undoubted
CONSTANTS
  NoData = NoData
  Envs = {prod, dev}
  PageEnv = prod
  MaxToggles = 2
  Keys = {k1, k2}
  MaxRequests = 2
  MaxCalls = 3
  Numbers = {1, 2}
  Terms = {{1, 2}, {2}}
  Orders = {"asc", "desc"}
  PerPage = 1
  MaxMutations = 1
  MaxMoves = 2
  MaxRenames = 2
INVARIANTS
  TypeOK
  TogglesAtRest
  CardAtRest
  EnvironmentFlagsAtRest
  ProjectFlagsAtRest
  EnvironmentListAtRest
