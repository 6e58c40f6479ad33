SPECIFICATION Spec
SYMMETRY Symmetry
CONSTRAINT Undoubted
CONSTANTS
  NoData = NoData
  Slugs = {a1, a2}
  Names = {b1, b2}
  Segments = {a1, a2}
  UserKeys = {k1}
  Envs = {prod, dev}
  FirstEnv = prod
  KeyIds = {a1, a2}
  Tiers = {b1, b2}
  Users = {me, u1}
  Me = me
  MaxRequests = 2
  MaxSaves = 2
  MaxRoles = 3
INVARIANTS
  TypeOK
  SegmentListAtRest
  SegmentMembersAtRest
  ApiKeysAtRest
  MemberListAtRest
