SPECIFICATION Spec
CONSTANTS
  u1 = u1
  Users = {u1, u2, u3}
  NoUser = NoUser
  Email <- MCEmail
  Seeded = {u1}
  SeededAdmins = {u1}
  Tokens = {t1, t2, t3}
  NoToken = NoToken
  Resets = {k1}
  NoReset = NoReset
  Statuses = {"active", "blocked"}
  Threshold = 2
  Requests = {r1, r2}
  NoRequest = NoRequest
  MaxFailures = 1
  MaxLapses = 1
  MaxRequests = 5
SYMMETRY MCSymmetry
CHECK_DEADLOCK FALSE
INVARIANTS
  TypeOK
  OneAccountPerEmail
  ResetTakesEffectOnce
  NoLockWithoutCause
PROPERTIES
  SpentTokenIsNotRefreshed
  CalmRevocationLeavesNoSession
  DemotedCannotPromote
