SPECIFICATION Spec
CONSTANTS
  None = None
  u1 = u1 u2 = u2 a1 = a1 a2 = a2 k1 = k1 k2 = k2 q1 = q1 q2 = q2 q3 = q3 q4 = q4
  Users = {u1, u2}
  Addrs = {a1}
  Keys = {k1}
  Reqs = {q1, q2, q3}
  Worlds <- AllWorlds
  RequireSecondFactor = FALSE
  MaxFailures = 2
  LockoutBase = 1
  LockoutMax = 1
  ShiftCap = 2
  KeepAfter = 0
  MaxTime = 2
  MaxChallenges = 2
  MaxSessions = 2
  MaxCount = 1
  MaxRestarts = 1
SYMMETRY ReqSymmetry
CHECK_DEADLOCK FALSE
INVARIANTS
  LockBounded
  OneFirstAdmin
  ChallengeUsedOnce
  PasskeyOpensItsOwner
PROPERTIES
  LiftedByProof
