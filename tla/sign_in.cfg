SPECIFICATION Spec
CONSTANTS
  None = None
  u1 = u1 u2 = u2 q1 = q1 q2 = q2 q3 = q3 k1 = k1
  Users = {u1, u2}
  Keys = {k1}
  Worlds <- BothWorlds
  Reqs = {q1, q2, q3}
  RequireSecondFactor = TRUE
  BackupCodes = 1
  Skew = 1
  FirstStep = 2
  LastStep = 3
  MaxEnrols = 2
SYMMETRY ReqSymmetry
INVARIANTS
  CodeAdmitsOnce
  BackupCodeAdmitsOnce
  FactorsNeedProof
PROPERTIES
  ReplacedCodesAdmitNobody
