SPECIFICATION Spec
CONSTANTS
  None = None
  u1 = u1 u2 = u2 t1 = t1 t2 = t2 a1 = a1 a2 = a2 k1 = k1 k2 = k2
  c1 = c1 c2 = c2 c3 = c3 r1 = r1 r2 = r2
  Users = {u1}
  Targets = {t1}
  Admins = {}
  Addrs = {a1, a2}
  Keys = {k1, k2}
  KeyOf <- OwnKeys
  Conns = {c1, c2}
  Reqs = {r1}
  LoginEnabled = FALSE
  JITEnabled = FALSE
  DefaultTarget = None
  MaxConnsPerIP = 1
  GrantTTL = 1
  ReuseWindow = 2
  RedirectTTL = 1
  HoldTimeout = 1
  PurgeAge = 1
  SweepAge = 1
  MaxTime = 2
  MaxStops = 1
SYMMETRY ConnSymmetry
INVARIANTS
  TypeOK
  ForwardedPassedMFA
  NoEntryWhileBarred
  WindowBounded
  OpenRowsAreForwarded
  SlotsMatchHolders
PROPERTIES
  RevokedStaysRevoked
