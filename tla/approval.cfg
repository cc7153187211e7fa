SPECIFICATION FairSpec
CONSTANTS
  None = None
  u1 = u1 u2 = u2 t1 = t1 t2 = t2 a1 = a1 a2 = a2 k1 = k1 k2 = k2
  c1 = c1 c2 = c2 c3 = c3 r1 = r1 r2 = r2
  Users = {u1}
  Targets = {t1}
  Admins = {}
  Addrs = {a1}
  Keys = {k1, k2}
  KeyOf <- OneAddr
  Conns = {c1, c2}
  Reqs = {}
  LoginEnabled = FALSE
  JITEnabled = TRUE
  DefaultTarget = None
  MaxConnsPerIP = 2
  GrantTTL = 1
  ReuseWindow = 2
  RedirectTTL = 1
  HoldTimeout = 2
  PurgeAge = 0
  SweepAge = 0
  MaxTime = 0
  MaxStops = 0
INVARIANTS
  DeclinedNotForwarded
PROPERTIES
  DecidedOnce
  HeldSettles
