SPECIFICATION Spec
CONSTANTS
  None = None
  s1 = s1 s2 = s2 cli = cli service = service command = command
  opened = opened lockout = lockout
  Writers = {s1, s2, cli}
  Processes = {service, command}
  ProcessOf <- Where
  Actions = {opened}
  Wanted <- Preferences
  Service = service
  MaxAttempts = 2
  MaxEntries <- Share
  QueueDepth = 1
  Burst = 1
  Refill = 2
  Tries = 2
  MaxTime = 2
  MaxConfigs = 1
  MaxCrashes = 1
INVARIANTS
 ChainIntact Accounted RateBounded
CHECK_DEADLOCK FALSE
