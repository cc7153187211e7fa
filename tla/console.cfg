SPECIFICATION FairSpec
CONSTANTS
  ada = ada bob = bob r1 = r1 r2 = r2 r3 = r3
  Url = "hook"
  Domains = {"gw"}
  Names = {"gw"}
  Installed <- Plain
  OldRows <- Removed
  Files <- TwoFiles
  Env <- Environment
  Requests <- Everything
  Users = {ada, bob}
  Ports <- Https
  RedirectPorts <- Http
  Taken <- BusyPorts
  Addresses = {"a1", "a2"}
  Lan = "lan"
  Resolvers = {r1, r2, r3}
  Liars = {r3}
  Points <- Dns
  MaxMoves = 1
  MaxSaves = 2
  MaxStarts = 2
  MaxEdits = 1
INVARIANTS
 RunningIsValid StoredStaysValid SavedIsInForce
PROPERTIES StateCatchesUp
CHECK_DEADLOCK FALSE
