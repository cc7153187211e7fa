\* Three worlds, scheduled fairly.
CONSTANTS
    Builds = {b1, b2, b3}
    First = b1
    Torn = Torn  None = None  Unknown = Unknown
    b1 = b1  b2 = b2  b3 = b3  j1 = j1  j2 = j2  cmd = cmd
    ServiceJobs = {j1, j2}
    Commands = {cmd}
    Worlds <- MCWorlds
SPECIFICATION FairSpec
CHECK_DEADLOCK FALSE
INVARIANTS OutcomeIsSound KnownGoodKept UndoPossible
PROPERTY RequestAnswered
