SPECIFICATION Spec
CONSTANTS
    None = None
    Torn = Torn
    k1 = k1
    k2 = k2
    var = var
    srv = srv
    root = root
    usb = usb
    home = home
    Keys <- MCKeys
    Dirs <- MCDirs
    DefaultDir = var
    ShallowDirs = {root}
    Paths <- MCPaths
    HereKey = k1
    HereDir = var
    Brought <- MCBrought
    MaxRows = 2
    MaxCommands = 2
    MaxFaults = 2
INVARIANTS
    LogContinuesItsDatabase
    ServesWithItsKey
    RestoreBringsBack
PROPERTIES
    BackupHoldsCommitted
    KeptUnlessAgreed
CHECK_DEADLOCK FALSE
