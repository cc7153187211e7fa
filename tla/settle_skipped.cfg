SPECIFICATION Spec
CONSTANTS
    l1 = l1
    l2 = l2
    u2 = u2
    a1 = a1
    u1 = u1
    None = None
    Callers <- MCCallers
    Logins <- MCLogins
    Approvals <- MCApprovals
    Unlocks <- MCUnlocks
    ValidMAC = TRUE
    Parties <- MCParties
    MaxPDUs = 2
CHECK_DEADLOCK FALSE
PROPERTIES
    SettledBeforeUse
