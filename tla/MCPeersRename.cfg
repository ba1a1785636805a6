SPECIFICATION FairSpec
CONSTANTS
    p1 = p1
    p2 = p2
    p3 = p3
    n1 = n1
    n2 = n2
    n3 = n3
    c1 = c1
    c2 = c2
    None = None
    Peers = {p1, p2}
    Names = {n1, n2}
    Contents = {c1}
    Kids = {}
    MaxInbox = 6
    MaxRegs = 3
    Renames = TRUE
    Lossy = FALSE
    MaxCommands <- Twice
    Menu <- NoTransfers
    FirstNames <- AnyNames
    FirstFiles <- AllAtP1
PROPERTIES
    RegistrationEnds
CHECK_DEADLOCK FALSE
