SPECIFICATION HSpec
CONSTANTS
    p1 = p1
    p2 = p2
    p3 = p3
    n1 = n1
    n2 = n2
    n3 = n3
    c1 = c1
    c2 = c2
    None = None
    Peers = {p1, p2, p3}
    Names = {n1, n2, n3}
    Contents = {c1}
    Kids = {k1, k2}
    MaxInbox = 9
    MaxRegs = 3
    Renames = FALSE
    Lossy = FALSE
    MaxCommands <- Twice
    Menu <- NoLists
    FirstNames <- OwnNames
    FirstFiles <- AllAtP1
INVARIANTS
    TypeOK
    AnswersMatchReaders
    StuckOnlyInCircle
PROPERTIES
    ServerSpec
    ClosesWithdrawn
CHECK_DEADLOCK FALSE
