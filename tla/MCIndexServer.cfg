SPECIFICATION MCSpec
CONSTANTS
    Peers = {p1, p2}
    Names = {n1, n2}
    Contents = {c1, c2}
    MaxInbox = 1
    MaxUnread = 0
SYMMETRY Symmetry
INVARIANTS
    TypeOK
    UniqueEntries
    OneAddressPerName
PROPERTIES
    StableProvider
    ImplementsDirectory
