SPECIFICATION FairSpec
CONSTANTS
    alice = alice
    bob = bob
    report = report
    notes = notes
    draft = draft
    None = None
    Clients = {alice, bob}
    Names = {report, notes, draft}
    Folder <- OneFolder
    Sizes <- ThreeKinds
    DataLen = 2
    MaxRuns = 2
    MaxAccidents = 2
    MaxUnread = 2
INVARIANT TypeOK
INVARIANT OneWriter
INVARIANT OnlyItsBytes
PROPERTY CopyIsWhole
PROPERTY LastArrived
PROPERTY TransferEnds
CHECK_DEADLOCK FALSE
