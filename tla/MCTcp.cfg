SPECIFICATION FairSpec
CONSTANTS
    alice = alice
    bob = bob
    report = report
    notes = notes
    draft = draft
    None = None
    Clients = {alice, bob}
    Names = {report, notes, draft}
    Folder <- OneFolder
    Files <- ThreeKinds
    DataLen = 2
INVARIANT TypeOK
INVARIANT OneWriter
PROPERTY CopyIsFile
PROPERTY TransferEnds
CHECK_DEADLOCK FALSE
