SPECIFICATION FairSpec
CONSTANTS
    Numbers = {0, 5, 30}
    MaxTyped = 3
    Capacity = 1
    Width = 5
    MaxCandidate = 5000
INVARIANT TypeOK
INVARIANT ShowsPrimes
PROPERTY ZeroEndsAll
PROPERTY TypedIsSent
CHECK_DEADLOCK FALSE
