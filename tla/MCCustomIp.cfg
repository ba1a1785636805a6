SPECIFICATION FairSpec
CONSTANTS
    None = None
    Operands = {0, 1, 2}
INVARIANTS
    TypeOK
    ReadsOwnResult
    DoneIsFilled
PROPERTIES
    IterationEnds
