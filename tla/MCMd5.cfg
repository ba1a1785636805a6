SPECIFICATION Spec
CONSTANTS
    None = None
    Word <- MCWord
    Zero = {}
    Plus <- MCPlus
    F <- MCF
    Rotate <- MCRotate
    N = 4
    A = 2
    K <- MCK
    S <- MCS
    G <- MCG
    IV <- MCIV
    Run <- MCRun
    Crunchers = 2
    Writes <- MCWrites
    Chunks = 2
INVARIANT TypeOK
PROPERTY ImplementsMd5
