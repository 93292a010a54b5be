CONSTANTS
    r1 = r1
    r2 = r2
    w1 = w1
    w2 = w2
    Row <- MCRow
    Worker <- MCWorker
    Outsiders <- MCOutsiders
    Quote = {1}
    MaxNonce = 2
    MaxBlocks = 3
    Depth = 2
    MaxAttempts = 2
    DailyCap = 2
SPECIFICATION MCSpec
SYMMETRY Interchangeable
INVARIANTS
    LedgerBeforeNetwork
    SettledAsMined
    ProofNamesRealAnchor
    
CHECK_DEADLOCK FALSE
