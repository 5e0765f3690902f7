CONSTANTS
    a = a
    b = b
    c = c
    tail = tail
    again = again
    once = once
    NoInscription = NoInscription
    Blocks <- MCBlocks
    SatOf <- MCSatOf
    Plus <- MCPlus
    Procs <- MCProcs
    Mode <- MCMode
    InitHeight = 1
    Lookback = 2
    MaxStarts = 2
    MaxFaults = 1
    MaxScripts = 1
SPECIFICATION Spec
INVARIANTS
    BlockDoneIsAccounted
    TailLeavesNoGap
    IndexedIsListed
PROPERTIES
    LedgerSpec
CHECK_DEADLOCK FALSE
