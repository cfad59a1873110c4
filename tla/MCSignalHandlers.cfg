SPECIFICATION PartSpec
CONSTANTS
    t1 = t1
    t2 = t2
    l1 = l1
    l2 = l2
    Opencore = Opencore
    Default = Default
    None = None
    Thread <- MCThread
    NumSignals = 2
    Orig <- MCOrig
    Async <- MCAsync
    Calls = 2
    Libraries <- MCLibraries
    Other = l1
    MaxEvents = 12
INVARIANTS TypeOK RestoreFaithful CrashDumpedOnce ChainIntact CrashFindsService StaysDisabled
PROPERTIES CrashEnds CrashDies
CHECK_DEADLOCK FALSE
