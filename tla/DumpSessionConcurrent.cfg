SPECIFICATION Spec
CONSTANTS
    k1 = k1
    k2 = k2
    bg = bg
    None = None
    Crasher <- MCCrasher
    Direct <- MCDirect
    AppKids = 1
    MaxDumps = 2
    MaxToggles = 1
    MaxInterrupts = 1
INVARIANTS TypeOK ChildrenAccounted
PROPERTIES DumpReturns
CHECK_DEADLOCK FALSE
