SPECIFICATION Spec
CONSTANTS
    k1 = k1
    k2 = k2
    bg = bg
    None = None
    Crasher <- MCCrasher
    Direct <- MCDirect
    AppKids = 0
    MaxDumps = 2
    MaxToggles = 2
    MaxInterrupts = 0
INVARIANTS WaitsOwnChild
CHECK_DEADLOCK FALSE
