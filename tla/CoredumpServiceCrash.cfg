SPECIFICATION Spec
CONSTANTS
    c1 = c1
    c2 = c2
    k1 = k1
    Caller <- MCCaller
    Crasher <- MCCrasher
    MaxCalls = 2
    MaxToggles = 1
    Interrupts = FALSE
    ListenerCalls = FALSE
PROPERTIES CrashDies
CHECK_DEADLOCK FALSE
