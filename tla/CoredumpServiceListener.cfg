SPECIFICATION Spec
CONSTANTS
    c1 = c1
    c2 = c2
    k1 = k1
    Caller <- MCCaller
    Crasher = {}
    MaxCalls = 2
    MaxToggles = 0
    Interrupts = FALSE
    ListenerCalls = TRUE
PROPERTIES ListenerMayCall
CHECK_DEADLOCK FALSE
