SPECIFICATION Spec
CONSTANTS
    c1 = c1
    c2 = c2
    k1 = k1
    Caller <- MCCaller
    Crasher = {}
    MaxCalls = 3
    MaxToggles = 2
    Interrupts = FALSE
    ListenerCalls = FALSE
PROPERTIES RefinesRequest
CHECK_DEADLOCK FALSE
