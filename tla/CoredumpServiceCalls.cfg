SPECIFICATION Spec
CONSTANTS
    c1 = c1
    c2 = c2
    k1 = k1
    Caller <- MCCaller
    Crasher = {}
    MaxCalls = 3
    MaxToggles = 1
    Interrupts = TRUE
    ListenerCalls = FALSE
INVARIANTS TypeOK TrueMeansDumped ListenerFirst
PROPERTIES EveryCallReturns
CHECK_DEADLOCK FALSE
