SPECIFICATION Spec
CONSTANTS
    crash = crash
    bg = bg
    app = app
    Tid <- MCTid
    Dumper <- MCDumper
    None = None
INVARIANTS StillUnlessReleased FrozenByAlarm
PROPERTIES DumpsReturn
CHECK_DEADLOCK FALSE
