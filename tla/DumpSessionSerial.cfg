SPECIFICATION PartSpec
CONSTANTS
    k1 = k1
    k2 = k2
    bg = bg
    None = None
    Crasher <- MCCrashers
    Direct = {}
    AppKids = 1
    MaxDumps = 3
    MaxToggles = 2
    MaxInterrupts = 1
    FileCrasher <- MCCrasher
    FileDirect <- MCDirect
    Asked <- MCAsked
    Flags <- MCFlags
    Dirs <- MCDirs
    Writable <- MCWritable
    Comm <- MCComm
    Slashed <- MCSlashed
    CorePages <- MCCorePages
    MaxSeconds = 1
    MaxSets = 1
INVARIANTS OwnSnapshot Attachable DumpableRestored OwnChildReaped PathHoldsCore
CHECK_DEADLOCK FALSE
