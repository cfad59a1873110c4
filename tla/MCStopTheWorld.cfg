SPECIFICATION Spec
CONSTANTS
    main = main
    dumper = dumper
    worker = worker
    late = late
    NoTid = NoTid
    Tid <- MCTid
    First <- MCFirst
    Dumper = dumper
    Top = worker
    Signalled <- MCSignalled
INVARIANTS TypeOK WorldStopped FreezeWindow PrStatusBijective
PROPERTIES DumpBounded
CHECK_DEADLOCK FALSE
