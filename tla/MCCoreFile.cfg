SPECIFICATION PartSpec
CONSTANTS
    EhdrSize = 64
    PhdrSize = 56
    NoteHead = 20
    PrStatusSize = 392
    SigInfoSize = 128
    Regsets = TRUE
    FpRegsSize = 528
    TlsSize = 16
    PacMaskSize = 16
    KeysSize = 8
    TaggedSize = 8
    AuxvSize = 16
    FileSize = 24
    CountSize = 16
    AlignSize = 16
    Half = 8
    Word = 32
    MaxMaps = 2
    MaxPages = 3
    MaxName = 2
    MaxThreads = 2
    MaxAuxv = 1
    Ehdr32 = 52
    Phdr32 = 32
    PrStatus32 = 148
    Auxv32 = 8
    File32 = 12
    OffsetWord = 672
    OffsetMax = 639
    Maps32 = 3
    Pages32 = 2
    Name32 = 2
    Threads32 = 1
INVARIANTS TypeOK NotesInPlace PagesInPlace Complete SegmentsInPlace
CHECK_DEADLOCK FALSE
