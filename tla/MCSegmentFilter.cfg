SPECIFICATION PartSpec
CONSTANTS
    Load <- MCLoad
    Vmas <- MCVmas
    Reg = {"pc", "sp"}
    Probed = {"pc"}
    PageSize = 2
    Word = 8
    MaxMaps = 2
    Thread = {"t1", "t2", "t3"}
    Top = "t2"
    Arch = {"arm", "arm64", "riscv64", "x86", "x86_64"}
INVARIANTS OmittedForAReason AskedIsOmitted MinidumpExact RegistersOfCrash ReadsBack
CHECK_DEADLOCK FALSE
