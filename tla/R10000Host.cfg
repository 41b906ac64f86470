\* Resets and CP0 writes between cycles; a chain of dependent instructions.
CONSTANTS
    NumArch = 2
    NumPhys = 6
    RobSize = 4
    IssueSize = 1
    FetchSize = 2
    Width = 2
    ALU1 = ALU1
    ALU2 = ALU2
    OtherUnits = {}
    BusError = BusError
    Words <- ChainWords
    HostActs = TRUE
SPECIFICATION Spec
INVARIANTS
    TypeOK
    HeldOnce
    MapAgreesWithRob
PROPERTIES
    LostOnlyWhenFull
    FlushTargetKept
