\* The machine as the front end drives it, with three units and mixed code.
CONSTANTS
    NumArch = 2
    NumPhys = 8
    RobSize = 5
    IssueSize = 1
    FetchSize = 2
    Width = 2
    ALU1 = ALU1
    ALU2 = ALU2
    OtherUnits = {MULT}
    BusError = BusError
    Words <- MixedWords
    HostActs = FALSE
SPECIFICATION FairSpec
INVARIANTS
    RobBound
    InOrder
    WorkAccounted
PROPERTIES
    StaleIssueIsFlushed
    OverflowRecovers
