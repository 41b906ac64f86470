\* Mixed code with fetch errors, until the free list is empty.
CONSTANTS
    NumArch = 2
    NumPhys = 8
    RobSize = 5
    IssueSize = 1
    FetchSize = 2
    Width = 2
    ALU1 = ALU1
    ALU2 = ALU2
    OtherUnits = {MULT}
    BusError = BusError
    Words <- MixedWords
    HostActs = FALSE
SPECIFICATION Spec
INVARIANT
    RenameNeverFails
