CONSTANTS
    AddrSize = 5
    ResetVector = 0
    BootVector = 4
    GeneralVector = 2
    Targets = {1}
    StatusWrites <- Writes
    CountSize = 3
    Batch = 3
SPECIFICATION FairSpec
INVARIANT
    TypeOK
PROPERTIES
    ImplementsGate
    EretResumes
    TimerRecurs
