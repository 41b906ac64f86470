CONSTANTS
    NumArch = 2
    NumPhys = 7
SPECIFICATION Spec
INVARIANTS
    TypeOK
    Threaded
PROPERTY
    ImplementsStack
