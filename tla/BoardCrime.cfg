SPECIFICATION BoardSpec
CONSTANTS
    Probes <- MCProbes
    Words <- MCWords
    MemorySizes <- MCMemorySizes
    Files <- MCFiles
INVARIANTS
    AccessesAnswered
CHECK_DEADLOCK FALSE
