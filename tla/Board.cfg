SPECIFICATION BoardSpec
CONSTANTS
    Probes <- MCProbes
    Words <- MCWords
    MemorySizes <- MCMemorySizes
    Files <- MCFiles
INVARIANTS
    BoardTypeOK
    DecodesInnermost
    RamReads
    RomIsImage
    RomAnswers
CHECK_DEADLOCK FALSE
