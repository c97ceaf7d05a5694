SPECIFICATION Spec
CHECK_DEADLOCK FALSE
CONSTANTS
    f1 = f1
    f2 = f2
    f3 = f3
    a = a
    b = b
    nul = nul
    None = None
    Files <- MCFiles
    Contents <- MCContents
    Original <- MCOriginal
    Nul = nul
    Writable = {f1}
    Platforms = {"unix", "windows"}
    Plans <- MCPlans
    FilesPerWorker = 2
    Window = 2
    MaxBlocks = 2
    MaxWrites = 1
INVARIANTS
    EvidenceIsOfItsVersion
    AccountedOnce
    TerminationIsTrue
    ChangesAreReal
PROPERTIES
    ScanReturns
