CONSTANTS
    r1 = r1
    r2 = r2
    d1 = d1
    d2 = d2
    Row <- OneRow
    Instance <- TwoInstances
    Source <- FromTheForm
    DigestMax = 1
    MaxAttempts = 2
    PauseAfter = 1
    Event <- Endings
    LockChoice <- MayFail
    MaxFault = 1
SPECIFICATION FairSpec
INVARIANTS
    OneLetterEach
PROPERTIES
    NothingStuck
CHECK_DEADLOCK FALSE
