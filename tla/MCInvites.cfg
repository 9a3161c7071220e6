CONSTANTS
    r1 = r1
    r2 = r2
    d1 = d1
    d2 = d2
    Row <- TwoRows
    Instance <- OneInstance
    Source <- ManualAndAutomatic
    DigestMax = 1
    MaxAttempts = 1
    PauseAfter = 2
    Event <- ChangesOfMind
    LockChoice <- Works
    MaxFault = 1
SPECIFICATION Spec
SYMMETRY RowSymmetry
INVARIANTS
    TypeOK
    OneReminderEach
    SentHasLeft
    QuietAfterwards
PROPERTIES
    WeekBetweenLetters
CHECK_DEADLOCK FALSE
