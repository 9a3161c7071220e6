CONSTANTS
    c1 = c1
    w1 = w1
    request = request
    cron = cron
    Company <- OneCompany
    Worker <- OneWorker
    Caller <- TwoCallers
    Cron = cron
    MaxRun = 2
    MaxCrash = 1
SPECIFICATION FairSpec
INVARIANTS
    TypeOK
    OneLetterEach
    ResultsAreTrue
PROPERTIES
    NothingWaitsForever
CHECK_DEADLOCK FALSE
