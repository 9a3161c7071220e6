SPECIFICATION Spec
CONSTANTS
    u1 = u1
    u2 = u2
    u3 = u3
    s1 = s1
    s2 = s2
    User <- MCUser
    Buyer <- MCBuyer
    Approver <- MCApprover
    Session <- MCSession
    Flow <- TwoSteps
    MaxStep = 2
    MaxRequest = 1
    MayCrash = TRUE
INVARIANTS
    TypeOK
    ChainAlive
    OrderedWhenApproved
    SeparationOfDuties
PROPERTIES
    NoSilentPending
CHECK_DEADLOCK FALSE
