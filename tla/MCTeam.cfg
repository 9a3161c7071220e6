CONSTANTS
    f = f
    a = a
    b = b
    i1 = i1
    s1 = s1
    s2 = s2
    s3 = s3
    User <- Users
    Founder = f
    Team <- Colleague
    Invitation = {i1}
    Session = {s1, s2}
    SeatLimit <- Limits
    RoleSet <- SomeRoles
    PermissionSet <- OnlyBuying
    Operation <- AllOperations
    MaxRequest = 2
SPECIFICATION Spec
SYMMETRY SessionSymmetry
INVARIANTS
    TypeOK
    ClosedIsEmpty
PROPERTIES
    LeavingKeepsAManager
    JoinsFitTheSeats
CHECK_DEADLOCK FALSE
