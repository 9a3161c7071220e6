CONSTANTS
    f = f
    a = a
    b = b
    i1 = i1
    s1 = s1
    s2 = s2
    s3 = s3
    User <- Users
    Founder = f
    Team <- Colleagues
    Invitation = {}
    Session = {s1, s2}
    SeatLimit <- Limits
    RoleSet <- SomeRoles
    PermissionSet <- SomePermissions
    Operation <- TeamOperations
    MaxRequest = 2
SPECIFICATION Spec
INVARIANTS
    SomeoneManages
CHECK_DEADLOCK FALSE
