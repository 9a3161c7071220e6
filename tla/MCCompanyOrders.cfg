SPECIFICATION Spec
CONSTANTS
    s1 = s1
    s2 = s2
    p1 = p1
    p2 = p2
    f1 = f1
    Session <- MCSession
    PaymentId <- MCPaymentId
    Form <- MCForm
    Amount = 3
    Plan <- MCPlans
    InitialStatus <- AnyOrder
INVARIANTS
    TypeOK
    NeverOvercollected
    ShippedAgainstPayment
    NoFreshDuplicate
    DisputeHasAGround
PROPERTIES
    CancelStrandsNoMoney
    GoodsNeverUnsent
    ImplementsLedger
SYMMETRY Symmetry
CHECK_DEADLOCK FALSE
