CONSTANTS
    c1 = c1
    c2 = c2
    u1 = u1
    u2 = u2
    Call = {c1, c2}
    User = {u1, u2}
    LastDay = 3
    Month <- Calendar
    Tier <- Packages
    Cap <- Shares
    Price <- Prices
    ToolRounds = 1
    Overrun = 1
SPECIFICATION Spec
SYMMETRY BudgetSymmetry
INVARIANTS
    TypeOK
    WithinBudget
    BilledIsCounted
CHECK_DEADLOCK FALSE
