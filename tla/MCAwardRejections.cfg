SPECIFICATION Spec
CONSTANTS
    b1 = b1
    b2 = b2
    s1 = s1
    s2 = s2
    l1 = l1
    Bidder <- MCBidder
    Session <- MCSession
    Lot <- OneLot
    Format <- Rfq
    Carry <- AutoCarry
    Handler <- RevertHandlers
    MaxRound = 1
    MaxVersion = 1
    MaxDays = 1
    MaxAward = 1
INVARIANT
    RejectedAwardReopens
CHECK_DEADLOCK FALSE
