SPECIFICATION Spec
CONSTANTS
    b1 = b1
    b2 = b2
    s1 = s1
    s2 = s2
    l1 = l1
    Bidder <- MCBidder
    Session <- MCSession
    Lot <- OneLot
    Format <- Rfq
    Carry <- LazyOrNone
    Handler <- AwardHandlers
    MaxRound = 2
    MaxVersion = 2
    MaxDays = 1
    MaxAward = 2
INVARIANTS
    OneAwardLive
    LiveOrderHasWinner
    OrderedAtCurrentPrice
SYMMETRY Symmetry
CHECK_DEADLOCK FALSE
