SPECIFICATION Spec
CONSTANTS
    b1 = b1
    b2 = b2
    s1 = s1
    s2 = s2
    l1 = l1
    Bidder <- OneBidder
    Session <- MCSession
    Lot <- OneLot
    Format <- AnyFormat
    Carry <- CarryBids
    Handler <- BiddingHandlers
    MaxRound = 3
    MaxVersion = 2
    MaxDays = 2
    MaxAward = 1
INVARIANTS
    TypeOK
PROPERTIES
    SubmissionsFollowTheRules
    SubmittedBidsStand
    ListingMovesForward
    NoBidLeftBehind
    EliminatedStaysOut
CHECK_DEADLOCK FALSE
