--------------------------- MODULE MCListingAward ---------------------------
(* Instances of ListingAward for TLC: each run lets in the handlers whose    *)
(* races it is about.                                                       *)
EXTENDS ListingAward, TLC

CONSTANTS b1, b2, s1, s2, l1

MCBidder  == {b1, b2}
OneBidder == {b1}
MCSession == {s1, s2}
OneLot    == {l1}

Rfq       == {"RFQ"}
AnyFormat == {"RFQ", "ENGLISH_AUCTION"}

AutoCarry  == {"AUTO"}
LazyOrNone == {"LAZY", "NONE"}

BiddingHandlers == {"delete", "place", "expire", "extend", "eliminate", "nextRound",
                    "evaluate", "close", "cancel", "moderate", "award", "reject", "crash"}
AwardHandlers   == {"place", "eliminate", "award", "approval", "closeNoAward", "nextRound",
                    "order", "reject"}
RevertHandlers  == {"place", "award", "reject"}

Symmetry == Permutations(MCBidder) \cup Permutations(MCSession)
=============================================================================
