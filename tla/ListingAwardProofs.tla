------------------------- MODULE ListingAwardProofs -------------------------
(***************************************************************************)
(* Proofs about ListingAward, for any bidders, currencies, handlers and     *)
(* requests in flight, and any bounds.                                      *)
(*                                                                          *)
(* A bid may be written by anybody while the listing is open, but the       *)
(* invariants of the award need only what a step does to the orders, to the *)
(* state of the listing and to winning bids: every step is one of five      *)
(* kinds, and the invariants are proved against the kinds.                  *)
(***************************************************************************)
EXTENDS ListingAward, TLAPS

(* What a request remembers about the bounds and the rules it was read under*)
PlaceRead(x) ==
    /\ x.seen.version < MaxVersion
    /\ x.seen.status = "SUBMITTED" => ~x.draft /\ x.seen.activeBidRound # x.round

WithinBounds(x) ==
    /\ x.op = "place" => PlaceRead(x)
    /\ x.op = "extend" => x.days < MaxDays
    /\ x.op = "nextRound" => x.round < MaxRound

ReadsWithinBounds == \A s \in Session : WithinBounds(req[s])

Requests == req \in [Session -> Request] /\ ReadsWithinBounds
Typed    == TypeOK /\ ReadsWithinBounds

----------------------------------------------------------------------------
(* Types.                                                                   *)

LEMMA BoundFacts ==
    /\ MaxRound \in Nat /\ MaxVersion \in Nat /\ MaxDays \in Nat /\ MaxAward \in Nat /\ MaxDays > 0
    /\ 1 \in Round /\ Round \subseteq 0..MaxRound /\ Round \subseteq Nat
    /\ \A n \in Round : n < MaxRound => n + 1 \in Round
BY BoundAssumption DEF Round

LEMMA RequestTypes ==
    ASSUME TypeOK, NEW s \in Session
    PROVE  /\ req[s] \in Request
           /\ req[s].op = "place" => /\ req[s].bidder \in Bidder /\ req[s].draft \in BOOLEAN
                                     /\ req[s].round \in Round /\ req[s].seen \in Token
           /\ req[s].op = "extend" => /\ req[s].bidder \in Bidder /\ req[s].days \in 1..MaxDays
                                      /\ req[s].status \in {"DRAFT", "SUBMITTED"}
           /\ req[s].op = "eliminate" => req[s].bidder \in Bidder
           /\ req[s].op = "nextRound" =>
                /\ req[s].round \in Round
                /\ req[s].format \in {"RFQ", "ENGLISH_AUCTION"}
                /\ req[s].carry \in CarryBids
                /\ req[s].carry # "AUTO" => req[s].live = {} /\ req[s].stale = {}
           /\ req[s].op \in {"ask", "move", "run", "undo", "award"} => req[s].winners \subseteq Bidder
           /\ req[s].op \in {"run", "undo", "award"} => req[s].approved \in BOOLEAN
           /\ req[s].op = "award" => req[s].versions \in [Bidder -> 0..MaxVersion]
           /\ req[s].op = "reject" => req[s].order \in OrderId /\ req[s].alone \in BOOLEAN
<1>1. req[s] \in Request
    BY DEF TypeOK
<1>2. req[s].op = "place" => /\ req[s].bidder \in Bidder /\ req[s].draft \in BOOLEAN
                             /\ req[s].round \in Round /\ req[s].seen \in Token
    BY <1>1 DEF Request, Idle
<1>3. req[s].op = "extend" => /\ req[s].bidder \in Bidder /\ req[s].days \in 1..MaxDays
                              /\ req[s].status \in {"DRAFT", "SUBMITTED"}
    BY <1>1 DEF Request, Idle
<1>4. req[s].op = "eliminate" => req[s].bidder \in Bidder
    BY <1>1 DEF Request, Idle
<1>5. req[s].op = "nextRound" =>
          /\ req[s].round \in Round
          /\ req[s].format \in {"RFQ", "ENGLISH_AUCTION"}
          /\ req[s].carry \in CarryBids
          /\ req[s].carry # "AUTO" => req[s].live = {} /\ req[s].stale = {}
    BY <1>1 DEF Request, Idle, CarryBids
<1>6. req[s].op \in {"ask", "move"} => req[s].winners \subseteq Bidder
    BY <1>1 DEF Request, Idle
<1>7. req[s].op \in {"run", "undo"} => req[s].winners \subseteq Bidder /\ req[s].approved \in BOOLEAN
    BY <1>1 DEF Request, Idle
<1>8. req[s].op = "award" => /\ req[s].winners \subseteq Bidder /\ req[s].approved \in BOOLEAN
                             /\ req[s].versions \in [Bidder -> 0..MaxVersion]
    BY <1>1 DEF Request, Idle
<1>9. req[s].op = "reject" => req[s].order \in OrderId /\ req[s].alone \in BOOLEAN
    BY <1>1 DEF Request, Idle
<1> QED BY <1>1, <1>2, <1>3, <1>4, <1>5, <1>6, <1>7, <1>8, <1>9

LEMMA StartTypes ==
    ASSUME Typed, NEW s \in Session, NEW r \in Request, WithinBounds(r), Start(s, r)
    PROVE  Requests'
<1>1. req' \in [Session -> Request] /\ req'[s] = r /\ \A t \in Session : t # s => req'[t] = req[t]
    BY DEF Typed, TypeOK, Start
<1>2. \A t \in Session : WithinBounds(req'[t])
    BY <1>1 DEF Typed, ReadsWithinBounds
<1> QED BY <1>1, <1>2 DEF Requests, ReadsWithinBounds, WithinBounds, PlaceRead

LEMMA FinishTypes ==
    ASSUME Typed, NEW s \in Session, Finish(s)
    PROVE  Requests'
<1>1. Idle \in Request /\ WithinBounds(Idle)
    BY DEF Request, Idle, WithinBounds
<1>2. Start(s, Idle)
    BY DEF Start, Finish
<1> QED BY <1>1, <1>2, StartTypes

LEMMA KeepTypes == ASSUME Typed, UNCHANGED req PROVE Requests'
BY DEF Typed, TypeOK, Requests, ReadsWithinBounds, WithinBounds, PlaceRead

LEMMA SetStatusTypes ==
    ASSUME TypeOK, NEW v \in ListingStatus, SetStatus(v)
    PROVE  /\ listing' \in Listing /\ listing'.status = v
           /\ listing'.round = listing.round /\ listing'.awards = listing.awards
BY DEF TypeOK, SetStatus, Listing

LEMMA LostTypes == \A r \in Bid : /\ Lost(r) \in Bid /\ Lost(r).status = "LOST"
                                  /\ Lost(r).version = r.version
BY DEF Lost, Bid, BidStatus

LEMMA WithLostTypes ==
    ASSUME TypeOK, With(Having("SUBMITTED"), Lost)
    PROVE  bid' \in [Bidder -> Bid]
BY LostTypes DEF With, TypeOK

LEMMA TokenTypes == ASSUME TypeOK, NEW b \in Bidder PROVE TokenOf(b) \in Token
BY DEF TypeOK, TokenOf, Token, Bid

LEMMA NoBidTypes == NoBid \in Bid
BY BoundFacts DEF NoBid, Bid, BidStatus

LEMMA InitTyped == Init => Typed
<1> SUFFICES ASSUME Init PROVE Typed
    OBVIOUS
<1>1. listing \in Listing
    <2>1. /\ listing.status = "DRAFT" /\ listing.round = 1 /\ listing.format \in Format
          /\ listing.due = FALSE /\ listing.awards = 0
          /\ listing = [status |-> listing.status, round |-> listing.round, format |-> listing.format,
                        due |-> listing.due, awards |-> listing.awards]
        BY DEF Init
    <2>2. 0 \in 0..MaxAward /\ listing.format \in {"RFQ", "ENGLISH_AUCTION"}
        BY <2>1, BoundFacts, ChoiceAssumption
    <2> QED BY <2>1, <2>2, BoundFacts DEF Listing, ListingStatus
<1>2. order \in [OrderId -> Order]
    BY BoundFacts DEF Init, NoOrder, Order, OrderStatus
<1>3. req \in [Session -> Request]
    BY DEF Init, Request
<1>4. ReadsWithinBounds
    BY DEF Init, ReadsWithinBounds, WithinBounds, Idle
<1> QED BY <1>1, <1>2, <1>3, <1>4, NoBidTypes DEF Init, TypeOK, Typed

(* Changes of one bid.                                                      *)
LEMMA OneBidTypes ==
    ASSUME TypeOK, NEW b \in Bidder, NEW r \in Bid, bid' = [bid EXCEPT ![b] = r]
    PROVE  bid' \in [Bidder -> Bid] /\ bid'[b] = r /\ \A c \in Bidder : c # b => bid'[c] = bid[c]
BY DEF TypeOK

LEMMA PlacedTypes ==
    ASSUME TypeOK, NEW r \in Bid, NEW draft \in BOOLEAN, NEW n \in Round, r.version < MaxVersion
    PROVE  Placed(r, draft, n) \in Bid
<1>1. r.version + 1 \in 0..MaxVersion
    BY BoundFacts DEF Bid
<1>2. 0 \in 0..MaxDays /\ 1 \in 0..MaxDays /\ n \in 0..MaxRound
    BY BoundFacts
<1> QED BY <1>1, <1>2 DEF Placed, Bid, BidStatus

(* The steps of the listing.                                                *)
LEMMA ListingTypes ==
    ASSUME Typed, ListingStep
    PROVE  Typed'
<1>0. TypeOK
    BY DEF Typed
<1>1. Requests'
    BY KeepTypes DEF ListingStep, PublishListing, TimePasses, ChangeClosingTime, StartEvaluation,
                     CloseExpired, Cancel, CloseNoAward, AdminCloseListing, CancelRequest
<1>2. listing' \in Listing
    BY <1>0, SetStatusTypes
    DEF ListingStep, PublishListing, TimePasses, ChangeClosingTime, StartEvaluation,
        CloseExpired, Cancel, CloseNoAward, AdminCloseListing, CancelRequest, TypeOK, Listing,
        ListingStatus
<1>3. bid' \in [Bidder -> Bid]
    BY <1>0, WithLostTypes
    DEF ListingStep, PublishListing, TimePasses, ChangeClosingTime, StartEvaluation,
        CloseExpired, Cancel, CloseNoAward, AdminCloseListing, CancelRequest, TypeOK
<1>4. order' = order /\ awaiting' \subseteq Bidder
    BY <1>0
    DEF ListingStep, PublishListing, TimePasses, ChangeClosingTime, StartEvaluation,
        CloseExpired, Cancel, CloseNoAward, AdminCloseListing, CancelRequest, TypeOK
<1> QED BY <1>0, <1>1, <1>2, <1>3, <1>4 DEF Typed, TypeOK, Requests

(* The bidders, and the elimination of a bid.                               *)
LEMMA BidReadTypes ==
    ASSUME Typed, NEW s \in Session, NEW b \in Bidder, BidStep(s, b)
    PROVE  Typed'
<1>0. TypeOK
    BY DEF Typed
<1>1. ASSUME NEW draft \in BOOLEAN, PlaceBidRead(s, b, draft)
      PROVE  Requests'
    <2> DEFINE x == [op |-> "place", bidder |-> b, draft |-> draft, round |-> listing.round,
                     seen |-> TokenOf(b)]
    <2>1. x \in Request
        BY <1>0, TokenTypes DEF Request, TypeOK, Listing
    <2>2. WithinBounds(x)
        BY <1>1 DEF WithinBounds, PlaceRead, PlaceBidRead, MayPlace, CarriedBidRevisable, TokenOf
    <2> QED BY <1>1, <2>1, <2>2, StartTypes DEF PlaceBidRead
<1>2. ASSUME ExtendBidValidityRead(s, b) PROVE Requests'
    <2> DEFINE x == [op |-> "extend", bidder |-> b, status |-> bid[b].status, days |-> bid[b].days]
    <2>1. bid[b].status \in {"DRAFT", "SUBMITTED"} /\ bid[b].days > 0 /\ bid[b].days < MaxDays
        BY <1>2 DEF ExtendBidValidityRead
    <2>2. bid[b].days \in 1..MaxDays
        BY <1>0, <2>1, BoundFacts DEF TypeOK, Bid
    <2>3. x \in Request
        BY <2>1, <2>2 DEF Request
    <2>4. WithinBounds(x)
        BY <2>1 DEF WithinBounds
    <2> QED BY <1>2, <2>3, <2>4, StartTypes DEF ExtendBidValidityRead
<1>3. ASSUME EliminateRead(s, b) PROVE Requests'
    <2>1. [op |-> "eliminate", bidder |-> b] \in Request
        BY DEF Request
    <2>2. WithinBounds([op |-> "eliminate", bidder |-> b])
        BY DEF WithinBounds
    <2> QED BY <1>3, <2>1, <2>2, StartTypes DEF EliminateRead
<1>4. UNCHANGED <<listing, bid, order, awaiting>>
    BY DEF BidStep, PlaceBidRead, ExtendBidValidityRead, EliminateRead
<1> QED BY <1>0, <1>1, <1>2, <1>3, <1>4 DEF BidStep, Typed, TypeOK, Requests

LEMMA BidWriteTypes ==
    ASSUME Typed, NEW s \in Session,
           PlaceBidCommit(s) \/ ExtendBidValidityCommit(s) \/ EliminateCommit(s)
    PROVE  Typed'
<1>0. TypeOK
    BY DEF Typed
<1>1. Requests'
    BY FinishTypes DEF PlaceBidCommit, ExtendBidValidityCommit, EliminateCommit
<1>2. CASE PlaceBidCommit(s)
    <2> DEFINE b == req[s].bidder
    <2>1. b \in Bidder /\ req[s].draft \in BOOLEAN /\ req[s].round \in Round /\ req[s].seen \in Token
        BY <1>0, <1>2, RequestTypes DEF PlaceBidCommit, IsAt
    <2>2. PlaceRead(req[s])
        BY <1>2 DEF PlaceBidCommit, IsAt, Typed, ReadsWithinBounds, WithinBounds
    <2>3. bid[b] \in Bid
        BY <1>0, <2>1 DEF TypeOK
    <2>4. req[s].seen = TokenOf(b) => bid[b].version < MaxVersion
        BY <2>2 DEF PlaceRead, TokenOf
    <2>5. req[s].seen = TokenOf(b) => Placed(bid[b], req[s].draft, req[s].round) \in Bid
        BY <1>0, <2>1, <2>3, <2>4, PlacedTypes
    <2>6. bid' \in [Bidder -> Bid]
        BY <1>0, <1>2, <2>1, <2>5 DEF PlaceBidCommit, TypeOK
    <2> QED BY <1>0, <1>1, <1>2, <2>6 DEF PlaceBidCommit, Typed, TypeOK, Requests
<1>3. CASE ExtendBidValidityCommit(s)
    <2> DEFINE b == req[s].bidder
               new == [bid[b] EXCEPT !.days = @ + 1, !.expired = FALSE, !.status = "SUBMITTED"]
    <2>1. b \in Bidder /\ req[s].days \in 1..MaxDays /\ req[s].days < MaxDays
        BY <1>0, <1>3, RequestTypes DEF ExtendBidValidityCommit, IsAt, Typed, ReadsWithinBounds,
                                        WithinBounds
    <2>2. bid[b] \in Bid
        BY <1>0, <2>1 DEF TypeOK
    <2>3. bid[b].days = req[s].days => new \in Bid
        <3>1. bid[b].days = req[s].days => bid[b].days + 1 \in 0..MaxDays
            BY <2>1, BoundFacts
        <3> HIDE DEF b
        <3> QED BY <2>2, <3>1 DEF Bid, BidStatus
    <2>4. CASE bid[b].days = req[s].days /\ bid[b].status = req[s].status
        <3>1. bid' = [bid EXCEPT ![b].days = @ + 1, ![b].expired = FALSE, ![b].status = "SUBMITTED"]
            BY <1>3, <2>4 DEF ExtendBidValidityCommit
        <3>2. bid' = [bid EXCEPT ![b] = new]
            BY <3>1
        <3> QED BY <1>0, <1>1, <1>3, <2>1, <2>3, <2>4, <3>2
            DEF ExtendBidValidityCommit, Typed, TypeOK, Requests
    <2>5. CASE ~(bid[b].days = req[s].days /\ bid[b].status = req[s].status)
        BY <1>0, <1>1, <1>3, <2>5 DEF ExtendBidValidityCommit, Typed, TypeOK, Requests
    <2> QED BY <2>4, <2>5
<1>4. CASE EliminateCommit(s)
    <2> DEFINE b == req[s].bidder
               new == [bid[b] EXCEPT !.status = "LOST", !.eliminated = TRUE]
    <2>1. b \in Bidder /\ bid[b] \in Bid
        BY <1>0, <1>4, RequestTypes DEF EliminateCommit, IsAt, TypeOK
    <2>2. new \in Bid
        BY <2>1 DEF Bid, BidStatus
    <2>3. bid' = bid \/ bid' = [bid EXCEPT ![b] = new]
        BY <1>4 DEF EliminateCommit
    <2>4. bid' \in [Bidder -> Bid]
        BY <1>0, <2>1, <2>2, <2>3 DEF TypeOK
    <2> QED BY <1>0, <1>1, <1>4, <2>4 DEF EliminateCommit, Typed, TypeOK, Requests
<1> QED BY <1>2, <1>3, <1>4

(* Requests without bounds in them.                                         *)
LEMMA PlainStart ==
    ASSUME Typed, NEW s \in Session, NEW r \in Request, r.op \notin {"place", "extend", "nextRound"},
           Start(s, r)
    PROVE  Requests'
BY StartTypes DEF WithinBounds

LEMMA ListingRowTypes ==
    ASSUME Typed, NEW s \in Session,
           DeleteListingRead(s) \/ DeleteListingCommit(s) \/ AdminReopenRead(s) \/ AdminReopenCommit(s)
    PROVE  Typed'
<1>0. TypeOK
    BY DEF Typed
<1>1. CASE DeleteListingRead(s) \/ AdminReopenRead(s)
    <2>1. [op |-> "delete"] \in Request /\ [op |-> "reopen"] \in Request
        BY DEF Request
    <2>2. Requests'
        BY <1>1, <2>1, PlainStart DEF DeleteListingRead, AdminReopenRead
    <2> QED BY <1>0, <1>1, <2>2 DEF DeleteListingRead, AdminReopenRead, Typed, TypeOK, Requests
<1>2. CASE DeleteListingCommit(s)
    <2>1. "DELETED" \in ListingStatus
        BY DEF ListingStatus
    <2>2. listing' \in Listing /\ bid' \in [Bidder -> Bid]
        BY <1>0, <1>2, <2>1, SetStatusTypes, NoBidTypes DEF DeleteListingCommit
    <2> QED BY <1>0, <1>2, <2>2, FinishTypes DEF DeleteListingCommit, Typed, TypeOK, Requests
<1>3. CASE AdminReopenCommit(s)
    <2>1. listing' \in Listing
        BY <1>0, <1>3 DEF AdminReopenCommit, TypeOK, Listing, ListingStatus
    <2> QED BY <1>0, <1>3, <2>1, FinishTypes DEF AdminReopenCommit, Typed, TypeOK, Requests
<1> QED BY <1>1, <1>2, <1>3

LEMMA NextRoundReadTypes ==
    ASSUME Typed, NEW s \in Session, NEW f \in Format, NEW c \in Carry, CreateNextRoundRead(s, f, c)
    PROVE  Typed'
<1>0. TypeOK
    BY DEF Typed
<1>1. PICK live \in SUBSET Bidder, stale \in SUBSET Bidder :
         Start(s, [op |-> "nextRound", format |-> f, carry |-> c, round |-> listing.round,
                   live |-> live, stale |-> stale])
         /\ (c # "AUTO" => live = {} /\ stale = {})
    BY DEF CreateNextRoundRead, Carryable
<1> DEFINE x == [op |-> "nextRound", format |-> f, carry |-> c, round |-> listing.round,
                 live |-> live, stale |-> stale]
<1>2. x \in Request
    BY <1>0, <1>1, ChoiceAssumption DEF Request, TypeOK, Listing, CarryBids
<1>3. WithinBounds(x)
    BY DEF WithinBounds, CreateNextRoundRead
<1>4. Requests'
    BY <1>1, <1>2, <1>3, StartTypes
<1> QED BY <1>0, <1>4 DEF CreateNextRoundRead, Typed, TypeOK, Requests

LEMMA NextRoundTypes ==
    ASSUME Typed, NEW s \in Session, CreateNextRoundCommit(s)
    PROVE  Typed'
<1> DEFINE r == req[s]
<1>0. TypeOK /\ Requests'
    BY FinishTypes DEF Typed, CreateNextRoundCommit
<1>1. r.round \in Round /\ r.round < MaxRound /\ r.format \in {"RFQ", "ENGLISH_AUCTION"}
    BY <1>0, RequestTypes DEF CreateNextRoundCommit, IsAt, Typed, ReadsWithinBounds, WithinBounds
<1>2. r.round + 1 \in Round
    BY <1>1, BoundFacts
<1>3. listing' \in Listing
    BY <1>0, <1>1, <1>2 DEF CreateNextRoundCommit, TypeOK, Listing, ListingStatus
<1>4. ASSUME NEW b \in Bid
      PROVE  /\ [b EXCEPT !.status = "SUBMITTED", !.round = r.round + 1,
                          !.days = IF r.format = "ENGLISH_AUCTION" THEN 0 ELSE b.days,
                          !.expired = r.format # "ENGLISH_AUCTION" /\ b.expired] \in Bid
             /\ [b EXCEPT !.status = "DRAFT", !.round = r.round + 1] \in Bid
             /\ Lost(b) \in Bid
    <2>1. 0 \in 0..MaxDays
        BY BoundFacts
    <2> HIDE DEF r
    <2> QED BY <1>2, <2>1, LostTypes DEF Bid, BidStatus
<1>5. CarryBidsOver(r) => bid' \in [Bidder -> Bid]
    <2> HIDE DEF r
    <2> QED BY <1>0, <1>4 DEF CarryBidsOver, TypeOK
<1>6. bid' \in [Bidder -> Bid]
    BY <1>0, <1>5 DEF CreateNextRoundCommit, TypeOK
<1> QED BY <1>0, <1>3, <1>6 DEF CreateNextRoundCommit, Typed, TypeOK, Requests

(* Everything on the way to an award but its own writes.                    *)
LEMMA ApprovalTypes ==
    ASSUME Typed, NEW s \in Session,
           \/ \E W \in SUBSET Bidder : AwardRead(s, W)
           \/ RequestApproval(s) \/ SuspendListing(s) \/ ApproveAward(s) \/ UndoApproval(s)
           \/ RunAwardRead(s) \/ RejectAward(s) \/ OnAwardRejected(s) \/ Crash(s)
    PROVE  Typed'
<1>0. TypeOK
    BY DEF Typed
<1>1. \A W \in SUBSET Bidder, a \in BOOLEAN :
         /\ [op |-> "run", winners |-> W, approved |-> a] \in Request
         /\ [op |-> "undo", winners |-> W, approved |-> a] \in Request
         /\ [op |-> "ask", winners |-> W] \in Request
         /\ [op |-> "move", winners |-> W] \in Request
         /\ [op |-> "rejected"] \in Request
    BY DEF Request
<1>2. ASSUME NEW W \in SUBSET Bidder, AwardRead(s, W)
      PROVE  Requests'
    <2>1. CASE Start(s, [op |-> "run", winners |-> W, approved |-> FALSE])
        BY <1>1, <2>1, PlainStart
    <2>2. CASE Start(s, [op |-> "ask", winners |-> W])
        BY <1>1, <2>2, PlainStart
    <2> QED BY <1>2, <2>1, <2>2 DEF AwardRead
<1>3. ASSUME RequestApproval(s)
      PROVE  Requests'
    <2>1. req[s].winners \subseteq Bidder
        BY <1>0, <1>3, RequestTypes DEF RequestApproval, IsAt
    <2>2. [op |-> "move", winners |-> req[s].winners] \in Request
        BY <1>1, <2>1
    <2> QED BY <1>3, <2>2, PlainStart, FinishTypes DEF RequestApproval
<1>4. ASSUME ApproveAward(s)
      PROVE  Requests'
    <2>1. [op |-> "run", winners |-> awaiting, approved |-> TRUE] \in Request
        BY <1>0, <1>1 DEF TypeOK
    <2> QED BY <1>4, <2>1, PlainStart DEF ApproveAward
<1>5. ASSUME RunAwardRead(s)
      PROVE  Requests'
    <2>1. req[s].winners \in SUBSET Bidder /\ req[s].approved \in BOOLEAN
        BY <1>0, <1>5, RequestTypes DEF RunAwardRead, IsAt
    <2>2. [b \in Bidder |-> bid[b].version] \in [Bidder -> 0..MaxVersion]
        BY <1>0 DEF TypeOK, Bid
    <2>3. [op |-> "award", winners |-> req[s].winners, approved |-> req[s].approved,
           versions |-> [b \in Bidder |-> bid[b].version]] \in Request
        BY <2>1, <2>2 DEF Request
    <2>4. [op |-> "undo", winners |-> req[s].winners, approved |-> TRUE] \in Request
        BY <1>1, <2>1
    <2> QED BY <1>5, <2>3, <2>4, PlainStart, FinishTypes DEF RunAwardRead, GiveUp
<1>6. ASSUME RejectAward(s)
      PROVE  Requests'
    BY <1>1, <1>6, PlainStart DEF RejectAward
<1>7. Requests'
    BY <1>2, <1>3, <1>4, <1>5, <1>6, FinishTypes
    DEF SuspendListing, UndoApproval, OnAwardRejected, Crash
<1>8. bid' = bid /\ order' = order
    BY DEF AwardRead, RequestApproval, SuspendListing, ApproveAward, UndoApproval, RunAwardRead,
           RejectAward, OnAwardRejected, Crash
<1>9. listing' \in Listing
    BY <1>0, SetStatusTypes
    DEF AwardRead, RequestApproval, SuspendListing, ApproveAward, UndoApproval, RunAwardRead,
        RejectAward, OnAwardRejected, Crash, ListingStatus, TypeOK
<1>10. awaiting' \subseteq Bidder
    <2>1. IsAt(s, "ask") \/ IsAt(s, "undo") => req[s].winners \subseteq Bidder
        BY <1>0, RequestTypes DEF IsAt
    <2> QED BY <1>0, <2>1
        DEF AwardRead, RequestApproval, SuspendListing, ApproveAward, UndoApproval, RunAwardRead,
            RejectAward, OnAwardRejected, Crash, TypeOK
<1> QED BY <1>0, <1>7, <1>8, <1>9, <1>10 DEF Typed, TypeOK, Requests

LEMMA OrderIdTypes == \A o \in OrderId : Seller(o) \in Bidder
BY DEF OrderId, Seller

LEMMA AwardTypes ==
    ASSUME Typed, NEW s \in Session, RunAwardCommit(s)
    PROVE  Typed'
<1> DEFINE r == req[s]
<1>0. TypeOK
    BY DEF Typed
<1>1. r.winners \in SUBSET Bidder /\ r.approved \in BOOLEAN /\ r.versions \in [Bidder -> 0..MaxVersion]
    BY <1>0, RequestTypes DEF RunAwardCommit, IsAt
<1>2. [op |-> "undo", winners |-> r.winners, approved |-> TRUE] \in Request
    BY <1>1 DEF Request
<1>3. GiveUp(s) \/ Finish(s) => Requests'
    BY <1>2, PlainStart, FinishTypes DEF GiveUp
<1>4. ASSUME NEW partial, NEW L, Award(r, partial, L)
      PROVE  listing' \in Listing /\ bid' \in [Bidder -> Bid] /\ order' \in [OrderId -> Order]
    <2>1. listing.awards + 1 \in 0..MaxAward
        BY <1>0, BoundFacts DEF RunAwardCommit, TypeOK, Listing
    <2>2. listing' \in Listing
        BY <1>0, <1>4, <2>1 DEF Award, TypeOK, Listing, ListingStatus
    <2>3. \A b \in Bid : /\ [b EXCEPT !.status = "WON"] \in Bid
                          /\ [b EXCEPT !.status = "AWARDED_PARTIAL"] \in Bid
        BY DEF Bid, BidStatus
    <2>4. bid' \in [Bidder -> Bid]
        BY <1>0, <1>4, <2>3, LostTypes DEF Award, TypeOK
    <2>5. \A o \in OrderId : [status |-> "PENDING", version |-> r.versions[Seller(o)]] \in Order
        BY <1>1, OrderIdTypes DEF Order, OrderStatus
    <2> HIDE DEF r
    <2>6. order' \in [OrderId -> Order]
        BY <1>0, <1>4, <2>5 DEF Award, TypeOK
    <2> QED BY <2>2, <2>4, <2>6
<1>5. CASE listing.status \in Undecided /\ StillAsRead(r)
    BY <1>0, <1>3, <1>4, <1>5 DEF RunAwardCommit, Typed, TypeOK, Requests
<1>6. CASE ~(listing.status \in Undecided /\ StillAsRead(r))
    BY <1>0, <1>3, <1>6 DEF RunAwardCommit, Typed, TypeOK, Requests
<1> QED BY <1>5, <1>6

(* The orders.                                                              *)
LEMMA SetOrderTypes ==
    ASSUME TypeOK, NEW o \in OrderId, NEW v \in OrderStatus,
           order' = [order EXCEPT ![o].status = v]
    PROVE  /\ order' \in [OrderId -> Order]
           /\ \A p \in OrderId : /\ order'[p].version = order[p].version
                                  /\ order'[p].status = IF p = o THEN v ELSE order[p].status
BY DEF TypeOK, Order

LEMMA OrderTypes ==
    ASSUME Typed, NEW o \in OrderId, OrderStep(o)
    PROVE  Typed'
<1>0. TypeOK
    BY DEF Typed
<1>1. CASE AcceptOrder(o) \/ CancelOrder(o)
    <2>1. order' \in [OrderId -> Order]
        BY <1>0, <1>1, SetOrderTypes DEF AcceptOrder, CancelOrder, OrderStatus
    <2>2. Requests'
        BY <1>1, KeepTypes DEF AcceptOrder, CancelOrder
    <2> QED BY <1>0, <1>1, <2>1, <2>2 DEF AcceptOrder, CancelOrder, Typed, TypeOK, Requests
<1>2. ASSUME NEW s \in Session, RejectOrderCount(s, o)
      PROVE  Typed'
    <2>1. [op |-> "reject", order |-> o, alone |-> LiveOrder = {o}] \in Request
        BY DEF Request
    <2>2. Requests'
        BY <1>2, <2>1, PlainStart DEF RejectOrderCount
    <2> QED BY <1>0, <1>2, <2>2 DEF RejectOrderCount, Typed, TypeOK, Requests
<1> QED BY <1>1, <1>2 DEF OrderStep

LEMMA RejectTypes ==
    ASSUME Typed, NEW s \in Session, RejectOrderCommit(s)
    PROVE  Typed'
<1>0. TypeOK
    BY DEF Typed
<1>1. req[s].order \in OrderId
    BY <1>0, RequestTypes DEF RejectOrderCommit, IsAt
<1>2. order' \in [OrderId -> Order]
    BY <1>0, <1>1, SetOrderTypes DEF RejectOrderCommit, OrderStatus
<1>3. ASSUME NEW seller, NEW reopen, TakeBack(seller, reopen)
      PROVE  listing' \in Listing /\ bid' \in [Bidder -> Bid]
    <2>1. listing' \in Listing
        BY <1>0, <1>3 DEF TakeBack, TypeOK, Listing, ListingStatus
    <2>2. \A b \in Bid : /\ [b EXCEPT !.status = "LOST", !.eliminated = TRUE] \in Bid
                          /\ [b EXCEPT !.status = "SUBMITTED"] \in Bid
        BY DEF Bid, BidStatus
    <2>3. bid' \in [Bidder -> Bid]
        BY <1>0, <1>3, <2>2 DEF TakeBack, TypeOK
    <2> QED BY <2>1, <2>3
<1> QED BY <1>0, <1>2, <1>3, FinishTypes DEF RejectOrderCommit, Typed, TypeOK, Requests

LEMMA TypedStep == Typed /\ [Next]_vars => Typed'
<1> SUFFICES ASSUME Typed, [Next]_vars PROVE Typed'
    OBVIOUS
<1>0. TypeOK
    BY DEF Typed
<1>1. ASSUME NEW b \in Bidder, BidExpires(b)
      PROVE  Typed'
    <2>1. bid' \in [Bidder -> Bid]
        BY <1>0, <1>1 DEF BidExpires, TypeOK, Bid
    <2> QED BY <1>0, <1>1, <2>1, KeepTypes DEF BidExpires, Typed, TypeOK, Requests
<1>2. ASSUME NEW s \in Session, SessionStep(s)
      PROVE  Typed'
    BY <1>2, ListingRowTypes, BidWriteTypes, NextRoundReadTypes, NextRoundTypes, ApprovalTypes,
       AwardTypes, RejectTypes DEF SessionStep
<1>3. CASE UNCHANGED vars
    BY <1>0, <1>3, KeepTypes DEF vars, Typed, TypeOK, Requests
<1> QED BY <1>1, <1>2, <1>3, ListingTypes, BidReadTypes, OrderTypes DEF Next

(* Every row and every request in flight is well typed; in particular no    *)
(* bound on versions, days, rounds or awards is exceeded by a late write    *)
(* (company-listings.service.ts).                                           *)
THEOREM TypeCorrect == Spec => []TypeOK
<1>1. Typed => TypeOK
    BY DEF Typed
<1> QED BY <1>1, InitTyped, TypedStep, PTL DEF Spec

----------------------------------------------------------------------------
(* Submissions.                                                             *)

(* Only a submission counts as a new version of a bid.                      *)
LEMMA VersionStep ==
    ASSUME Typed, [Next]_vars, NEW b \in Bidder, bid'[b].version # bid[b].version
    PROVE  bid'[b].status = "NONE" \/ \E s \in Session : PlaceBidCommit(s)
<1>0. TypeOK
    BY DEF Typed
<1>1. ASSUME UNCHANGED bid PROVE FALSE
    BY <1>1
<1>2. ASSUME With(Having("SUBMITTED"), Lost) PROVE FALSE
    BY <1>0, <1>2, LostTypes DEF With, TypeOK
<1>3. ~ListingStep
    BY <1>1, <1>2 DEF ListingStep, PublishListing, TimePasses, ChangeClosingTime, StartEvaluation,
                      CloseExpired, Cancel, CloseNoAward, AdminCloseListing, CancelRequest
<1>4. ASSUME NEW c \in Bidder, BidExpires(c) PROVE FALSE
    BY <1>0, <1>4 DEF BidExpires, TypeOK, Bid
<1>5. ASSUME NEW s \in Session, NEW c \in Bidder, BidStep(s, c) PROVE FALSE
    BY <1>1, <1>5 DEF BidStep, PlaceBidRead, ExtendBidValidityRead, EliminateRead
<1>6. ASSUME NEW o \in OrderId, OrderStep(o) PROVE FALSE
    BY <1>1, <1>6 DEF OrderStep, AcceptOrder, CancelOrder, RejectOrderCount
<1>7. ASSUME NEW s \in Session, DeleteListingCommit(s) PROVE bid'[b].status = "NONE"
    BY <1>7 DEF DeleteListingCommit, NoBid
<1>8. ASSUME NEW s \in Session, ExtendBidValidityCommit(s) \/ EliminateCommit(s) PROVE FALSE
    BY <1>0, <1>8 DEF ExtendBidValidityCommit, EliminateCommit, TypeOK, Bid
<1>9. ASSUME NEW s \in Session, CreateNextRoundCommit(s) PROVE FALSE
    <2>1. CarryBidsOver(req[s])
        BY <1>1, <1>9 DEF CreateNextRoundCommit
    <2>2. bid[b] \in Bid
        BY <1>0 DEF TypeOK
    <2> QED BY <2>1, <2>2 DEF CarryBidsOver, Lost, Bid
<1>10. ASSUME NEW s \in Session, RunAwardCommit(s) PROVE FALSE
    <2>1. PICK partial, L : Award(req[s], partial, L)
        BY <1>1, <1>10 DEF RunAwardCommit
    <2>2. bid[b] \in Bid
        BY <1>0 DEF TypeOK
    <2> QED BY <2>1, <2>2 DEF Award, Lost, Bid
<1>11. ASSUME NEW s \in Session, RejectOrderCommit(s) PROVE FALSE
    <2>1. PICK seller, reopen : TakeBack(seller, reopen)
        BY <1>11 DEF RejectOrderCommit
    <2>2. bid[b] \in Bid
        BY <1>0 DEF TypeOK
    <2> QED BY <2>1, <2>2 DEF TakeBack, Bid
<1>12. ASSUME NEW s \in Session, SessionStep(s), bid' # bid
       PROVE  bid'[b].status = "NONE" \/ PlaceBidCommit(s)
    BY <1>7, <1>8, <1>9, <1>10, <1>11, <1>12
    DEF SessionStep, DeleteListingRead, AdminReopenRead, AdminReopenCommit, CreateNextRoundRead,
        AwardRead, RequestApproval, SuspendListing, ApproveAward, UndoApproval, RunAwardRead,
        RejectAward, OnAwardRejected, Crash
<1> QED BY <1>1, <1>3, <1>4, <1>5, <1>6, <1>12 DEF Next, vars

LEMMA SubmissionStep == Typed /\ [Next]_vars => [SubmissionsByTheRules]_vars
<1> SUFFICES ASSUME Typed, [Next]_vars, NEW b \in Bidder,
                    bid'[b].version # bid[b].version, bid'[b].status = "SUBMITTED"
             PROVE  /\ listing.status = "OPEN" /\ bid'[b].round = listing.round
                    /\ bid[b].status = "SUBMITTED" => bid[b].activeBidRound # listing.round
    BY DEF SubmissionsByTheRules
<1>0. TypeOK
    BY DEF Typed
<1>1. PICK s \in Session : PlaceBidCommit(s)
    BY VersionStep
<1>2. /\ req[s].bidder = b
      /\ listing.status = "OPEN" /\ listing.round = req[s].round /\ req[s].seen = TokenOf(b)
      /\ bid'[b] = Placed(bid[b], req[s].draft, req[s].round)
    BY <1>0, <1>1 DEF PlaceBidCommit, TypeOK
<1>3. PlaceRead(req[s])
    BY <1>1 DEF PlaceBidCommit, IsAt, Typed, ReadsWithinBounds, WithinBounds
<1>4. bid'[b].round = listing.round
    BY <1>0, <1>2 DEF Placed, TypeOK, Bid
<1> QED BY <1>2, <1>3, <1>4 DEF PlaceRead, TokenOf

(* A bid is submitted by the rules of its round, however late the request   *)
(* commits: under the lock is compared what the rules were tested on        *)
(* (placeBid).                                                              *)
THEOREM RulesOfSubmission == Spec => SubmissionsFollowTheRules
BY InitTyped, TypedStep, SubmissionStep, PTL DEF Spec, SubmissionsFollowTheRules

----------------------------------------------------------------------------
(* What a step does to an award.                                            *)

Winner(b) == bid[b].status \in Winning

(* It leaves the orders and what they were made from alone.                 *)
BidsKept == \A b \in Bidder : bid'[b].version = bid[b].version /\ (Winner(b) => Winner(b)')

Quiet ==
    /\ order' = order /\ listing'.awards = listing.awards
    /\ listing.status = "DELETED" => listing'.status = "DELETED"
    /\ listing.status = "AWARDED" =>
          listing'.status = "DELETED" \/ (listing'.status = "AWARDED" /\ BidsKept)

(* No rejection of an order begins.                                         *)
NoNewReject == \A s \in Session : req'[s].op = "reject" => req'[s] = req[s]

(* An order that nobody is rejecting moves on.                              *)
Moved(o) ==
    /\ order[o].status \in {"PENDING", "LIVE"} /\ ~Locked(o)
    /\ \A p \in OrderId : p # o => order'[p] = order[p]
    /\ order'[o].version = order[o].version /\ order'[o].status \in {"LIVE", "CANCELLED"}
    /\ UNCHANGED <<listing, bid, req>>

(* A new award.                                                             *)
Awarded(s) ==
    /\ listing.status \in Undecided /\ listing'.status = "AWARDED"
    /\ listing'.awards = listing.awards + 1
    /\ \A b \in Bidder : bid'[b].version = bid[b].version
    /\ \A o \in OrderId :
          \/ order'[o] = order[o]
          \/ /\ order'[o].status = "PENDING" /\ o[3] = listing.awards + 1
             /\ Winner(Seller(o))' /\ order'[o].version = bid[Seller(o)].version

LEMMA QuietReads ==
    ASSUME Typed, NEW s \in Session, NEW r, r.op # "reject", Start(s, r)
    PROVE  NoNewReject
BY DEF Typed, TypeOK, Start, NoNewReject

LEMMA QuietEnds ==
    ASSUME Typed, NEW s \in Session, Finish(s)
    PROVE  NoNewReject
BY DEF Typed, TypeOK, Finish, NoNewReject, Idle

LEMMA QuietKeeps == ASSUME Typed, UNCHANGED req PROVE NoNewReject
BY DEF NoNewReject

LEMMA QuietListing ==
    ASSUME Typed, ListingStep
    PROVE  Quiet /\ NoNewReject
<1>0. TypeOK
    BY DEF Typed
<1>1. NoNewReject
    BY QuietKeeps DEF ListingStep, PublishListing, TimePasses, ChangeClosingTime, StartEvaluation,
                      CloseExpired, Cancel, CloseNoAward, AdminCloseListing, CancelRequest
<1>2. order' = order
    BY DEF ListingStep, PublishListing, TimePasses, ChangeClosingTime, StartEvaluation,
           CloseExpired, Cancel, CloseNoAward, AdminCloseListing, CancelRequest
<1>3. listing'.awards = listing.awards
    BY <1>0, SetStatusTypes
    DEF ListingStep, PublishListing, TimePasses, ChangeClosingTime, StartEvaluation,
        CloseExpired, Cancel, CloseNoAward, AdminCloseListing, CancelRequest, TypeOK, Listing,
        ListingStatus
<1>4. listing.status \in {"AWARDED", "DELETED"} => listing' = listing /\ bid' = bid
    BY DEF ListingStep, PublishListing, TimePasses, ChangeClosingTime, StartEvaluation,
           CloseExpired, Cancel, CloseNoAward, AdminCloseListing, CancelRequest
<1> QED BY <1>1, <1>2, <1>3, <1>4 DEF Quiet, BidsKept, Winner

LEMMA QuietBids ==
    ASSUME Typed, NEW b \in Bidder, BidExpires(b) \/ \E s \in Session : BidStep(s, b)
    PROVE  Quiet /\ NoNewReject
<1>0. TypeOK
    BY DEF Typed
<1>1. CASE BidExpires(b)
    <2>1. BidsKept
        BY <1>0, <1>1 DEF BidExpires, BidsKept, Winner, TypeOK, Bid
    <2> QED BY <1>1, <2>1, QuietKeeps DEF BidExpires, Quiet
<1>2. ASSUME NEW s \in Session, BidStep(s, b)
      PROVE  Quiet /\ NoNewReject
    <2>1. NoNewReject
        BY <1>2, QuietReads DEF BidStep, PlaceBidRead, ExtendBidValidityRead, EliminateRead
    <2>2. UNCHANGED <<listing, bid, order>>
        BY <1>2 DEF BidStep, PlaceBidRead, ExtendBidValidityRead, EliminateRead
    <2> QED BY <2>1, <2>2 DEF Quiet, BidsKept, Winner
<1> QED BY <1>1, <1>2

(* Late writes: every one of them looks at the state of what it writes.     *)
LEMMA QuietWrites ==
    ASSUME Typed, NEW s \in Session,
           \/ DeleteListingCommit(s) \/ AdminReopenCommit(s) \/ PlaceBidCommit(s)
           \/ ExtendBidValidityCommit(s) \/ EliminateCommit(s) \/ CreateNextRoundCommit(s)
    PROVE  Quiet /\ NoNewReject
<1>0. TypeOK
    BY DEF Typed
<1>1. NoNewReject
    BY QuietEnds DEF DeleteListingCommit, AdminReopenCommit, PlaceBidCommit,
                     ExtendBidValidityCommit, EliminateCommit, CreateNextRoundCommit
<1>2. CASE DeleteListingCommit(s)
    <2>1. listing'.status = "DELETED" /\ listing'.awards = listing.awards
        BY <1>0, <1>2, SetStatusTypes DEF DeleteListingCommit, ListingStatus
    <2> QED BY <1>1, <1>2, <2>1 DEF Quiet, DeleteListingCommit
<1>3. CASE AdminReopenCommit(s) \/ CreateNextRoundCommit(s)
    <2>1. listing'.awards = listing.awards /\ order' = order
        BY <1>0, <1>3 DEF AdminReopenCommit, CreateNextRoundCommit, TypeOK, Listing
    <2>2. listing.status \in {"AWARDED", "DELETED"} => listing' = listing /\ bid' = bid
        BY <1>3 DEF AdminReopenCommit, CreateNextRoundCommit, Reopenable
    <2> QED BY <1>1, <2>1, <2>2 DEF Quiet, BidsKept, Winner
<1>4. CASE PlaceBidCommit(s)
    BY <1>1, <1>4 DEF PlaceBidCommit, Quiet, BidsKept, Winner
<1>5. CASE ExtendBidValidityCommit(s)
    <2>1. req[s].status \in {"DRAFT", "SUBMITTED"}
        BY <1>0, <1>5, RequestTypes DEF ExtendBidValidityCommit, IsAt
    <2>2. BidsKept
        BY <1>0, <1>5, <2>1 DEF ExtendBidValidityCommit, BidsKept, Winner, Winning, TypeOK, Bid
    <2> QED BY <1>1, <1>5, <2>2 DEF ExtendBidValidityCommit, Quiet
<1>6. CASE EliminateCommit(s)
    <2>1. BidsKept
        BY <1>0, <1>6 DEF EliminateCommit, BidsKept, Winner, Winning, TypeOK, Bid
    <2> QED BY <1>1, <1>6, <2>1 DEF EliminateCommit, Quiet
<1> QED BY <1>2, <1>3, <1>4, <1>5, <1>6

LEMMA QuietReadings ==
    ASSUME Typed, NEW s \in Session,
           \/ DeleteListingRead(s) \/ AdminReopenRead(s)
           \/ \E f \in Format, c \in Carry : CreateNextRoundRead(s, f, c)
           \/ \E W \in SUBSET Bidder : AwardRead(s, W)
           \/ RequestApproval(s) \/ SuspendListing(s) \/ ApproveAward(s) \/ UndoApproval(s)
           \/ RunAwardRead(s) \/ RejectAward(s) \/ OnAwardRejected(s) \/ Crash(s)
    PROVE  Quiet /\ NoNewReject
<1>0. TypeOK
    BY DEF Typed
<1>1. NoNewReject
    BY QuietReads, QuietEnds
    DEF DeleteListingRead, AdminReopenRead, CreateNextRoundRead, AwardRead, RequestApproval,
        SuspendListing, ApproveAward, UndoApproval, RunAwardRead, RejectAward, OnAwardRejected, Crash,
        GiveUp
<1>2. order' = order /\ bid' = bid
    BY DEF DeleteListingRead, AdminReopenRead, CreateNextRoundRead, AwardRead, RequestApproval,
           SuspendListing, ApproveAward, UndoApproval, RunAwardRead, RejectAward, OnAwardRejected,
           Crash
<1>3. listing' = listing \/ \E v \in ListingStatus : SetStatus(v)
    BY DEF DeleteListingRead, AdminReopenRead, CreateNextRoundRead, AwardRead, RequestApproval,
           SuspendListing, ApproveAward, UndoApproval, RunAwardRead, RejectAward, OnAwardRejected,
           Crash, ListingStatus
<1>4. listing'.awards = listing.awards
    BY <1>0, <1>3, SetStatusTypes
<1>5. listing.status \in {"AWARDED", "DELETED"} => listing' = listing
    BY DEF DeleteListingRead, AdminReopenRead, CreateNextRoundRead, AwardRead, RequestApproval,
           SuspendListing, ApproveAward, UndoApproval, RunAwardRead, RejectAward, OnAwardRejected,
           Crash
<1> QED BY <1>1, <1>2, <1>4, <1>5 DEF Quiet, BidsKept, Winner

LEMMA AwardEffect ==
    ASSUME Typed, NEW s \in Session, RunAwardCommit(s)
    PROVE  (Quiet \/ Awarded(s)) /\ NoNewReject
<1> DEFINE r == req[s]
<1>0. TypeOK
    BY DEF Typed
<1>1. NoNewReject
    BY QuietReads, QuietEnds DEF RunAwardCommit, GiveUp
<1>2. CASE ~(listing.status \in Undecided /\ StillAsRead(r))
    BY <1>1, <1>2 DEF RunAwardCommit, Quiet, BidsKept, Winner
<1>3. CASE listing.status \in Undecided /\ StillAsRead(r)
    <2>0. \E partial \in SUBSET req[s].winners, L \in OrderPlans(req[s].winners) :
              Award(req[s], partial, L)
        BY <1>3 DEF RunAwardCommit
    <2>1. PICK partial \in SUBSET r.winners, L \in OrderPlans(r.winners) : Award(r, partial, L)
        BY <2>0
    <2>2. listing'.status = "AWARDED" /\ listing'.awards = listing.awards + 1
        BY <1>0, <2>1 DEF Award, TypeOK, Listing
    <2>3. ASSUME NEW b \in Bidder
          PROVE  bid'[b].version = bid[b].version /\ (b \in r.winners => Winner(b)')
        <3>1. bid[b] \in Bid
            BY <1>0 DEF TypeOK
        <3> HIDE DEF r
        <3> QED BY <2>1, <3>1 DEF Award, Lost, Winner, Winning, Bid
    <2>4. ASSUME NEW o \in OrderId, order'[o] # order[o]
          PROVE  /\ order'[o].status = "PENDING" /\ o[3] = listing.awards + 1
                 /\ Winner(Seller(o))' /\ order'[o].version = bid[Seller(o)].version
        <3>1. /\ <<o[1], o[2]>> \in L /\ o[3] = listing.awards + 1
              /\ order'[o] = [status |-> "PENDING", version |-> r.versions[Seller(o)]]
            <4> HIDE DEF r
            <4> QED BY <2>1, <2>4 DEF Award
        <3>2. Seller(o) \in r.winners
            BY <3>1 DEF OrderPlans, Seller
        <3>3. Seller(o) \in Bidder
            BY OrderIdTypes
        <3>4. r.versions[Seller(o)] = bid[Seller(o)].version
            BY <1>3, <3>2 DEF StillAsRead
        <3> QED BY <2>3, <3>1, <3>2, <3>3, <3>4
    <2>5. Awarded(s)
        BY <1>3, <2>2, <2>3, <2>4 DEF Awarded
    <2> QED BY <1>1, <2>5
<1> QED BY <1>2, <1>3

LEMMA OrderEffect ==
    ASSUME Typed, NEW o \in OrderId, AcceptOrder(o) \/ CancelOrder(o)
    PROVE  Moved(o)
<1>0. TypeOK
    BY DEF Typed
<1>1. PICK v \in {"LIVE", "CANCELLED"} : order' = [order EXCEPT ![o].status = v]
    BY DEF AcceptOrder, CancelOrder
<1>2. /\ order'[o].status = v /\ order'[o].version = order[o].version
      /\ \A p \in OrderId : p # o => order'[p] = order[p]
    BY <1>0, <1>1 DEF TypeOK, Order
<1> QED BY <1>2 DEF Moved, AcceptOrder, CancelOrder

(* Every step is of one of these kinds.                                     *)
LEMMA EffectStep ==
    ASSUME Typed, [Next]_vars
    PROVE  \/ Quiet /\ NoNewReject
           \/ \E s \in Session : Awarded(s) /\ NoNewReject
           \/ \E o \in OrderId : Moved(o)
           \/ \E s \in Session, o \in OrderId : RejectOrderCount(s, o)
           \/ \E s \in Session : RejectOrderCommit(s)
<1>1. CASE UNCHANGED vars
    BY <1>1, QuietKeeps DEF vars, Quiet, BidsKept, Winner
<1>2. ASSUME NEW s \in Session, SessionStep(s)
      PROVE  \/ Quiet /\ NoNewReject
             \/ Awarded(s) /\ NoNewReject
             \/ RejectOrderCommit(s)
    BY <1>2, QuietWrites, QuietReadings, AwardEffect DEF SessionStep
<1>3. ASSUME NEW o \in OrderId, OrderStep(o)
      PROVE  Moved(o) \/ \E s \in Session : RejectOrderCount(s, o)
    BY <1>3, OrderEffect DEF OrderStep
<1> QED BY <1>1, <1>2, <1>3, QuietListing, QuietBids DEF Next

----------------------------------------------------------------------------
(* The award and its orders.                                                *)

(* An open rejection holds the lock on its order, so that the order is      *)
(* still PENDING, and what it counted can only have become less: an order   *)
(* that was the last live one is still the last.                            *)
RejectHolds ==
    \A s \in Session :
        req[s].op = "reject" => /\ order[req[s].order].status = "PENDING"
                                /\ req[s].alone => LiveOrder \subseteq {req[s].order}

(* Two rejections are not of the same order.                                *)
RejectOnce ==
    \A s, t \in Session :
        req[s].op = "reject" /\ req[t].op = "reject" /\ req[s].order = req[t].order => s = t

Rejections == RejectHolds /\ RejectOnce

IInv == Typed /\ Rejections /\ OneAwardLive /\ LiveOrderHasWinner /\ OrderedAtCurrentPrice

LEMMA InitIInv == Init => IInv
<1> SUFFICES ASSUME Init PROVE IInv
    OBVIOUS
<1>1. LiveOrder = {}
    BY DEF Init, LiveOrder, NoOrder
<1>2. \A s \in Session : req[s].op = "idle"
    BY DEF Init, Idle
<1> QED BY <1>1, <1>2, InitTyped
        DEF IInv, Rejections, RejectHolds, RejectOnce, OneAwardLive, LiveOrderHasWinner,
            OrderedAtCurrentPrice

(* Without a live order the award is as it should be.                       *)
LEMMA NoLiveOrder ==
    ASSUME LiveOrder = {}
    PROVE  OneAwardLive /\ LiveOrderHasWinner /\ OrderedAtCurrentPrice
BY DEF OneAwardLive, LiveOrderHasWinner, OrderedAtCurrentPrice

LEMMA QuietStep ==
    ASSUME IInv, Quiet, NoNewReject
    PROVE  (Rejections /\ OneAwardLive /\ LiveOrderHasWinner /\ OrderedAtCurrentPrice)'
<1>1. order' = order /\ LiveOrder' = LiveOrder
    BY DEF Quiet, LiveOrder
<1>2. Rejections'
    BY <1>1 DEF IInv, Rejections, RejectHolds, RejectOnce, NoNewReject
<1>3. CASE LiveOrder = {}
    <2>1. LiveOrder' = {}
        BY <1>1, <1>3
    <2> QED BY <1>2, <2>1 DEF OneAwardLive, LiveOrderHasWinner, OrderedAtCurrentPrice
<1>4. CASE LiveOrder # {}
    <2>1. listing.status \in {"AWARDED", "DELETED"}
        BY <1>4 DEF IInv, OneAwardLive
    <2>2. OneAwardLive'
        BY <1>1, <2>1 DEF IInv, OneAwardLive, Quiet
    <2>3. CASE listing'.status = "DELETED"
        BY <1>2, <2>2, <2>3 DEF LiveOrderHasWinner, OrderedAtCurrentPrice
    <2>4. CASE listing'.status # "DELETED"
        <3>1. listing.status = "AWARDED" /\ listing'.status = "AWARDED" /\ BidsKept
            BY <2>1, <2>4 DEF Quiet
        <3>2. \A o \in LiveOrder : o \in OrderId /\ Seller(o) \in Bidder
            BY OrderIdTypes DEF LiveOrder
        <3>3. LiveOrderHasWinner'
            BY <1>1, <3>1, <3>2 DEF IInv, LiveOrderHasWinner, BidsKept, Winner
        <3>4. OrderedAtCurrentPrice'
            BY <1>1, <3>1, <3>2 DEF IInv, OrderedAtCurrentPrice, BidsKept
        <3> QED BY <1>2, <2>2, <3>3, <3>4
    <2> QED BY <2>3, <2>4
<1> QED BY <1>3, <1>4

(* Before an award no order is live, so none is being rejected either.      *)
LEMMA AwardedStep ==
    ASSUME IInv, NEW s \in Session, Awarded(s), NoNewReject
    PROVE  (Rejections /\ OneAwardLive /\ LiveOrderHasWinner /\ OrderedAtCurrentPrice)'
<1>1. LiveOrder = {}
    BY DEF IInv, OneAwardLive, Awarded, Undecided
<1>2. ASSUME NEW t \in Session PROVE req'[t].op # "reject"
    <2> SUFFICES ASSUME req[t].op = "reject" PROVE FALSE
        BY DEF NoNewReject
    <2>1. req[t].order \in OrderId
        BY RequestTypes DEF IInv, Typed
    <2> QED BY <1>1, <2>1 DEF IInv, Rejections, RejectHolds, LiveOrder
<1>3. Rejections'
    BY <1>2 DEF Rejections, RejectHolds, RejectOnce
<1>4. ASSUME NEW o \in OrderId, order'[o].status \in {"PENDING", "LIVE"}
      PROVE  /\ o[3] = listing'.awards /\ Winner(Seller(o))'
             /\ order'[o].version = bid'[Seller(o)].version
    <2>1. order'[o] # order[o]
        BY <1>1, <1>4 DEF LiveOrder
    <2>2. Seller(o) \in Bidder
        BY OrderIdTypes
    <2> QED BY <2>1, <2>2 DEF Awarded
<1>5. OneAwardLive'
    BY <1>4 DEF OneAwardLive, LiveOrder, Awarded
<1>6. LiveOrderHasWinner'
    BY <1>4 DEF LiveOrderHasWinner, LiveOrder, Winner
<1>7. OrderedAtCurrentPrice'
    BY <1>4 DEF OrderedAtCurrentPrice, LiveOrder
<1> QED BY <1>3, <1>5, <1>6, <1>7

LEMMA MovedStep ==
    ASSUME IInv, NEW o \in OrderId, Moved(o)
    PROVE  (Rejections /\ OneAwardLive /\ LiveOrderHasWinner /\ OrderedAtCurrentPrice)'
<1>1. LiveOrder' \subseteq LiveOrder
    BY DEF LiveOrder, Moved
<1>2. \A p \in OrderId : order[p].status = "REJECTED" => order'[p] = order[p]
    BY DEF Moved
<1>3. \A p \in OrderId : order'[p].version = order[p].version
    BY DEF Moved
<1>4. Rejections'
    <2>1. ASSUME NEW t \in Session, req[t].op = "reject"
          PROVE  order'[req[t].order] = order[req[t].order]
        BY <2>1, RequestTypes DEF IInv, Typed, Moved, Locked, IsAt
    <2> QED BY <1>1, <2>1 DEF IInv, Rejections, RejectHolds, RejectOnce, Moved
<1>5. OneAwardLive'
    BY <1>1 DEF IInv, OneAwardLive, Moved
<1>6. LiveOrderHasWinner'
    BY <1>1, <1>2 DEF IInv, LiveOrderHasWinner, Moved
<1>7. OrderedAtCurrentPrice'
    BY <1>1, <1>3 DEF IInv, OrderedAtCurrentPrice, Moved, LiveOrder
<1> QED BY <1>4, <1>5, <1>6, <1>7

LEMMA CountStep ==
    ASSUME IInv, NEW s \in Session, NEW o \in OrderId, RejectOrderCount(s, o)
    PROVE  (Rejections /\ OneAwardLive /\ LiveOrderHasWinner /\ OrderedAtCurrentPrice)'
<1>1. LiveOrder' = LiveOrder /\ UNCHANGED <<listing, bid, order>>
    BY DEF LiveOrder, RejectOrderCount
<1>2. /\ req'[s] = [op |-> "reject", order |-> o, alone |-> LiveOrder = {o}]
      /\ \A t \in Session : t # s => req'[t] = req[t]
    BY DEF RejectOrderCount, Start, IInv, Typed, TypeOK
<1>3. RejectHolds'
    <2>1. ASSUME NEW t \in Session, req'[t].op = "reject"
          PROVE  /\ order'[req'[t].order].status = "PENDING"
                 /\ req'[t].alone => LiveOrder' \subseteq {req'[t].order}
        <3>1. CASE t = s
            <4>1. req'[t].order = o /\ req'[t].alone = (LiveOrder = {o})
                BY <1>2, <3>1
            <4>2. order'[o].status = "PENDING"
                BY <1>1 DEF RejectOrderCount
            <4>3. req'[t].alone => LiveOrder = {o}
                BY <4>1
            <4> QED BY <1>1, <4>1, <4>2, <4>3
        <3>2. CASE t # s
            BY <1>1, <1>2, <2>1, <3>2 DEF IInv, Rejections, RejectHolds
        <3> QED BY <3>1, <3>2
    <2> QED BY <2>1 DEF RejectHolds
<1>4. RejectOnce'
    BY <1>2 DEF IInv, Rejections, RejectOnce, RejectOrderCount, Locked, IsAt
<1> QED BY <1>1, <1>3, <1>4
        DEF IInv, Rejections, OneAwardLive, LiveOrderHasWinner, OrderedAtCurrentPrice

(* A rejection: the award is taken back only with its last live order, and  *)
(* the seller that is put out has just rejected an order of this award.     *)
LEMMA RejectStep ==
    ASSUME IInv, NEW s \in Session, RejectOrderCommit(s)
    PROVE  (Rejections /\ OneAwardLive /\ LiveOrderHasWinner /\ OrderedAtCurrentPrice)'
<1>0. TypeOK /\ req[s].op = "reject"
    BY DEF IInv, Typed, RejectOrderCommit, IsAt
<1>1. PICK q \in OrderId : q = req[s].order
    BY <1>0, RequestTypes
<1>2. q \in LiveOrder
    BY <1>0, <1>1 DEF IInv, Rejections, RejectHolds, LiveOrder
<1>3. /\ order'[q].status = "REJECTED"
      /\ \A p \in OrderId : p # q => order'[p] = order[p]
    BY <1>0, <1>1 DEF RejectOrderCommit, TypeOK, Order
<1>4. LiveOrder' = LiveOrder \ {q}
    BY <1>1, <1>3 DEF LiveOrder
<1>5. req'[s] = Idle /\ \A t \in Session : t # s => req'[t] = req[t]
    BY <1>0 DEF RejectOrderCommit, Finish, TypeOK
<1>6. Rejections'
    <2>1. ASSUME NEW t \in Session, req'[t].op = "reject"
          PROVE  t # s /\ req'[t] = req[t] /\ req[t].order \in OrderId \ {q}
        <3>1. t # s /\ req'[t] = req[t]
            BY <1>5, <2>1 DEF Idle
        <3>2. req[t].order # req[s].order
            BY <1>0, <2>1, <3>1 DEF IInv, Rejections, RejectOnce
        <3> QED BY <1>0, <1>1, <2>1, <3>1, <3>2, RequestTypes
    <2>2. RejectHolds'
        BY <1>3, <1>4, <2>1 DEF IInv, Rejections, RejectHolds
    <2>3. RejectOnce'
        BY <2>1 DEF IInv, Rejections, RejectOnce
    <2> QED BY <2>2, <2>3 DEF Rejections
<1>7. CASE req[s].alone /\ listing.status = "AWARDED"
    <2>1. LiveOrder' = {}
        BY <1>0, <1>1, <1>4, <1>7 DEF IInv, Rejections, RejectHolds
    <2> QED BY <1>6, <2>1 DEF OneAwardLive, LiveOrderHasWinner, OrderedAtCurrentPrice
<1>8. CASE ~(req[s].alone /\ listing.status = "AWARDED")
    <2>1. /\ listing' = listing
          /\ \A b \in Bidder : bid'[b].version = bid[b].version
          /\ \A b \in Bidder : b # Seller(q) => bid'[b] = bid[b]
        BY <1>0, <1>1, <1>8 DEF RejectOrderCommit, TakeBack, TypeOK, Bid
    <2>2. OneAwardLive'
        BY <1>4, <2>1 DEF IInv, OneAwardLive
    <2>3. LiveOrderHasWinner'
        <3> SUFFICES ASSUME NEW o \in LiveOrder', listing.status # "DELETED"
                     PROVE  \/ bid'[Seller(o)].status \in Winning
                            \/ \E p \in OrderId : /\ Seller(p) = Seller(o) /\ p[3] = o[3]
                                                 /\ order'[p].status = "REJECTED"
            BY <2>1 DEF LiveOrderHasWinner
        <3>1. o \in LiveOrder /\ o \in OrderId /\ Seller(o) \in Bidder
            BY <1>4, OrderIdTypes DEF LiveOrder
        <3>2. CASE Seller(o) = Seller(q)
            <4>1. o[3] = q[3]
                BY <1>2, <3>1 DEF IInv, OneAwardLive
            <4> QED BY <1>3, <3>2, <4>1
        <3>3. CASE Seller(o) # Seller(q)
            BY <1>3, <2>1, <3>1, <3>3 DEF IInv, LiveOrderHasWinner
        <3> QED BY <3>2, <3>3
    <2>4. OrderedAtCurrentPrice'
        <3>1. \A o \in LiveOrder' : o \in LiveOrder /\ order'[o] = order[o] /\ Seller(o) \in Bidder
            BY <1>3, <1>4, OrderIdTypes DEF LiveOrder
        <3> QED BY <2>1, <3>1 DEF IInv, OrderedAtCurrentPrice
    <2> QED BY <1>6, <2>2, <2>3, <2>4
<1> QED BY <1>7, <1>8

LEMMA IInvStep == IInv /\ [Next]_vars => IInv'
<1> SUFFICES ASSUME IInv, [Next]_vars PROVE IInv'
    OBVIOUS
<1>1. Typed'
    BY TypedStep DEF IInv
<1>2. (Rejections /\ OneAwardLive /\ LiveOrderHasWinner /\ OrderedAtCurrentPrice)'
    BY EffectStep, QuietStep, AwardedStep, MovedStep, CountStep, RejectStep DEF IInv
<1> QED BY <1>1, <1>2 DEF IInv

THEOREM AwardInvariant == Spec => []IInv
BY InitIInv, IInvStep, PTL DEF Spec

(* A listing whose orders are still on is awarded, and they all come from   *)
(* its last award: nothing is bought twice (runFullAward, runItemAward,     *)
(* revertAwardInTx, against every other writer of the listing).             *)
THEOREM NothingOrderedTwice == Spec => []OneAwardLive
BY AwardInvariant, PTL DEF IInv

(* The seller of a live order has a winning bid, or has rejected another    *)
(* order of the same award (revertAwardInTx, eliminate, extend).            *)
THEOREM SuppliersWon == Spec => []LiveOrderHasWinner
BY AwardInvariant, PTL DEF IInv

(* A live order is at the price of its seller's bid: the version read       *)
(* before the award is compared under the lock, and nobody writes the bid   *)
(* of an awarded listing (placeBid, runFullAward).                          *)
THEOREM OrdersAtBidPrice == Spec => []OrderedAtCurrentPrice
BY AwardInvariant, PTL DEF IInv

----------------------------------------------------------------------------
(* Rounds and cancellation.                                                 *)

(* What a step may do to the row of the listing, bids apart.                *)
ListingKept(l, m) == /\ m.round = l.round
                     /\ l.status = "CANCELLED" => m.status \in {"CANCELLED", "DELETED"}

NextRoundOpened == /\ listing.status \in Reopenable
                   /\ listing'.round = listing.round + 1

LEMMA KeptBySession ==
    ASSUME TypeOK, NEW s \in Session, SessionStep(s)
    PROVE  ListingKept(listing, listing') \/ NextRoundOpened
<1>1. CASE listing' = listing
    BY <1>1 DEF ListingKept
<1>2. CASE DeleteListingCommit(s)
    BY <1>2, SetStatusTypes DEF DeleteListingCommit, ListingStatus, ListingKept
<1>3. CASE AdminReopenCommit(s)
    BY <1>3 DEF AdminReopenCommit, ListingKept, TypeOK, Listing
<1>4. CASE CreateNextRoundCommit(s)
    BY <1>4 DEF CreateNextRoundCommit, ListingKept, NextRoundOpened, TypeOK, Listing
<1>5. CASE SuspendListing(s) \/ OnAwardRejected(s)
    BY <1>5, SetStatusTypes DEF SuspendListing, OnAwardRejected, ListingStatus, ListingKept
<1>6. CASE RunAwardCommit(s)
    BY <1>6 DEF RunAwardCommit, Award, Undecided, ListingKept, TypeOK, Listing
<1>7. CASE RejectOrderCommit(s)
    BY <1>7 DEF RejectOrderCommit, TakeBack, ListingKept, TypeOK, Listing
<1>8. CASE \/ DeleteListingRead(s) \/ AdminReopenRead(s)
           \/ PlaceBidCommit(s) \/ ExtendBidValidityCommit(s) \/ EliminateCommit(s)
           \/ \E f \in Format, c \in Carry : CreateNextRoundRead(s, f, c)
           \/ \E W \in SUBSET Bidder : AwardRead(s, W)
           \/ RequestApproval(s) \/ ApproveAward(s) \/ UndoApproval(s) \/ RunAwardRead(s)
           \/ RejectAward(s) \/ Crash(s)
    BY <1>1, <1>8
    DEF DeleteListingRead, AdminReopenRead, PlaceBidCommit, ExtendBidValidityCommit,
        EliminateCommit, CreateNextRoundRead, AwardRead, RequestApproval, ApproveAward,
        UndoApproval, RunAwardRead, RejectAward, Crash
<1> QED BY <1>2, <1>3, <1>4, <1>5, <1>6, <1>7, <1>8 DEF SessionStep

LEMMA KeptByStep ==
    Typed /\ [Next]_vars => ListingKept(listing, listing') \/ NextRoundOpened
<1> SUFFICES ASSUME Typed, [Next]_vars PROVE ListingKept(listing, listing') \/ NextRoundOpened
    OBVIOUS
<1>0. TypeOK
    BY DEF Typed
<1>1. CASE listing' = listing
    BY <1>1 DEF ListingKept
<1>2. CASE ListingStep
    BY <1>0, <1>2, SetStatusTypes
    DEF ListingStep, PublishListing, TimePasses, ChangeClosingTime, StartEvaluation, CloseExpired,
        Cancel, CloseNoAward, AdminCloseListing, CancelRequest, ListingKept, TypeOK, Listing,
        ListingStatus
<1>3. ASSUME NEW s \in Session, SessionStep(s)
      PROVE  ListingKept(listing, listing') \/ NextRoundOpened
    BY <1>0, <1>3, KeptBySession
<1>4. ASSUME NEW b \in Bidder, BidExpires(b) \/ \E s \in Session : BidStep(s, b)
      PROVE  listing' = listing
    BY <1>4 DEF BidExpires, BidStep, PlaceBidRead, ExtendBidValidityRead, EliminateRead
<1>5. ASSUME NEW o \in OrderId, OrderStep(o)
      PROVE  listing' = listing
    BY <1>5 DEF OrderStep, AcceptOrder, CancelOrder, RejectOrderCount
<1>6. CASE UNCHANGED vars
    BY <1>1, <1>6 DEF vars
<1> QED BY <1>1, <1>2, <1>3, <1>4, <1>5, <1>6 DEF Next

(* However many rounds are being opened, they are counted one by one and    *)
(* open only a listing that may be opened again; nothing that was in flight *)
(* when the buyer cancelled brings the listing back (createNextRound,       *)
(* cancel, runFullAward, onAwardRejected).                                  *)
THEOREM ListingForward == Spec => ListingMovesForward
<1>1. Typed /\ [Next]_vars =>
          [/\ listing'.round # listing.round =>
                 /\ listing'.round = listing.round + 1
                 /\ listing.status \in Reopenable
           /\ listing.status = "CANCELLED" =>
                 listing'.status \in {"CANCELLED", "DELETED"}]_vars
    BY KeptByStep DEF ListingKept, NextRoundOpened, Reopenable
<1> QED BY <1>1, InitTyped, TypedStep, PTL DEF Spec, ListingMovesForward

----------------------------------------------------------------------------
(* Bids that were submitted, and bids that are out.                         *)

(* What brings a submitted bid back to a draft, or takes its row away.      *)
LEMMA BidWithdrawn ==
    ASSUME Typed, [Next]_vars, NEW b \in Bidder,
           bid[b].status = "SUBMITTED", bid'[b].status \in {"DRAFT", "NONE"}
    PROVE  listing'.round > listing.round \/ listing'.status = "DELETED"
<1>0. TypeOK /\ bid[b] \in Bid /\ bid' # bid
    BY DEF Typed, TypeOK
<1>1. ASSUME With(Having("SUBMITTED"), Lost) PROVE FALSE
    BY <1>0, <1>1, LostTypes DEF With
<1>2. ~ListingStep
    BY <1>0, <1>1 DEF ListingStep, PublishListing, TimePasses, ChangeClosingTime, StartEvaluation,
                      CloseExpired, Cancel, CloseNoAward, AdminCloseListing, CancelRequest
<1>3. ASSUME NEW c \in Bidder, BidExpires(c) PROVE FALSE
    BY <1>0, <1>3 DEF BidExpires, TypeOK, Bid
<1>4. ASSUME NEW s \in Session, NEW c \in Bidder, BidStep(s, c) PROVE FALSE
    BY <1>0, <1>4 DEF BidStep, PlaceBidRead, ExtendBidValidityRead, EliminateRead
<1>5. ASSUME NEW o \in OrderId, OrderStep(o) PROVE FALSE
    BY <1>0, <1>5 DEF OrderStep, AcceptOrder, CancelOrder, RejectOrderCount
<1>6. ASSUME NEW s \in Session, DeleteListingCommit(s) PROVE listing'.status = "DELETED"
    BY <1>0, <1>6, SetStatusTypes DEF DeleteListingCommit, ListingStatus
<1>7. ASSUME NEW s \in Session, PlaceBidCommit(s) PROVE FALSE
    <2>1. req[s].bidder \in Bidder /\ req[s].draft \in BOOLEAN
        BY <1>0, <1>7, RequestTypes DEF PlaceBidCommit, IsAt
    <2>2. /\ req[s].bidder = b /\ req[s].seen = TokenOf(b)
          /\ bid'[b] = Placed(bid[b], req[s].draft, req[s].round)
        BY <1>0, <1>7, <2>1 DEF PlaceBidCommit, TypeOK
    <2>3. ~req[s].draft
        BY <1>7, <2>2
        DEF PlaceBidCommit, IsAt, Typed, ReadsWithinBounds, WithinBounds, PlaceRead, TokenOf
    <2> QED BY <1>0, <2>2, <2>3 DEF Placed, Bid
<1>8. ASSUME NEW s \in Session, ExtendBidValidityCommit(s) \/ EliminateCommit(s) PROVE FALSE
    BY <1>0, <1>8 DEF ExtendBidValidityCommit, EliminateCommit, TypeOK, Bid
<1>9. ASSUME NEW s \in Session, CreateNextRoundCommit(s) PROVE listing'.round > listing.round
    <2>1. listing'.round = listing.round + 1 /\ listing.round \in Nat
        BY <1>0, <1>9, BoundFacts DEF CreateNextRoundCommit, TypeOK, Listing
    <2> QED BY <2>1
<1>10. ASSUME NEW s \in Session, RunAwardCommit(s) PROVE FALSE
    <2>1. PICK partial, L : Award(req[s], partial, L)
        BY <1>0, <1>10 DEF RunAwardCommit
    <2> QED BY <1>0, <2>1 DEF Award, Lost, Bid
<1>11. ASSUME NEW s \in Session, RejectOrderCommit(s) PROVE FALSE
    <2>1. PICK seller, reopen : TakeBack(seller, reopen)
        BY <1>11 DEF RejectOrderCommit
    <2> QED BY <1>0, <2>1 DEF TakeBack, Winning, Bid
<1>12. ASSUME NEW s \in Session, SessionStep(s)
       PROVE  listing'.round > listing.round \/ listing'.status = "DELETED"
    BY <1>0, <1>6, <1>7, <1>8, <1>9, <1>10, <1>11, <1>12
    DEF SessionStep, DeleteListingRead, AdminReopenRead, AdminReopenCommit, CreateNextRoundRead,
        AwardRead, RequestApproval, SuspendListing, ApproveAward, UndoApproval, RunAwardRead,
        RejectAward, OnAwardRejected, Crash
<1> QED BY <1>0, <1>2, <1>3, <1>4, <1>5, <1>12 DEF Next, vars

(* A submitted bid goes back to a draft only with a new round: placeBid     *)
(* compares under the lock what the refusal of a draft was decided on.      *)
THEOREM SubmittedStand == Spec => SubmittedBidsStand
<1>1. Typed /\ [Next]_vars =>
        [\A b \in Bidder :
            bid[b].status = "SUBMITTED" /\ bid'[b].status \in {"DRAFT", "NONE"} =>
                listing'.round > listing.round \/ listing'.status = "DELETED"]_vars
    BY BidWithdrawn
<1> QED BY <1>1, InitTyped, TypedStep, PTL DEF Spec, SubmittedBidsStand

(* What a step may do to a bid, seen from its row and the listing's: one    *)
(* that is out stays out, one in order stays in order.                      *)
RowOut(x)      == x.eliminated => x.status = "LOST" \/ (x.status = "DRAFT" /\ ~x.submitted)
RowRaces(x, l) == x.status = "SUBMITTED" =>
                     /\ l.status \notin {"AWARDED", "CANCELLED", "CLOSED_NO_AWARD"}
                     /\ x.round = l.round
Stays(b) == /\ RowOut(bid[b]) => RowOut(bid'[b])
            /\ RowOut(bid[b]) /\ RowRaces(bid[b], listing) => RowRaces(bid'[b], listing')

Excused(b) == CarriedAsRead(b) \/ RevivedAsRead(b)

LEMMA StaysMeans ==
    ASSUME NEW b \in Bidder, Stays(b)
    PROVE  /\ IsOut(b) => IsOut(b)'
           /\ IsOut(b) /\ IsInTheRace(b) => IsInTheRace(b)'
BY DEF Stays, RowOut, RowRaces, IsOut, IsInTheRace

(* Nothing written to the bid, and the listing neither settled nor in       *)
(* another round.                                                           *)
LEMMA StaysKept ==
    ASSUME NEW b \in Bidder, bid'[b] = bid[b], listing'.round = listing.round,
           \/ listing'.status = listing.status
           \/ listing'.status \notin {"AWARDED", "CANCELLED", "CLOSED_NO_AWARD"}
    PROVE  Stays(b)
BY DEF Stays, RowOut, RowRaces

(* Settling the listing without an award puts every submitted bid out.      *)
LEMMA StaysOver ==
    ASSUME TypeOK, With(Having("SUBMITTED"), Lost), NEW b \in Bidder
    PROVE  Stays(b)
<1>1. bid[b] \in Bid
    BY DEF TypeOK
<1>2. bid'[b] = IF bid[b].status = "SUBMITTED" THEN Lost(bid[b]) ELSE bid[b]
    BY DEF With, Having
<1> QED BY <1>1, <1>2 DEF Lost, Bid, Stays, RowOut, RowRaces

LEMMA StaysListing ==
    ASSUME TypeOK, ListingStep, NEW b \in Bidder
    PROVE  Stays(b)
<1>1. CASE Cancel \/ CloseNoAward
    BY <1>1, StaysOver DEF Cancel, CloseNoAward
<1>2. CASE \/ PublishListing \/ TimePasses \/ ChangeClosingTime \/ StartEvaluation
           \/ CloseExpired \/ AdminCloseListing \/ CancelRequest
    <2>1. bid' = bid
        BY <1>2 DEF PublishListing, TimePasses, ChangeClosingTime, StartEvaluation, CloseExpired,
                    AdminCloseListing, CancelRequest
    <2>2. /\ listing'.round = listing.round
          /\ \/ listing'.status = listing.status
             \/ listing'.status \in {"OPEN", "IN_AWARD", "CLOSED"}
        BY <1>2, SetStatusTypes
        DEF PublishListing, TimePasses, ChangeClosingTime, StartEvaluation, CloseExpired,
            AdminCloseListing, CancelRequest, TypeOK, Listing, ListingStatus
    <2> QED BY <2>1, <2>2, StaysKept
<1> QED BY <1>1, <1>2 DEF ListingStep

(* One bid written while the listing stays as it is.                        *)
LEMMA StaysOneBid ==
    ASSUME TypeOK, UNCHANGED listing, NEW c \in Bidder, NEW r, bid' = [bid EXCEPT ![c] = r],
           RowOut(bid[c]) => RowOut(r),
           RowOut(bid[c]) /\ RowRaces(bid[c], listing) => RowRaces(r, listing),
           NEW b \in Bidder
    PROVE  Stays(b)
<1>1. bid'[c] = r /\ (b # c => bid'[b] = bid[b])
    BY DEF TypeOK
<1>2. CASE b = c
    BY <1>1, <1>2 DEF Stays
<1>3. CASE b # c
    BY <1>1, <1>3, StaysKept
<1> QED BY <1>2, <1>3

(* A placement is of the round of an open listing, and sends the bid anew   *)
(* or leaves it a draft that was not sent.                                  *)
LEMMA StaysPlace ==
    ASSUME TypeOK, NEW s \in Session, PlaceBidCommit(s), NEW b \in Bidder
    PROVE  Stays(b)
<1> DEFINE c == req[s].bidder
           r == Placed(bid[c], req[s].draft, req[s].round)
<1>1. c \in Bidder /\ req[s].draft \in BOOLEAN /\ bid[c] \in Bid
    BY RequestTypes DEF PlaceBidCommit, IsAt, TypeOK
<1>2. CASE /\ listing.status = "OPEN" /\ listing.round = req[s].round
           /\ req[s].seen = TokenOf(c)
    <2>1. /\ r.status = IF req[s].draft THEN "DRAFT" ELSE "SUBMITTED"
          /\ r.round = listing.round
          /\ r.submitted = ~req[s].draft
          /\ r.eliminated = (req[s].draft /\ bid[c].eliminated)
        <3> HIDE DEF c
        <3> QED BY <1>1, <1>2 DEF Placed, Bid
    <2>2. RowOut(r) /\ RowRaces(r, listing)
        BY <1>1, <1>2, <2>1 DEF RowOut, RowRaces
    <2>3. bid' = [bid EXCEPT ![c] = r] /\ UNCHANGED listing
        BY <1>2 DEF PlaceBidCommit
    <2> HIDE DEF c, r
    <2> QED BY <1>1, <2>2, <2>3, StaysOneBid
<1>3. CASE ~(/\ listing.status = "OPEN" /\ listing.round = req[s].round
             /\ req[s].seen = TokenOf(c))
    BY <1>3, StaysKept DEF PlaceBidCommit
<1> QED BY <1>2, <1>3

LEMMA StaysEliminate ==
    ASSUME TypeOK, NEW s \in Session, EliminateCommit(s), NEW b \in Bidder
    PROVE  Stays(b)
<1> DEFINE c == req[s].bidder
           r == [bid[c] EXCEPT !.status = "LOST", !.eliminated = TRUE]
<1>1. c \in Bidder /\ bid[c] \in Bid
    BY RequestTypes DEF EliminateCommit, IsAt, TypeOK
<1>2. RowOut(r) /\ RowRaces(r, listing)
    <2> HIDE DEF c
    <2> QED BY <1>1 DEF Bid, RowOut, RowRaces
<1>3. UNCHANGED listing /\ (bid' = bid \/ bid' = [bid EXCEPT ![c] = r])
    BY DEF EliminateCommit
<1>4. CASE bid' = bid
    BY <1>3, <1>4, StaysKept
<1>5. CASE bid' = [bid EXCEPT ![c] = r]
    <2> HIDE DEF c, r
    <2> QED BY <1>1, <1>2, <1>3, <1>5, StaysOneBid
<1> QED BY <1>3, <1>4, <1>5

(* An extension changes a submitted bid in nothing that matters here; a     *)
(* draft comes back into the race, where it belongs if it was sent and the  *)
(* listing still takes bids of its round.                                   *)
LEMMA StaysExtend ==
    ASSUME TypeOK, NEW s \in Session, ExtendBidValidityCommit(s), NEW b \in Bidder
    PROVE  Stays(b) \/ RevivedAsRead(b)
<1> DEFINE c == req[s].bidder
           r == [bid[c] EXCEPT !.days = @ + 1, !.expired = FALSE, !.status = "SUBMITTED"]
<1>1. /\ c \in Bidder /\ bid[c] \in Bid
      /\ req[s].status \in {"DRAFT", "SUBMITTED"}
    BY RequestTypes DEF ExtendBidValidityCommit, IsAt, TypeOK
<1>2. /\ UNCHANGED listing /\ req'[s] = Idle /\ IsAt(s, "extend")
      /\ \/ bid' = bid
         \/ bid' = [bid EXCEPT ![c] = r] /\ bid[c].status = req[s].status
    BY DEF ExtendBidValidityCommit, Finish, TypeOK
<1>3. CASE bid' = bid
    BY <1>2, <1>3, StaysKept
<1>4. CASE bid' = [bid EXCEPT ![c] = r] /\ bid[c].status = req[s].status
    <2>1. /\ r.status = "SUBMITTED" /\ r.eliminated = bid[c].eliminated
          /\ r.round = bid[c].round /\ r.submitted = bid[c].submitted
        <3> HIDE DEF c
        <3> QED BY <1>1 DEF Bid
    <2>2. CASE bid[c].status = "SUBMITTED"
        <3>1. /\ RowOut(bid[c]) => RowOut(r)
              /\ RowRaces(bid[c], listing) => RowRaces(r, listing)
            BY <1>1, <2>1, <2>2 DEF RowOut, RowRaces
        <3> HIDE DEF c, r
        <3> QED BY <1>1, <1>2, <1>4, <3>1, StaysOneBid
    <2>3. CASE /\ bid[c].status = "DRAFT" /\ listing.status = "OPEN"
               /\ bid[c].round = listing.round /\ bid[c].submitted
        <3>1. /\ RowOut(bid[c]) => RowOut(r)
              /\ RowRaces(r, listing)
            BY <1>1, <2>1, <2>3 DEF RowOut, RowRaces
        <3> HIDE DEF c, r
        <3> QED BY <1>1, <1>2, <1>4, <3>1, StaysOneBid
    <2>4. CASE /\ bid[c].status = "DRAFT"
               /\ ~(listing.status = "OPEN" /\ bid[c].round = listing.round /\ bid[c].submitted)
        <3>1. CASE b = c
            <4>1. bid'[b].status = "SUBMITTED"
                BY <1>1, <1>4, <2>1, <3>1 DEF TypeOK
            <4> QED BY <1>2, <1>4, <2>4, <3>1, <4>1 DEF RevivedAsRead
        <3>2. CASE b # c
            BY <1>2, <1>4, <3>2, StaysKept DEF TypeOK
        <3> QED BY <3>1, <3>2
    <2> QED BY <1>1, <1>4, <2>2, <2>3, <2>4
<1> QED BY <1>2, <1>3, <1>4

(* A new round leaves no bid of the old one in the race, and brings none    *)
(* back that is out, unless it carries bids by what they were.              *)
LEMMA StaysNextRound ==
    ASSUME TypeOK, NEW s \in Session, CreateNextRoundCommit(s), NEW b \in Bidder
    PROVE  Stays(b) \/ CarriedAsRead(b)
<1> DEFINE r == req[s]
           x == bid[b]
           fits == b \in Carryable(r.round)
<1>0. IsAt(s, "nextRound") /\ req'[s] = Idle
    BY DEF CreateNextRoundCommit, Finish, TypeOK
<1>1. /\ x \in Bid /\ listing \in Listing /\ r.round \in Nat /\ r.carry \in CarryBids
      /\ r.carry # "AUTO" => r.live = {} /\ r.stale = {}
    BY <1>0, RequestTypes, BoundFacts DEF IsAt, TypeOK
<1>2. CASE ~(listing.status \in Reopenable /\ listing.round = r.round)
    BY <1>2, StaysKept DEF CreateNextRoundCommit
<1>3. CASE /\ listing.status \in Reopenable /\ listing.round = r.round
           /\ r.carry = "AUTO" => (b \in r.live \cup r.stale <=> fits)
    <2>1. CarryBidsOver(r) /\ listing'.status = "OPEN" /\ listing'.round = r.round + 1
        BY <1>1, <1>3 DEF CreateNextRoundCommit, Listing
    <2>2. r.carry # "AUTO" => b \notin r.live \cup r.stale
        BY <1>1
    <2>3. fits <=> (/\ b \in Bidder /\ x.round = listing.round
                   /\ x.status \in {"SUBMITTED", "LOST"} /\ ~x.eliminated)
        BY <1>1, <1>3 DEF Carryable
    <2>4. CASE r.carry = "AUTO"
        <3>1. \/ /\ fits /\ bid'[b].status \in {"SUBMITTED", "DRAFT"}
                 /\ bid'[b].round = r.round + 1 /\ bid'[b].eliminated = x.eliminated
              \/ ~fits /\ bid'[b] = x
            <4> HIDE DEF r
            <4> QED BY <1>1, <1>3, <2>1, <2>4 DEF CarryBidsOver, Bid
        <3> HIDE DEF r, x, fits
        <3> QED BY <2>1, <2>3, <3>1 DEF Stays, RowOut, RowRaces, x
    <2>5. CASE r.carry # "AUTO"
        <3>1. \/ /\ fits /\ bid'[b].status \in {"LOST", "DRAFT"}
                 /\ bid'[b].eliminated = x.eliminated
              \/ ~fits /\ bid'[b] = x
            <4> HIDE DEF r
            <4> QED BY <1>1, <2>1, <2>2, <2>5 DEF CarryBidsOver, Lost, Bid, CarryBids
        <3> HIDE DEF r, x, fits
        <3> QED BY <2>1, <2>3, <3>1 DEF Stays, RowOut, RowRaces, x
    <2> QED BY <2>4, <2>5
<1>4. CASE /\ listing.status \in Reopenable /\ listing.round = r.round
           /\ r.carry = "AUTO" /\ ~(b \in r.live \cup r.stale <=> fits)
    <2>1. listing'.round = r.round + 1
        BY <1>1, <1>4 DEF CreateNextRoundCommit, Listing
    <2>2. listing'.round # listing.round
        BY <1>1, <1>4, <2>1
    <2> QED BY <1>0, <1>4, <2>2 DEF CarriedAsRead
<1> QED BY <1>2, <1>3, <1>4

(* An award leaves nobody waiting: winners have won, the others lost.       *)
LEMMA StaysAward ==
    ASSUME TypeOK, NEW s \in Session, RunAwardCommit(s), NEW b \in Bidder
    PROVE  Stays(b)
<1> DEFINE r == req[s]
<1>1. CASE ~(listing.status \in Undecided /\ StillAsRead(r))
    BY <1>1, StaysKept DEF RunAwardCommit
<1>2. CASE listing.status \in Undecided /\ StillAsRead(r)
    <2>1. PICK partial, L : Award(r, partial, L)
        BY <1>2 DEF RunAwardCommit
    <2>2. bid[b] \in Bid
        BY DEF TypeOK
    <2>3. b \in r.winners => bid[b].status = "SUBMITTED"
        BY <1>2 DEF StillAsRead
    <2>4. \/ /\ bid[b].status = "SUBMITTED" /\ bid'[b].status # "SUBMITTED"
             /\ bid'[b].eliminated = bid[b].eliminated
          \/ bid[b].status # "SUBMITTED" /\ bid'[b] = bid[b]
        <3> HIDE DEF r
        <3> QED BY <2>1, <2>2, <2>3 DEF Award, Lost, Bid
    <2> QED BY <2>4 DEF Stays, RowOut, RowRaces
<1> QED BY <1>1, <1>2

(* An award taken back: who is out stays out, the others are in again, and  *)
(* the listing is no longer awarded.                                        *)
LEMMA StaysReject ==
    ASSUME TypeOK, NEW s \in Session, RejectOrderCommit(s), NEW b \in Bidder
    PROVE  Stays(b)
<1> DEFINE seller == Seller(req[s].order)
           reopen == req[s].alone /\ listing.status = "AWARDED"
<1>1. TakeBack(seller, reopen)
    BY DEF RejectOrderCommit
<1> HIDE DEF seller, reopen
<1>2. /\ listing'.round = listing.round
      /\ listing'.status = IF reopen THEN "IN_AWARD" ELSE listing.status
    BY <1>1 DEF TakeBack, TypeOK, Listing
<1>3. bid[b] \in Bid
    BY DEF TypeOK
<1>4. \/ bid'[b].status = "LOST"
      \/ bid'[b] = bid[b]
      \/ /\ reopen /\ ~bid[b].eliminated /\ bid[b].round = listing.round
         /\ bid'[b] = [bid[b] EXCEPT !.status = "SUBMITTED"]
    BY <1>1, <1>3 DEF TakeBack, Bid, TypeOK
<1>5. CASE bid'[b].status = "LOST"
    BY <1>5 DEF Stays, RowOut, RowRaces
<1>6. CASE bid'[b] = bid[b]
    BY <1>2, <1>6, StaysKept
<1>7. CASE /\ reopen /\ ~bid[b].eliminated /\ bid[b].round = listing.round
           /\ bid'[b] = [bid[b] EXCEPT !.status = "SUBMITTED"]
    BY <1>2, <1>3, <1>7 DEF Stays, RowOut, RowRaces, Bid
<1> QED BY <1>4, <1>5, <1>6, <1>7

LEMMA StaysSession ==
    ASSUME TypeOK, NEW s \in Session, SessionStep(s), NEW b \in Bidder
    PROVE  Stays(b) \/ Excused(b)
<1>1. CASE DeleteListingCommit(s)
    BY <1>1 DEF DeleteListingCommit, NoBid, Stays, RowOut, RowRaces
<1>2. CASE \/ DeleteListingRead(s) \/ AdminReopenRead(s) \/ AdminReopenCommit(s)
           \/ \E f \in Format, c \in Carry : CreateNextRoundRead(s, f, c)
           \/ \E W \in SUBSET Bidder : AwardRead(s, W)
           \/ RequestApproval(s) \/ SuspendListing(s) \/ ApproveAward(s) \/ UndoApproval(s)
           \/ RunAwardRead(s) \/ RejectAward(s) \/ OnAwardRejected(s) \/ Crash(s)
    <2>1. bid' = bid
        BY <1>2 DEF DeleteListingRead, AdminReopenRead, AdminReopenCommit, CreateNextRoundRead,
               AwardRead, RequestApproval, SuspendListing, ApproveAward, UndoApproval,
               RunAwardRead, RejectAward, OnAwardRejected, Crash
    <2>2. /\ listing'.round = listing.round
          /\ \/ listing'.status = listing.status
             \/ listing'.status \in {"OPEN", "IN_AWARD", "IN_AWARD_APPROVAL"}
        BY <1>2, SetStatusTypes
           DEF DeleteListingRead, AdminReopenRead, AdminReopenCommit, CreateNextRoundRead,
               AwardRead, RequestApproval, SuspendListing, ApproveAward, UndoApproval,
               RunAwardRead, RejectAward, OnAwardRejected, Crash, TypeOK, Listing, ListingStatus
    <2> QED BY <2>1, <2>2, StaysKept
<1> QED BY <1>1, <1>2, StaysPlace, StaysExtend, StaysEliminate, StaysNextRound, StaysAward,
           StaysReject
        DEF SessionStep, Excused

LEMMA StaysStep ==
    ASSUME TypeOK, [Next]_vars, NEW b \in Bidder
    PROVE  Stays(b) \/ Excused(b)
<1>1. CASE UNCHANGED vars
    BY <1>1, StaysKept DEF vars
<1>2. ASSUME NEW c \in Bidder, BidExpires(c)
      PROVE  Stays(b)
    <2> DEFINE r == [bid[c] EXCEPT !.expired = TRUE]
    <2>1. bid[c] \in Bid
        BY DEF TypeOK
    <2>2. /\ RowOut(bid[c]) => RowOut(r)
          /\ RowRaces(bid[c], listing) => RowRaces(r, listing)
        BY <2>1 DEF Bid, RowOut, RowRaces
    <2>3. bid' = [bid EXCEPT ![c] = r] /\ UNCHANGED listing
        BY <1>2 DEF BidExpires
    <2> HIDE DEF r
    <2> QED BY <2>2, <2>3, StaysOneBid
<1>3. ASSUME NEW s \in Session, NEW c \in Bidder, BidStep(s, c)
      PROVE  Stays(b)
    BY <1>3, StaysKept DEF BidStep, PlaceBidRead, ExtendBidValidityRead, EliminateRead
<1>4. ASSUME NEW o \in OrderId, OrderStep(o)
      PROVE  Stays(b)
    BY <1>4, StaysKept DEF OrderStep, AcceptOrder, CancelOrder, RejectOrderCount
<1> QED BY <1>1, <1>2, <1>3, <1>4, StaysListing, StaysSession DEF Next

(* Whatever is in flight, however bids are carried and extended: a bid that *)
(* was eliminated, or whose order its seller rejected, comes back into the  *)
(* race only by a new submission or by one of the two writes that act on an *)
(* old reading (eliminateBid, revertAwardInTx, createNextRound, placeBid).  *)
THEOREM EliminatedOut == Spec => EliminatedStaysOut
<1>1. TypeOK /\ [Next]_vars =>
        [\A b \in Bidder :
            IsOut(b) => IsOut(b)' \/ CarriedAsRead(b) \/ RevivedAsRead(b)]_vars
    BY StaysStep, StaysMeans DEF Excused
<1>2. Spec => [][Next]_vars
    BY PTL DEF Spec
<1> QED BY <1>1, <1>2, TypeCorrect, PTL DEF EliminatedStaysOut

(* ... and no submitted bid is left on a settled listing or in a round that *)
(* is over, but by those two (placeBid, cancel, closeNoAward, award,        *)
(* createNextRound).                                                        *)
THEOREM NobodyLeftBehind == Spec => NoBidLeftBehind
<1>1. TypeOK /\ [Next]_vars =>
        [\A b \in Bidder :
            IsOut(b) /\ IsInTheRace(b) =>
                IsInTheRace(b)' \/ CarriedAsRead(b) \/ RevivedAsRead(b)]_vars
    BY StaysStep, StaysMeans DEF Excused
<1>2. Spec => [][Next]_vars
    BY PTL DEF Spec
<1> QED BY <1>1, <1>2, TypeCorrect, PTL DEF NoBidLeftBehind
=============================================================================
