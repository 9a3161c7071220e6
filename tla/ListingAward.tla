---------------------------- MODULE ListingAward ----------------------------
(***************************************************************************)
(* One listing (a purchase request), the bids on it, and how it is awarded  *)
(* (company-listings.service.ts, listing.scheduler.ts, and the part of      *)
(* company-orders.service.ts that takes an award back).  Listings share     *)
(* nothing, so one listing is the whole state.                              *)
(*                                                                          *)
(* The database runs at READ COMMITTED.  A handler whose early reads are    *)
(* repeated by the condition of its write is ONE action.  A handler that    *)
(* acts on what it read earlier is split: the read puts a request in flight *)
(* in some session, the write comes later, and any other handler may commit *)
(* in between.  A transaction that fails leaves no trace.                   *)
(*                                                                          *)
(* Companies, permissions, prices and items are left out: a bid's price is  *)
(* its version, and a by-item award is the set of its winners.  The steps   *)
(* of an approval are in module Approvals; here it is awaited or not.       *)
(***************************************************************************)
EXTENDS Integers, FiniteSets

CONSTANTS
    Bidder,       \* the companies that may bid
    Session,      \* places for requests that are in flight together
    Lot,          \* the currencies of a winning bid: one order for each
    Format,       \* the formats considered, within {"RFQ", "ENGLISH_AUCTION"}
    Carry,        \* the ways to carry bids into a new round, within CarryBids
    Handler,      \* the handlers that take part, within Handlers
    MaxRound,     \* bound on the rounds of the listing
    MaxVersion,   \* bound on the writes of one bid
    MaxDays,      \* bound on the validity of a bid, in extensions
    MaxAward      \* bound on the awards of the listing

CarryBids == {"AUTO", "LAZY", "NONE"}

Handlers == {"delete", "place", "expire", "extend", "eliminate", "nextRound", "evaluate",
             "close", "cancel", "closeNoAward", "moderate", "award", "approval",
             "order", "reject", "crash"}

ASSUME BoundAssumption ==
    /\ MaxRound \in Nat \ {0} /\ MaxDays \in Nat \ {0}
    /\ MaxVersion \in Nat /\ MaxAward \in Nat
ASSUME ChoiceAssumption ==
    /\ Format \subseteq {"RFQ", "ENGLISH_AUCTION"}
    /\ Carry \subseteq CarryBids
    /\ Handler \subseteq Handlers

VARIABLES
    listing,    \* the listing's row
    bid,        \* the bid row of every company
    order,      \* the orders the listing has led to
    awaiting,   \* the winners of the PENDING approval request, {} if there is none
    req         \* what each session has read and not yet acted upon

vars == <<listing, bid, order, awaiting, req>>

----------------------------------------------------------------------------
(* DELETED: the listing has no row any more.                                *)
ListingStatus == {"DRAFT", "OPEN", "IN_AWARD", "IN_AWARD_APPROVAL", "AWARDED",
                  "CLOSED_NO_AWARD", "CANCELLED", "CLOSED", "DELETED"}

(* NONE: the company has no bid row.                                        *)
BidStatus == {"NONE", "DRAFT", "SUBMITTED", "WON", "AWARDED_PARTIAL", "LOST"}
Winning == {"WON", "AWARDED_PARTIAL"}

(* LIVE: accepted, and every state after that but the two closed ones.      *)
OrderStatus == {"NONE", "PENDING", "LIVE", "REJECTED", "CANCELLED"}

Round == 1..MaxRound

(* The order of a seller, in a currency, out of the n-th award.             *)
OrderId == Bidder \X Lot \X (1..MaxAward)
Seller(o) == o[1]

Listing == [status : ListingStatus, round : Round, format : {"RFQ", "ENGLISH_AUCTION"},
            due : BOOLEAN,                 \* closesAt has passed
            awards : 0..MaxAward]          \* the awards so far

Bid == [status : BidStatus,
        version : 0..MaxVersion,           \* counts the writes by the bidder
        round : Round,                     \* round
        activeBidRound : 0..MaxRound,      \* round of the last submission, 0 is null
        days : 0..MaxDays,                 \* validityDays, 0 is null: unlimited
        expired : BOOLEAN,                 \* submittedAt + validityDays has passed
        submitted : BOOLEAN,               \* submittedAt is set
        eliminated : BOOLEAN]              \* eliminatedAt is set

NoBid == [status |-> "NONE", version |-> 0, round |-> 1, activeBidRound |-> 0, days |-> 0,
          expired |-> FALSE, submitted |-> FALSE, eliminated |-> FALSE]

Order == [status : OrderStatus,
          version : 0..MaxVersion]         \* of the bid the order was made from
NoOrder == [status |-> "NONE", version |-> 0]

(* What placeBid compares under the lock, and extendBidValidity in its      *)
(* condition.                                                               *)
Token == [status : BidStatus, version : 0..MaxVersion, activeBidRound : 0..MaxRound]
TokenOf(b) == [status |-> bid[b].status, version |-> bid[b].version,
               activeBidRound |-> bid[b].activeBidRound]

Idle == [op |-> "idle"]

Request ==
    {Idle}
    \cup [op : {"delete", "reopen", "rejected"}]
    \cup [op : {"place"}, bidder : Bidder, draft : BOOLEAN, round : Round, seen : Token]
    \cup [op : {"extend"}, bidder : Bidder, status : {"DRAFT", "SUBMITTED"}, days : 1..MaxDays]
    \cup [op : {"eliminate"}, bidder : Bidder]
    \cup [op : {"nextRound"}, format : {"RFQ", "ENGLISH_AUCTION"}, carry : {"AUTO"},
          round : Round, live : SUBSET Bidder, stale : SUBSET Bidder]
    \cup [op : {"nextRound"}, format : {"RFQ", "ENGLISH_AUCTION"}, carry : {"LAZY", "NONE"},
          round : Round, live : {{}}, stale : {{}}]
    \cup [op : {"ask", "move"}, winners : SUBSET Bidder]
    \cup [op : {"run", "undo"}, winners : SUBSET Bidder, approved : BOOLEAN]
    \cup [op : {"award"}, winners : SUBSET Bidder, approved : BOOLEAN,
          versions : [Bidder -> 0..MaxVersion]]
    \cup [op : {"reject"}, order : OrderId, alone : BOOLEAN]

TypeOK ==
    /\ listing \in Listing
    /\ bid \in [Bidder -> Bid]
    /\ order \in [OrderId -> Order]
    /\ awaiting \subseteq Bidder
    /\ req \in [Session -> Request]

Init ==
    /\ listing \in [status : {"DRAFT"}, round : {1}, format : Format, due : {FALSE},
                   awards : {0}]
    /\ bid = [b \in Bidder |-> NoBid]
    /\ order = [o \in OrderId |-> NoOrder]
    /\ awaiting = {}
    /\ req = [s \in Session |-> Idle]

----------------------------------------------------------------------------
(* Helpers.                                                                 *)

IsIdle(s)    == req[s] = Idle
IsAt(s, op)  == req[s].op = op
Start(s, r)  == req' = [req EXCEPT ![s] = r]
Finish(s)    == req' = [req EXCEPT ![s] = Idle]
SetStatus(v) == listing' = [listing EXCEPT !.status = v]

(* Every bid of the set is written by the operator, the others are left.    *)
With(B, f(_)) == bid' = [b \in Bidder |-> IF b \in B THEN f(bid[b]) ELSE bid[b]]
Lost(r)       == [r EXCEPT !.status = "LOST"]

Having(status) == {b \in Bidder : bid[b].status = status}

LiveOrder == {o \in OrderId : order[o].status \in {"PENDING", "LIVE"}}

(* An order whose row an open transaction has already written.              *)
Locked(o) == \E s \in Session : IsAt(s, "reject") /\ req[s].order = o

(* A winning bid an open rejection has put out already.                     *)
BidLocked(b) == \E s \in Session : IsAt(s, "reject") /\ Seller(req[s].order) = b

----------------------------------------------------------------------------
(* The listing itself.                                                      *)

PublishListing ==
    /\ listing.status = "DRAFT"
    /\ SetStatus("OPEN")
    /\ UNCHANGED <<bid, order, awaiting, req>>

(* Drafts only - but the row is then deleted whatever it has become, and    *)
(* its bids and approval requests with it.                                  *)
DeleteListingRead(s) ==
    /\ "delete" \in Handler
    /\ IsIdle(s)
    /\ listing.status = "DRAFT"
    /\ Start(s, [op |-> "delete"])
    /\ UNCHANGED <<listing, bid, order, awaiting>>

DeleteListingCommit(s) ==
    /\ IsAt(s, "delete")
    /\ SetStatus("DELETED")
    /\ bid' = [b \in Bidder |-> NoBid]
    /\ awaiting' = {}
    /\ Finish(s)
    /\ UNCHANGED order

(* closesAt comes.                                                          *)
TimePasses ==
    /\ listing.status = "OPEN" /\ ~listing.due
    /\ listing' = [listing EXCEPT !.due = TRUE]
    /\ UNCHANGED <<bid, order, awaiting, req>>

ChangeClosingTime ==
    /\ listing.status = "OPEN"
    /\ listing.due
    /\ listing' = [listing EXCEPT !.due = FALSE]
    /\ UNCHANGED <<bid, order, awaiting, req>>

StartEvaluation ==
    /\ "evaluate" \in Handler
    /\ listing.status = "OPEN"
    /\ listing' = [listing EXCEPT !.status = "IN_AWARD", !.due = TRUE]
    /\ UNCHANGED <<bid, order, awaiting, req>>

(* The cron that closes what is due; it looks again when it claims.         *)
CloseExpired ==
    /\ "close" \in Handler
    /\ listing.status = "OPEN" /\ listing.due
    /\ SetStatus("IN_AWARD")
    /\ UNCHANGED <<bid, order, awaiting, req>>

Cancel ==
    /\ "cancel" \in Handler
    /\ listing.status = "OPEN"
    /\ SetStatus("CANCELLED")
    /\ With(Having("SUBMITTED"), Lost)
    /\ UNCHANGED <<order, awaiting, req>>

CloseNoAward ==
    /\ "closeNoAward" \in Handler
    /\ listing.status \in {"OPEN", "IN_AWARD"}
    /\ SetStatus("CLOSED_NO_AWARD")
    /\ With(Having("SUBMITTED"), Lost)
    /\ UNCHANGED <<order, awaiting, req>>

(* Moderation by an administrator.                                          *)
AdminCloseListing ==
    /\ "moderate" \in Handler
    /\ listing.status = "OPEN"
    /\ SetStatus("CLOSED")
    /\ UNCHANGED <<bid, order, awaiting, req>>

AdminReopenRead(s) ==
    /\ "moderate" \in Handler
    /\ IsIdle(s)
    /\ listing.status # "DELETED"
    /\ listing.status # "AWARDED"               \* awardedAt is set only then
    /\ \A o \in OrderId : order[o] = NoOrder
    /\ Start(s, [op |-> "reopen"])
    /\ UNCHANGED <<listing, bid, order, awaiting>>

AdminReopenCommit(s) ==
    /\ IsAt(s, "reopen")
    /\ IF listing.status \in {"CLOSED", "IN_AWARD"}
       THEN listing' = [listing EXCEPT !.status = "OPEN", !.due = FALSE]
       ELSE UNCHANGED listing
    /\ Finish(s)
    /\ UNCHANGED <<bid, order, awaiting>>

----------------------------------------------------------------------------
(* Bids.                                                                    *)

(* A submitted RFQ bid stands, except that a bid carried into this round    *)
(* may be replaced once; in an auction, one submission a round.             *)
CarriedBidRevisable(b) ==
    /\ listing.format # "ENGLISH_AUCTION"
    /\ listing.round > 1
    /\ bid[b].status = "SUBMITTED"
    /\ bid[b].round = listing.round
    /\ bid[b].activeBidRound # listing.round

(* Faulty variant: a submitted bid may become a draft.                      *)
MayPlaceDrafts(b, draft) ==
    bid[b].status = "SUBMITTED" =>
        IF listing.format = "ENGLISH_AUCTION"
        THEN bid[b].activeBidRound # listing.round
        ELSE CarriedBidRevisable(b)

MayPlace(b, draft) ==
    bid[b].status = "SUBMITTED" =>
        /\ ~draft
        /\ IF listing.format = "ENGLISH_AUCTION"
           THEN bid[b].activeBidRound # listing.round
           ELSE CarriedBidRevisable(b)

PlaceBidRead(s, b, draft) ==
    /\ "place" \in Handler
    /\ IsIdle(s)
    /\ listing.status = "OPEN" /\ ~listing.due
    /\ MayPlace(b, draft)
    /\ bid[b].version < MaxVersion
    /\ Start(s, [op |-> "place", bidder |-> b, draft |-> draft, round |-> listing.round,
                 seen |-> TokenOf(b)])
    /\ UNCHANGED <<listing, bid, order, awaiting>>

(* What the upsert writes; a draft keeps the elimination and the round's    *)
(* right to submit, and loses the stamp of an earlier submission.           *)
Placed(r, draft, round) ==
    [r EXCEPT !.status = IF draft THEN "DRAFT" ELSE "SUBMITTED",
              !.version = r.version + 1,
              !.round = round,
              !.activeBidRound = IF draft THEN r.activeBidRound ELSE round,
              !.days = IF listing.format = "ENGLISH_AUCTION" THEN 0 ELSE 1,
              !.expired = FALSE,
              !.submitted = ~draft,
              !.eliminated = draft /\ r.eliminated]

(* Faulty variant: the bid is not read again under the lock.                *)
PlaceOverOldBid(s) ==
    /\ IsAt(s, "place")
    /\ LET b == req[s].bidder
       IN  IF listing.status = "OPEN" /\ listing.round = req[s].round /\ bid[b].version < MaxVersion
           THEN bid' = [bid EXCEPT ![b] = Placed(bid[b], req[s].draft, req[s].round)]
           ELSE UNCHANGED bid
    /\ Finish(s)
    /\ UNCHANGED <<listing, order, awaiting>>

(* Under the lock of the listing and of the bid both are compared with what *)
(* was read; closesAt is not.                                               *)
PlaceBidCommit(s) ==
    /\ IsAt(s, "place")
    /\ LET b == req[s].bidder
       IN  IF /\ listing.status = "OPEN"
              /\ listing.round = req[s].round
              /\ req[s].seen = TokenOf(b)
           THEN bid' = [bid EXCEPT ![b] = Placed(bid[b], req[s].draft, req[s].round)]
           ELSE UNCHANGED bid
    /\ Finish(s)
    /\ UNCHANGED <<listing, order, awaiting>>

(* The validity of a bid runs out.                                          *)
BidExpires(b) ==
    /\ "expire" \in Handler
    /\ bid[b].submitted /\ bid[b].days > 0 /\ ~bid[b].expired
    /\ bid[b].status \in {"DRAFT", "SUBMITTED", "LOST"}
    /\ bid' = [bid EXCEPT ![b].expired = TRUE]
    /\ UNCHANGED <<listing, order, awaiting, req>>

(* A submitted bid is extended, a draft that was submitted before is        *)
(* brought back to life - in this round, and while the listing is open.     *)
ExtendBidValidityRead(s, b) ==
    /\ "extend" \in Handler
    /\ IsIdle(s)
    /\ \/ listing.status = "OPEN" /\ ~listing.due
       \/ listing.status \in {"IN_AWARD", "IN_AWARD_APPROVAL"}
    /\ bid[b].status \in {"SUBMITTED", "DRAFT"}
    /\ bid[b].submitted /\ bid[b].days > 0
    /\ bid[b].status = "DRAFT" => bid[b].round = listing.round /\ listing.status = "OPEN"
    /\ bid[b].days < MaxDays
    /\ Start(s, [op |-> "extend", bidder |-> b, status |-> bid[b].status, days |-> bid[b].days])
    /\ UNCHANGED <<listing, bid, order, awaiting>>

(* Faulty variant: the validity that was read is not compared.              *)
ExtendAgain(s) ==
    /\ IsAt(s, "extend")
    /\ LET b == req[s].bidder
       IN  IF bid[b].status = req[s].status
           THEN bid' = [bid EXCEPT ![b].days = @ + 1, ![b].expired = FALSE,
                                   ![b].status = "SUBMITTED"]
           ELSE UNCHANGED bid
    /\ Finish(s)
    /\ UNCHANGED <<listing, order, awaiting>>

(* The write looks at the bid only, not at the listing.                     *)
ExtendBidValidityCommit(s) ==
    /\ IsAt(s, "extend")
    /\ LET b == req[s].bidder
       IN  IF bid[b].days = req[s].days /\ bid[b].status = req[s].status
           THEN bid' = [bid EXCEPT ![b].days = @ + 1, ![b].expired = FALSE,
                                   ![b].status = "SUBMITTED"]
           ELSE UNCHANGED bid
    /\ Finish(s)
    /\ UNCHANGED <<listing, order, awaiting>>

EliminateRead(s, b) ==
    /\ "eliminate" \in Handler
    /\ IsIdle(s)
    /\ listing.status \in {"OPEN", "IN_AWARD"}
    /\ bid[b].status = "SUBMITTED"
    /\ Start(s, [op |-> "eliminate", bidder |-> b])
    /\ UNCHANGED <<listing, bid, order, awaiting>>

(* Faulty variant: the bid is eliminated whatever it has become.            *)
EliminateAnyBid(s) ==
    /\ IsAt(s, "eliminate")
    /\ bid' = [bid EXCEPT ![req[s].bidder].status = "LOST", ![req[s].bidder].eliminated = TRUE]
    /\ Finish(s)
    /\ UNCHANGED <<listing, order, awaiting>>

EliminateCommit(s) ==
    /\ IsAt(s, "eliminate")
    /\ LET b == req[s].bidder
       IN  IF bid[b].status = "SUBMITTED"
           THEN bid' = [bid EXCEPT ![b].status = "LOST", ![b].eliminated = TRUE]
           ELSE UNCHANGED bid
    /\ Finish(s)
    /\ UNCHANGED <<listing, order, awaiting>>

----------------------------------------------------------------------------
(* A new round.                                                             *)

Reopenable == {"OPEN", "IN_AWARD", "CLOSED_NO_AWARD"}

(* Faulty variant: a bid the buyer eliminated is carried too.               *)
CarryableOrOut(r) == {b \in Bidder : /\ bid[b].round = r
                                     /\ bid[b].status \in {"SUBMITTED", "LOST"}}

(* The bids of round r that a new round may carry.                          *)
Carryable(r) == {b \in Bidder : /\ bid[b].round = r
                                /\ bid[b].status \in {"SUBMITTED", "LOST"}
                                /\ ~bid[b].eliminated}

(* Which bids are carried is settled before the transaction; an auction     *)
(* takes expired ones too.                                                  *)
CreateNextRoundRead(s, format, carry) ==
    /\ "nextRound" \in Handler
    /\ IsIdle(s)
    /\ listing.status \in Reopenable
    /\ listing.round < MaxRound
    /\ LET stale == {b \in Carryable(listing.round) :
                        /\ carry = "AUTO" /\ format # "ENGLISH_AUCTION" /\ bid[b].expired}
           live  == IF carry = "AUTO" THEN Carryable(listing.round) \ stale ELSE {}
       IN  Start(s, [op |-> "nextRound", format |-> format, carry |-> carry,
                     round |-> listing.round, live |-> live, stale |-> stale])
    /\ UNCHANGED <<listing, bid, order, awaiting>>

(* Faulty variant: a bid that is carried alive keeps its old round.         *)
CarryInOldRound(r) ==
    LET Kept(x)  == [x EXCEPT !.status = "SUBMITTED",
                              !.days = IF r.format = "ENGLISH_AUCTION" THEN 0 ELSE @]
        Draft(x) == [x EXCEPT !.status = "DRAFT", !.round = r.round + 1]
    IN  bid' = [b \in Bidder |->
                   IF b \in r.live THEN Kept(bid[b])
                   ELSE IF b \in r.stale \/ (r.carry = "LAZY" /\ b \in Carryable(r.round))
                   THEN Draft(bid[b])
                   ELSE IF r.carry = "NONE" /\ b \in Carryable(r.round) THEN Lost(bid[b])
                   ELSE bid[b]]

(* AUTO writes the bids settled before, by their ids; LAZY and NONE write   *)
(* those that fit now.                                                      *)
CarryBidsOver(r) ==
    LET Kept(x)  == [x EXCEPT !.status = "SUBMITTED", !.round = r.round + 1,
                              !.days = IF r.format = "ENGLISH_AUCTION" THEN 0 ELSE @,
                              !.expired = r.format # "ENGLISH_AUCTION" /\ @]
        Draft(x) == [x EXCEPT !.status = "DRAFT", !.round = r.round + 1]
    IN  bid' = [b \in Bidder |->
                   IF b \in r.live THEN Kept(bid[b])
                   ELSE IF b \in r.stale THEN Draft(bid[b])
                   ELSE IF r.carry = "LAZY" /\ b \in Carryable(r.round) THEN Draft(bid[b])
                   ELSE IF r.carry = "NONE" /\ b \in Carryable(r.round) THEN Lost(bid[b])
                   ELSE bid[b]]

(* Faulty variant: the state of the listing is not compared.                *)
NextRoundOfAnyState(s) ==
    /\ IsAt(s, "nextRound")
    /\ IF listing.round = req[s].round
       THEN /\ listing' = [listing EXCEPT !.status = "OPEN", !.round = req[s].round + 1,
                                       !.format = req[s].format, !.due = FALSE]
            /\ CarryBidsOver(req[s])
       ELSE UNCHANGED <<listing, bid>>
    /\ Finish(s)
    /\ UNCHANGED <<order, awaiting>>

CreateNextRoundCommit(s) ==
    /\ IsAt(s, "nextRound")
    /\ IF listing.status \in Reopenable /\ listing.round = req[s].round
       THEN /\ listing' = [listing EXCEPT !.status = "OPEN", !.round = req[s].round + 1,
                                       !.format = req[s].format, !.due = FALSE]
            /\ CarryBidsOver(req[s])
       ELSE UNCHANGED <<listing, bid>>
    /\ Finish(s)
    /\ UNCHANGED <<order, awaiting>>

----------------------------------------------------------------------------
(* Awarding.                                                                *)

(* The bids that may win: submitted and not expired.                        *)
Awardable == {b \in Bidder : bid[b].status = "SUBMITTED" /\ ~bid[b].expired}

(* The buyer picks the winners - one bid, or one bid for every item.  When  *)
(* no approval flow asks for more, the award goes straight on.              *)
AwardRead(s, W) ==
    /\ "award" \in Handler
    /\ IsIdle(s)
    /\ listing.status \in {"OPEN", "IN_AWARD"}
    /\ W # {} /\ W \subseteq Awardable
    /\ \/ Start(s, [op |-> "run", winners |-> W, approved |-> FALSE])
       \/ "approval" \in Handler /\ Start(s, [op |-> "ask", winners |-> W])
    /\ UNCHANGED <<listing, bid, order, awaiting>>

(* One PENDING request per listing: a partial unique index.                 *)
RequestApproval(s) ==
    /\ IsAt(s, "ask")
    /\ IF awaiting = {} /\ listing.status # "DELETED"
       THEN /\ awaiting' = req[s].winners
            /\ Start(s, [op |-> "move", winners |-> req[s].winners])
       ELSE Finish(s) /\ UNCHANGED awaiting
    /\ UNCHANGED <<listing, bid, order>>

(* Only then is the listing suspended.                                      *)
SuspendListing(s) ==
    /\ IsAt(s, "move")
    /\ IF listing.status \in {"OPEN", "IN_AWARD"}
       THEN SetStatus("IN_AWARD_APPROVAL")
       ELSE UNCHANGED listing
    /\ Finish(s)
    /\ UNCHANGED <<bid, order, awaiting>>

(* The last approver approves; the award is run after that has committed.   *)
ApproveAward(s) ==
    /\ "approval" \in Handler
    /\ IsIdle(s)
    /\ awaiting # {}
    /\ awaiting' = {}
    /\ Start(s, [op |-> "run", winners |-> awaiting, approved |-> TRUE])
    /\ UNCHANGED <<listing, bid, order>>

(* An award that cannot be run puts its approval back to PENDING.           *)
GiveUp(s) ==
    IF req[s].approved
    THEN Start(s, [op |-> "undo", winners |-> req[s].winners, approved |-> TRUE])
    ELSE Finish(s)

UndoApproval(s) ==
    /\ IsAt(s, "undo")
    /\ awaiting' = IF awaiting = {} /\ listing.status # "DELETED"
                    THEN req[s].winners ELSE awaiting
    /\ Finish(s)
    /\ UNCHANGED <<listing, bid, order>>

RunAwardRead(s) ==
    /\ IsAt(s, "run")
    /\ IF req[s].winners \subseteq Awardable
       THEN Start(s, [op |-> "award", winners |-> req[s].winners, approved |-> req[s].approved,
                      versions |-> [b \in Bidder |-> bid[b].version]])
       ELSE GiveUp(s)
    /\ UNCHANGED <<listing, bid, order, awaiting>>

(* The writes of an award: the winners - of everything they offered or of a *)
(* part of it -, the losers, and an order for every pair of L.              *)
Award(r, partial, L) ==
    /\ listing' = [listing EXCEPT !.status = "AWARDED", !.awards = @ + 1]
    /\ bid' = [b \in Bidder |->
                  IF b \in r.winners
                  THEN [bid[b] EXCEPT !.status = IF b \in partial THEN "AWARDED_PARTIAL" ELSE "WON"]
                  ELSE IF bid[b].status = "SUBMITTED" THEN Lost(bid[b])
                  ELSE bid[b]]
    /\ order' = [o \in OrderId |->
                    IF <<o[1], o[2]>> \in L /\ o[3] = listing.awards + 1
                    THEN [status |-> "PENDING", version |-> r.versions[Seller(o)]]
                    ELSE order[o]]

(* Every winner gets an order for each currency of its bid.                 *)
OrderPlans(W) == {L \in SUBSET (W \X Lot) : \A b \in W : \E l \in Lot : <<b, l>> \in L}

Undecided == {"OPEN", "IN_AWARD", "IN_AWARD_APPROVAL"}

StillAsRead(r) == \A b \in r.winners : /\ bid[b].status = "SUBMITTED"
                                       /\ bid[b].version = r.versions[b]

(* Faulty variant: the version of the bid is not compared.                  *)
RunAwardAtOldPrice(s) ==
    /\ IsAt(s, "award")
    /\ listing.awards < MaxAward
    /\ IF /\ listing.status \in Undecided
          /\ \A b \in req[s].winners : bid[b].status = "SUBMITTED"
       THEN /\ \E partial \in SUBSET req[s].winners, L \in OrderPlans(req[s].winners) :
                  Award(req[s], partial, L)
            /\ Finish(s)
       ELSE GiveUp(s) /\ UNCHANGED <<listing, bid, order>>
    /\ UNCHANGED awaiting

(* runFullAward and runItemAward share this transaction.                    *)
RunAwardCommit(s) ==
    /\ IsAt(s, "award")
    /\ listing.awards < MaxAward
    /\ IF listing.status \in Undecided /\ StillAsRead(req[s])
       THEN /\ \E partial \in SUBSET req[s].winners, L \in OrderPlans(req[s].winners) :
                  Award(req[s], partial, L)
            /\ Finish(s)
       ELSE GiveUp(s) /\ UNCHANGED <<listing, bid, order>>
    /\ UNCHANGED awaiting

(* An approver rejects; the listing is told by an event nobody waits for.   *)
RejectAward(s) ==
    /\ "approval" \in Handler
    /\ IsIdle(s)
    /\ awaiting # {}
    /\ awaiting' = {}
    /\ Start(s, [op |-> "rejected"])
    /\ UNCHANGED <<listing, bid, order>>

OnAwardRejected(s) ==
    /\ IsAt(s, "rejected")
    /\ IF listing.status = "IN_AWARD_APPROVAL" THEN SetStatus("IN_AWARD") ELSE UNCHANGED listing
    /\ Finish(s)
    /\ UNCHANGED <<bid, order, awaiting>>

(* The request is withdrawn and the listing released in one transaction.    *)
CancelRequest ==
    /\ "approval" \in Handler
    /\ awaiting # {}
    /\ awaiting' = {}
    /\ IF listing.status = "IN_AWARD_APPROVAL" THEN SetStatus("IN_AWARD") ELSE UNCHANGED listing
    /\ UNCHANGED <<bid, order, req>>

----------------------------------------------------------------------------
(* The orders, as far as they matter to the listing.                        *)

AcceptOrder(o) ==
    /\ "order" \in Handler
    /\ order[o].status = "PENDING" /\ ~Locked(o)
    /\ order' = [order EXCEPT ![o].status = "LIVE"]
    /\ UNCHANGED <<listing, bid, awaiting, req>>

CancelOrder(o) ==
    /\ "order" \in Handler
    /\ order[o].status \in {"PENDING", "LIVE"} /\ ~Locked(o)
    /\ order' = [order EXCEPT ![o].status = "CANCELLED"]
    /\ UNCHANGED <<listing, bid, awaiting, req>>

(* The seller rejects, first half of the transaction: the order is written, *)
(* and so locked, and the other live orders are counted - the committed     *)
(* ones, so a rejection not yet committed elsewhere still counts as live.   *)
RejectOrderCount(s, o) ==
    /\ "reject" \in Handler
    /\ IsIdle(s)
    /\ order[o].status = "PENDING" /\ ~Locked(o)
    /\ bid[Seller(o)].status \in Winning => ~BidLocked(Seller(o))
    /\ Start(s, [op |-> "reject", order |-> o, alone |-> LiveOrder = {o}])
    /\ UNCHANGED <<listing, bid, order, awaiting>>

(* Second half: the seller's bid is out; when no other order is live, the   *)
(* award is taken back and the losers of this round are in again.           *)
TakeBack(seller, reopen) ==
    /\ listing' = IF reopen THEN [listing EXCEPT !.status = "IN_AWARD"] ELSE listing
    /\ bid' = [b \in Bidder |->
                  IF b = seller
                  THEN IF bid[b].status \in Winning
                       THEN [bid[b] EXCEPT !.status = "LOST", !.eliminated = TRUE] ELSE bid[b]
                  ELSE IF /\ reopen
                          /\ bid[b].status = "LOST" /\ ~bid[b].eliminated
                          /\ bid[b].round = listing.round
                       THEN [bid[b] EXCEPT !.status = "SUBMITTED"]
                       ELSE bid[b]]

(* Faulty variant: other live orders are not asked for.                     *)
RejectOrderReopening(s) ==
    /\ IsAt(s, "reject")
    /\ TakeBack(Seller(req[s].order), listing.status = "AWARDED")
    /\ order' = [order EXCEPT ![req[s].order].status = "REJECTED"]
    /\ Finish(s)
    /\ UNCHANGED awaiting

RejectOrderCommit(s) ==
    /\ IsAt(s, "reject")
    /\ TakeBack(Seller(req[s].order), req[s].alone /\ listing.status = "AWARDED")
    /\ order' = [order EXCEPT ![req[s].order].status = "REJECTED"]
    /\ Finish(s)
    /\ UNCHANGED awaiting

(* The process stops: what was in flight is gone, what was open rolls back. *)
Crash(s) ==
    /\ "crash" \in Handler
    /\ ~IsIdle(s)
    /\ Finish(s)
    /\ UNCHANGED <<listing, bid, order, awaiting>>

----------------------------------------------------------------------------
ListingStep == PublishListing \/ TimePasses \/ ChangeClosingTime \/ StartEvaluation
                 \/ CloseExpired \/ Cancel \/ CloseNoAward \/ AdminCloseListing \/ CancelRequest

BidStep(s, b) ==
    \/ \E draft \in BOOLEAN : PlaceBidRead(s, b, draft)
    \/ ExtendBidValidityRead(s, b)
    \/ EliminateRead(s, b)

SessionStep(s) ==
    \/ DeleteListingRead(s) \/ DeleteListingCommit(s)
    \/ AdminReopenRead(s) \/ AdminReopenCommit(s)
    \/ PlaceBidCommit(s) \/ ExtendBidValidityCommit(s) \/ EliminateCommit(s)
    \/ \E f \in Format, c \in Carry : CreateNextRoundRead(s, f, c)
    \/ CreateNextRoundCommit(s)
    \/ \E W \in SUBSET Bidder : AwardRead(s, W)
    \/ RequestApproval(s) \/ SuspendListing(s) \/ ApproveAward(s) \/ UndoApproval(s)
    \/ RunAwardRead(s) \/ RunAwardCommit(s)
    \/ RejectAward(s) \/ OnAwardRejected(s)
    \/ RejectOrderCommit(s) \/ Crash(s)

OrderStep(o) == AcceptOrder(o) \/ CancelOrder(o) \/ \E s \in Session : RejectOrderCount(s, o)

Next ==
    \/ ListingStep
    \/ \E b \in Bidder : BidExpires(b)
    \/ \E s \in Session, b \in Bidder : BidStep(s, b)
    \/ \E s \in Session : SessionStep(s)
    \/ \E o \in OrderId : OrderStep(o)

Spec == Init /\ [][Next]_vars

----------------------------------------------------------------------------
(* What must hold.                                                          *)

(* A listing with an order that is still on is AWARDED - no new round,      *)
(* closing, cancelling, rejected approval or second award gets past it      *)
(* (INV-SM-1) -, and its live orders all come from the last award: nothing  *)
(* is ordered twice.  DELETED: a row deleted after a late publication.      *)
OneAwardLive ==
    \A o \in LiveOrder : /\ listing.status \in {"AWARDED", "DELETED"}
                         /\ o[3] = listing.awards

(* Nobody supplies for a bid that is out of the race: the seller of a live  *)
(* order has a winning bid, unless that same seller has rejected another    *)
(* order of the award (runFullAward, eliminate, revertAwardInTx).           *)
LiveOrderHasWinner ==
    \A o \in LiveOrder :
        \/ listing.status = "DELETED"
        \/ bid[Seller(o)].status \in Winning
        \/ \E p \in OrderId : /\ Seller(p) = Seller(o) /\ p[3] = o[3]
                             /\ order[p].status = "REJECTED"

(* A live order is at the price its seller offers: the bid was not written  *)
(* between the reading of its prices and the award, nor after it (LU-15).   *)
OrderedAtCurrentPrice ==
    \A o \in LiveOrder :
        listing.status = "DELETED" \/ order[o].version = bid[Seller(o)].version

(* A bid the buyer has eliminated, or whose order its seller has rejected,  *)
(* is LOST, or a draft that was not sent since.                             *)
IsOut(b) ==
    bid[b].eliminated =>
        bid[b].status = "LOST" \/ (bid[b].status = "DRAFT" /\ ~bid[b].submitted)

(* A submitted bid is of the round that is running, and of a listing that   *)
(* still has to decide.                                                     *)
IsInTheRace(b) ==
    bid[b].status = "SUBMITTED" =>
        /\ listing.status \notin {"AWARDED", "CANCELLED", "CLOSED_NO_AWARD"}
        /\ bid[b].round = listing.round

(* The two writes that act on an old reading of a bid: AUTO carries what    *)
(* fitted before its transaction, though the bid fits no more, or leaves    *)
(* what fits only since; an extension revives a draft, though the listing   *)
(* takes no bids of its round any more, or the draft is a new one.          *)
CarriedAsRead(b) ==
    \E s \in Session :
        /\ IsAt(s, "nextRound") /\ req[s].carry = "AUTO"
        /\ req'[s] = Idle /\ listing'.round # listing.round
        /\ (b \in req[s].live \cup req[s].stale) # (b \in Carryable(listing.round))

RevivedAsRead(b) ==
    \E s \in Session :
        /\ IsAt(s, "extend") /\ req[s].bidder = b /\ req[s].status = "DRAFT"
        /\ req'[s] = Idle /\ bid'[b].status = "SUBMITTED"
        /\ ~(listing.status = "OPEN" /\ bid[b].round = listing.round /\ bid[b].submitted)

(* A bid that is out comes back into the race, or wins, only when the       *)
(* company submits again - not by a new round, a placement decided before,  *)
(* an award or an award taken back -, and else only by the two writes.      *)
EliminatedStaysOut ==
    [][\A b \in Bidder :
          IsOut(b) => IsOut(b)' \/ CarriedAsRead(b) \/ RevivedAsRead(b)]_vars

(* A bid or a new round that is late leaves no submitted bid behind in a    *)
(* round that is over or on a listing that is settled (placeBid, cancel,    *)
(* closeNoAward, award, createNextRound), again but for the two writes.     *)
NoBidLeftBehind ==
    [][\A b \in Bidder :
          IsOut(b) /\ IsInTheRace(b) =>
              IsInTheRace(b)' \/ CarriedAsRead(b) \/ RevivedAsRead(b)]_vars

(* An AWARDED listing has an order that was not rejected: when the last one *)
(* is rejected the award is taken back (revertAwardInTx).                   *)
RejectedAwardReopens ==
    listing.status = "AWARDED" =>
        \E o \in OrderId : o[3] = listing.awards /\ order[o].status \notin {"NONE", "REJECTED"}

(* A bid is only submitted to an open listing, in its current round, and a  *)
(* submitted bid is replaced at most once a round - RFQ: only if it was     *)
(* carried - however many requests of the company are in flight (LU-15).    *)
SubmissionsByTheRules ==
    \A b \in Bidder :
        bid'[b].version # bid[b].version /\ bid'[b].status = "SUBMITTED" =>
            /\ listing.status = "OPEN" /\ bid'[b].round = listing.round
            /\ bid[b].status = "SUBMITTED" => bid[b].activeBidRound # listing.round
SubmissionsFollowTheRules == [][SubmissionsByTheRules]_vars

(* No step but the bidder's own takes a submitted bid back to a draft and   *)
(* none does while it could still win in this round.                        *)
SubmittedBidsStand ==
    [][\A b \in Bidder :
          bid[b].status = "SUBMITTED" /\ bid'[b].status \in {"DRAFT", "NONE"} =>
              listing'.round > listing.round \/ listing'.status = "DELETED"]_vars

(* A listing only moves forward, whatever was in flight: rounds are counted *)
(* one by one, a new round never opens a listing that is awarded or waits   *)
(* for an approval, and a cancelled listing stays cancelled.                *)
ListingMovesForward ==
    [][/\ listing'.round # listing.round =>
              /\ listing'.round = listing.round + 1
              /\ listing.status \in Reopenable
       /\ listing.status = "CANCELLED" => listing'.status \in {"CANCELLED", "DELETED"}]_vars
=============================================================================
