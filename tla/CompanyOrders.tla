--------------------------- MODULE CompanyOrders ---------------------------
(***************************************************************************)
(* The life of ONE company order and of its payment rows                    *)
(* (company-orders.service.ts).  Rows of different orders never meet in     *)
(* this service, so one order and its payments are the whole state.         *)
(*                                                                          *)
(* The database runs at READ COMMITTED.  A handler whose early reads are    *)
(* repeated by the condition of its UPDATE, or concern something that never *)
(* turns false again (a confirmed sum, an LC stamp), is ONE action, taken   *)
(* when it commits.  A handler that acts on what it read earlier is split:  *)
(* the read puts a request in flight in some session, the write comes       *)
(* later, and anything may happen in between.                               *)
(*                                                                          *)
(* Money is counted in minor units (kurus).  Which of the two companies     *)
(* calls is left out: every handler checks the side before anything else.   *)
(***************************************************************************)
EXTENDS Integers, FiniteSets

CONSTANTS
    Session,        \* places for requests that are in flight together
    PaymentId,      \* the payment rows the order may ever get (a bound)
    Form,           \* who records a payment, its note, method and cheque data
    Amount,         \* the order total, in minor units
    Plan,           \* the payment plans considered
    InitialStatus   \* the states in which the order's row is first seen

Null == -1          \* advancePercent left empty

ASSUME PaymentIdAssumption == IsFiniteSet(PaymentId)
ASSUME AmountAssumption == Amount \in Nat

Category == {"ADVANCE", "LETTER_OF_CREDIT", "CASH_AGAINST_DOCS", "MAL_MUKABILI",
             "DEFERRED", "CHEQUE", "SENET", "OPEN_ACCOUNT", "CUSTOM"}

ASSUME PlanAssumption == Plan \subseteq [category : Category, advancePercent : (0..100) \cup {Null}]

(* A new order is PENDING; CREATED and DELIVERED rows are left over from    *)
(* earlier versions of the service, which still accepts them.               *)
ASSUME InitialAssumption == InitialStatus \subseteq {"PENDING", "CREATED", "DELIVERED"}

Status == {"PENDING", "CREATED", "ACCEPTED", "IN_DELIVERY", "DELIVERED", "COMPLETED",
           "DISPUTED", "REJECTED", "CANCELLED"}
Closed == {"REJECTED", "CANCELLED"}

VARIABLES
    plan,       \* the payment plan copied onto the order; never changes
    order,      \* the order's row
    payments,   \* the payment rows; FREE is a row not yet inserted
    req         \* what each session has read and not yet acted upon

vars == <<plan, order, payments, req>>

----------------------------------------------------------------------------
(* Payment plan and sums.                                                   *)

IsLetterOfCredit == plan.category = "LETTER_OF_CREDIT"

PaymentTiming ==
    IF plan.category \in {"ADVANCE", "LETTER_OF_CREDIT", "CASH_AGAINST_DOCS"}
    THEN "BEFORE_DELIVERY" ELSE "AFTER_DELIVERY"

(* total * pct / 100, half up; an ADVANCE plan without a percentage asks    *)
(* for everything, other plans for nothing.                                 *)
AdvanceDue ==
    IF plan.category # "ADVANCE" THEN 0
    ELSE IF plan.advancePercent = Null THEN Amount
    ELSE (Amount * plan.advancePercent + 50) \div 100

(* The units of money lying in rows of the given states, and their number.  *)
UnitsIn(rows, states) ==
    {u \in PaymentId \X (1..Amount) : /\ rows[u[1]].status \in states
                                     /\ u[2] <= rows[u[1]].amount}
Total(states) == Cardinality(UnitsIn(payments, states))

Confirmed == Total({"CONFIRMED"})
Recorded  == Total({"AWAITING_CONFIRMATION", "CONFIRMED"})

IsFullyPaid == Amount <= Confirmed

IsA1Dispute == order.status = "DISPUTED" /\ ~order.defect

IsPaymentOpen ==
    /\ ~IsLetterOfCredit
    /\ \/ order.status \in {"DELIVERED", "COMPLETED"}
       \/ PaymentTiming = "BEFORE_DELIVERY"
          /\ (order.status \in {"ACCEPTED", "IN_DELIVERY"} \/ IsA1Dispute)

----------------------------------------------------------------------------
FreeRow == [status |-> "FREE", amount |-> 0, form |-> "bank", fresh |-> FALSE]
Idle    == [op |-> "idle", prev |-> "none"]

LcOp     == {"lcMarkOpened", "lcMarkAccepted", "lcMarkPaid"}
PlainOp  == {"idle", "ship", "shipChecked", "recordPayment"} \cup LcOp
DefectOp == {"raiseDefect", "withdrawDefect"}

PaymentRow == [status : {"FREE", "AWAITING_CONFIRMATION", "CONFIRMED", "REJECTED"},
               amount : 0..Amount,
               form   : Form \cup {"bank"},
               fresh  : BOOLEAN]      \* younger than the duplicate window

Order == [status : Status,
          cancelRequested : BOOLEAN,  \* cancelRequestedAt is set
          defect : BOOLEAN,           \* defectNotifiedAt is set
          prev : {"none", "DELIVERED", "COMPLETED"},     \* disputePrevStatus
          inWindow : BOOLEAN,         \* delivered less than 8 days ago
          lcOpened : BOOLEAN, lcAccepted : BOOLEAN, lcPaid : BOOLEAN]

(* Only the requests about defects carry the state they have read.          *)
Request == [op : PlainOp, prev : {"none"}]
             \cup [op : DefectOp, prev : {"DELIVERED", "COMPLETED"}]

TypeOK ==
    /\ plan \in Plan
    /\ order \in Order
    /\ payments \in [PaymentId -> PaymentRow]
    /\ req \in [Session -> Request]

Init ==
    /\ plan \in Plan
    /\ \E st \in InitialStatus, w \in BOOLEAN :
          /\ w => st = "DELIVERED"
          /\ order = [status |-> st, cancelRequested |-> FALSE, defect |-> FALSE,
                      prev |-> "none", inWindow |-> w,
                      lcOpened |-> FALSE, lcAccepted |-> FALSE, lcPaid |-> FALSE]
    /\ payments = [p \in PaymentId |-> FreeRow]
    /\ req = [s \in Session |-> Idle]

----------------------------------------------------------------------------
(* Helpers of the actions.                                                  *)

(* The conditional write of `transition`: the state is tested again by the  *)
(* UPDATE itself, and no other column moves unless the handler says so.     *)
Transition(from, to) ==
    /\ order.status \in from
    /\ order' = [order EXCEPT !.status = to]

OrderOnly == UNCHANGED <<plan, payments, req>>

Begin(s, op, prev) ==
    /\ req[s] = Idle
    /\ req' = [req EXCEPT ![s] = [op |-> op, prev |-> prev]]
    /\ UNCHANGED <<plan, order, payments>>

Finish(s) == req' = [req EXCEPT ![s] = Idle]

----------------------------------------------------------------------------
(* Handlers that commit what they have just tested.                         *)

(* accept: the seller takes the order.  Bank account and delivery date are  *)
(* only copied onto the row.                                                *)
Accept == Transition({"PENDING"}, "ACCEPTED") /\ OrderOnly

(* reject: the order's side of it; what the same transaction does to the    *)
(* listing and its bids is in module ListingAward.                          *)
Reject == Transition({"PENDING"}, "REJECTED") /\ OrderOnly

(* receive: IN_DELIVERY straight to COMPLETED.  Against documents the goods *)
(* are released only once everything is confirmed.                          *)
Receive ==
    /\ plan.category = "CASH_AGAINST_DOCS" => IsFullyPaid
    /\ order.status = "IN_DELIVERY"
    /\ order' = [order EXCEPT !.status = "COMPLETED", !.inWindow = TRUE]
    /\ OrderOnly

(* complete: the buyer accepts goods of a legacy DELIVERED order.           *)
Complete == Transition({"DELIVERED"}, "COMPLETED") /\ OrderOnly

(* Faulty variant: the confirmed payments are not counted.                  *)
CancelUncounted == Transition({"PENDING", "ACCEPTED", "CREATED"}, "CANCELLED") /\ OrderOnly

(* cancel: the buyer alone, with the row locked.                            *)
Cancel ==
    /\ Confirmed = 0
    /\ Transition({"PENDING", "ACCEPTED", "CREATED"}, "CANCELLED")
    /\ OrderOnly

(* requestCancel: the seller asks to be let out of an accepted order.       *)
RequestCancel ==
    /\ order.status = "ACCEPTED" /\ ~order.cancelRequested
    /\ order' = [order EXCEPT !.cancelRequested = TRUE]
    /\ OrderOnly

(* Faulty variants: any dispute with an old request on the row is taken for *)
(* an A1 dispute; the flag is cleared whatever the state.                   *)
WithdrawAnyDispute ==
    /\ order.cancelRequested /\ order.status \in {"ACCEPTED", "DISPUTED"}
    /\ order' = [order EXCEPT !.cancelRequested = FALSE, !.status = "ACCEPTED"]
    /\ OrderOnly
WithdrawKeepingState ==
    /\ order.cancelRequested
    /\ order' = [order EXCEPT !.cancelRequested = FALSE]
    /\ OrderOnly

(* withdrawCancelRequest: two conditional updates, the second tried when    *)
(* the first matched no row.                                                *)
WithdrawCancelRequest ==
    /\ order.cancelRequested
    /\ order.status = "ACCEPTED" \/ IsA1Dispute
    /\ order' = [order EXCEPT !.cancelRequested = FALSE,
                              !.status = "ACCEPTED",
                              !.prev = IF IsA1Dispute THEN "none" ELSE @]
    /\ OrderOnly

(* approveCancelRequest: in an A1 dispute the request itself is not tested. *)
ApproveCancelRequest ==
    /\ (order.status = "ACCEPTED" /\ order.cancelRequested) \/ IsA1Dispute
    /\ order' = [order EXCEPT !.status = "CANCELLED"]
    /\ OrderOnly

(* rejectCancelRequest: opens the A1 dispute.                               *)
RejectCancelRequest ==
    /\ order.cancelRequested
    /\ Transition({"ACCEPTED"}, "DISPUTED")
    /\ OrderOnly

(* Faulty variant: the payment is decided without testing that it waits.    *)
DecisionTwice(p, decision) ==
    /\ decision = "CONFIRMED" => order.status \notin Closed
    /\ payments[p].status # "FREE"
    /\ payments' = [payments EXCEPT ![p].status = decision]
    /\ UNCHANGED <<plan, order, req>>

(* paymentDecision: under the order's row lock, on a payment still waiting. *)
(* A rejection is allowed in every state of the order.                      *)
PaymentDecision(p, decision) ==
    /\ decision = "CONFIRMED" => order.status \notin Closed
    /\ payments[p].status = "AWAITING_CONFIRMATION"
    /\ payments' = [payments EXCEPT ![p].status = decision]
    /\ UNCHANGED <<plan, order, req>>

----------------------------------------------------------------------------
(* Handlers in flight.                                                      *)

(* ship, first read: the defect notice and the letter of credit.            *)
ShipRead(s) ==
    /\ ~(order.status = "DISPUTED" /\ order.defect)
    /\ IsLetterOfCredit => order.lcOpened /\ order.lcAccepted
    /\ Begin(s, "ship", "none")

(* Faulty variant: the advance is not compared.                             *)
ShipCheckNoAdvance(s) ==
    /\ req[s].op = "ship"
    /\ \A p \in PaymentId : payments[p].status # "AWAITING_CONFIRMATION"
    /\ req' = [req EXCEPT ![s].op = "shipChecked"]
    /\ UNCHANGED <<plan, order, payments>>

(* ship, second read: the advance and the payments nobody has decided.      *)
ShipCheckPayments(s) ==
    /\ req[s].op = "ship"
    /\ Confirmed >= AdvanceDue
    /\ \A p \in PaymentId : payments[p].status # "AWAITING_CONFIRMATION"
    /\ req' = [req EXCEPT ![s].op = "shipChecked"]
    /\ UNCHANGED <<plan, order, payments>>

(* ship, commit: only the state is tested again.                            *)
ShipCommit(s) ==
    /\ req[s].op = "shipChecked"
    /\ Transition({"ACCEPTED", "CREATED", "DISPUTED"}, "IN_DELIVERY")
    /\ Finish(s)
    /\ UNCHANGED <<plan, payments>>

(* Faulty variant: the state is not tested when the notice is read.         *)
RaiseDefectAnyState(s) == order.inWindow /\ Begin(s, "raiseDefect", order.status)

(* raiseDefectNotice: the state read is what is stamped as the previous one *)
(* although the UPDATE accepts either.                                      *)
RaiseDefectRead(s) ==
    /\ order.status \in {"DELIVERED", "COMPLETED"}
    /\ order.inWindow
    /\ Begin(s, "raiseDefect", order.status)

RaiseDefectCommit(s) ==
    /\ req[s].op = "raiseDefect"
    /\ order.status \in {"DELIVERED", "COMPLETED"} /\ ~order.defect
    /\ order' = [order EXCEPT !.status = "DISPUTED", !.defect = TRUE, !.prev = req[s].prev]
    /\ Finish(s)
    /\ UNCHANGED <<plan, payments>>

(* withdrawDefectNotice: returns to the state that was read.                *)
WithdrawDefectRead(s) ==
    /\ order.status = "DISPUTED" /\ order.defect
    /\ Begin(s, "withdrawDefect", IF order.prev = "none" THEN "DELIVERED" ELSE order.prev)

WithdrawDefectCommit(s) ==
    /\ req[s].op = "withdrawDefect"
    /\ order.status = "DISPUTED" /\ order.defect
    /\ order' = [order EXCEPT !.status = req[s].prev, !.defect = FALSE, !.prev = "none"]
    /\ Finish(s)
    /\ UNCHANGED <<plan, payments>>

(* Letter of credit: the stamps are read with the order and written by id.  *)
LcStepOpen == IsLetterOfCredit /\ (order.status = "ACCEPTED" \/ IsA1Dispute)

LcMarkOpenedRead(s) ==
    /\ LcStepOpen /\ ~order.lcOpened
    /\ Begin(s, "lcMarkOpened", "none")

LcMarkOpenedCommit(s) ==
    /\ req[s].op = "lcMarkOpened"
    /\ order' = [order EXCEPT !.lcOpened = TRUE]
    /\ Finish(s)
    /\ UNCHANGED <<plan, payments>>

LcMarkAcceptedRead(s) ==
    /\ LcStepOpen /\ order.lcOpened /\ ~order.lcAccepted
    /\ Begin(s, "lcMarkAccepted", "none")

LcMarkAcceptedCommit(s) ==
    /\ req[s].op = "lcMarkAccepted"
    /\ order' = [order EXCEPT !.lcAccepted = TRUE]
    /\ Finish(s)
    /\ UNCHANGED <<plan, payments>>

Delivering == {"IN_DELIVERY", "DELIVERED", "COMPLETED"}

LcMarkPaidRead(s) ==
    /\ IsLetterOfCredit /\ order.lcAccepted /\ ~order.lcPaid
    /\ order.status \in Delivering
    /\ Begin(s, "lcMarkPaid", "none")

(* lcMarkPaid, transaction: with the row locked the state is tested again,  *)
(* and what is not yet confirmed becomes one confirmed row.                 *)
LcMarkPaidCommit(s) ==
    /\ req[s].op = "lcMarkPaid"
    /\ order.status \in Delivering
    /\ IF Amount > Confirmed
       THEN \E p \in PaymentId :
              /\ payments[p] = FreeRow
              /\ payments' = [payments EXCEPT ![p] =
                    [status |-> "CONFIRMED", amount |-> Amount - Confirmed,
                     form |-> "bank", fresh |-> TRUE]]
       ELSE UNCHANGED payments
    /\ order' = [order EXCEPT !.lcPaid = TRUE]
    /\ Finish(s)
    /\ UNCHANGED plan

(* recordPayment: whether payments are open is read before the transaction; *)
(* the cap and the duplicates are tested under the order's row lock.        *)
RecordPaymentRead(s) == IsPaymentOpen /\ Begin(s, "recordPayment", "none")

Duplicate(p, n, form) ==
    /\ payments[p].status = "AWAITING_CONFIRMATION" /\ payments[p].fresh
    /\ payments[p].amount = n /\ payments[p].form = form

InsertPayment(s, n, form) ==
    /\ \E p \in PaymentId :
          /\ payments[p] = FreeRow
          /\ payments' = [payments EXCEPT ![p] =
                [status |-> "AWAITING_CONFIRMATION", amount |-> n,
                 form |-> form, fresh |-> TRUE]]
    /\ Finish(s)
    /\ UNCHANGED <<plan, order>>

(* Faulty variants: only confirmed money counts against the total; a row    *)
(* like one recorded a moment ago is recorded again.                        *)
RecordConfirmedCap(s, n, form) ==
    /\ req[s].op = "recordPayment" /\ Confirmed + n <= Amount
    /\ InsertPayment(s, n, form)
RecordDuplicate(s, n, form) ==
    /\ req[s].op = "recordPayment" /\ Recorded + n <= Amount
    /\ InsertPayment(s, n, form)

RecordPaymentCommit(s, n, form) ==
    /\ req[s].op = "recordPayment"
    /\ Recorded + n <= Amount
    /\ \A p \in PaymentId : ~Duplicate(p, n, form)
    /\ InsertPayment(s, n, form)

(* A request ends without writing: a later test of its own failed, the      *)
(* conditional write matched nothing, or the process went down.             *)
Abandon(s) ==
    /\ req[s] # Idle
    /\ Finish(s)
    /\ UNCHANGED <<plan, order, payments>>

(* Time: a payment row leaves the duplicate window, the 8 days run out.     *)
PaymentAges(p) ==
    /\ payments[p].fresh
    /\ payments' = [payments EXCEPT ![p].fresh = FALSE]
    /\ UNCHANGED <<plan, order, req>>

DefectWindowCloses ==
    /\ order.inWindow
    /\ order' = [order EXCEPT !.inWindow = FALSE]
    /\ OrderOnly

----------------------------------------------------------------------------
InFlight(s) ==
    \/ ShipRead(s) \/ ShipCheckPayments(s) \/ ShipCommit(s)
    \/ RaiseDefectRead(s) \/ RaiseDefectCommit(s)
    \/ WithdrawDefectRead(s) \/ WithdrawDefectCommit(s)
    \/ LcMarkOpenedRead(s) \/ LcMarkOpenedCommit(s)
    \/ LcMarkAcceptedRead(s) \/ LcMarkAcceptedCommit(s)
    \/ LcMarkPaidRead(s) \/ LcMarkPaidCommit(s)
    \/ RecordPaymentRead(s)
    \/ \E n \in 1..Amount, form \in Form : RecordPaymentCommit(s, n, form)
    \/ Abandon(s)

Next ==
    \/ Accept \/ Reject \/ Receive \/ Complete \/ Cancel
    \/ RequestCancel \/ WithdrawCancelRequest
    \/ ApproveCancelRequest \/ RejectCancelRequest
    \/ \E p \in PaymentId, decision \in {"CONFIRMED", "REJECTED"} :
          PaymentDecision(p, decision)
    \/ \E p \in PaymentId : PaymentAges(p)
    \/ DefectWindowCloses
    \/ \E s \in Session : InFlight(s)

(* People decide when to press which button, so nothing here is fair.       *)
Spec == Init /\ [][Next]_vars

----------------------------------------------------------------------------
(* Safety.                                                                  *)

(* recordPayment: money waiting for the seller and money confirmed never    *)
(* exceed the order total together, whatever requests run at the same time  *)
(* and however the letter of credit is settled.                             *)
NeverOvercollected == Recorded <= Amount

(* isPaymentOpen, assertLcOrder: the buyer's claims and the bank's payment  *)
(* never meet on one order.  lcMarkPaid confirms whatever is missing without*)
(* looking at waiting rows, so the cap above stands or falls with this.     *)
LetterOfCreditApart ==
    /\ IsLetterOfCredit =>
         \A p \in PaymentId : payments[p].status # "AWAITING_CONFIRMATION"
    /\ \A s \in Session :
         /\ req[s].op \in LcOp => IsLetterOfCredit
         /\ req[s].op = "recordPayment" => ~IsLetterOfCredit

(* ship: goods are on their way only with the advance confirmed in full and *)
(* a letter of credit opened and accepted.                                  *)
ShippedAgainstPayment ==
    order.status = "IN_DELIVERY" =>
        /\ Confirmed >= AdvanceDue
        /\ IsLetterOfCredit => order.lcOpened /\ order.lcAccepted

(* recordPayment: a click repeated within the window leaves one waiting row.*)
NoFreshDuplicate ==
    \A p, q \in PaymentId :
        /\ p # q
        /\ payments[p].status = "AWAITING_CONFIRMATION" /\ payments[p].fresh
        => ~Duplicate(q, payments[p].amount, payments[p].form)

(* approveCancelRequest does not test the request in a dispute: this is why *)
(* it need not.  Every dispute has a defect notice or an open request.      *)
DisputeHasAGround ==
    order.status = "DISPUTED" => order.defect \/ order.cancelRequested

(* cancel: while the seller has not asked for it, an order is cancelled     *)
(* only with no confirmed payment on it.                                    *)
CancelStrandsNoMoney ==
    [][ /\ order.status # "CANCELLED" /\ order'.status = "CANCELLED"
        /\ ~order.cancelRequested
        => Confirmed' = 0 ]_vars

(* Once goods have left, no path of disputes and withdrawn requests brings  *)
(* the order back to where it could be cancelled.                           *)
GoodsGone ==
    \/ order.status \in Delivering
    \/ order.status = "DISPUTED" /\ order.defect
GoodsNeverUnsent == [][ GoodsGone => GoodsGone' ]_vars

----------------------------------------------------------------------------
(* The payments of the order implement an abstract ledger.                  *)
Ledger == INSTANCE PaymentLedger WITH
            awaiting  <- Total({"AWAITING_CONFIRMATION"}),
            confirmed <- Confirmed,
            closed    <- order.status \in Closed

(* Seen through the three sums, every step is a step of the ledger.         *)
ImplementsLedger == Ledger!Spec
=============================================================================
