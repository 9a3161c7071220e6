------------------------ MODULE CompanyOrdersProofs ------------------------
(***************************************************************************)
(* Proofs about CompanyOrders, for every set of sessions and payment rows,  *)
(* every total and every set of plans.                                      *)
(***************************************************************************)
EXTENDS CompanyOrders, FiniteSetTheorems, TLAPS

----------------------------------------------------------------------------
(* Sums of payments.                                                        *)

(* There are finitely many units in the rows, whatever their state.         *)
LEMMA UnitsFinite ==
    ASSUME NEW rows, NEW states
    PROVE  /\ IsFiniteSet(UnitsIn(rows, states))
           /\ Cardinality(UnitsIn(rows, states)) \in Nat
<1>1. IsFiniteSet(PaymentId \X (1..Amount))
    <2>1. IsFiniteSet(1..Amount)
        <3>1. Amount \in Int
            BY AmountAssumption
        <3> QED BY <3>1, FS_Interval
    <2> QED BY <2>1, FS_Product, PaymentIdAssumption
<1>2. UnitsIn(rows, states) \in SUBSET (PaymentId \X (1..Amount))
    BY DEF UnitsIn
<1>3. IsFiniteSet(UnitsIn(rows, states))
    BY <1>1, <1>2, FS_Subset
<1> QED BY <1>3, FS_CardinalityType

(* Filling a free row adds its amount to the sums its new state counts in.  *)
LEMMA UnitsInsert ==
    ASSUME NEW rows \in [PaymentId -> PaymentRow], NEW p \in PaymentId,
           rows[p].amount = 0,
           NEW row \in PaymentRow, NEW states, row.status \in states
    PROVE  Cardinality(UnitsIn([rows EXCEPT ![p] = row], states))
             = Cardinality(UnitsIn(rows, states)) + row.amount
<1> DEFINE old == UnitsIn(rows, states)
           new == UnitsIn([rows EXCEPT ![p] = row], states)
           add == {p} \X (1..row.amount)
<1>1. row.amount \in Nat /\ row.amount <= Amount
    BY AmountAssumption DEF PaymentRow
<1>2. new = old \cup add
    <2>1. ASSUME NEW q \in PaymentId, NEW k \in 1..Amount
          PROVE  <<q, k>> \in new <=> <<q, k>> \in old \/ <<q, k>> \in add
        <3>1. CASE q = p
            BY <1>1, <3>1 DEF UnitsIn
        <3>2. CASE q # p
            BY <3>2 DEF UnitsIn
        <3> QED BY <3>1, <3>2
    <2>2. add \subseteq PaymentId \X (1..Amount)
        BY <1>1, AmountAssumption
    <2>3. old \subseteq PaymentId \X (1..Amount) /\ new \subseteq PaymentId \X (1..Amount)
        BY DEF UnitsIn
    <2> HIDE DEF old, new, add
    <2> QED BY <2>1, <2>2, <2>3
<1>3. old \cap add = {}
    BY AmountAssumption DEF UnitsIn
<1>4. IsFiniteSet(add) /\ Cardinality(add) = row.amount
    <2>1. IsFiniteSet(1..row.amount) /\ Cardinality(1..row.amount) = row.amount
        <3>1. /\ IsFiniteSet(1..row.amount)
              /\ Cardinality(1..row.amount) = IF 1 > row.amount THEN 0 ELSE row.amount - 1 + 1
            <4>1. 1 \in Int /\ row.amount \in Int
                BY <1>1
            <4> QED BY <4>1, FS_Interval, Zenon
        <3> QED BY <1>1, <3>1
    <2>2. IsFiniteSet({p}) /\ Cardinality({p}) = 1
        BY FS_Singleton
    <2>3. IsFiniteSet(add) /\ Cardinality(add) = Cardinality({p}) * Cardinality(1..row.amount)
        BY <2>1, <2>2, FS_Product, Zenon
    <2> QED BY <1>1, <2>1, <2>2, <2>3
<1>5. IsFiniteSet(old) /\ Cardinality(old) \in Nat
    BY UnitsFinite
<1>6. Cardinality(new) = Cardinality(old) + Cardinality(add) - Cardinality(old \cap add)
    BY <1>2, <1>4, <1>5, FS_Union
<1>7. Cardinality(old \cap add) = 0
    BY <1>3, FS_EmptySet
<1> HIDE DEF old, new, add
<1>8. Cardinality(new) = Cardinality(old) + row.amount
    BY <1>1, <1>4, <1>5, <1>6, <1>7
<1> QED BY <1>8 DEF old, new

(* Rows that keep their amounts and stay counted hold at least as much.     *)
LEMMA UnitsGrow ==
    ASSUME NEW rows1, NEW rows2, NEW states1, NEW states2,
           \A p \in PaymentId :
               rows1[p].status \in states1 => /\ rows2[p].status \in states2
                                             /\ rows2[p].amount = rows1[p].amount
    PROVE  Cardinality(UnitsIn(rows1, states1)) <= Cardinality(UnitsIn(rows2, states2))
<1>1. UnitsIn(rows1, states1) \in SUBSET UnitsIn(rows2, states2)
    BY DEF UnitsIn
<1> QED BY <1>1, UnitsFinite, FS_Subset

----------------------------------------------------------------------------
(* Type correctness.                                                        *)

(* The initial row is well typed.                                           *)
LEMMA TypeInit == Init => TypeOK
<1> SUFFICES ASSUME Init PROVE TypeOK
    OBVIOUS
<1>1. order \in Order
    BY InitialAssumption DEF Init, Order, Status
<1>2. payments \in [PaymentId -> PaymentRow]
    BY AmountAssumption DEF Init, PaymentRow, FreeRow
<1>3. req \in [Session -> Request]
    BY DEF Init, Request, Idle, PlainOp
<1> QED BY <1>1, <1>2, <1>3 DEF Init, TypeOK

(* Writing the order's row keeps it well typed.                             *)
LEMMA TypeOrderStep ==
    ASSUME TypeOK,
           \/ Accept \/ Reject \/ Receive \/ Complete \/ Cancel
           \/ RequestCancel \/ WithdrawCancelRequest
           \/ ApproveCancelRequest \/ RejectCancelRequest \/ DefectWindowCloses
    PROVE  TypeOK'
BY DEF TypeOK, Order, Status, OrderOnly, Transition, Accept, Reject, Receive, Complete,
       Cancel, RequestCancel, WithdrawCancelRequest, ApproveCancelRequest,
       RejectCancelRequest, DefectWindowCloses

(* Deciding about a payment, and its growing old.                           *)
LEMMA TypePaymentStep ==
    ASSUME TypeOK, NEW p \in PaymentId, NEW decision \in {"CONFIRMED", "REJECTED"},
           PaymentDecision(p, decision) \/ PaymentAges(p)
    PROVE  TypeOK'
<1> USE DEF TypeOK
<1>1. payments[p] \in PaymentRow
    OBVIOUS
<1>2. CASE PaymentDecision(p, decision)
    <2>1. [payments[p] EXCEPT !.status = decision] \in PaymentRow
        BY <1>1 DEF PaymentRow
    <2> QED BY <1>2, <2>1 DEF PaymentDecision
<1>3. CASE PaymentAges(p)
    <2>1. [payments[p] EXCEPT !.fresh = FALSE] \in PaymentRow
        BY <1>1 DEF PaymentRow
    <2> QED BY <1>3, <2>1 DEF PaymentAges
<1> QED BY <1>2, <1>3

(* A request begins, goes on or ends with a record of the right shape.      *)
LEMMA TypeBegin ==
    ASSUME TypeOK, NEW s \in Session, NEW op, NEW prev,
           [op |-> op, prev |-> prev] \in Request, Begin(s, op, prev)
    PROVE  TypeOK'
BY DEF TypeOK, Begin

LEMMA TypeFinish ==
    ASSUME TypeOK, NEW s \in Session, Finish(s)
    PROVE  req' \in [Session -> Request]
BY DEF TypeOK, Finish, Request, Idle, PlainOp

(* Every step of a request in flight keeps the types.                       *)
LEMMA TypeInFlight ==
    ASSUME TypeOK, NEW s \in Session, InFlight(s)
    PROVE  TypeOK'
<1> USE DEF TypeOK
<1>0. req[s] \in Request
    OBVIOUS
<1>1. CASE ShipRead(s)
    BY <1>1, TypeBegin DEF ShipRead, Request, PlainOp
<1>2. CASE ShipCheckPayments(s)
    BY <1>2, <1>0 DEF ShipCheckPayments, Request, PlainOp, DefectOp, LcOp
<1>3. CASE ShipCommit(s)
    BY <1>3, TypeFinish DEF ShipCommit, Transition, Order, Status
<1>4. CASE RaiseDefectRead(s)
    BY <1>4, TypeBegin DEF RaiseDefectRead, Request, DefectOp
<1>5. CASE RaiseDefectCommit(s)
    BY <1>5, <1>0, TypeFinish
       DEF RaiseDefectCommit, Order, Status, Request, PlainOp, DefectOp, LcOp
<1>6. CASE WithdrawDefectRead(s)
    BY <1>6, TypeBegin DEF WithdrawDefectRead, Order, Request, DefectOp
<1>7. CASE WithdrawDefectCommit(s)
    BY <1>7, <1>0, TypeFinish
       DEF WithdrawDefectCommit, Order, Status, Request, PlainOp, DefectOp, LcOp
<1>8. CASE LcMarkOpenedRead(s) \/ LcMarkAcceptedRead(s) \/ LcMarkPaidRead(s)
    BY <1>8, TypeBegin
       DEF LcMarkOpenedRead, LcMarkAcceptedRead, LcMarkPaidRead, Request, PlainOp, LcOp
<1>9. CASE LcMarkOpenedCommit(s) \/ LcMarkAcceptedCommit(s)
    BY <1>9, TypeFinish DEF LcMarkOpenedCommit, LcMarkAcceptedCommit, Order
<1>10. CASE LcMarkPaidCommit(s)
    <2>1. Confirmed \in Nat
        BY UnitsFinite DEF Confirmed, Total
    <2>2. payments' \in [PaymentId -> PaymentRow]
        <3>1. CASE Amount > Confirmed
            <4>1. Amount - Confirmed \in 0..Amount
                BY <2>1, <3>1, AmountAssumption
            <4>2. [status |-> "CONFIRMED", amount |-> Amount - Confirmed,
                   form |-> "bank", fresh |-> TRUE] \in PaymentRow
                BY <4>1 DEF PaymentRow
            <4> QED BY <1>10, <3>1, <4>2 DEF LcMarkPaidCommit
        <3>2. CASE ~(Amount > Confirmed)
            BY <1>10, <3>2 DEF LcMarkPaidCommit
        <3> QED BY <3>1, <3>2
    <2>3. order' \in Order
        BY <1>10 DEF LcMarkPaidCommit, Order
    <2> QED BY <1>10, <2>2, <2>3, TypeFinish DEF LcMarkPaidCommit
<1>11. CASE RecordPaymentRead(s)
    BY <1>11, TypeBegin DEF RecordPaymentRead, Request, PlainOp
<1>12. ASSUME NEW n \in 1..Amount, NEW form \in Form, RecordPaymentCommit(s, n, form)
       PROVE  TypeOK'
    <2>1. payments' \in [PaymentId -> PaymentRow]
        BY <1>12, AmountAssumption DEF RecordPaymentCommit, InsertPayment, PaymentRow
    <2> QED BY <1>12, <2>1, TypeFinish DEF RecordPaymentCommit, InsertPayment
<1>13. CASE Abandon(s)
    BY <1>13, TypeFinish DEF Abandon
<1> QED BY <1>1, <1>2, <1>3, <1>4, <1>5, <1>6, <1>7, <1>8, <1>9, <1>10, <1>11, <1>12, <1>13
        DEF InFlight

LEMMA TypeStep == TypeOK /\ [Next]_vars => TypeOK'
<1> SUFFICES ASSUME TypeOK, [Next]_vars PROVE TypeOK'
    OBVIOUS
<1>1. CASE UNCHANGED vars
    BY <1>1 DEF vars, TypeOK
<1>2. CASE Next
    BY <1>2, TypeOrderStep, TypePaymentStep, TypeInFlight DEF Next
<1> QED BY <1>1, <1>2

(* The rows keep the shape the database schema gives them, and a request    *)
(* about defects always carries a state an order can go back to.            *)
THEOREM TypeCorrect == Spec => []TypeOK
BY TypeInit, TypeStep, PTL DEF Spec

----------------------------------------------------------------------------
(* The payment cap.  NeverOvercollected alone is not inductive: lcMarkPaid  *)
(* adds all that is not confirmed, so no claim may wait on such an order.   *)

MoneyInv == TypeOK /\ NeverOvercollected /\ LetterOfCreditApart

LEMMA SumsAreNaturals == Recorded \in Nat /\ Confirmed \in Nat
BY UnitsFinite DEF Recorded, Confirmed, Total

(* Steps that leave the payment rows alone.                                 *)
LEMMA SameRowsSameSums ==
    ASSUME UNCHANGED payments
    PROVE  Recorded' = Recorded /\ Confirmed' = Confirmed
BY DEF Recorded, Confirmed, Total

LEMMA MoneyInit == Init => NeverOvercollected /\ LetterOfCreditApart
<1> SUFFICES ASSUME Init PROVE NeverOvercollected /\ LetterOfCreditApart
    OBVIOUS
<1>1. UnitsIn(payments, {"AWAITING_CONFIRMATION", "CONFIRMED"}) = {}
    BY DEF Init, FreeRow, UnitsIn
<1>2. Recorded = 0
    BY <1>1, FS_EmptySet DEF Recorded, Total
<1>3. LetterOfCreditApart
    BY DEF Init, LetterOfCreditApart, FreeRow, Idle, LcOp
<1> QED BY <1>2, <1>3, AmountAssumption DEF NeverOvercollected

(* Whose requests may start, and which rows may wait, under which plan.     *)
LEMMA ApartStep == TypeOK /\ LetterOfCreditApart /\ [Next]_vars => LetterOfCreditApart'
<1> SUFFICES ASSUME TypeOK, LetterOfCreditApart, [Next]_vars
             PROVE  LetterOfCreditApart'
    OBVIOUS
<1> USE DEF LetterOfCreditApart, IsLetterOfCredit, TypeOK
<1>1. CASE UNCHANGED vars
    BY <1>1 DEF vars
<1>2. CASE \/ Accept \/ Reject \/ Receive \/ Complete \/ Cancel
           \/ RequestCancel \/ WithdrawCancelRequest
           \/ ApproveCancelRequest \/ RejectCancelRequest \/ DefectWindowCloses
    BY <1>2 DEF OrderOnly, Accept, Reject, Receive, Complete, Cancel, RequestCancel,
                WithdrawCancelRequest, ApproveCancelRequest, RejectCancelRequest,
                DefectWindowCloses
<1>3. ASSUME NEW p \in PaymentId, NEW decision \in {"CONFIRMED", "REJECTED"},
             PaymentDecision(p, decision) \/ PaymentAges(p)
      PROVE  LetterOfCreditApart'
    BY <1>3 DEF PaymentDecision, PaymentAges, PaymentRow
<1>4. ASSUME NEW s \in Session, InFlight(s)
      PROVE  LetterOfCreditApart'
    <2> USE DEF Begin, Finish, Idle, LcOp
    <2>1. CASE ShipRead(s) \/ RaiseDefectRead(s) \/ WithdrawDefectRead(s)
        BY <2>1 DEF ShipRead, RaiseDefectRead, WithdrawDefectRead
    <2>2. CASE ShipCheckPayments(s)
        BY <2>2 DEF ShipCheckPayments
    <2>3. CASE \/ ShipCommit(s) \/ RaiseDefectCommit(s) \/ WithdrawDefectCommit(s)
               \/ LcMarkOpenedCommit(s) \/ LcMarkAcceptedCommit(s) \/ Abandon(s)
        BY <2>3 DEF ShipCommit, RaiseDefectCommit, WithdrawDefectCommit,
                    LcMarkOpenedCommit, LcMarkAcceptedCommit, Abandon
    <2>4. CASE LcMarkOpenedRead(s) \/ LcMarkAcceptedRead(s) \/ LcMarkPaidRead(s)
        BY <2>4 DEF LcMarkOpenedRead, LcMarkAcceptedRead, LcMarkPaidRead, LcStepOpen
    <2>5. CASE LcMarkPaidCommit(s)
        BY <2>5 DEF LcMarkPaidCommit
    <2>6. CASE RecordPaymentRead(s)
        BY <2>6 DEF RecordPaymentRead, IsPaymentOpen
    <2>7. ASSUME NEW n \in 1..Amount, NEW form \in Form, RecordPaymentCommit(s, n, form)
          PROVE  LetterOfCreditApart'
        BY <2>7 DEF RecordPaymentCommit, InsertPayment
    <2> QED BY <1>4, <2>1, <2>2, <2>3, <2>4, <2>5, <2>6, <2>7 DEF InFlight
<1> QED BY <1>1, <1>2, <1>3, <1>4 DEF Next

(* The only steps that write a payment row.                                 *)
LEMMA OnlyPaymentSteps ==
    ASSUME [Next]_vars, payments' # payments
    PROVE  \/ \E p \in PaymentId, decision \in {"CONFIRMED", "REJECTED"} :
                  PaymentDecision(p, decision) \/ PaymentAges(p)
           \/ \E s \in Session : LcMarkPaidCommit(s)
           \/ \E s \in Session, n \in 1..Amount, form \in Form :
                  RecordPaymentCommit(s, n, form)
<1>1. Next
    BY DEF vars
<1>2. ~(\/ Accept \/ Reject \/ Receive \/ Complete \/ Cancel
        \/ RequestCancel \/ WithdrawCancelRequest
        \/ ApproveCancelRequest \/ RejectCancelRequest \/ DefectWindowCloses)
    BY DEF OrderOnly, Accept, Reject, Receive, Complete, Cancel, RequestCancel,
           WithdrawCancelRequest, ApproveCancelRequest, RejectCancelRequest,
           DefectWindowCloses
<1>3. ASSUME NEW s \in Session, InFlight(s)
      PROVE  \/ LcMarkPaidCommit(s)
             \/ \E n \in 1..Amount, form \in Form : RecordPaymentCommit(s, n, form)
    BY <1>3 DEF InFlight, Begin, ShipRead, ShipCheckPayments, ShipCommit,
           RaiseDefectRead, RaiseDefectCommit, WithdrawDefectRead, WithdrawDefectCommit,
           LcMarkOpenedRead, LcMarkOpenedCommit, LcMarkAcceptedRead, LcMarkAcceptedCommit,
           LcMarkPaidRead, RecordPaymentRead, Abandon
<1> QED BY <1>1, <1>2, <1>3 DEF Next

(* The cap survives every step.                                             *)
LEMMA CapStep == MoneyInv /\ [Next]_vars => NeverOvercollected'
<1> SUFFICES ASSUME MoneyInv, [Next]_vars PROVE NeverOvercollected'
    OBVIOUS
<1> DEFINE Counted == {"AWAITING_CONFIRMATION", "CONFIRMED"}
<1>1. CASE UNCHANGED payments
    BY <1>1, SameRowsSameSums DEF MoneyInv, NeverOvercollected
<1>2. ASSUME NEW p \in PaymentId, NEW decision \in {"CONFIRMED", "REJECTED"},
             PaymentDecision(p, decision) \/ PaymentAges(p)
      PROVE  NeverOvercollected'
    <2>1. \A q \in PaymentId : /\ payments'[q].amount = payments[q].amount
                               /\ payments'[q].status \in Counted => payments[q].status \in Counted
        BY <1>2 DEF MoneyInv, TypeOK, PaymentRow, PaymentDecision, PaymentAges
    <2>2. Recorded' <= Recorded
        BY <2>1, UnitsGrow DEF Recorded, Total
    <2>3. Recorded' \in Nat
        BY UnitsFinite DEF Recorded, Total
    <2> QED BY <2>2, <2>3, SumsAreNaturals, AmountAssumption DEF MoneyInv, NeverOvercollected
<1>3. ASSUME NEW s \in Session, LcMarkPaidCommit(s), payments' # payments
      PROVE  NeverOvercollected'
    <2>1. IsLetterOfCredit
        BY <1>3 DEF MoneyInv, LetterOfCreditApart, LcMarkPaidCommit, LcOp
    <2>2. \A q \in PaymentId : payments[q].status \in Counted => payments[q].status \in {"CONFIRMED"}
        BY <2>1 DEF MoneyInv, LetterOfCreditApart
    <2>3. Recorded <= Confirmed
        BY <2>2, UnitsGrow DEF Recorded, Confirmed, Total
    <2>4. PICK p \in PaymentId :
              /\ payments[p] = FreeRow
              /\ payments' = [payments EXCEPT ![p] =
                    [status |-> "CONFIRMED", amount |-> Amount - Confirmed,
                     form |-> "bank", fresh |-> TRUE]]
        BY <1>3 DEF LcMarkPaidCommit
    <2>5. Amount - Confirmed \in 0..Amount
        <3>1. Amount > Confirmed
            BY <1>3 DEF LcMarkPaidCommit
        <3> QED BY <3>1, SumsAreNaturals, AmountAssumption
    <2>6. Recorded' = Recorded + (Amount - Confirmed)
        <3>1. [status |-> "CONFIRMED", amount |-> Amount - Confirmed,
               form |-> "bank", fresh |-> TRUE] \in PaymentRow
            BY <2>5 DEF PaymentRow
        <3>2. payments[p].amount = 0
            BY <2>4 DEF FreeRow
        <3> QED BY <2>4, <3>1, <3>2, UnitsInsert DEF MoneyInv, TypeOK, Recorded, Total
    <2> QED BY <2>3, <2>6, SumsAreNaturals, AmountAssumption DEF NeverOvercollected
<1>4. ASSUME NEW s \in Session, NEW n \in 1..Amount, NEW form \in Form,
             RecordPaymentCommit(s, n, form)
      PROVE  NeverOvercollected'
    <2>1. PICK p \in PaymentId :
              /\ payments[p] = FreeRow
              /\ payments' = [payments EXCEPT ![p] =
                    [status |-> "AWAITING_CONFIRMATION", amount |-> n,
                     form |-> form, fresh |-> TRUE]]
        BY <1>4 DEF RecordPaymentCommit, InsertPayment
    <2>2. Recorded' = Recorded + n
        <3>1. [status |-> "AWAITING_CONFIRMATION", amount |-> n,
               form |-> form, fresh |-> TRUE] \in PaymentRow
            BY AmountAssumption DEF PaymentRow
        <3>2. payments[p].amount = 0
            BY <2>1 DEF FreeRow
        <3> QED BY <2>1, <3>1, <3>2, UnitsInsert DEF MoneyInv, TypeOK, Recorded, Total
    <2> QED BY <1>4, <2>2 DEF RecordPaymentCommit, NeverOvercollected
<1>5. ASSUME payments' # payments
      PROVE  \/ \E p \in PaymentId, decision \in {"CONFIRMED", "REJECTED"} :
                    PaymentDecision(p, decision) \/ PaymentAges(p)
             \/ \E s \in Session : LcMarkPaidCommit(s)
             \/ \E s \in Session, n \in 1..Amount, form \in Form :
                    RecordPaymentCommit(s, n, form)
    BY <1>5, OnlyPaymentSteps
<1> QED BY <1>1, <1>2, <1>3, <1>4, <1>5

(* Money waiting and money confirmed never exceed the order total, for any  *)
(* number of concurrent requests, any number of rows and any total.         *)
THEOREM PaymentCap == Spec => []NeverOvercollected
<1>1. Init => MoneyInv
    BY TypeInit, MoneyInit DEF MoneyInv
<1>2. MoneyInv /\ [Next]_vars => MoneyInv'
    BY TypeStep, ApartStep, CapStep DEF MoneyInv
<1>3. MoneyInv => NeverOvercollected
    BY DEF MoneyInv
<1> QED BY <1>1, <1>2, <1>3, PTL DEF Spec

(* The buyer's claims and the bank's payment never meet on one order.       *)
THEOREM LetterOfCreditKeptApart == Spec => []LetterOfCreditApart
BY TypeInit, TypeStep, MoneyInit, ApartStep, PTL DEF Spec

----------------------------------------------------------------------------
(* Disputes, cancellation and the way out of delivery.                      *)

(* A request about a notice goes back to a state of delivered goods.        *)
LEMMA DefectRequests ==
    ASSUME TypeOK, NEW s \in Session, req[s].op \in DefectOp
    PROVE  req[s].prev \in {"DELIVERED", "COMPLETED"}
BY DEF TypeOK, Request, PlainOp, DefectOp, LcOp

(* The steps of a request in flight that write the order's row.             *)
LEMMA OnlyOrderSteps ==
    ASSUME NEW s \in Session, InFlight(s), order' # order
    PROVE  \/ ShipCommit(s) \/ RaiseDefectCommit(s) \/ WithdrawDefectCommit(s)
           \/ LcMarkOpenedCommit(s) \/ LcMarkAcceptedCommit(s) \/ LcMarkPaidCommit(s)
BY DEF InFlight, Begin, ShipRead, ShipCheckPayments, RaiseDefectRead, WithdrawDefectRead,
       LcMarkOpenedRead, LcMarkAcceptedRead, LcMarkPaidRead, RecordPaymentRead,
       RecordPaymentCommit, InsertPayment, Abandon

(* Every step leaves the row alone, is a handler that commits at once, or   *)
(* belongs to a request in flight.                                          *)
LEMMA OrderStepCases ==
    ASSUME [Next]_vars
    PROVE  \/ UNCHANGED order
           \/ \/ Accept \/ Reject \/ Receive \/ Complete \/ Cancel
              \/ RequestCancel \/ WithdrawCancelRequest
              \/ ApproveCancelRequest \/ RejectCancelRequest \/ DefectWindowCloses
           \/ \E s \in Session : InFlight(s) /\ order' # order
BY DEF Next, vars, PaymentDecision, PaymentAges

(* What one step can do to the state, the flags and the grounds.            *)
LEMMA DisputeStep == TypeOK /\ DisputeHasAGround /\ [Next]_vars => DisputeHasAGround'
<1> SUFFICES ASSUME TypeOK, DisputeHasAGround, [Next]_vars PROVE DisputeHasAGround'
    OBVIOUS
<1> USE DEF DisputeHasAGround
<1>1. CASE UNCHANGED order
    BY <1>1
<1>2. CASE \/ Accept \/ Reject \/ Receive \/ Complete \/ Cancel
           \/ RequestCancel \/ WithdrawCancelRequest
           \/ ApproveCancelRequest \/ RejectCancelRequest \/ DefectWindowCloses
    BY <1>2 DEF TypeOK, Order, Transition, Accept, Reject, Receive, Complete, Cancel,
                RequestCancel, WithdrawCancelRequest, ApproveCancelRequest,
                RejectCancelRequest, DefectWindowCloses
<1>3. ASSUME NEW s \in Session, InFlight(s), order' # order
      PROVE  DisputeHasAGround'
    <2>1. CASE ShipCommit(s)
        BY <2>1 DEF ShipCommit, Transition, TypeOK, Order
    <2>2. CASE RaiseDefectCommit(s)
        BY <2>2 DEF RaiseDefectCommit, TypeOK, Order
    <2>3. CASE WithdrawDefectCommit(s)
        BY <2>3, DefectRequests DEF WithdrawDefectCommit, DefectOp, TypeOK, Order
    <2>4. CASE LcMarkOpenedCommit(s) \/ LcMarkAcceptedCommit(s) \/ LcMarkPaidCommit(s)
        BY <2>4 DEF LcMarkOpenedCommit, LcMarkAcceptedCommit, LcMarkPaidCommit, TypeOK, Order
    <2> QED BY <1>3, <2>1, <2>2, <2>3, <2>4, OnlyOrderSteps
<1> QED BY <1>1, <1>2, <1>3, OrderStepCases

(* A dispute is always about defects or about a request to cancel.          *)
THEOREM DisputesHaveGrounds == Spec => []DisputeHasAGround
<1>1. Init => DisputeHasAGround
    BY InitialAssumption DEF Init, DisputeHasAGround
<1> QED BY <1>1, TypeInit, TypeStep, DisputeStep, PTL DEF Spec

(* Which handlers close an order, and how.                                  *)
LEMMA ClosingStep ==
    ASSUME TypeOK, [Next]_vars, order.status # "CANCELLED", order'.status = "CANCELLED"
    PROVE  Cancel \/ ApproveCancelRequest
<1>1. order' # order
    OBVIOUS
<1>2. CASE \/ Accept \/ Reject \/ Receive \/ Complete
           \/ RequestCancel \/ WithdrawCancelRequest
           \/ RejectCancelRequest \/ DefectWindowCloses
    BY <1>2 DEF TypeOK, Order, Transition, Accept, Reject, Receive, Complete,
                RequestCancel, WithdrawCancelRequest, RejectCancelRequest, DefectWindowCloses
<1>3. ASSUME NEW s \in Session, InFlight(s)
      PROVE  FALSE
    <2>1. CASE ShipCommit(s)
        BY <2>1 DEF ShipCommit, Transition, TypeOK, Order
    <2>2. CASE RaiseDefectCommit(s)
        BY <2>2 DEF RaiseDefectCommit, TypeOK, Order
    <2>3. CASE WithdrawDefectCommit(s)
        BY <2>3, DefectRequests DEF WithdrawDefectCommit, DefectOp, TypeOK, Order
    <2>4. CASE LcMarkOpenedCommit(s) \/ LcMarkAcceptedCommit(s) \/ LcMarkPaidCommit(s)
        BY <2>4 DEF LcMarkOpenedCommit, LcMarkAcceptedCommit, LcMarkPaidCommit, TypeOK, Order
    <2> QED BY <1>1, <1>3, <2>1, <2>2, <2>3, <2>4, OnlyOrderSteps
<1> QED BY <1>1, <1>2, <1>3, OrderStepCases

(* Unless the seller asked for it, cancelling finds no confirmed payment:   *)
(* of the two handlers that cancel, one counts the payments under the lock  *)
(* and the other needs an open request, or a dispute that grew out of one.  *)
THEOREM CancellationStrandsNoMoney == Spec => CancelStrandsNoMoney
<1>1. ASSUME TypeOK, DisputeHasAGround, [Next]_vars,
             order.status # "CANCELLED", order'.status = "CANCELLED", ~order.cancelRequested
      PROVE  Confirmed' = 0
    <2>1. ~ApproveCancelRequest
        BY <1>1 DEF ApproveCancelRequest, IsA1Dispute, DisputeHasAGround
    <2>2. Cancel
        BY <1>1, <2>1, ClosingStep
    <2> QED BY <2>2, SameRowsSameSums DEF Cancel, OrderOnly
<1>2. TypeOK /\ DisputeHasAGround /\ [Next]_vars
      => [ /\ order.status # "CANCELLED" /\ order'.status = "CANCELLED"
           /\ ~order.cancelRequested
           => Confirmed' = 0 ]_vars
    BY <1>1
<1> QED BY <1>2, TypeCorrect, DisputesHaveGrounds, PTL DEF Spec, CancelStrandsNoMoney

(* What left the seller stays beyond cancellation: the flag of the notice   *)
(* and the state the notice goes back to keep the two kinds of dispute      *)
(* apart, whatever old request to cancel is still on the row.               *)
THEOREM GoodsStayGone == Spec => GoodsNeverUnsent
<1>1. ASSUME TypeOK, [Next]_vars, GoodsGone
      PROVE  GoodsGone'
    <2> USE <1>1 DEF GoodsGone, Delivering
    <2>1. CASE UNCHANGED order
        BY <2>1
    <2>2. CASE \/ Accept \/ Reject \/ Receive \/ Complete \/ Cancel
               \/ RequestCancel \/ WithdrawCancelRequest
               \/ ApproveCancelRequest \/ RejectCancelRequest \/ DefectWindowCloses
        BY <2>2 DEF TypeOK, Order, IsA1Dispute, Transition, Accept, Reject, Receive, Complete,
                    Cancel, RequestCancel, WithdrawCancelRequest, ApproveCancelRequest,
                    RejectCancelRequest, DefectWindowCloses
    <2>3. ASSUME NEW s \in Session, InFlight(s), order' # order
          PROVE  GoodsGone'
        <3>1. CASE ShipCommit(s)
            BY <3>1 DEF ShipCommit, Transition, TypeOK, Order
        <3>2. CASE RaiseDefectCommit(s)
            BY <3>2 DEF RaiseDefectCommit, TypeOK, Order
        <3>3. CASE WithdrawDefectCommit(s)
            BY <3>3, DefectRequests DEF WithdrawDefectCommit, DefectOp, TypeOK, Order
        <3>4. CASE LcMarkOpenedCommit(s) \/ LcMarkAcceptedCommit(s) \/ LcMarkPaidCommit(s)
            BY <3>4 DEF LcMarkOpenedCommit, LcMarkAcceptedCommit, LcMarkPaidCommit, TypeOK, Order
        <3> QED BY <2>3, <3>1, <3>2, <3>3, <3>4, OnlyOrderSteps
    <2> QED BY <2>1, <2>2, <2>3, OrderStepCases
<1>2. TypeOK /\ [Next]_vars => [GoodsGone => GoodsGone']_vars
    BY <1>1
<1> QED BY <1>2, TypeCorrect, PTL DEF Spec, GoodsNeverUnsent
----------------------------------------------------------------------------
(* Clicks repeated, and goods sent against payment.                         *)

(* What a step does to one payment row: it stays, it is decided about, it   *)
(* grows old, or it is filled with a claim nobody repeats or with money     *)
(* that is confirmed at once.                                               *)
LEMMA RowSteps ==
    ASSUME TypeOK, [Next]_vars, NEW p \in PaymentId
    PROVE  \/ payments'[p] = payments[p]
           \/ payments'[p].status \in {"CONFIRMED", "REJECTED"}
           \/ /\ ~payments'[p].fresh
              /\ payments'[p].status = payments[p].status
           \/ /\ payments' = [payments EXCEPT ![p] = payments'[p]]
              /\ \A q \in PaymentId : ~Duplicate(q, payments'[p].amount, payments'[p].form)
<1> USE DEF TypeOK
<1>1. CASE UNCHANGED payments
    BY <1>1
<1>2. ASSUME NEW q \in PaymentId, NEW decision \in {"CONFIRMED", "REJECTED"},
             PaymentDecision(q, decision) \/ PaymentAges(q)
      PROVE  \/ payments'[p] = payments[p]
             \/ payments'[p].status \in {"CONFIRMED", "REJECTED"}
             \/ ~payments'[p].fresh /\ payments'[p].status = payments[p].status
    BY <1>2 DEF PaymentDecision, PaymentAges, PaymentRow
<1>3. ASSUME NEW s \in Session, LcMarkPaidCommit(s)
      PROVE  payments'[p] = payments[p] \/ payments'[p].status = "CONFIRMED"
    BY <1>3 DEF LcMarkPaidCommit
<1>4. ASSUME NEW s \in Session, NEW n \in 1..Amount, NEW form \in Form,
             RecordPaymentCommit(s, n, form)
      PROVE  \/ payments'[p] = payments[p]
             \/ /\ payments' = [payments EXCEPT ![p] = payments'[p]]
                /\ \A q \in PaymentId : ~Duplicate(q, payments'[p].amount, payments'[p].form)
    <2>1. PICK r \in PaymentId :
              payments' = [payments EXCEPT ![r] =
                    [status |-> "AWAITING_CONFIRMATION", amount |-> n,
                     form |-> form, fresh |-> TRUE]]
        BY <1>4 DEF RecordPaymentCommit, InsertPayment
    <2>2. CASE p = r
        BY <1>4, <2>1, <2>2 DEF RecordPaymentCommit
    <2>3. CASE p # r
        BY <2>1, <2>3
    <2> QED BY <2>2, <2>3
<1> QED BY <1>1, <1>2, <1>3, <1>4, OnlyPaymentSteps

(* Two waiting rows that look alike would have to grow alike, and nothing   *)
(* but the insertion makes a row fresh or waiting.                          *)
LEMMA DuplicateStep == TypeOK /\ NoFreshDuplicate /\ [Next]_vars => NoFreshDuplicate'
<1> SUFFICES ASSUME TypeOK, NoFreshDuplicate, [Next]_vars,
                    NEW p \in PaymentId, NEW q \in PaymentId, p # q,
                    payments'[p].status = "AWAITING_CONFIRMATION", payments'[p].fresh,
                    payments'[q].status = "AWAITING_CONFIRMATION", payments'[q].fresh,
                    payments'[q].amount = payments'[p].amount,
                    payments'[q].form = payments'[p].form
             PROVE  FALSE
    BY DEF NoFreshDuplicate, Duplicate
<1>1. ~(payments'[p] = payments[p] /\ payments'[q] = payments[q])
    BY DEF NoFreshDuplicate, Duplicate
<1>2. CASE payments'[p] # payments[p]
    <2>1. /\ payments' = [payments EXCEPT ![p] = payments'[p]]
          /\ ~Duplicate(q, payments'[p].amount, payments'[p].form)
        BY <1>2, RowSteps
    <2>2. payments'[q] = payments[q]
        BY <2>1 DEF TypeOK
    <2> QED BY <2>1, <2>2 DEF Duplicate
<1>3. CASE payments'[q] # payments[q]
    <2>1. /\ payments' = [payments EXCEPT ![q] = payments'[q]]
          /\ ~Duplicate(p, payments'[q].amount, payments'[q].form)
        BY <1>3, RowSteps
    <2>2. payments'[p] = payments[p]
        BY <2>1 DEF TypeOK
    <2> QED BY <2>1, <2>2 DEF Duplicate
<1> QED BY <1>1, <1>2, <1>3

(* However often the button is pressed, and by however many requests at     *)
(* once, no two waiting rows inside the window look alike.                  *)
THEOREM ClicksLeaveOneRow == Spec => []NoFreshDuplicate
<1>1. Init => NoFreshDuplicate
    BY DEF Init, NoFreshDuplicate, FreeRow
<1> QED BY <1>1, TypeInit, TypeStep, DuplicateStep, PTL DEF Spec

(* What a request to ship has seen, and what stays true until it commits:   *)
(* confirmed money and the bank's stamps are never taken back.              *)
ShipmentCovered ==
    \A s \in Session :
        /\ req[s].op \in {"ship", "shipChecked"} /\ IsLetterOfCredit
              => order.lcOpened /\ order.lcAccepted
        /\ req[s].op = "shipChecked" => Confirmed >= AdvanceDue

LEMMA PlanIsFixed == [Next]_vars => plan' = plan
BY DEF Next, vars, OrderOnly, Accept, Reject, Receive, Complete, Cancel, RequestCancel,
       WithdrawCancelRequest, ApproveCancelRequest, RejectCancelRequest, DefectWindowCloses,
       PaymentDecision, PaymentAges, InFlight, Begin, ShipRead, ShipCheckPayments, ShipCommit,
       RaiseDefectRead, RaiseDefectCommit, WithdrawDefectRead, WithdrawDefectCommit,
       LcMarkOpenedRead, LcMarkOpenedCommit, LcMarkAcceptedRead, LcMarkAcceptedCommit,
       LcMarkPaidRead, LcMarkPaidCommit, RecordPaymentRead, RecordPaymentCommit,
       InsertPayment, Abandon

LEMMA AdvanceIsFixed == [Next]_vars => AdvanceDue' = AdvanceDue /\ IsLetterOfCredit' = IsLetterOfCredit
BY PlanIsFixed DEF AdvanceDue, IsLetterOfCredit

LEMMA AdvanceIsANumber ==
    ASSUME TypeOK
    PROVE  AdvanceDue \in Int
<1>1. plan.advancePercent \in Int
    BY PlanAssumption DEF TypeOK, Null
<1> QED BY <1>1, AmountAssumption DEF AdvanceDue

LEMMA ConfirmedGrows ==
    ASSUME TypeOK, [Next]_vars
    PROVE  Confirmed <= Confirmed'
<1>1. \A p \in PaymentId : payments[p].status = "CONFIRMED" =>
          payments'[p].status = "CONFIRMED" /\ payments'[p].amount = payments[p].amount
    <2> SUFFICES ASSUME NEW p \in PaymentId, payments[p].status = "CONFIRMED"
                 PROVE  payments'[p].status = "CONFIRMED" /\ payments'[p].amount = payments[p].amount
        OBVIOUS
    <2> USE DEF TypeOK
    <2>1. CASE UNCHANGED payments
        BY <2>1
    <2>2. ASSUME NEW q \in PaymentId, NEW decision \in {"CONFIRMED", "REJECTED"},
                 PaymentDecision(q, decision) \/ PaymentAges(q)
          PROVE  payments'[p].status = "CONFIRMED" /\ payments'[p].amount = payments[p].amount
        BY <2>2 DEF PaymentDecision, PaymentAges, PaymentRow
    <2>3. ASSUME NEW s \in Session, LcMarkPaidCommit(s)
          PROVE  payments'[p] = payments[p]
        BY <2>3 DEF LcMarkPaidCommit, FreeRow
    <2>4. ASSUME NEW s \in Session, NEW n \in 1..Amount, NEW form \in Form,
                 RecordPaymentCommit(s, n, form)
          PROVE  payments'[p] = payments[p]
        BY <2>4 DEF RecordPaymentCommit, InsertPayment, FreeRow
    <2> QED BY <2>1, <2>2, <2>3, <2>4, OnlyPaymentSteps
<1> DEFINE C == {"CONFIRMED"}
<1>2. \A p \in PaymentId : payments[p].status \in C =>
          payments'[p].status \in C /\ payments'[p].amount = payments[p].amount
    BY <1>1
<1> HIDE DEF C
<1>3. Cardinality(UnitsIn(payments, C)) <= Cardinality(UnitsIn(payments', C))
    BY <1>2, UnitsGrow
<1> QED BY <1>3 DEF C, Confirmed, Total

(* The two stamps of the bank stay.                                         *)
LEMMA StampsStay ==
    ASSUME TypeOK, [Next]_vars
    PROVE  /\ order.lcOpened => order'.lcOpened
           /\ order.lcAccepted => order'.lcAccepted
<1> USE DEF TypeOK, Order
<1>1. CASE UNCHANGED order
    BY <1>1
<1>2. CASE \/ Accept \/ Reject \/ Receive \/ Complete \/ Cancel
           \/ RequestCancel \/ WithdrawCancelRequest
           \/ ApproveCancelRequest \/ RejectCancelRequest \/ DefectWindowCloses
    BY <1>2 DEF Transition, Accept, Reject, Receive, Complete, Cancel,
                RequestCancel, WithdrawCancelRequest, ApproveCancelRequest,
                RejectCancelRequest, DefectWindowCloses
<1>3. ASSUME NEW s \in Session, InFlight(s), order' # order
      PROVE  /\ order.lcOpened => order'.lcOpened
             /\ order.lcAccepted => order'.lcAccepted
    BY <1>3, OnlyOrderSteps
       DEF ShipCommit, Transition, RaiseDefectCommit, WithdrawDefectCommit,
           LcMarkOpenedCommit, LcMarkAcceptedCommit, LcMarkPaidCommit
<1> QED BY <1>1, <1>2, <1>3, OrderStepCases

(* Where the requests to ship come from.                                    *)
LEMMA ShipRequests ==
    ASSUME TypeOK, [Next]_vars, NEW s \in Session,
           req'[s].op \in {"ship", "shipChecked"}, req'[s] # req[s]
    PROVE  ShipRead(s) \/ ShipCheckPayments(s)
<1>1. ASSUME NEW t \in Session, InFlight(t)
      PROVE  t = s /\ (ShipRead(t) \/ ShipCheckPayments(t))
    BY <1>1 DEF TypeOK, InFlight, Begin, Finish, Idle, ShipRead, ShipCheckPayments, ShipCommit,
       RaiseDefectRead, RaiseDefectCommit, WithdrawDefectRead, WithdrawDefectCommit,
       LcMarkOpenedRead, LcMarkOpenedCommit, LcMarkAcceptedRead, LcMarkAcceptedCommit,
       LcMarkPaidRead, LcMarkPaidCommit, RecordPaymentRead, RecordPaymentCommit,
       InsertPayment, Abandon
<1>2. \/ UNCHANGED req
      \/ \E t \in Session : InFlight(t)
    BY DEF Next, vars, OrderOnly, Accept, Reject, Receive, Complete, Cancel, RequestCancel,
       WithdrawCancelRequest, ApproveCancelRequest, RejectCancelRequest, DefectWindowCloses,
       PaymentDecision, PaymentAges
<1> QED BY <1>1, <1>2

LEMMA CoveredStep == TypeOK /\ ShipmentCovered /\ [Next]_vars => ShipmentCovered'
<1> SUFFICES ASSUME TypeOK, ShipmentCovered, [Next]_vars, NEW s \in Session
             PROVE  /\ req'[s].op \in {"ship", "shipChecked"} /\ IsLetterOfCredit
                          => order'.lcOpened /\ order'.lcAccepted
                    /\ req'[s].op = "shipChecked" => Confirmed' >= AdvanceDue
    BY AdvanceIsFixed DEF ShipmentCovered
<1>1. Confirmed >= AdvanceDue => Confirmed' >= AdvanceDue
    <2>1. Confirmed' \in Nat
        BY UnitsFinite DEF Confirmed, Total
    <2> QED BY <2>1, ConfirmedGrows, SumsAreNaturals, AdvanceIsANumber
<1>2. CASE req'[s] = req[s]
    BY <1>1, <1>2, StampsStay DEF ShipmentCovered
<1>3. CASE ShipRead(s)
    BY <1>3, StampsStay DEF ShipRead, Begin, TypeOK
<1>4. CASE ShipCheckPayments(s)
    BY <1>1, <1>4, StampsStay DEF ShipCheckPayments, ShipmentCovered, TypeOK
<1> QED BY <1>2, <1>3, <1>4, ShipRequests

LEMMA ShippedStep ==
    TypeOK /\ ShipmentCovered /\ ShippedAgainstPayment /\ [Next]_vars => ShippedAgainstPayment'
<1> SUFFICES ASSUME TypeOK, ShipmentCovered, ShippedAgainstPayment, [Next]_vars,
                    order'.status = "IN_DELIVERY"
             PROVE  /\ Confirmed' >= AdvanceDue
                    /\ IsLetterOfCredit => order'.lcOpened /\ order'.lcAccepted
    BY AdvanceIsFixed DEF ShippedAgainstPayment
<1>1. \/ order.status = "IN_DELIVERY"
      \/ \E s \in Session : ShipCommit(s)
    <2> USE DEF TypeOK, Order
    <2>1. CASE UNCHANGED order
        BY <2>1
    <2>2. CASE \/ Accept \/ Reject \/ Receive \/ Complete \/ Cancel
               \/ RequestCancel \/ WithdrawCancelRequest
               \/ ApproveCancelRequest \/ RejectCancelRequest \/ DefectWindowCloses
        BY <2>2 DEF Transition, Accept, Reject, Receive, Complete, Cancel,
                RequestCancel, WithdrawCancelRequest, ApproveCancelRequest,
                RejectCancelRequest, DefectWindowCloses
    <2>3. ASSUME NEW s \in Session, InFlight(s), order' # order
          PROVE  order.status = "IN_DELIVERY" \/ ShipCommit(s)
        BY <2>3, OnlyOrderSteps, DefectRequests
           DEF RaiseDefectCommit, WithdrawDefectCommit, DefectOp,
               LcMarkOpenedCommit, LcMarkAcceptedCommit, LcMarkPaidCommit
    <2> QED BY <2>1, <2>2, <2>3, OrderStepCases
<1>2. Confirmed >= AdvanceDue /\ (IsLetterOfCredit => order.lcOpened /\ order.lcAccepted)
    BY <1>1 DEF ShippedAgainstPayment, ShipmentCovered, ShipCommit
<1>3. Confirmed' \in Nat
    BY UnitsFinite DEF Confirmed, Total
<1> QED BY <1>2, <1>3, ConfirmedGrows, StampsStay, SumsAreNaturals, AdvanceIsANumber

(* Goods are on their way only with the advance confirmed in full and the   *)
(* letter of credit opened and accepted, although the commit of ship tests  *)
(* neither: what the request has seen before is never taken back.           *)
THEOREM GoodsSentAgainstPayment == Spec => []ShippedAgainstPayment
<1>1. Init => ShipmentCovered /\ ShippedAgainstPayment
    BY InitialAssumption DEF Init, ShipmentCovered, ShippedAgainstPayment, Idle
<1> QED BY <1>1, TypeInit, TypeStep, CoveredStep, ShippedStep, PTL DEF Spec
----------------------------------------------------------------------------
(* The orders' payments implement the abstract ledger.                      *)

Awaiting == Total({"AWAITING_CONFIRMATION"})

(* What one row adds to the sum over the given states.                      *)
Counted(row, states) == IF row.status \in states THEN row.amount ELSE 0

(* Emptying a row takes away what it added.                                 *)
LEMMA UnitsRemove ==
    ASSUME NEW rows \in [PaymentId -> PaymentRow], NEW p \in PaymentId, NEW states
    PROVE  Cardinality(UnitsIn(rows, states))
             = Cardinality(UnitsIn([rows EXCEPT ![p] = FreeRow], states))
                 + Counted(rows[p], states)
<1> DEFINE empty == [rows EXCEPT ![p] = FreeRow]
<1>1. FreeRow \in PaymentRow
    BY AmountAssumption DEF FreeRow, PaymentRow
<1>2. empty \in [PaymentId -> PaymentRow] /\ empty[p].amount = 0
    BY <1>1 DEF FreeRow
<1>3. rows[p] \in PaymentRow
    OBVIOUS
<1>4. rows = [empty EXCEPT ![p] = rows[p]]
    OBVIOUS
<1>5. CASE rows[p].status \in states
    <2> HIDE DEF empty
    <2>1. Cardinality(UnitsIn([empty EXCEPT ![p] = rows[p]], states))
            = Cardinality(UnitsIn(empty, states)) + rows[p].amount
        BY <1>2, <1>3, <1>5, UnitsInsert
    <2>2. Cardinality(UnitsIn(rows, states))
            = Cardinality(UnitsIn(empty, states)) + rows[p].amount
        BY <2>1, <1>4
    <2> QED BY <2>2, <1>5 DEF Counted, empty
<1>6. CASE rows[p].status \notin states
    <2>1. UnitsIn(rows, states) = UnitsIn(empty, states)
        <3>1. ASSUME NEW q \in PaymentId, NEW k \in 1..Amount
              PROVE  <<q, k>> \in UnitsIn(rows, states) <=> <<q, k>> \in UnitsIn(empty, states)
            BY <1>2, <1>6, AmountAssumption DEF UnitsIn
        <3>2. /\ UnitsIn(rows, states) \subseteq PaymentId \X (1..Amount)
              /\ UnitsIn(empty, states) \subseteq PaymentId \X (1..Amount)
            BY DEF UnitsIn
        <3> HIDE DEF empty
        <3> QED BY <3>1, <3>2
    <2>2. Cardinality(UnitsIn(empty, states)) \in Nat
        BY UnitsFinite
    <2> HIDE DEF empty
    <2>3. Cardinality(UnitsIn(rows, states)) = Cardinality(UnitsIn(empty, states)) + 0
        BY <2>1, <2>2
    <2> QED BY <2>3, <1>6 DEF Counted, empty
<1> QED BY <1>5, <1>6

(* Writing one row changes a sum by what the row adds now and added before. *)
LEMMA UnitsWrite ==
    ASSUME NEW rows1 \in [PaymentId -> PaymentRow], NEW p \in PaymentId, NEW states,
           NEW rows2 \in [PaymentId -> PaymentRow], rows2 = [rows1 EXCEPT ![p] = rows2[p]]
    PROVE  Cardinality(UnitsIn(rows2, states)) + Counted(rows1[p], states)
             = Cardinality(UnitsIn(rows1, states)) + Counted(rows2[p], states)
<1> DEFINE rest == Cardinality(UnitsIn([rows1 EXCEPT ![p] = FreeRow], states))
<1>1. [rows1 EXCEPT ![p] = FreeRow] = [rows2 EXCEPT ![p] = FreeRow]
    OBVIOUS
<1>2. Cardinality(UnitsIn(rows1, states)) = rest + Counted(rows1[p], states)
    BY UnitsRemove
<1>3. Cardinality(UnitsIn(rows2, states)) = rest + Counted(rows2[p], states)
    <2>1. Cardinality(UnitsIn(rows2, states))
            = Cardinality(UnitsIn([rows2 EXCEPT ![p] = FreeRow], states))
                + Counted(rows2[p], states)
        BY UnitsRemove
    <2> QED BY <2>1, <1>1, Zenon
<1>4. rest \in Nat
    BY UnitsFinite
<1>5. /\ Counted(rows1[p], states) \in Nat
      /\ Counted(rows2[p], states) \in Nat
    BY AmountAssumption DEF Counted, PaymentRow
<1> HIDE DEF rest
<1> QED BY <1>2, <1>3, <1>4, <1>5

(* The two sums of the ledger after one row was written.                    *)
LEMMA SumsAfterWrite ==
    ASSUME TypeOK, TypeOK', NEW p \in PaymentId,
           payments' = [payments EXCEPT ![p] = payments'[p]]
    PROVE  /\ Awaiting' + Counted(payments[p], {"AWAITING_CONFIRMATION"})
                = Awaiting + Counted(payments'[p], {"AWAITING_CONFIRMATION"})
           /\ Confirmed' + Counted(payments[p], {"CONFIRMED"})
                = Confirmed + Counted(payments'[p], {"CONFIRMED"})
<1>1. payments \in [PaymentId -> PaymentRow] /\ payments' \in [PaymentId -> PaymentRow]
    BY DEF TypeOK
<1>2. ASSUME NEW states
      PROVE  Cardinality(UnitsIn(payments', states)) + Counted(payments[p], states)
               = Cardinality(UnitsIn(payments, states)) + Counted(payments'[p], states)
    BY <1>1, UnitsWrite
<1> QED BY <1>2 DEF Awaiting, Confirmed, Total

LEMMA LedgerSums ==
    /\ Awaiting \in Nat /\ Confirmed \in Nat
    /\ Recorded = Awaiting + Confirmed
<1> DEFINE A == UnitsIn(payments, {"AWAITING_CONFIRMATION"})
           C == UnitsIn(payments, {"CONFIRMED"})
           R == UnitsIn(payments, {"AWAITING_CONFIRMATION", "CONFIRMED"})
<1>1. R = A \cup C /\ A \cap C = {}
    BY DEF UnitsIn
<1>2. /\ IsFiniteSet(A) /\ Cardinality(A) \in Nat
      /\ IsFiniteSet(C) /\ Cardinality(C) \in Nat
    BY UnitsFinite
<1> HIDE DEF A, C, R
<1>3. Cardinality(R) = Cardinality(A) + Cardinality(C) - Cardinality(A \cap C)
    BY <1>1, <1>2, FS_Union
<1>4. Cardinality(A \cap C) = 0
    BY <1>1, FS_EmptySet
<1>5. Cardinality(R) = Cardinality(A) + Cardinality(C)
    BY <1>2, <1>3, <1>4
<1> QED BY <1>2, <1>5 DEF A, C, R, Awaiting, Confirmed, Recorded, Total

(* A closed order stays closed.                                             *)
LEMMA ClosedStays ==
    ASSUME TypeOK, [Next]_vars, order.status \in Closed
    PROVE  order'.status \in Closed
<1> USE DEF TypeOK, Order, Closed
<1>1. CASE UNCHANGED order
    BY <1>1
<1>2. CASE \/ Accept \/ Reject \/ Receive \/ Complete \/ Cancel
           \/ RequestCancel \/ WithdrawCancelRequest
           \/ ApproveCancelRequest \/ RejectCancelRequest \/ DefectWindowCloses
    BY <1>2 DEF IsA1Dispute, Transition, Accept, Reject, Receive, Complete, Cancel,
                RequestCancel, WithdrawCancelRequest, ApproveCancelRequest,
                RejectCancelRequest, DefectWindowCloses
<1>3. ASSUME NEW s \in Session, InFlight(s), order' # order
      PROVE  order'.status \in Closed
    BY <1>3, OnlyOrderSteps
       DEF ShipCommit, Transition, RaiseDefectCommit, WithdrawDefectCommit,
           LcMarkOpenedCommit, LcMarkAcceptedCommit, LcMarkPaidCommit
<1> QED BY <1>1, <1>2, <1>3, OrderStepCases

LEMMA LedgerInit == Init => Ledger!Init
<1> SUFFICES ASSUME Init PROVE Ledger!Init
    OBVIOUS
<1>1. /\ UnitsIn(payments, {"AWAITING_CONFIRMATION"}) = {}
      /\ UnitsIn(payments, {"CONFIRMED"}) = {}
    BY DEF Init, FreeRow, UnitsIn
<1>2. Total({"AWAITING_CONFIRMATION"}) = 0 /\ Confirmed = 0
    BY <1>1, FS_EmptySet DEF Confirmed, Total
<1> QED BY <1>2 DEF Ledger!Init

(* Steps that write no payment row close the order, or the ledger does not  *)
(* see them.                                                                *)
LEMMA LedgerOrderStep ==
    ASSUME TypeOK, [Next]_vars, UNCHANGED payments
    PROVE  [Ledger!Next]_(Ledger!vars)
<1>1. Total({"AWAITING_CONFIRMATION"})' = Total({"AWAITING_CONFIRMATION"}) /\ Confirmed' = Confirmed
    BY DEF Confirmed, Total
<1>2. CASE (order'.status \in Closed) = (order.status \in Closed)
    BY <1>1, <1>2 DEF Ledger!vars
<1>3. CASE (order'.status \in Closed) # (order.status \in Closed)
    <2>1. order.status \notin Closed /\ order'.status \in Closed
        BY <1>3, ClosedStays
    <2> QED BY <1>1, <2>1 DEF Ledger!Next, Ledger!Close
<1> QED BY <1>2, <1>3

(* The seller decides: the claim is confirmed or dismissed with its whole   *)
(* amount.  Growing old changes no sum.                                     *)
LEMMA LedgerDecisionStep ==
    ASSUME TypeOK, TypeOK', NEW p \in PaymentId, NEW decision \in {"CONFIRMED", "REJECTED"},
           PaymentDecision(p, decision) \/ PaymentAges(p)
    PROVE  [Ledger!Next]_(Ledger!vars)
<1> DEFINE n == payments[p].amount
<1>1. /\ payments[p] \in PaymentRow
      /\ payments' = [payments EXCEPT ![p] = payments'[p]]
      /\ order' = order
      /\ payments'[p].amount = n
    BY DEF TypeOK, PaymentDecision, PaymentAges, PaymentRow
<1>2. n \in 0..Amount
    BY <1>1 DEF PaymentRow
<1>3. /\ Awaiting \in Nat /\ Confirmed \in Nat
      /\ Awaiting' \in Nat /\ Confirmed' \in Nat
    BY LedgerSums, UnitsFinite DEF Awaiting, Confirmed, Total
<1>4. /\ Awaiting' + Counted(payments[p], {"AWAITING_CONFIRMATION"})
           = Awaiting + Counted(payments'[p], {"AWAITING_CONFIRMATION"})
      /\ Confirmed' + Counted(payments[p], {"CONFIRMED"})
           = Confirmed + Counted(payments'[p], {"CONFIRMED"})
    BY <1>1, SumsAfterWrite
<1>5. CASE PaymentAges(p)
    <2>1. payments'[p].status = payments[p].status
        BY <1>5, <1>1 DEF PaymentAges, TypeOK, PaymentRow
    <2>2. /\ Counted(payments'[p], {"AWAITING_CONFIRMATION"})
                = Counted(payments[p], {"AWAITING_CONFIRMATION"})
          /\ Counted(payments'[p], {"CONFIRMED"}) = Counted(payments[p], {"CONFIRMED"})
          /\ Counted(payments[p], {"AWAITING_CONFIRMATION"}) \in Int
          /\ Counted(payments[p], {"CONFIRMED"}) \in Int
        BY <1>1, <1>2, <2>1, AmountAssumption DEF Counted
    <2>3. Awaiting' = Awaiting /\ Confirmed' = Confirmed
        BY <1>3, <1>4, <2>2
    <2> QED BY <1>1, <2>3 DEF Ledger!vars, Awaiting
<1>6. CASE PaymentDecision(p, decision)
    <2>1. payments[p].status = "AWAITING_CONFIRMATION" /\ payments'[p].status = decision
        BY <1>6, <1>1 DEF PaymentDecision, TypeOK, PaymentRow
    <2>2. Awaiting' = Awaiting - n
        <3>1. /\ Counted(payments[p], {"AWAITING_CONFIRMATION"}) = n
              /\ Counted(payments'[p], {"AWAITING_CONFIRMATION"}) = 0
            BY <2>1 DEF Counted
        <3> QED BY <1>2, <1>3, <1>4, <3>1
    <2>3. Confirmed' = Confirmed + (IF decision = "CONFIRMED" THEN n ELSE 0)
        <3>1. /\ Counted(payments[p], {"CONFIRMED"}) = 0
              /\ Counted(payments'[p], {"CONFIRMED"}) = IF decision = "CONFIRMED" THEN n ELSE 0
            BY <1>1, <2>1 DEF Counted
        <3> QED BY <1>2, <1>3, <1>4, <3>1
    <2>4. CASE n = 0
        <3>1. (IF decision = "CONFIRMED" THEN n ELSE 0) = 0
            BY <2>4
        <3>2. Awaiting' = Awaiting /\ Confirmed' = Confirmed
            <4> HIDE DEF n
            <4>1. Awaiting' = Awaiting
                BY <1>3, <2>2, <2>4
            <4>2. Confirmed' = Confirmed
                BY <1>3, <2>3, <3>1
            <4> QED BY <4>1, <4>2
        <3> QED BY <1>1, <3>2 DEF Ledger!vars, Awaiting
    <2>5. CASE n # 0
        <3>1. n \in 1..Amount /\ n <= Awaiting /\ Awaiting' = Awaiting - n
            BY <1>2, <1>3, <2>2, <2>5, AmountAssumption
        <3>2. CASE decision = "CONFIRMED"
            <4>1. Confirmed' = Confirmed + n /\ order.status \notin Closed
                BY <1>6, <2>3, <3>2 DEF PaymentDecision
            <4>2. Ledger!Confirm(n)
                BY <1>1, <3>1, <4>1 DEF Ledger!Confirm, Awaiting
            <4> QED BY <3>1, <4>2 DEF Ledger!Next
        <3>3. CASE decision = "REJECTED"
            <4>1. Confirmed' = Confirmed
                BY <1>3, <2>3, <3>3
            <4>2. Ledger!Dismiss(n)
                BY <1>1, <3>1, <4>1 DEF Ledger!Dismiss, Awaiting
            <4> QED BY <3>1, <4>2 DEF Ledger!Next
        <3> QED BY <3>2, <3>3
    <2> QED BY <2>4, <2>5
<1> QED BY <1>5, <1>6

(* The bank pays what is missing, and only before the order is closed.      *)
LEMMA LedgerBankStep ==
    ASSUME MoneyInv, TypeOK', NEW s \in Session, LcMarkPaidCommit(s), payments' # payments
    PROVE  [Ledger!Next]_(Ledger!vars)
<1> DEFINE n == Amount - Confirmed
<1>1. PICK p \in PaymentId :
          /\ Amount > Confirmed
          /\ payments[p] = FreeRow
          /\ payments' = [payments EXCEPT ![p] =
                [status |-> "CONFIRMED", amount |-> n, form |-> "bank", fresh |-> TRUE]]
    BY DEF LcMarkPaidCommit
<1>2. payments'[p] = [status |-> "CONFIRMED", amount |-> n, form |-> "bank", fresh |-> TRUE]
    BY <1>1 DEF MoneyInv, TypeOK
<1>3. n \in 1..Amount
    BY <1>1, LedgerSums, AmountAssumption
<1>4. /\ Awaiting \in Nat /\ Confirmed \in Nat
      /\ Awaiting' \in Nat /\ Confirmed' \in Nat
    BY LedgerSums, UnitsFinite DEF Awaiting, Confirmed, Total
<1>5. /\ Awaiting' + Counted(payments[p], {"AWAITING_CONFIRMATION"})
           = Awaiting + Counted(payments'[p], {"AWAITING_CONFIRMATION"})
      /\ Confirmed' + Counted(payments[p], {"CONFIRMED"})
           = Confirmed + Counted(payments'[p], {"CONFIRMED"})
    <2>1. payments' = [payments EXCEPT ![p] = payments'[p]]
        BY <1>1, <1>2
    <2> QED BY <2>1, SumsAfterWrite DEF MoneyInv
<1>6. /\ Counted(payments[p], {"AWAITING_CONFIRMATION"}) = 0
      /\ Counted(payments'[p], {"AWAITING_CONFIRMATION"}) = 0
      /\ Counted(payments[p], {"CONFIRMED"}) = 0
      /\ Counted(payments'[p], {"CONFIRMED"}) = n
    BY <1>1, <1>2 DEF Counted, FreeRow
<1>7. Awaiting = 0
    <2>1. IsLetterOfCredit
        BY DEF MoneyInv, LetterOfCreditApart, LcMarkPaidCommit, LcOp
    <2>2. UnitsIn(payments, {"AWAITING_CONFIRMATION"}) = {}
        BY <2>1 DEF MoneyInv, LetterOfCreditApart, UnitsIn
    <2> QED BY <2>2, FS_EmptySet DEF Awaiting, Total
<1>8. Awaiting' = Awaiting /\ Confirmed' = Confirmed + n /\ Awaiting + Confirmed + n <= Amount
    BY <1>3, <1>4, <1>5, <1>6, <1>7, AmountAssumption
<1>9. /\ order.status \notin Closed
      /\ (order'.status \in Closed) = (order.status \in Closed)
    BY DEF LcMarkPaidCommit, Delivering, Closed, MoneyInv, TypeOK, Order
<1>10. Ledger!BankPays(n)
    BY <1>8, <1>9 DEF Ledger!BankPays, Awaiting
<1> QED BY <1>3, <1>10 DEF Ledger!Next

(* The buyer claims a payment, within what is left of the total.            *)
LEMMA LedgerClaimStep ==
    ASSUME TypeOK, TypeOK', NEW s \in Session, NEW n \in 1..Amount, NEW form \in Form,
           RecordPaymentCommit(s, n, form)
    PROVE  [Ledger!Next]_(Ledger!vars)
<1>1. PICK p \in PaymentId :
          /\ payments[p] = FreeRow
          /\ payments' = [payments EXCEPT ![p] =
                [status |-> "AWAITING_CONFIRMATION", amount |-> n, form |-> form, fresh |-> TRUE]]
    BY DEF RecordPaymentCommit, InsertPayment
<1>2. payments'[p] =
          [status |-> "AWAITING_CONFIRMATION", amount |-> n, form |-> form, fresh |-> TRUE]
    BY <1>1 DEF TypeOK
<1>3. /\ Awaiting \in Nat /\ Confirmed \in Nat
      /\ Awaiting' \in Nat /\ Confirmed' \in Nat
    BY LedgerSums, UnitsFinite DEF Awaiting, Confirmed, Total
<1>4. /\ Awaiting' + Counted(payments[p], {"AWAITING_CONFIRMATION"})
           = Awaiting + Counted(payments'[p], {"AWAITING_CONFIRMATION"})
      /\ Confirmed' + Counted(payments[p], {"CONFIRMED"})
           = Confirmed + Counted(payments'[p], {"CONFIRMED"})
    <2>1. payments' = [payments EXCEPT ![p] = payments'[p]]
        BY <1>1, <1>2
    <2> QED BY <2>1, SumsAfterWrite
<1>5. /\ Counted(payments[p], {"AWAITING_CONFIRMATION"}) = 0
      /\ Counted(payments'[p], {"AWAITING_CONFIRMATION"}) = n
      /\ Counted(payments[p], {"CONFIRMED"}) = 0
      /\ Counted(payments'[p], {"CONFIRMED"}) = 0
    BY <1>1, <1>2 DEF Counted, FreeRow
<1>6. Awaiting' = Awaiting + n /\ Confirmed' = Confirmed /\ Awaiting + Confirmed + n <= Amount
    <2>1. Recorded + n <= Amount
        BY DEF RecordPaymentCommit
    <2> QED BY <2>1, <1>3, <1>4, <1>5, LedgerSums
<1>7. order' = order
    BY DEF RecordPaymentCommit, InsertPayment
<1>8. Ledger!Record(n)
    BY <1>6, <1>7 DEF Ledger!Record, Awaiting
<1> QED BY <1>8 DEF Ledger!Next

LEMMA LedgerStep == MoneyInv /\ TypeOK' /\ [Next]_vars => [Ledger!Next]_(Ledger!vars)
<1> SUFFICES ASSUME MoneyInv, TypeOK', [Next]_vars PROVE [Ledger!Next]_(Ledger!vars)
    OBVIOUS
<1>1. TypeOK
    BY DEF MoneyInv
<1>2. CASE UNCHANGED payments
    BY <1>1, <1>2, LedgerOrderStep
<1>3. CASE payments' # payments
    BY <1>1, <1>3, OnlyPaymentSteps, LedgerDecisionStep, LedgerBankStep, LedgerClaimStep
<1> QED BY <1>2, <1>3

(* Seen through its sums, an order does only what the ledger promises:      *)
(* claims fit into the total, a decision moves the whole claim, confirmed   *)
(* money stays, and nothing is confirmed on a closed order.                 *)
THEOREM OrdersImplementLedger == Spec => ImplementsLedger
<1>1. Init => MoneyInv /\ TypeOK
    BY TypeInit, MoneyInit DEF MoneyInv
<1>2. MoneyInv /\ TypeOK /\ [Next]_vars => (MoneyInv /\ TypeOK)'
    BY TypeStep, ApartStep, CapStep DEF MoneyInv
<1> QED BY <1>1, <1>2, LedgerInit, LedgerStep, PTL DEF Spec, ImplementsLedger, Ledger!Spec
=============================================================================
