--------------------------- MODULE PaymentLedger ---------------------------
(***************************************************************************)
(* What the payments of an order promise, without rows, requests or plans: *)
(* two sums and whether the order is closed.  The buyer's claims wait for  *)
(* the seller; what is claimed and what is confirmed fit into the total;   *)
(* confirmed money never goes away, and a closed order confirms nothing.   *)
(***************************************************************************)
EXTENDS Naturals

CONSTANT Amount

VARIABLES awaiting, confirmed, closed

vars == <<awaiting, confirmed, closed>>

Init == awaiting = 0 /\ confirmed = 0 /\ closed \in BOOLEAN

(* The buyer claims to have paid n; the order may have been closed since.   *)
Record(n) ==
    /\ awaiting + confirmed + n <= Amount
    /\ awaiting' = awaiting + n
    /\ UNCHANGED <<confirmed, closed>>

(* The seller decides about one claim.                                      *)
Confirm(n) ==
    /\ ~closed
    /\ n <= awaiting
    /\ awaiting' = awaiting - n
    /\ confirmed' = confirmed + n
    /\ UNCHANGED closed

Dismiss(n) ==
    /\ n <= awaiting
    /\ awaiting' = awaiting - n
    /\ UNCHANGED <<confirmed, closed>>

(* The bank pays what is missing, past the buyer's claims.                  *)
BankPays(n) ==
    /\ ~closed
    /\ awaiting + confirmed + n <= Amount
    /\ confirmed' = confirmed + n
    /\ UNCHANGED <<awaiting, closed>>

Close ==
    /\ ~closed
    /\ closed' = TRUE
    /\ UNCHANGED <<awaiting, confirmed>>

Next ==
    \/ \E n \in 1..Amount : Record(n) \/ Confirm(n) \/ Dismiss(n) \/ BankPays(n)
    \/ Close

Spec == Init /\ [][Next]_vars
=============================================================================
