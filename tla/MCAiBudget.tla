----------------------------- MODULE MCAiBudget -----------------------------
(* Instances of AiBudget for TLC.                                           *)
EXTENDS AiBudget, TLC

CONSTANTS c1, c2, u1, u2

(* Two days of one month and the first of the next.                         *)
Calendar == <<1, 1, 2>>
Packages == {"SILVER", "GOLD"}
Shares == [SILVER |-> [pool |-> 2, request |-> 1, user |-> 2, day |-> 1, premium |-> 1],
           GOLD |-> [pool |-> 3, request |-> 2, user |-> 2, day |-> 2, premium |-> 2]]
Prices == [default |-> 1, premium |-> 2]

(* Calls and members are interchangeable.                                   *)
BudgetSymmetry == Permutations(Call) \cup Permutations(User)
============================================================================
