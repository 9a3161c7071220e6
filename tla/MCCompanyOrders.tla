-------------------------- MODULE MCCompanyOrders --------------------------
(* Instances of CompanyOrders for TLC.  Total 3 with an advance of 50% makes *)
(* the rounding matter (1.5 is asked for as 2).                             *)
EXTENDS CompanyOrders, TLC

CONSTANTS s1, s2, p1, p2, f1

MCSession   == {s1, s2}
MCPaymentId == {p1, p2}
MCForm      == {f1}

PlanOf(c, pct) == [category |-> c, advancePercent |-> pct]

AdvancePlans  == {PlanOf("ADVANCE", 50), PlanOf("ADVANCE", Null)}
BankPlans     == {PlanOf("LETTER_OF_CREDIT", Null), PlanOf("CASH_AGAINST_DOCS", Null)}
DeferredPlans == {PlanOf("DEFERRED", Null)}
MCPlans       == AdvancePlans \cup BankPlans \cup DeferredPlans

AnyOrder    == {"PENDING", "CREATED", "DELIVERED"}

Symmetry == Permutations(MCSession) \cup Permutations(MCPaymentId)
=============================================================================
