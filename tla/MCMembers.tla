----------------------------- MODULE MCMembers -----------------------------
(* Instances of Members for TLC.                                            *)
EXTENDS Members, TLC

CONSTANTS f, a, b, i1, s1, s2, s3

Users == {f, a, b}
Limits == [STANDART |-> 1, GOLD |-> 3]

Colleague == a :> {"users", "sell"}
Colleagues == Colleague @@ b :> {"buy"}

SomeRoles == {[label |-> "SAHIP", seats |-> {}], [label |-> "-", seats |-> {"sell"}]}
SomePermissions == {{"users", "sell"}, {"buy"}}
OnlyBuying == {{"buy"}}

TeamOperations == {"roles", "permissions", "deactivate", "activate", "remove",
                   "adminDeactivate", "delete", "suspend", "unsuspend"}
SeatOperations == {"permissions", "ownerBuySeat", "accept", "resend", "invite", "select",
                   "add", "tier", "delete"}

AllOperations == TeamOperations \cup SeatOperations

(* Sessions are interchangeable.                                            *)
SessionSymmetry == Permutations(Session)
============================================================================
