----------------------------- MODULE MCApprovals -----------------------------
(* Three members: u1 asks for awards, u2 approves, u3 can stand in.  The     *)
(* flow of two steps names u1 for the second, which the cron has to notice. *)
EXTENDS Approvals, TLC

CONSTANTS u1, u2, u3, s1, s2

MCUser     == {u1, u2, u3}
MCBuyer    == {u1}
MCApprover == {u1, u2, u3}
MCSession  == {s1, s2}
TwoSteps   == {<<u2, u1>>}
OneStep    == {<<u2>>}
=============================================================================
