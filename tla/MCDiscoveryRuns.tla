-------------------------- MODULE MCDiscoveryRuns --------------------------
(* Instances of DiscoveryRuns for TLC.                                      *)
EXTENDS DiscoveryRuns

CONSTANTS c1, w1, request, cron

OneCompany == {c1}
OneWorker == {w1}
TwoCallers == {request, cron}
=============================================================================
