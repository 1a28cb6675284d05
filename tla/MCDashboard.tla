---------------------------- MODULE MCDashboard ----------------------------
(* Instances of Dashboard for TLC: two sessions, of one workspace each.    *)
EXTENDS Dashboard, TLC

Spaces2 == [s \in Session |-> IF s = 1 THEN "w1" ELSE "w2"]
=============================================================================
