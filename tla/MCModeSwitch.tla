---------------------------- MODULE MCModeSwitch ----------------------------
(* One administrator, two Red Pitaya apps, and direct starts of four of the  *)
(* units; the two commands may overlap with faults and with those starts.    *)
EXTENDS ModeSwitch, FiniteSets

ASSUME SmallInstance == Cardinality(Units) <= 5
=============================================================================
