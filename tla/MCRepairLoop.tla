---------------------------- MODULE MCRepairLoop ----------------------------
(* Instance of RepairLoop for TLC: two ticks on a run of one attempt, which *)
(* may be claimed again once.                                               *)
EXTENDS RepairLoop
CONSTANTS w1, w2
=============================================================================
