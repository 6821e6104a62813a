--------------------------- MODULE MCActionLedger ---------------------------
(* TLC instance of ActionLedger: one protected operation, two threads that *)
(* execute it and one that reconciles.                                     *)
EXTENDS ActionLedger

CONSTANTS o1, x1, x2, r1

MCOp == {o1}
MCExecutor == {x1, x2}
MCReconciler == {r1}
=============================================================================
