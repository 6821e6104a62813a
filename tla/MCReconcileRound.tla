--------------------------- MODULE MCReconcileRound ---------------------------
(* TLC instance of ReconcileRound.                                          *)
EXTENDS ReconcileRound

CONSTANTS n1, n2, d1

MCNotice == {n1, n2}
MCDispatcher == {d1}
=============================================================================
