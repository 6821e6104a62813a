----------------------------- MODULE MCTaskIntake -----------------------------
(* TLC instance of TaskIntake: the dispatcher serves one of two releases.   *)
EXTENDS TaskIntake

CONSTANTS k1, k2, b1, b2, c1, c2, d1

MCKey == {k1, k2}
MCBody == {b1, b2}
MCClient == {c1, c2}
MCDispatcher == {d1}
MCServes == [d \in MCDispatcher |-> "new"]
=============================================================================
