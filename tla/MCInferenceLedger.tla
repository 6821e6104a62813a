-------------------------- MODULE MCInferenceLedger --------------------------
(* TLC instance of InferenceLedger: two calls of one task, requests of     *)
(* equal and of different size, and a provider that may charge less or     *)
(* more than the maximum.                                                  *)
EXTENDS InferenceLedger, TLC

CONSTANTS t1, c1, c2, q1, q2, q3, d1, w1, w2

MCTask == {t1}
MCCall == {c1, c2}
MCTaskOf == [c \in MCCall |-> t1]
MCRequest == {q1, q2, q3}
MCMaximum == [q \in MCRequest |-> IF q = q3 THEN 1 ELSE 2]
MCDecision == {d1}
MCThread == {w1, w2}
Symmetry == Permutations(MCThread) \cup Permutations(MCCall) \cup Permutations({q1, q2})
=============================================================================
