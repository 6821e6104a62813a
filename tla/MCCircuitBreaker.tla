-------------------------- MODULE MCCircuitBreaker --------------------------
(* TLC instance of CircuitBreaker.                                         *)
EXTENDS CircuitBreaker

CONSTANTS r1, r2, o1, t1, t2, t3

MCReader == {r1, r2}
MCToken == {t1, t2, t3}
=============================================================================
