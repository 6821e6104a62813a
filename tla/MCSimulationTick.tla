-------------------------- MODULE MCSimulationTick --------------------------
(* TLC instance of SimulationTick: a plan of two steps, the second one     *)
(* protected, ticked by the workflow's worker w1 and from the command line *)
(* by x1.                                                                  *)
EXTENDS SimulationTick

CONSTANTS o1, o2, w1, x1

MCOp == {o1, o2}
MCProtected == {o2}
MCPlan == <<o1, o2>>
MCWorker == {w1}
MCExecutor == {w1, x1}
=============================================================================
