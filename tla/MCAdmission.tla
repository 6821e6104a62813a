---------------------------- MODULE MCAdmission ----------------------------
(* TLC instance of Admission: of two tasks, the workflow of one polls in   *)
(* time and that of the other need not.                                    *)
EXTENDS Admission, TLC

CONSTANTS k1, k2, k3, w1, w2

MCTask == {k1, k2}
MCThreeTask == {k1, k2, k3}
MCPunctual == {k1}
MCWorker == {w1, w2}
Symmetry == Permutations(MCWorker) \cup Permutations(MCThreeTask)
=============================================================================
