--------------------------- MODULE MCInvestigation ---------------------------
(* Instance of Investigation for TLC: three queries, so that a third round  *)
(* may have something new to ask, and two documents of one size, both of    *)
(* which the task's goal may find.                                          *)
EXTENDS Investigation, FiniteSets

CONSTANTS w1, w2, d1, d2

MCQuery == {"goal", "next", "third"}
MCNormal == [q \in Query |-> q]
MCAbout == [q \in Query |-> CASE q = "goal" -> {d1, d2} [] q = "third" -> {d1} [] OTHER -> {d2}]
MCMaximum == [b \in SUBSET {d1, d2} |-> Cardinality(b)]
MCSource == {{d1}}
=============================================================================
