---- MODULE MCSessionAdmission ----
EXTENDS SessionAdmission, TLC

\* Nothing depends on which connection, principal or key it is.
Symmetry == Permutations(Connections) \cup Permutations(Principals) \cup Permutations(Keys)
====
