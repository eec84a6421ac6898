---- MODULE MCOutbound ----
EXTENDS OutboundQueue, TLC
Symmetry == Permutations(Scopes) \cup Permutations(CoalesceKeys)
====
