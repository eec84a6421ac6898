------------------------------- MODULE Deques -------------------------------
(***************************************************************************)
(* The two VecDeque operations of the core that SelectSeq would express,   *)
(* written without recursion so that facts about them can be proved.       *)
(***************************************************************************)
EXTENDS Integers, Sequences, FiniteSets

\* The positions of q that hold an element of S.
Positions(q, S) == {i \in DOMAIN q : q[i] \in S}

\* How many elements of the set of positions P are at or before position i.
Rank(P, i) == Cardinality({j \in P : j <= i})

\* VecDeque::retain: the elements of q that are in S, in their order in q.
Retain(q, S) ==
  LET P == Positions(q, S)
      Nth(n) == CHOOSE i \in P : Rank(P, i) = n
  IN  [n \in 1..Cardinality(P) |-> q[Nth(n)]]

\* The elements of q, as a set.
Elements(q) == {q[i] : i \in DOMAIN q}

=============================================================================
