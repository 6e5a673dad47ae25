------------------------------ MODULE MCFloor ------------------------------
(* Instances of Floor for TLC. *)
EXTENDS Floor, TLC

CONSTANTS w1, w2, t1, t2, b1, b2, p1, x1

\* A party asks for one table.
WishesT2 == [i \in Wishes |-> {t2}]

Symmetry == Permutations({w1, w2}) \cup Permutations({b1, b2})
=============================================================================
