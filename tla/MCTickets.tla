----------------------------- MODULE MCTickets -----------------------------
(* Instances of Tickets for TLC. *)
EXTENDS Tickets, TLC

CONSTANTS w1, w2, b1, r1, r2, l1, l2, c1

\* r1 opens b1 with l1, r2 adds l2.
OnB1    == [r \in Rounds |-> b1]
LinesOf == [l \in Lines |-> IF l = l1 THEN r1 ELSE r2]

Symmetry == Permutations({w1, w2})
=============================================================================
