------------------------------ MODULE MCStock ------------------------------
(* Instances of Stock for TLC. *)
EXTENDS Stock, TLC

CONSTANTS u1, u2, b1, b2, t1, s1, p, q, x, y

\* Everything meets at b1: a transfer to b2, a stocktake, orders, a sale and a waste
\* written off in the office.
MCFrom == t1 :> b1
MCTo == t1 :> b2
MCInScope == s1 :> {b1}
MCInto == [o \in Orders |-> b1]
MCOrdered == [o \in Orders |-> 2]
MCOutOf == [o \in Outs |-> b1]
MCOpening == (b1 :> 2) @@ (b2 :> 0)

Empty == [b \in Bins |-> 0]

Symmetry == Permutations(Users)
=============================================================================
