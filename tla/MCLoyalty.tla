----------------------------- MODULE MCLoyalty -----------------------------
(* Instances of Loyalty for TLC. *)
EXTENDS Loyalty, TLC

CONSTANTS o1, o2, p, v, w, k

\* A sale that earns, and one with a reward on one unit of two.
MCWorth == (o1 :> 2) @@ (o2 :> 1)
MCCost == (o1 :> 0) @@ (o2 :> 2)
MCUnits == (o1 :> 1) @@ (o2 :> 1)
MCQuantity == (o1 :> 1) @@ (o2 :> 2)
MCTotal == (o1 :> 1) @@ (o2 :> 2)

\* Two tries at the counter under one key; the second may be a correction by hand instead.
MCActs == (v :> {"earn", "redeem"}) @@ (w :> {"redeem", "adjust"})
MCKey == [x \in Visits |-> k]
MCCorrection == -1
=============================================================================
