----------------------------- MODULE MCFastPath -----------------------------
(* Instances of FastPath for TLC. *)
EXTENDS FastPath, TLC

CONSTANTS i1, i2, feed, grants, o1, o2, r1, r2, w1, w2

\* One organisation's feed and another's grants.
TwoOrgs == [f \in Facts |-> IF f = feed THEN o1 ELSE o2]

Symmetry == Permutations({i1, i2}) \cup Permutations({r1, r2}) \cup Permutations({w1, w2})
=============================================================================
