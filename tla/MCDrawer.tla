------------------------------ MODULE MCDrawer ------------------------------
(* Instances of Drawer for TLC. *)
EXTENDS Drawer, TLC

CONSTANTS w1, w2, t1, t2, s1, s2, m1, m2, m3, r1, r2

\* s1 is rung on t1 by card.
EachItsTill == [s \in Sales |-> IF s = s1 THEN t1 ELSE t2]
AllCard    == [s \in Sales |-> "card"]
TwoUnits   == [s \in Sales |-> 2]

\* A pay-out and two corrections of it, all on t1.
MoveOnT1  == [x \in Moves |-> t1]
UndoesM1  == [x \in Moves |-> IF x = m1 THEN NoMove ELSE m1]

\* Refunds of s1: r1 all of it in cash from t1, r2 one unit by card from t2.
RefundsFrom == [r \in Refunds |-> IF r = r1 THEN t1 ELSE t2]
RefundsOfS1 == [r \in Refunds |-> s1]
RefundsIn   == [r \in Refunds |-> IF r = r1 THEN "cash" ELSE "card"]
RefundsPay  == [r \in Refunds |-> IF r = r1 THEN 2 ELSE 1]

Symmetry == Permutations({w1, w2})
=============================================================================
