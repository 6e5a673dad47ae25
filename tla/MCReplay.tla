------------------------------ MODULE MCReplay ------------------------------
(* Instances of Replay for TLC. *)
EXTENDS Replay

CONSTANTS a, b, o1, o2, o3, o4, c1, c2

\* Till a opens with o1 and sells with o2; till b, an old one, holds a copy of o2,
\* seats a party with o4 where o1 may be, and has an operation that o2 bars.
MCQueue == (a :> <<o1, o2>>) @@ (b :> <<o2, o4, o3>>)

MCNeeds == [o \in Ops |-> IF o = o2 THEN {o1} ELSE {}]

MCBars == [o \in Ops |-> CASE o = o3 -> {o2} [] o = o4 -> {o1} [] OTHER -> {}]
=============================================================================
