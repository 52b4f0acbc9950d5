------------------------------ MODULE MCJoins -------------------------------
(* Two devices and two addresses, which they may take over from each other. *)
EXTENDS Joins
CONSTANTS d1, d2, n1, n2

Both == {d1, d2}
Either == {n1, n2}
=============================================================================
