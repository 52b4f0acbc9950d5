------------------------------ MODULE MCRadio -------------------------------
(* Two calls of any of the methods, over two sessions. *)
EXTENDS Radio, TLC

CONSTANTS t1, t2, c1, c2

Both == {t1, t2}
TwoChannels == {c1, c2}
Alike == Permutations(Both) \cup Permutations(TwoChannels)
=============================================================================
