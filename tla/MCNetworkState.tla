--------------------------- MODULE MCNetworkState ---------------------------
(* Instances of NetworkState for TLC. *)
EXTENDS NetworkState, TLC

CONSTANTS d1, d2

OneCounter == {"nwk"}
BothCounters == {"nwk", "aps"}
OneDevice == {d1}
TwoDevices == {d1, d2}
Either == Permutations(TwoDevices)
=============================================================================
