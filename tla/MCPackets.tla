----------------------------- MODULE MCPackets ------------------------------
(* Two packets at a time and one place, two devices over two addresses, two relays. *)
EXTENDS Packets, TLC

CONSTANTS d1, d2, n1, n2, r1, r2, g1, all, p1, p2

BothNodes == {d1, d2}
Either == {n1, n2}
BothRouters == {r1, r2}
AGroup == {g1}
Two == {p1, p2}

\* All is asked of both devices, and of both addresses.
Alike == Permutations(BothNodes) \cup Permutations(Either) \cup Permutations(Two)
DirectOrNot == {<<>>, <<r1, r2>>}

\* The packets to network addresses are answers, encrypted or not, also to one that no
\* device has any more.
Asked == {[addr |-> [mode |-> "ieee", to |-> d], encrypted |-> FALSE] : d \in BothNodes}
    \cup {[addr |-> [mode |-> "group", to |-> g1], encrypted |-> FALSE]}
=============================================================================
