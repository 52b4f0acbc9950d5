-------------------------------- MODULE Link --------------------------------
(***************************************************************************)
(* What Api takes for granted of the transport under it, whatever its      *)
(* medium: frames come in only while the link is there, and its loss is    *)
(* told once and is the last thing that is told.                           *)
(***************************************************************************)
EXTENDS Naturals

CONSTANT Links    \* the links: one for each ZigguratApi

VARIABLES
  opened,  \* the links that are there, or were
  frames,  \* how many frames were passed to on_frame
  losses   \* how often on_lost was called

Init ==
  /\ opened = {}
  /\ frames = [l \in Links |-> 0] /\ losses = [l \in Links |-> 0]

There(l) == l \in opened /\ losses[l] = 0

Open(l) == opened' = opened \cup {l} /\ UNCHANGED <<frames, losses>>

Frame(l) == There(l) /\ frames' = [frames EXCEPT ![l] = @ + 1] /\ UNCHANGED <<opened, losses>>

Lose(l) == There(l) /\ losses' = [losses EXCEPT ![l] = 1] /\ UNCHANGED <<opened, frames>>

Next == \E l \in Links : Open(l) \/ Frame(l) \/ Lose(l)

Spec == Init /\ [][Next]_<<opened, frames, losses>>
=============================================================================
