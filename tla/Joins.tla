------------------------------- MODULE Joins --------------------------------
(***************************************************************************)
(* Devices that join, announce themselves and leave, as the host hears of  *)
(* it: _handle_device_joined and the DeviceJoined and DeviceLeft           *)
(* notifications of ControllerApplication (zigbee/application.py), with    *)
(* the timer that gives a new device time to announce itself.              *)
(*                                                                         *)
(* A notification is handled in the step in which its cause happens.  The  *)
(* registry of devices, handle_join and handle_leave are zigpy's.          *)
(***************************************************************************)
EXTENDS Naturals, Sequences

CONSTANTS
  Nodes,      \* the devices, by their EUI64
  Addresses,  \* network addresses
  MaxJoins,   \* bound: how often a device joins
  None        \* no address: not on the network, or not in the registry

ASSUME MaxJoinsAssumption == MaxJoins \in Nat
ASSUME NoAddressAssumption == None \notin Addresses

VARIABLES
  addr,       \* the address each device has on the network
  known,      \* the address it has in the registry
  timers,     \* the call_later callbacks, in the order they are due
  (* Observation: what happened, never read by the code *)
  joins,      \* how often each device joined
  announced,  \* the devices that announced themselves since they last joined
  again,      \* those not known that joined anew, or were removed, while a timer of theirs ran
  removed,    \* those that zigpy removed and that did not join or announce themselves since
  calls,      \* how often handle_join was called for each
  told,       \* how often zigpy was told that each left
  named       \* the last DeviceLeft held an EUI64

vars == <<addr, known, timers, joins, announced, again, removed, calls, told, named>>

Timer == Nodes \X Addresses

TypeOK ==
  /\ addr \in [Nodes -> Addresses \cup {None}]
  /\ known \in [Nodes -> Addresses \cup {None}]
  /\ timers \in Seq(Timer)
  /\ joins \in [Nodes -> 0 .. MaxJoins]
  /\ {announced, again, removed} \subseteq SUBSET Nodes
  /\ calls \in [Nodes -> Nat] /\ told \in [Nodes -> Nat]
  /\ named \in BOOLEAN

-----------------------------------------------------------------------------
(* The host *)

\* handle_join: the device is in the registry, with this address.
HandleJoin(d, n) ==
  /\ known' = [known EXCEPT ![d] = n]
  /\ calls' = [calls EXCEPT ![d] = @ + 1]

\* Mutant: an unknown device is left to announce itself.
HandleDeviceJoinedLazily(d, n) ==
  IF known[d] # None THEN HandleJoin(d, n) /\ UNCHANGED timers
                     ELSE UNCHANGED <<known, calls, timers>>

\* Mutant: a device that rejoins is known already.
HandleDeviceJoinedOnce(d, n) ==
  IF known[d] # None THEN UNCHANGED <<known, calls, timers>>
                     ELSE timers' = Append(timers, <<d, n>>) /\ UNCHANGED <<known, calls>>

\* Mutant: the callback gets its arguments the other way round.
HandleDeviceJoinedSwapped(d, n) ==
  IF known[d] # None THEN HandleJoin(d, n) /\ UNCHANGED timers
                     ELSE timers' = Append(timers, <<n, d>>) /\ UNCHANGED <<known, calls>>

\* _handle_device_joined: a device that rejoins is told of at once, a new one later.
HandleDeviceJoined(d, n) ==
  IF known[d] # None THEN HandleJoin(d, n) /\ UNCHANGED timers
                     ELSE timers' = Append(timers, <<d, n>>) /\ UNCHANGED <<known, calls>>

\* Mutant: the callback does not look whether the device has announced itself.
JoinAnyway(d, n) == HandleJoin(d, n)

\* join_if_still_unannounced
JoinIfStillUnannounced(d, n) ==
  IF known[d] = None THEN HandleJoin(d, n) ELSE UNCHANGED <<known, calls>>

\* Mutant: the address prevails over the EUI64.
LeaversByAddress(d, n, ieee) == {x \in Nodes : known[x] = n}

\* Those whom a DeviceLeft may be about: the device of its EUI64, if known, else a
\* device that is known by its address.
Leavers(d, n, ieee) ==
  IF ieee THEN {d} \ {x \in Nodes : known[x] = None}
          ELSE {x \in Nodes : known[x] = n}

-----------------------------------------------------------------------------
(* The network *)

Free(d, n) == \A x \in Nodes \ {d} : addr[x] # n

Pending(d) == \E i \in DOMAIN timers : timers[i][1] = d

\* A device joins, maybe anew, at an address that is free.
DeviceJoins(d, n) ==
  /\ joins[d] < MaxJoins
  /\ Free(d, n)
  /\ addr' = [addr EXCEPT ![d] = n]
  /\ joins' = [joins EXCEPT ![d] = @ + 1]
  /\ announced' = announced \ {d}
  /\ again' = IF Pending(d) /\ known[d] = None THEN again \cup {d} ELSE again \ {d}
  /\ removed' = removed \ {d}
  /\ HandleDeviceJoined(d, n)
  /\ UNCHANGED <<told, named>>

\* It announces itself: zigpy finds the announcement among the packets received.
Announces(d) ==
  /\ addr[d] # None
  /\ known' = [known EXCEPT ![d] = addr[d]]
  /\ announced' = announced \cup {d}
  /\ again' = again \ {d} /\ removed' = removed \ {d}
  /\ UNCHANGED <<addr, timers, joins, calls, told, named>>

\* It leaves, with its EUI64 in the notification or without.
DeviceLeaves(d, ieee) ==
  /\ addr[d] # None
  /\ addr' = [addr EXCEPT ![d] = None]
  /\ announced' = announced \ {d}
  /\ named' = ieee
  /\ LET who == Leavers(d, addr[d], ieee) IN
     IF who = {} THEN UNCHANGED told
                 ELSE \E x \in who : told' = [told EXCEPT ![x] = @ + 1]
  /\ UNCHANGED <<known, timers, joins, again, removed, calls>>

\* It is gone and nobody notices.
DeviceVanishes(d) ==
  /\ addr[d] # None
  /\ addr' = [addr EXCEPT ![d] = None]
  /\ announced' = announced \ {d}
  /\ UNCHANGED <<known, timers, joins, again, removed, calls, told, named>>

\* The timer that is due first, DEVICE_JOIN_MAX_DELAY after it was set
TimerFires ==
  /\ timers # <<>>
  /\ timers' = Tail(timers)
  /\ JoinIfStillUnannounced(Head(timers)[1], Head(timers)[2])
  /\ UNCHANGED <<addr, joins, announced, again, removed, told, named>>

\* zigpy removes it from the registry, with its interview; it may be on the network still.
Removed(d) ==
  /\ known[d] # None
  /\ known' = [known EXCEPT ![d] = None]
  /\ announced' = announced \ {d} /\ removed' = removed \cup {d}
  /\ again' = IF Pending(d) THEN again \cup {d} ELSE again
  /\ UNCHANGED <<addr, timers, joins, calls, told, named>>

-----------------------------------------------------------------------------

Init ==
  /\ addr = [d \in Nodes |-> None] /\ known = [d \in Nodes |-> None]
  /\ timers = <<>>
  /\ joins = [d \in Nodes |-> 0]
  /\ announced = {} /\ again = {} /\ removed = {}
  /\ calls = [d \in Nodes |-> 0] /\ told = [d \in Nodes |-> 0]
  /\ named = FALSE

Next ==
  \/ \E d \in Nodes :
       \/ \E n \in Addresses : DeviceJoins(d, n)
       \/ Announces(d)
       \/ \E ieee \in BOOLEAN : DeviceLeaves(d, ieee)
       \/ DeviceVanishes(d)
       \/ Removed(d)
  \/ TimerFires

Spec == Init /\ [][Next]_vars

\* A timer that is due fires.  Nothing is assumed of the devices.
FairSpec == Spec /\ WF_vars(TimerFires)

-----------------------------------------------------------------------------
(* Properties *)

\* A device that is known is known where it is, unless it joined again or was removed
\* before its first timer was due.
\* (_handle_device_joined 683-706.)
AddressCurrent ==
  \A d \in Nodes :
    addr[d] # None /\ known[d] # None /\ d \notin again => known[d] = addr[d]

\* application.py:695-697 "the announcement creates the device through
\* `packet_received` and a later `handle_join` would cancel and restart the
\* interview": no handle_join follows an announcement before the next join.
InterviewUndisturbed ==
  [][\A d \in announced \cap announced' : calls'[d] = calls[d]]_vars

\* Whoever zigpy is told has left is not on the network any more, though addresses pass
\* from one device to another and those who vanish keep their records: a device that is
\* there is only blamed for another's leave if the notification holds no EUI64 and the
\* device joined again, or was removed, before its first timer was due.  With an EUI64 it
\* is the device that left.  (on_notification 738-752, with 683-706.)
LeaverIsRight ==
  [][\A x \in Nodes :
       told'[x] # told[x] => /\ addr'[x] = None \/ (~named' /\ x \in again)
                             /\ named' => addr[x] # None]_vars

\* A device that stays on the network becomes known, though it never announces itself,
\* and again though zigpy removed it before it joined.  (call_later 704-706.)
JoinedIsKnown ==
  \A d \in Nodes :
    addr[d] # None /\ d \notin removed ~> known[d] # None \/ d \in removed
=============================================================================
