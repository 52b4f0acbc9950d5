---------------------------- MODULE JoinsProofs -----------------------------
(***************************************************************************)
(* What holds of Joins for any devices and addresses, and any number of    *)
(* joins and timers.                                                       *)
(***************************************************************************)
EXTENDS Joins, TLAPS

\* An address on the network belongs to one device.
Apart ==
  \A d, x \in Nodes : d # x /\ addr[d] # None => addr[x] # addr[d]

\* A device that announced itself is known.
AnnouncedKnown == \A d \in announced : known[d] # None

\* The timers of a device still to become known all hold its present address, unless it
\* joined again, or was removed, while the first ran.
TimersCurrent ==
  \A d \in Nodes :
    addr[d] # None /\ known[d] = None /\ d \notin again =>
      \A i \in 1 .. Len(timers) : timers[i][1] = d => timers[i][2] = addr[d]

\* AddressCurrent needs TimersCurrent: the timer that makes a device known has its address.
Inv == TypeOK /\ Apart /\ AnnouncedKnown /\ TimersCurrent /\ AddressCurrent

-----------------------------------------------------------------------------
(* The operators *)

\* A timer that is set is the last.
LEMMA TimerSet ==
  ASSUME NEW s \in Seq(Timer), NEW e \in Timer
  PROVE  /\ Append(s, e) \in Seq(Timer) /\ Len(Append(s, e)) = Len(s) + 1
         /\ \A i \in 1 .. Len(s) : Append(s, e)[i] = s[i]
         /\ Append(s, e)[Len(s) + 1] = e
OBVIOUS

\* The first is due first; the others stay in their order.
LEMMA TimerDue ==
  ASSUME NEW s \in Seq(Timer), s # <<>>
  PROVE  /\ Tail(s) \in Seq(Timer) /\ Len(Tail(s)) = Len(s) - 1 /\ Len(s) \in Nat \ {0}
         /\ \A i \in 1 .. Len(Tail(s)) : Tail(s)[i] = s[i + 1]
         /\ Head(s) \in Timer /\ Head(s) = s[1]
OBVIOUS

\* handle_join changes the address of one device.
LEMMA HandleJoinType ==
  ASSUME TypeOK, NEW d \in Nodes, NEW n \in Addresses, HandleJoin(d, n)
  PROVE  /\ known' \in [Nodes -> Addresses \cup {None}] /\ calls' \in [Nodes -> Nat]
         /\ known'[d] = n /\ \A x \in Nodes \ {d} : known'[x] = known[x]
         /\ \A x \in Nodes \ {d} : calls'[x] = calls[x]
BY DEF TypeOK, HandleJoin

-----------------------------------------------------------------------------
(* The steps *)

LEMMA DeviceJoinsKeeps ==
  ASSUME Inv, NEW d \in Nodes, NEW n \in Addresses, DeviceJoins(d, n)
  PROVE  Inv'
<1> USE DEF Inv
<1>1. /\ addr' = [addr EXCEPT ![d] = n] /\ Free(d, n)
      /\ joins[d] < MaxJoins /\ joins' = [joins EXCEPT ![d] = @ + 1]
      /\ announced' = announced \ {d} /\ removed' = removed \ {d} /\ UNCHANGED <<told, named>>
      /\ again' = IF Pending(d) /\ known[d] = None THEN again \cup {d} ELSE again \ {d}
  BY DEF DeviceJoins
<1>2. n # None
  BY NoAddressAssumption
<1>3. Apart'
  BY <1>1, <1>2 DEF Apart, Free, TypeOK
<1>4. CASE known[d] # None
  <2>1. HandleJoin(d, n) /\ UNCHANGED timers
    BY <1>4 DEF DeviceJoins, HandleDeviceJoined
  <2>2. /\ known' \in [Nodes -> Addresses \cup {None}] /\ calls' \in [Nodes -> Nat]
        /\ known'[d] = n /\ \A x \in Nodes \ {d} : known'[x] = known[x]
    BY <2>1, HandleJoinType
  <2>3. TypeOK'
    <3>1. joins' \in [Nodes -> 0 .. MaxJoins]
      BY <1>1, MaxJoinsAssumption DEF TypeOK
    <3>2. addr' \in [Nodes -> Addresses \cup {None}]
      BY <1>1 DEF TypeOK
    <3> QED
      BY <1>1, <2>1, <2>2, <3>1, <3>2 DEF TypeOK
  <2>4. AnnouncedKnown'
    BY <1>1, <2>2 DEF AnnouncedKnown, TypeOK
  <2>5. TimersCurrent'
    BY <1>1, <1>2, <1>4, <2>1, <2>2 DEF TimersCurrent, TypeOK
  <2>6. AddressCurrent'
    BY <1>1, <1>4, <2>2 DEF AddressCurrent, TypeOK
  <2> QED
    BY <1>3, <2>3, <2>4, <2>5, <2>6
<1>5. CASE known[d] = None
  <2>1. timers' = Append(timers, <<d, n>>) /\ UNCHANGED <<known, calls>>
    BY <1>5 DEF DeviceJoins, HandleDeviceJoined
  <2>2. timers \in Seq(Timer) /\ <<d, n>> \in Timer
    BY DEF TypeOK, Timer
  <2>3. /\ timers' \in Seq(Timer) /\ Len(timers') = Len(timers) + 1 /\ Len(timers) \in Nat
        /\ \A i \in 1 .. Len(timers) : timers'[i] = timers[i]
        /\ timers'[Len(timers) + 1] = <<d, n>>
    BY <2>1, <2>2, TimerSet
  <2>4. TypeOK'
    BY <1>1, <2>1, <2>3, MaxJoinsAssumption DEF TypeOK
  <2>5. AnnouncedKnown'
    BY <1>1, <2>1 DEF AnnouncedKnown
  <2>6. TimersCurrent'
    <3> SUFFICES ASSUME NEW x \in Nodes, addr'[x] # None, known'[x] = None, x \notin again',
                        NEW i \in 1 .. Len(timers'), timers'[i][1] = x
                 PROVE  timers'[i][2] = addr'[x]
      BY DEF TimersCurrent
    <3>1. CASE i = Len(timers) + 1
      BY <1>1, <2>3, <3>1 DEF TypeOK
    <3>2. CASE i \in 1 .. Len(timers)
      <4>1. timers[i][1] = x
        BY <2>3, <3>2
      <4>2. x # d
        BY <1>1, <1>5, <2>2, <3>2, <4>1 DEF Pending
      <4> QED
        BY <1>1, <2>1, <2>3, <3>2, <4>1, <4>2 DEF TimersCurrent, TypeOK
    <3> QED
      BY <2>3, <3>1, <3>2
  <2>7. AddressCurrent'
    BY <1>1, <1>5, <2>1 DEF AddressCurrent, TypeOK
  <2> QED
    BY <1>3, <2>4, <2>5, <2>6, <2>7
<1> QED
  BY <1>4, <1>5

LEMMA AnnouncesKeeps ==
  ASSUME Inv, NEW d \in Nodes, Announces(d)
  PROVE  Inv'
<1> USE DEF Inv, Announces
<1>1. addr[d] \in Addresses
  BY DEF TypeOK
<1>2. TypeOK'
  BY <1>1 DEF TypeOK
<1>3. Apart' /\ AnnouncedKnown'
  BY DEF Apart, AnnouncedKnown, TypeOK
<1>4. TimersCurrent' /\ AddressCurrent'
  BY DEF TimersCurrent, AddressCurrent, TypeOK
<1> QED
  BY <1>2, <1>3, <1>4

LEMMA GoneKeeps ==
  ASSUME Inv, NEW d \in Nodes, DeviceVanishes(d) \/ \E ieee \in BOOLEAN : DeviceLeaves(d, ieee)
  PROVE  Inv'
<1> USE DEF Inv
<1>0. /\ addr' = [addr EXCEPT ![d] = None] /\ announced' = announced \ {d}
      /\ UNCHANGED <<known, timers, joins, again, removed, calls>>
  BY DEF DeviceVanishes, DeviceLeaves
<1>1. told' \in [Nodes -> Nat] /\ named' \in BOOLEAN
  <2>1. CASE DeviceVanishes(d)
    BY <2>1 DEF DeviceVanishes, TypeOK
  <2>2. ASSUME NEW ieee \in BOOLEAN, DeviceLeaves(d, ieee)
        PROVE  told' \in [Nodes -> Nat] /\ named' \in BOOLEAN
    <3>1. told' = told \/ \E x \in Nodes : told' = [told EXCEPT ![x] = @ + 1]
      BY <2>2 DEF DeviceLeaves, Leavers
    <3>2. ASSUME NEW x \in Nodes, told' = [told EXCEPT ![x] = @ + 1] PROVE told' \in [Nodes -> Nat]
      BY <3>2 DEF TypeOK
    <3>3. named' = ieee
      BY <2>2 DEF DeviceLeaves
    <3> QED
      BY <3>1, <3>2, <3>3 DEF TypeOK
  <2> QED
    BY <2>1, <2>2
<1>2. TypeOK'
  BY <1>0, <1>1 DEF TypeOK
<1>3. Apart' /\ AnnouncedKnown'
  BY <1>0 DEF Apart, AnnouncedKnown, TypeOK
<1>4. TimersCurrent' /\ AddressCurrent'
  BY <1>0 DEF TimersCurrent, AddressCurrent, TypeOK
<1> QED
  BY <1>2, <1>3, <1>4

LEMMA RemovedKeeps ==
  ASSUME Inv, NEW d \in Nodes, Removed(d)
  PROVE  Inv'
<1> USE DEF Inv, Removed
<1>1. TypeOK'
  BY DEF TypeOK
<1>2. Apart' /\ AnnouncedKnown'
  BY DEF Apart, AnnouncedKnown, TypeOK
<1>3. TimersCurrent'
  <2>1. timers \in Seq(Timer)
    BY DEF TypeOK
  <2>2. d \notin again' => \A i \in 1 .. Len(timers) : timers[i][1] # d
    BY <2>1 DEF Pending
  <2> QED
    BY <2>2 DEF TimersCurrent, TypeOK
<1>4. AddressCurrent'
  BY DEF AddressCurrent, TypeOK
<1> QED
  BY <1>1, <1>2, <1>3, <1>4

\* What a timer does that is due
LEMMA Fires ==
  ASSUME TypeOK, TimerFires
  PROVE  \E d \in Nodes, n \in Addresses :
           /\ timers[1] = <<d, n>> /\ 1 \in 1 .. Len(timers)
           /\ IF known[d] = None THEN HandleJoin(d, n) ELSE UNCHANGED <<known, calls>>
<1>1. timers \in Seq(Timer) /\ timers # <<>>
  BY DEF TypeOK, TimerFires
<1>2. PICK d \in Nodes, n \in Addresses : Head(timers) = <<d, n>>
  BY <1>1, TimerDue DEF Timer
<1>3. timers[1] = <<d, n>> /\ 1 \in 1 .. Len(timers)
  BY <1>1, <1>2, TimerDue
<1>4. IF known[d] = None THEN HandleJoin(d, n) ELSE UNCHANGED <<known, calls>>
  BY <1>2 DEF TimerFires, JoinIfStillUnannounced
<1> QED
  BY <1>3, <1>4

LEMMA TimerFiresKeeps ==
  ASSUME Inv, TimerFires
  PROVE  Inv'
<1> USE DEF Inv
<1>1. PICK d \in Nodes, n \in Addresses :
        /\ timers[1] = <<d, n>> /\ 1 \in 1 .. Len(timers)
        /\ IF known[d] = None THEN HandleJoin(d, n) ELSE UNCHANGED <<known, calls>>
  BY Fires
<1>2. /\ timers' \in Seq(Timer) /\ Len(timers') = Len(timers) - 1 /\ Len(timers) \in Nat
      /\ \A i \in 1 .. Len(timers') : timers'[i] = timers[i + 1]
  BY TimerDue DEF TimerFires, TypeOK
<1>3. UNCHANGED <<addr, joins, announced, again, removed, told, named>>
  BY DEF TimerFires
<1>4. /\ known' \in [Nodes -> Addresses \cup {None}] /\ calls' \in [Nodes -> Nat]
      /\ known[d] = None => known'[d] = n
      /\ \A x \in Nodes : known[x] # None \/ x # d => known'[x] = known[x]
  BY <1>1, HandleJoinType DEF TypeOK
<1>5. TypeOK'
  BY <1>2, <1>3, <1>4 DEF TypeOK
<1>6. Apart' /\ AnnouncedKnown'
  BY <1>3, <1>4 DEF Apart, AnnouncedKnown, TypeOK
<1>7. TimersCurrent'
  <2> SUFFICES ASSUME NEW x \in Nodes, addr'[x] # None, known'[x] = None, x \notin again',
                      NEW i \in 1 .. Len(timers'), timers'[i][1] = x
               PROVE  timers'[i][2] = addr'[x]
    BY DEF TimersCurrent
  <2>1. known[x] = None
    BY <1>4, NoAddressAssumption
  <2>2. i + 1 \in 1 .. Len(timers) /\ timers'[i] = timers[i + 1]
    BY <1>2
  <2> QED
    BY <1>3, <2>1, <2>2 DEF TimersCurrent
<1>8. AddressCurrent'
  <2> SUFFICES ASSUME NEW x \in Nodes, addr[x] # None, known'[x] # None, x \notin again
               PROVE  known'[x] = addr[x]
    BY <1>3 DEF AddressCurrent
  <2>1. CASE known[x] = None
    <3>1. x = d /\ known'[x] = n
      BY <1>4, <2>1
    <3>2. timers[1][1] = x /\ timers[1][2] = n
      BY <1>1, <3>1
    <3> QED
      BY <1>1, <2>1, <3>1, <3>2 DEF TimersCurrent
  <2>2. CASE known[x] # None
    BY <1>4, <2>2 DEF AddressCurrent
  <2> QED
    BY <2>1, <2>2
<1> QED
  BY <1>5, <1>6, <1>7, <1>8

-----------------------------------------------------------------------------
(* The theorems *)

LEMMA InitInv == Init => Inv
<1> SUFFICES ASSUME Init PROVE Inv
  OBVIOUS
<1>1. TypeOK
  <2>1. 0 \in 0 .. MaxJoins
    BY MaxJoinsAssumption
  <2>2. timers \in Seq(Timer)
    BY DEF Init
  <2> QED
    BY <2>1, <2>2 DEF Init, TypeOK
<1>2. Apart /\ AnnouncedKnown /\ TimersCurrent /\ AddressCurrent
  BY DEF Init, Apart, AnnouncedKnown, TimersCurrent, AddressCurrent
<1> QED
  BY <1>1, <1>2 DEF Inv

LEMMA NextInv == Inv /\ [Next]_vars => Inv'
<1> SUFFICES ASSUME Inv, [Next]_vars PROVE Inv'
  OBVIOUS
<1>1. CASE UNCHANGED vars
  BY <1>1 DEF vars, Inv, TypeOK, Apart, AnnouncedKnown, TimersCurrent, AddressCurrent
<1> QED
  BY <1>1, DeviceJoinsKeeps, AnnouncesKeeps, GoneKeeps, RemovedKeeps, TimerFiresKeeps DEF Next

\* The invariant holds of any number of devices, addresses and joins.
THEOREM Invariance == Spec => []Inv
<1> QED
  BY InitInv, NextInv, PTL DEF Spec

\* The variables have their types.
THEOREM TypeCorrect == Spec => []TypeOK
BY Invariance, PTL DEF Inv

\* A device is known by the address it has, but for the races of again.
THEOREM AddressIsCurrent == Spec => []AddressCurrent
BY Invariance, PTL DEF Inv

\* No handle_join follows an announcement, whatever timers are still to fire.
THEOREM InterviewIsUndisturbed == Spec => InterviewUndisturbed
<1>1. ASSUME Inv, [Next]_vars, NEW d \in announced \cap announced' PROVE calls'[d] = calls[d]
  <2>1. d \in Nodes /\ known[d] # None
    BY <1>1 DEF Inv, TypeOK, AnnouncedKnown
  <2>2. CASE TimerFires
    <3>1. PICK x \in Nodes, n \in Addresses :
            IF known[x] = None THEN HandleJoin(x, n) ELSE UNCHANGED <<known, calls>>
      BY <1>1, <2>2, Fires DEF Inv
    <3> QED
      BY <1>1, <2>1, <3>1, HandleJoinType DEF Inv
  <2>3. ASSUME NEW x \in Nodes, NEW n \in Addresses, DeviceJoins(x, n) PROVE calls'[d] = calls[d]
    <3>1. x # d
      BY <1>1, <2>3 DEF DeviceJoins
    <3>2. HandleJoin(x, n) \/ UNCHANGED calls
      BY <2>3 DEF DeviceJoins, HandleDeviceJoined
    <3> QED
      BY <1>1, <2>1, <3>1, <3>2, HandleJoinType DEF Inv
  <2>4. CASE UNCHANGED calls
    BY <2>4
  <2> QED
    BY <1>1, <2>2, <2>3, <2>4 DEF Next, vars, Announces, DeviceLeaves, DeviceVanishes, Removed
<1>2. Inv /\ [Next]_vars => [\A d \in announced \cap announced' : calls'[d] = calls[d]]_vars
  BY <1>1
<1> QED
  BY <1>2, Invariance, PTL DEF Spec, InterviewUndisturbed

\* Nobody who is on the network is taken for another that left, but by the races of again:
\* a record of one who is there is current, and an address there is of one device.
THEOREM LeaverWasRight == Spec => LeaverIsRight
<1> DEFINE Right(x) ==
             told'[x] # told[x] => /\ addr'[x] = None \/ (~named' /\ x \in again)
                                   /\ named' => addr[x] # None
<1>1. ASSUME Inv, [Next]_vars, NEW x \in Nodes PROVE Right(x)
  <2> SUFFICES ASSUME told'[x] # told[x]
               PROVE  /\ addr'[x] = None \/ (~named' /\ x \in again)
                      /\ named' => addr[x] # None
    OBVIOUS
  <2>1. PICK d \in Nodes, ieee \in BOOLEAN : DeviceLeaves(d, ieee)
    BY <1>1 DEF Next, vars, DeviceJoins, Announces, DeviceVanishes, Removed, TimerFires
  <2>2. x \in Leavers(d, addr[d], ieee)
    BY <1>1, <2>1 DEF DeviceLeaves, Inv, TypeOK, Leavers
  <2>3. addr[d] # None /\ addr' = [addr EXCEPT ![d] = None] /\ named' = ieee
    BY <2>1 DEF DeviceLeaves
  <2>4. CASE x = d
    BY <1>1, <2>3, <2>4 DEF Inv, TypeOK
  <2>5. CASE x # d
    <3>1. ~ieee /\ known[x] = addr[d] /\ addr'[x] = addr[x]
      BY <1>1, <2>2, <2>3, <2>5 DEF Leavers, Inv, TypeOK
    <3>2. addr[x] # addr[d]
      BY <1>1, <2>3, <2>5 DEF Inv, Apart
    <3>3. addr[x] = None \/ x \in again
      BY <1>1, <2>3, <3>1, <3>2 DEF Inv, AddressCurrent
    <3> QED
      BY <2>3, <3>1, <3>3
  <2> QED
    BY <2>4, <2>5
<1>2. Inv /\ [Next]_vars => [\A x \in Nodes : Right(x)]_vars
  BY <1>1
<1> QED
  BY <1>2, Invariance, PTL DEF Spec, LeaverIsRight
=============================================================================
