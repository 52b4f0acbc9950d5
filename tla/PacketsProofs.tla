--------------------------- MODULE PacketsProofs ----------------------------
(***************************************************************************)
(* What holds of Packets for any number of packets, places and devices,    *)
(* whatever zigpy sends.                                                   *)
(***************************************************************************)
EXTENDS Packets, FiniteSetTheorems, SequenceTheorems, TLAPS

\* A task that has ended leaves nothing behind, and one that has not has an argument;
\* an answer has a device that can be written to, be it a former one.
Stations ==
  \A p \in Packets :
    /\ pc[p] = "idle" => asked[p] = None /\ former[p] = None /\ p \notin moved
    /\ pc[p] # "queued" => p \notin stale
    /\ pc[p] # "idle" => packet[p] \in Packet
    /\ packet[p] \in Packet /\ packet[p].addr.mode = "device" =>
         pc[p] = "ready" /\ (former[p] # None \/ packet[p].addr.to \in devices)
    /\ sent[p] # None <=> pc[p] = "sending"

\* What a packet that waits for a place has looked up fits it, and it is not to be
\* refused; the device is still in the registry unless it was kept as it was, and still at
\* its address unless that changed hands.
LookedUp ==
  \A p \in Packets :
    pc[p] = "queued" =>
      /\ device[p] = None => former[p] = None
      /\ device[p] # None => former[p] # None \/ device[p] \in devices
      /\ packet[p].addr.mode \in {"group", "broadcast"} => device[p] = None
      /\ packet[p].addr.mode = "ieee" /\ device[p] # None => device[p] = packet[p].addr.to
      /\ eui[p] = Eui(packet[p].addr, device[p])
      /\ ~Refused(packet[p], eui[p])
      /\ packet[p].addr.mode = "nwk" /\ p \notin stale =>
           device[p] \in OrNone(Registered(packet[p].addr.to))

\* An answer on its way is one to the device that asked, secured as it asked.
Owed ==
  \A p \in Packets :
    asked[p] # None =>
      /\ pc[p] = "ready" =>
           /\ packet[p].addr.mode = "device" /\ packet[p].encrypted = asked[p].secured
           /\ p \notin moved => Held(p, packet[p].addr.to).nwk = asked[p].from
      /\ pc[p] = "queued" =>
           /\ packet[p].addr.mode = "nwk" /\ packet[p].encrypted = asked[p].secured
           /\ p \notin moved => packet[p].addr.to = asked[p].from

\* What the proofs are about: NoPlaceLost needs Stations, SecurityKept what was looked
\* up before the wait, and AnsweredAsAsked what the answer was to begin with.
Inv ==
  /\ TypeOK /\ Stations /\ LookedUp /\ Owed
  /\ NoPlaceLost /\ SecurityKept /\ AnsweredAsAsked

-----------------------------------------------------------------------------
(* The operators *)

\* What the device understands is what was asked for: of a request that names an
\* address, or an EUI64, or both, by whatever route.
LEMMA UnderstoodAsBuilt ==
  ASSUME NEW r \in Message
  PROVE  Understood(Build(r)) = r
<1> DEFINE m == Build(r)
           u == Understood(m)
<1>1. /\ m.kind = r.kind /\ m.has_eui64 = (r.eui # None) /\ m.aps_encryption = r.encrypted
      /\ m.destination = IF r.destination = None THEN NoAddress ELSE r.destination
      /\ m.destination_eui64 = IF r.eui = None THEN Zeros ELSE r.eui
      /\ m.route = r.route.control
      /\ m.next_hop = IF r.route.control = "hintNextHop" THEN r.route.by ELSE None
      /\ m.relays = IF r.route.control = "hintSourceRoute" THEN r.route.by ELSE None
  BY DEF Build, Payload
<1>2. r.destination # NoAddress \/ r.destination = None
  BY NoAddressAssumption DEF Message
<1>3. u.destination = r.destination
  BY <1>1, <1>2 DEF Understood
<1>4. u.eui = r.eui
  BY <1>1 DEF Understood
<1>5. u.route = r.route
  <2>1. r.route \in Route
    BY DEF Message
  <2>2. CASE r.route = StackDecides
    <3>1. r.route.control = "stackDecides" /\ r.route.by = None
      BY <2>2 DEF StackDecides
    <3> QED
      BY <1>1, <2>2, <3>1 DEF Understood, StackDecides
  <2>3. CASE r.route \in [control : {"hintNextHop"}, by : Addresses \cup Routers]
    <3>1. r.route = [control |-> "hintNextHop", by |-> r.route.by] /\ r.route.by # None
      BY <2>3, NoneAssumption
    <3> QED
      BY <1>1, <3>1 DEF Understood
  <2>4. CASE r.route \in [control : {"hintSourceRoute"},
                          by : {BuildSourceRoute(path) : path \in Paths}]
    <3>1. r.route = [control |-> "hintSourceRoute", by |-> r.route.by]
      BY <2>4
    <3> QED
      BY <1>1, <3>1 DEF Understood
  <2> QED
    BY <2>1, <2>2, <2>3, <2>4 DEF Route
<1>6. /\ r = [kind |-> r.kind, destination |-> r.destination, eui |-> r.eui,
              encrypted |-> r.encrypted, route |-> r.route]
      /\ u = [kind |-> r.kind, destination |-> u.destination, eui |-> u.eui,
              encrypted |-> r.encrypted, route |-> u.route]
  BY <1>1 DEF Message, Understood
<1> QED
  BY <1>3, <1>4, <1>5, <1>6

\* A device that may be looked up is in the registry; a group has none.
LEMMA LookupType ==
  ASSUME TypeOK, NEW addr \in Addressed, NEW d \in Lookup(addr)
  PROVE  /\ d \in devices \cup {None}
         /\ addr.mode = "nwk" => d \in OrNone(Registered(addr.to))
         /\ addr.mode = "ieee" /\ d # None => d = addr.to
         /\ addr.mode \in {"group", "broadcast"} => d = None
<1>1. CASE addr.mode = "nwk"
  BY <1>1, NoneAssumption DEF Lookup, OrNone, Registered, devices
<1>2. CASE addr.mode = "ieee"
  BY <1>2 DEF Lookup, OrNone
<1>3. CASE addr.mode \notin {"nwk", "ieee"}
  BY <1>3 DEF Lookup
<1> QED
  BY <1>1, <1>2, <1>3

\* An object is of a device of the registry, and well formed.
LEMMA ObjectType ==
  ASSUME TypeOK, NEW d \in devices
  PROVE  ObjectOf(d) \in Object
BY NoneAssumption DEF TypeOK, devices, ObjectOf, Object

\* So is what is held, if there is anything to hold.
LEMMA HeldType ==
  ASSUME TypeOK, NEW p \in Packets, NEW d \in Nodes, former[p] # None \/ d \in devices
  PROVE  Held(p, d) \in Object
<1>1. CASE former[p] = None
  BY <1>1, ObjectType DEF Held
<1>2. CASE former[p] # None
  BY <1>2 DEF Held, TypeOK
<1> QED
  BY <1>1, <1>2

\* The relays in reverse: as many, from the last to the first.
LEMMA Reversed ==
  ASSUME NEW path \in Seq(Routers)
  PROVE  LET back == BuildSourceRoute(path) IN
         /\ Len(back) = Len(path)
         /\ \A i \in 1..Len(path) : back[i] = path[Len(path) + 1 - i]
<1>1. Len(path) \in Nat
  OBVIOUS
<1>2. \A i \in 1..Len(path) : BuildSourceRoute(path)[i] = path[Len(path) + 1 - i]
  BY DEF BuildSourceRoute
<1>3. BuildSourceRoute(path) \in [1..Len(path) -> Routers]
  <2>1. ASSUME NEW i \in 1..Len(path) PROVE path[Len(path) + 1 - i] \in Routers
    <3>1. Len(path) + 1 - i \in 1..Len(path)
      BY <1>1
    <3> QED
      BY <3>1
  <2> QED
    BY <2>1 DEF BuildSourceRoute
<1>4. Len(BuildSourceRoute(path)) = Len(path)
  <2>1. BuildSourceRoute(path) \in Seq(Routers)
    BY <1>1, <1>3, SeqDef
  <2>2. /\ Len(BuildSourceRoute(path)) \in Nat
        /\ DOMAIN BuildSourceRoute(path) = 1..Len(BuildSourceRoute(path))
    BY <2>1, LenProperties
  <2>3. DOMAIN BuildSourceRoute(path) = 1..Len(path)
    BY DEF BuildSourceRoute
  <2> QED
    BY <1>1, <2>2, <2>3
<1> QED
  BY <1>2, <1>4

\* A route hint is well formed, and on the way to the object it is for.
LEMMA RouteType ==
  ASSUME TypeOK, NEW o \in Object \cup {None}, NEW source \in BOOLEAN
  PROVE  LET route == RouteTo(o, source) IN
         /\ route \in Route
         /\ route # StackDecides => o \in Object /\ OnTheWay(route, o)
<1>1. CASE o = None \/ startTime = "past"
  BY <1>1 DEF RouteTo, Route
<1>2. CASE o # None /\ startTime # "past"
  <2>1. o \in Object /\ o.relays \in Paths \cup {None} /\ o.nwk \in Addresses
    BY <1>2 DEF Object
  <2>2. CASE o.relays = None
    BY <1>2, <2>2, NoneAssumption DEF RouteTo, Route
  <2>3. CASE o.relays = <<>> /\ o.relays # None
    <3>1. RouteTo(o, source) = [control |-> "hintNextHop", by |-> o.nwk]
      BY <1>2, <2>3 DEF RouteTo
    <3> QED
      BY <2>1, <2>3, <3>1 DEF Route, OnTheWay
  <2>4. CASE o.relays # <<>> /\ o.relays # None
    <3> DEFINE path == o.relays
               back == BuildSourceRoute(path)
               hops == Len(path)
    <3>1. path \in Paths /\ path \in Seq(Routers) /\ hops \in Nat /\ hops # 0
      BY <2>1, <2>4, PathsAssumption
    <3>2. Len(back) = hops /\ \A i \in 1..hops : back[i] = path[hops + 1 - i]
      BY <3>1, Reversed
    <3>3. RouteTo(o, source) \in {[control |-> "hintSourceRoute", by |-> back],
                                  [control |-> "hintNextHop", by |-> back[1]]}
      BY <1>2, <2>4 DEF RouteTo
    <3> HIDE DEF back
    <3>4. back[1] = path[hops] /\ path[hops] \in Routers
      BY <3>1, <3>2
    <3>5. RouteTo(o, source) \in Route
      BY <3>1, <3>3, <3>4 DEF back, Route
    <3>6. OnTheWay(RouteTo(o, source), o)
      BY <2>4, <3>1, <3>2, <3>3, <3>4 DEF OnTheWay
    <3> QED
      BY <2>1, <3>5, <3>6
  <2> QED
    BY <2>2, <2>3, <2>4
<1> QED
  BY <1>1, <1>2

\* A place that is free may be taken, by one who has none or has one.
LEMMA PlaceTaken ==
  ASSUME TypeOK, PlaceLeft, NEW p \in Packets
  PROVE  /\ taken \cup {p} \subseteq Packets /\ IsFiniteSet(taken \cup {p})
         /\ Cardinality(taken \cup {p}) <= limit
<1>1. Cardinality(taken) \in Nat /\ limit \in Nat
  BY FS_CardinalityType, LimitAssumption DEF TypeOK
<1>2. /\ IsFiniteSet(taken \cup {p})
      /\ Cardinality(taken \cup {p}) \in {Cardinality(taken), Cardinality(taken) + 1}
  BY FS_AddElement DEF TypeOK
<1>3. taken \cup {p} \subseteq Packets
  BY DEF TypeOK
<1> QED
  BY <1>1, <1>2, <1>3 DEF PlaceLeft

LEMMA PlaceReturned ==
  ASSUME TypeOK, NEW p \in Packets
  PROVE  /\ taken \ {p} \subseteq Packets /\ IsFiniteSet(taken \ {p})
         /\ Cardinality(taken \ {p}) <= limit
<1>1. Cardinality(taken) \in Nat /\ limit \in Nat /\ Cardinality(taken) <= limit
  BY FS_CardinalityType, LimitAssumption DEF TypeOK
<1>2. /\ IsFiniteSet(taken \ {p})
      /\ Cardinality(taken \ {p}) \in {Cardinality(taken), Cardinality(taken) - 1}
  BY FS_RemoveElement DEF TypeOK
<1>3. taken \ {p} \subseteq Packets
  BY DEF TypeOK
<1> QED
  BY <1>1, <1>2, <1>3
-----------------------------------------------------------------------------
(* The steps of send_packet *)

\* What was looked up for pk fits it, and it is not refused; o is the device's object.
Sendable(pk, o, d, e) ==
  /\ pk \in Packet /\ pk.addr.mode # "device" /\ d \in Nodes \cup {None}
  /\ d = None => o = None
  /\ d # None => o \in Object
  /\ pk.addr.mode \in {"group", "broadcast"} => d = None
  /\ pk.addr.mode = "ieee" /\ d # None => d = pk.addr.to
  /\ e = Eui(pk.addr, d) /\ ~Refused(pk, e)

\* The request keeps the security of its packet, whatever the kind.
LEMMA RequestType ==
  ASSUME TypeOK, NEW pk, NEW o, NEW d, NEW e, Sendable(pk, o, d, e), NEW source \in BOOLEAN
  PROVE  /\ e \in Nodes \cup {None}
         /\ Request(pk, o, e, source) \in Message
         /\ Request(pk, o, e, source).encrypted = pk.encrypted
         /\ pk.encrypted => Request(pk, o, e, source).eui # None
         /\ pk.addr.mode = "nwk" => Request(pk, o, e, source).destination = pk.addr.to
<1>1. /\ pk.addr \in Addressed /\ pk.encrypted \in BOOLEAN
      /\ pk.addr.mode \in {"nwk", "ieee", "group", "broadcast"}
  BY DEF Sendable, Packet, Addressed
<1>2. /\ pk.addr.mode = "nwk" => pk.addr.to \in Addresses
      /\ pk.addr.mode = "ieee" => pk.addr.to \in Nodes
      /\ pk.addr.mode = "group" => pk.addr.to \in Groups
      /\ pk.addr.mode = "broadcast" => pk.addr.to = Everyone
  BY <1>1 DEF Addressed
<1>3. e \in Nodes \cup {None} /\ (pk.encrypted => e # None)
  BY <1>2 DEF Sendable, Eui, Refused
<1>4. RouteTo(o, source) \in Route /\ StackDecides \in Route
  <2>1. o \in Object \cup {None}
    BY DEF Sendable
  <2> QED
    BY <2>1, RouteType DEF Route
<1>5. CASE pk.addr.mode \in {"group", "broadcast"}
  <2>1. Request(pk, o, e, source) =
          [kind |-> pk.addr.mode, destination |-> pk.addr.to, eui |-> None,
           encrypted |-> FALSE, route |-> StackDecides]
    BY <1>5 DEF Request
  <2>2. pk.encrypted = FALSE
    BY <1>1, <1>5 DEF Sendable, Eui, Refused
  <2>3. pk.addr.to \in Groups \cup {Everyone}
    BY <1>2, <1>5
  <2>4. Request(pk, o, e, source) \in Message
    BY <1>4, <1>5, <2>1, <2>3 DEF Message
  <2>5. Request(pk, o, e, source).encrypted = FALSE
    BY <2>1
  <2> QED
    BY <1>3, <1>5, <2>2, <2>4, <2>5
<1>6. CASE pk.addr.mode \in {"nwk", "ieee"}
  <2>1. Request(pk, o, e, source) =
          [kind |-> "unicast",
           destination |-> IF pk.addr.mode = "ieee" THEN None ELSE pk.addr.to,
           eui |-> e, encrypted |-> pk.encrypted, route |-> RouteTo(o, source)]
    BY <1>6 DEF Request
  <2>2. (IF pk.addr.mode = "ieee" THEN None ELSE pk.addr.to) \in Addresses \cup {None}
    BY <1>2, <1>6
  <2> QED
    BY <1>1, <1>3, <1>4, <1>6, <2>1, <2>2 DEF Message
<1> QED
  BY <1>1, <1>5, <1>6

\* A task that ends keeps the invariant, if it gives back the place it has.
LEMMA Ended ==
  ASSUME Inv, NEW p \in Packets, End(p), taken' = taken \ {p}, UNCHANGED <<registry, session>>
  PROVE  Inv'
<1> USE DEF Inv, registry, session
<1>1. TypeOK'
  <2>1. UNCHANGED limit
    OBVIOUS
  <2> QED
    BY <2>1, PlaceReturned DEF TypeOK, End, Forget
<1>3. Stations'
  BY NoneAssumption DEF Stations, End, Forget, TypeOK, devices
<1>4. LookedUp'
  BY DEF LookedUp, End, Forget, TypeOK, Refused, Eui, OrNone, Registered, devices
<1>5. Owed'
  BY DEF Owed, End, Forget, TypeOK, Held, ObjectOf
<1>6. NoPlaceLost'
  BY DEF NoPlaceLost, End, TypeOK
<1>7. SecurityKept' /\ AnsweredAsAsked'
  BY DEF SecurityKept, AnsweredAsAsked, End, TypeOK
<1> QED
  BY <1>1, <1>3, <1>4, <1>5, <1>6, <1>7

\* A task that hands over its request keeps the invariant.
LEMMA Handed ==
  ASSUME Inv, NEW p \in Packets, NEW pk, NEW o, NEW d, NEW e, Sendable(pk, o, d, e),
         PlaceLeft, pc[p] \in {"ready", "queued"}, Hand(p, pk, o, e),
         asked[p] # None => /\ pk.addr.mode = "nwk" /\ pk.encrypted = asked[p].secured
                            /\ p \notin moved => pk.addr.to = asked[p].from,
         UNCHANGED <<registry, session>>
  PROVE  Inv'
<1> USE DEF Inv, registry, session, history
<1>1. CASE ~api
  <2>1. p \notin taken
    BY DEF NoPlaceLost
  <2> QED
    BY <1>1, <2>1, Ended DEF Hand
<1>2. CASE api
  <2>1. PICK source \in BOOLEAN :
          sent' = [sent EXCEPT ![p] = Understood(Build(Request(pk, o, e, source)))]
    BY <1>2 DEF Hand
  <2> DEFINE r == Request(pk, o, e, source)
  <2>2. /\ r \in Message /\ r.encrypted = pk.encrypted
        /\ pk.encrypted => r.eui # None
        /\ pk.addr.mode = "nwk" => r.destination = pk.addr.to
    BY RequestType
  <2>3. sent' = [sent EXCEPT ![p] = r]
    BY <2>1, <2>2, UnderstoodAsBuilt
  <2>4. /\ pc' = [pc EXCEPT ![p] = "sending"] /\ packet' = [packet EXCEPT ![p] = pk]
        /\ taken' = taken \cup {p} /\ stale' = stale \ {p} /\ Forget(p)
        /\ UNCHANGED <<asked, moved>>
    BY <1>2 DEF Hand
  <2> HIDE DEF r
  <2>5. pk \in Packet /\ pk.addr.mode # "device"
    BY DEF Sendable
  <2>6. TypeOK'
    BY <2>2, <2>3, <2>4, <2>5, PlaceTaken DEF TypeOK, Forget
  <2>8. Stations'
    BY <2>2, <2>3, <2>4, <2>5, NoneAssumption DEF Stations, Forget, TypeOK, devices
  <2>9. LookedUp'
    BY <2>4 DEF LookedUp, Forget, TypeOK, Refused, Eui, OrNone, Registered, devices
  <2>10. Owed'
    BY <2>4 DEF Owed, Forget, TypeOK, Held, ObjectOf
  <2>11. NoPlaceLost'
    BY <2>4 DEF NoPlaceLost, TypeOK
  <2>12. SecurityKept'
    BY <2>2, <2>3, <2>4 DEF SecurityKept, TypeOK
  <2>13. AnsweredAsAsked'
    BY <2>2, <2>3, <2>4 DEF AnsweredAsAsked, TypeOK
  <2> QED
    BY <2>6, <2>8, <2>9, <2>10, <2>11, <2>12, <2>13
<1> QED
  BY <1>1, <1>2

\* When the task of a packet runs, the packet goes to an address: an answer, to that
\* which its device has by now, or had when it was removed.
LEMMA ArgumentType ==
  ASSUME Inv, NEW p \in Packets, pc[p] = "ready"
  PROVE  LET pk == Argument(p) IN
         /\ pk \in Packet /\ pk.addr.mode # "device" /\ pk.encrypted = packet[p].encrypted
         /\ packet[p].addr.mode = "device" =>
              pk.addr.mode = "nwk" /\ pk.addr.to = Held(p, packet[p].addr.to).nwk
<1> DEFINE pk == Argument(p)
<1>0. packet[p] \in Packet
  BY DEF Inv, Stations
<1>1. CASE packet[p].addr.mode = "device"
  <2> DEFINE n == Held(p, packet[p].addr.to).nwk
  <2>1. packet[p].addr.to \in Nodes
    BY <1>0, <1>1 DEF Packet, Addressed
  <2>2. n \in Addresses
    <3>1. former[p] # None \/ packet[p].addr.to \in devices
      BY <1>0, <1>1 DEF Inv, Stations
    <3>2. Held(p, packet[p].addr.to) \in Object
      BY <2>1, <3>1, HeldType DEF Inv
    <3> QED
      BY <3>2 DEF Object
  <2> DEFINE a == [mode |-> "nwk", to |-> n]
  <2>4. pk = [addr |-> a, encrypted |-> packet[p].encrypted]
    BY <1>0, <1>1 DEF Argument, Packet
  <2> HIDE DEF n
  <2>3. a \in Addressed
    BY <2>2 DEF Addressed
  <2>5. packet[p].encrypted \in BOOLEAN
    BY <1>0 DEF Packet
  <2> HIDE DEF pk
  <2>6. pk \in Packet
    BY <2>3, <2>4, <2>5 DEF Packet
  <2>7. /\ pk.addr.mode = "nwk" /\ pk.addr.to = n
        /\ pk.encrypted = packet[p].encrypted
    BY <2>4
  <2> QED
    BY <2>6, <2>7 DEF pk, n
<1>2. CASE packet[p].addr.mode # "device"
  BY <1>0, <1>2 DEF Argument
<1> QED
  BY <1>1, <1>2

\* What is looked up for a packet lets it be sent, if it is not refused.
LEMMA LookupSendable ==
  ASSUME Inv, NEW pk \in Packet, pk.addr.mode # "device", NEW d \in Lookup(pk.addr)
  PROVE  /\ d \in devices \cup {None}
         /\ pk.addr.mode = "ieee" /\ d # None => d = pk.addr.to
         /\ pk.addr.mode \in {"group", "broadcast"} => d = None
         /\ pk.addr.mode = "nwk" => d \in OrNone(Registered(pk.addr.to))
         /\ ~Refused(pk, Eui(pk.addr, d)) => Sendable(pk, ObjectOf(d), d, Eui(pk.addr, d))
<1>1. pk.addr \in Addressed
  BY DEF Packet
<1>2. /\ d \in devices \cup {None}
      /\ pk.addr.mode = "ieee" /\ d # None => d = pk.addr.to
      /\ pk.addr.mode \in {"group", "broadcast"} => d = None
      /\ pk.addr.mode = "nwk" => d \in OrNone(Registered(pk.addr.to))
  BY <1>1, LookupType DEF Inv
<1>3. d \in Nodes \cup {None}
  BY <1>2 DEF devices
<1>4. d = None => ObjectOf(d) = None
  BY DEF ObjectOf
<1>5. d # None => ObjectOf(d) \in Object
  BY <1>2, ObjectType DEF Inv
<1> QED
  BY <1>2, <1>3, <1>4, <1>5 DEF Sendable

LEMMA SendPacketKeeps ==
  ASSUME Inv, NEW p \in Packets, SendPacket(p)
  PROVE  Inv'
<1> USE DEF Inv
<1> DEFINE pk == Argument(p)
<1>1. pc[p] = "ready" /\ p \notin taken /\ packet[p] \in Packet
  BY DEF SendPacket, NoPlaceLost, Stations
<1>2. /\ pk \in Packet /\ pk.addr.mode # "device" /\ pk.encrypted = packet[p].encrypted
      /\ packet[p].addr.mode = "device" =>
           pk.addr.mode = "nwk" /\ pk.addr.to = Held(p, packet[p].addr.to).nwk
  BY <1>1, ArgumentType
<1>3. PICK d \in Lookup(pk.addr) :
        LET e == Eui(pk.addr, d) IN
        \/ (Refused(pk, e) \/ ~api) /\ End(p) /\ UNCHANGED taken
        \/ ~Refused(pk, e) /\ api /\ PlaceLeft /\ Hand(p, pk, ObjectOf(d), e)
        \/ /\ ~Refused(pk, e) /\ api /\ ~PlaceLeft
           /\ pc' = [pc EXCEPT ![p] = "queued"]
           /\ packet' = [packet EXCEPT ![p] = pk]
           /\ device' = [device EXCEPT ![p] = d]
           /\ former' = [former EXCEPT ![p] = None]
           /\ eui' = [eui EXCEPT ![p] = e]
           /\ UNCHANGED <<taken, sent, history>>
  BY DEF SendPacket
<1>4. UNCHANGED <<registry, session>>
  BY DEF SendPacket
<1> DEFINE e == Eui(pk.addr, d)
<1>5. /\ d \in devices \cup {None} /\ d \in Nodes \cup {None}
      /\ pk.addr.mode = "ieee" /\ d # None => d = pk.addr.to
      /\ pk.addr.mode \in {"group", "broadcast"} => d = None
      /\ pk.addr.mode = "nwk" => d \in OrNone(Registered(pk.addr.to))
      /\ ~Refused(pk, e) => Sendable(pk, ObjectOf(d), d, e)
  <2> HIDE DEF pk
  <2> QED
    BY <1>2, <1>3, LookupSendable DEF devices
<1>7. asked[p] # None => /\ pk.addr.mode = "nwk" /\ pk.encrypted = asked[p].secured
                         /\ p \notin moved => pk.addr.to = asked[p].from
  BY <1>1, <1>2 DEF Owed
<1> HIDE DEF pk
<1>9. CASE End(p) /\ UNCHANGED taken
  BY <1>1, <1>4, <1>9, Ended
<1>10. CASE ~Refused(pk, e) /\ PlaceLeft /\ Hand(p, pk, ObjectOf(d), e)
  BY <1>1, <1>4, <1>5, <1>7, <1>10, Handed
<1>11. CASE /\ ~Refused(pk, e)
            /\ pc' = [pc EXCEPT ![p] = "queued"]
            /\ packet' = [packet EXCEPT ![p] = pk]
            /\ device' = [device EXCEPT ![p] = d]
            /\ former' = [former EXCEPT ![p] = None]
            /\ eui' = [eui EXCEPT ![p] = e]
            /\ UNCHANGED <<taken, sent, history>>
  <2> USE <1>4 DEF registry, session, history
  <2>1. e \in Nodes \cup {None}
    BY <1>5, <1>11, RequestType
  <2> HIDE DEF e
  <2>2. TypeOK'
    BY <1>2, <1>5, <1>11, <2>1 DEF TypeOK
  <2>4. Stations'
    BY <1>1, <1>2, <1>11 DEF Stations, TypeOK, devices
  <2>5. LookedUp'
    <3> SUFFICES ASSUME NEW q \in Packets, (pc[q] = "queued")'
                 PROVE  (/\ device[q] = None => former[q] = None
                         /\ device[q] # None => former[q] # None \/ device[q] \in devices
                         /\ packet[q].addr.mode \in {"group", "broadcast"} => device[q] = None
                         /\ packet[q].addr.mode = "ieee" /\ device[q] # None =>
                              device[q] = packet[q].addr.to
                         /\ eui[q] = Eui(packet[q].addr, device[q])
                         /\ ~Refused(packet[q], eui[q])
                         /\ packet[q].addr.mode = "nwk" /\ q \notin stale =>
                              device[q] \in OrNone(Registered(packet[q].addr.to)))'
      BY DEF LookedUp
    <3>1. CASE q = p
      <4>1. device'[p] = d /\ packet'[p] = pk /\ eui'[p] = e /\ former'[p] = None
        BY <1>11 DEF TypeOK
      <4> QED
        BY <1>3, <1>5, <1>11, <3>1, <4>1
        DEF e, Refused, Eui, OrNone, Registered, devices
    <3>2. CASE q # p
      BY <1>11, <3>2 DEF LookedUp, TypeOK, Refused, Eui, OrNone, Registered, devices
    <3> QED
      BY <3>1, <3>2
  <2>6. Owed'
    BY <1>7, <1>11 DEF Owed, TypeOK, Held, ObjectOf
  <2>7. NoPlaceLost'
    BY <1>1, <1>11 DEF NoPlaceLost, TypeOK
  <2>8. SecurityKept' /\ AnsweredAsAsked'
    BY <1>1, <1>11 DEF SecurityKept, AnsweredAsAsked, TypeOK, Stations
  <2> QED
    BY <2>2, <2>4, <2>5, <2>6, <2>7, <2>8
<1> QED
  BY <1>3, <1>9, <1>10, <1>11

\* What waits can be sent, with the object it holds.
LEMMA WaitsSendable ==
  ASSUME Inv, NEW p \in Packets, pc[p] = "queued"
  PROVE  Sendable(packet[p], Held(p, device[p]), device[p], eui[p])
<1> USE DEF Inv
<1>1. device[p] = None => Held(p, device[p]) = None
  BY DEF LookedUp, Held, ObjectOf
<1>2. device[p] # None => Held(p, device[p]) \in Object
  <2>1. device[p] \in Nodes \cup {None}
    BY DEF TypeOK
  <2>2. device[p] # None => former[p] # None \/ device[p] \in devices
    BY DEF LookedUp
  <2> QED
    BY <2>1, <2>2, HeldType
<1> HIDE DEF Held
<1> QED
  BY <1>1, <1>2 DEF Sendable, Stations, LookedUp, TypeOK

LEMMA GrantedKeeps ==
  ASSUME Inv, NEW p \in Packets, Granted(p)
  PROVE  Inv'
<1> USE DEF Inv
<1>1. pc[p] = "queued" /\ PlaceLeft /\ Hand(p, packet[p], Held(p, device[p]), eui[p])
      /\ UNCHANGED <<registry, session>>
  BY DEF Granted
<1>2. Sendable(packet[p], Held(p, device[p]), device[p], eui[p])
  BY <1>1, WaitsSendable
<1>3. asked[p] # None =>
        /\ packet[p].addr.mode = "nwk" /\ packet[p].encrypted = asked[p].secured
        /\ p \notin moved => packet[p].addr.to = asked[p].from
  BY <1>1 DEF Owed
<1> QED
  BY <1>1, <1>2, <1>3, Handed

LEMMA EndKeeps ==
  ASSUME Inv, NEW p \in Packets, Returns(p) \/ CancelledInQueue(p)
  PROVE  Inv'
<1>1. CASE Returns(p)
  BY <1>1, Ended DEF Returns, Confirmed, Release
<1>2. CASE CancelledInQueue(p)
  <2>1. taken' = taken \ {p}
    BY <1>2 DEF CancelledInQueue, Inv, NoPlaceLost
  <2> QED
    BY <1>2, <2>1, Ended DEF CancelledInQueue
<1> QED
  BY <1>1, <1>2

LEMMA OfferKeeps ==
  ASSUME Inv, NEW p \in Packets, NEW pk \in Offered, Offer(p, pk)
  PROVE  Inv'
<1> USE DEF Inv, registry, session, history, Offer
<1>1. pk \in Packet /\ pk.addr.mode # "device"
  BY OfferedAssumption
<1>2. TypeOK'
  BY <1>1 DEF TypeOK
<1>4. Stations'
  BY <1>1 DEF Stations, TypeOK, devices
<1>5. LookedUp'
  BY DEF LookedUp, TypeOK, Refused, Eui, OrNone, Registered, devices
<1>6. Owed'
  BY DEF Owed, TypeOK, Held, ObjectOf, Stations
<1>7. NoPlaceLost'
  BY DEF NoPlaceLost, TypeOK
<1>8. SecurityKept' /\ AnsweredAsAsked'
  BY DEF SecurityKept, AnsweredAsAsked, TypeOK, Stations
<1> QED
  BY <1>2, <1>4, <1>5, <1>6, <1>7, <1>8

LEMMA ReceiveRequestKeeps ==
  ASSUME Inv, NEW p \in Packets, NEW n \in Addresses, NEW secured \in BOOLEAN,
         NEW r \in Received, ReceiveRequest(p, n, secured, r)
  PROVE  Inv'
<1> USE DEF Inv, registry, session
<1>1. PICK d \in Registered(n) : packet' = [packet EXCEPT ![p] = Answer(d, secured)]
  BY DEF ReceiveRequest
<1>2. d \in devices /\ d \in Nodes /\ d # None /\ nwk[d] = n
  BY NoneAssumption DEF Registered, devices
<1>3. /\ Answer(d, secured) \in Packet /\ Answer(d, secured).addr.mode = "device"
      /\ Answer(d, secured).addr.to = d /\ Answer(d, secured).encrypted = secured
  BY <1>2 DEF Answer, Packet, Addressed
<1>4. /\ pc[p] = "idle" /\ pc' = [pc EXCEPT ![p] = "ready"]
      /\ asked' = [asked EXCEPT ![p] = [from |-> n, secured |-> secured]]
      /\ UNCHANGED <<registry, session, taken, device, former, eui, sent, moved, stale>>
  BY DEF ReceiveRequest
<1> DEFINE a == Answer(d, secured)
<1> HIDE DEF a
<1>5. TypeOK'
  BY <1>1, <1>3, <1>4 DEF TypeOK
<1>7. Stations'
  BY <1>1, <1>2, <1>3, <1>4 DEF Stations, TypeOK, devices
<1>8. LookedUp'
  BY <1>1, <1>4 DEF LookedUp, TypeOK, Refused, Eui, OrNone, Registered, devices
<1>9. Owed'
  BY <1>1, <1>2, <1>3, <1>4 DEF Owed, Stations, TypeOK, Held, ObjectOf
<1>10. NoPlaceLost'
  BY <1>4 DEF NoPlaceLost, TypeOK
<1>11. SecurityKept' /\ AnsweredAsAsked'
  BY <1>1, <1>4 DEF SecurityKept, AnsweredAsAsked, TypeOK, Stations
<1> QED
  BY <1>5, <1>7, <1>8, <1>9, <1>10, <1>11

-----------------------------------------------------------------------------
(* The steps of the session and the registry *)

\* The session and the route records are none of the invariant's business, except
\* for the number of places, which only grows.
LEMMA SessionKeeps ==
  ASSUME Inv, \/ Connect \/ StartNetwork \/ HintsExpire \/ Disconnect \/ DisconnectEnds
              \/ \E d \in Nodes, path \in Paths : HandleRelays(d, path)
              \/ UNCHANGED vars
  PROVE  Inv'
<1> USE DEF Inv, registry, session, locals, history, vars
<1>1. /\ UNCHANGED <<nwk, taken, pc, locals, history>>
      /\ {served', api'} \subseteq BOOLEAN /\ startTime' \in {"none", "recent", "past"}
      /\ limit' \in {limit, MaxConcurrent}
      /\ relays' \in [Nodes -> Paths \cup {None}]
  BY DEF TypeOK, Connect, StartNetwork, HintsExpire, Disconnect, DisconnectEnds, HandleRelays
<1>2. TypeOK'
  <2>1. /\ Cardinality(taken) \in Nat /\ limit \in Nat /\ MaxConcurrent \in Nat
        /\ limit <= MaxConcurrent /\ Cardinality(taken) <= limit
    BY FS_CardinalityType, LimitAssumption DEF TypeOK
  <2>2. Cardinality(taken) <= limit'
    BY <1>1, <2>1
  <2> QED
    BY <1>1, <2>2 DEF TypeOK
<1>3. devices' = devices
  BY <1>1 DEF devices
<1>4. Stations' /\ NoPlaceLost' /\ SecurityKept' /\ AnsweredAsAsked'
  BY <1>1, <1>3 DEF Stations, NoPlaceLost, SecurityKept, AnsweredAsAsked
<1>5. LookedUp'
  <2>1. UNCHANGED <<pc, packet, device, former, eui, stale, nwk>>
    BY <1>1
  <2> QED
    BY <1>3, <2>1 DEF LookedUp, Refused, Eui, OrNone, Registered
<1>6. Owed'
  <2>1. UNCHANGED <<pc, packet, former, nwk, asked, moved>>
    BY <1>1
  <2>2. ASSUME NEW p \in Packets, asked[p] # None, pc[p] = "ready", p \notin moved,
              NEW x, x = packet[p].addr.to
        PROVE  Held(p, x)'.nwk = asked[p].from
    <3>1. packet[p] \in Packet /\ packet[p].addr.mode = "device" /\ Held(p, x).nwk = asked[p].from
      BY <2>2 DEF Owed, Stations
    <3>2. x # None
      BY <2>2, <3>1, NoneAssumption DEF Packet, Addressed
    <3> QED
      BY <2>1, <3>1, <3>2 DEF Held, ObjectOf
  <2> QED
    BY <2>1, <2>2 DEF Owed
<1> QED
  BY <1>2, <1>4, <1>5, <1>6

\* Whose address changes hands is marked; the others find there whom they found before.
LEMMA HandsChanged ==
  ASSUME Inv, NEW d \in Nodes, NEW n \in Addresses \cup {None},
         nwk' = [nwk EXCEPT ![d] = n], ChangeHands({nwk[d], n} \ {None}),
         NEW p \in Packets, pc[p] = "queued", packet[p].addr.mode = "nwk", p \notin stale',
         NEW m, m = packet[p].addr.to
  PROVE  p \notin stale /\ Registered(m)' = Registered(m)
<1>1. p \notin stale /\ m \notin {nwk[d], n} \ {None}
  BY DEF ChangeHands
<1>2. m # None
  <2>1. packet[p] \in Packet
    BY DEF Inv, Stations
  <2>2. packet[p].addr.to \in Addresses
    BY <2>1 DEF Packet, Addressed
  <2> QED
    BY <2>2, NoneAssumption
<1>3. \A x \in Nodes : nwk'[x] = IF x = d THEN n ELSE nwk[x]
  BY DEF Inv, TypeOK
<1>4. {x \in Nodes : nwk'[x] # None /\ nwk'[x] = m} = {x \in Nodes : nwk[x] # None /\ nwk[x] = m}
  BY <1>1, <1>2, <1>3
<1> QED
  BY <1>1, <1>4 DEF Registered, devices

\* An answer to a device that moves is marked, if it does not hold a former object.
LEMMA JoinKeeps ==
  ASSUME Inv, NEW d \in Nodes, NEW n \in Addresses, DeviceJoins(d, n)
  PROVE  Inv'
<1> USE DEF Inv, session, locals
<1>1. /\ nwk' = [nwk EXCEPT ![d] = n]
      /\ ChangeHands({nwk[d], n})
      /\ moved' = moved \cup {p \in Holders(d) : pc[p] = "ready" /\ former[p] = None}
      /\ UNCHANGED <<relays, session, taken, pc, packet, device, former, eui, sent, asked>>
  BY DEF DeviceJoins
<1>2. n # None /\ devices \subseteq devices' /\ None \notin Addresses
  BY <1>1, NoneAssumption DEF devices, TypeOK
<1>3. /\ \A p \in Packets : pc[p] # "queued" => (p \in stale' <=> p \in stale)
      /\ stale' \subseteq Packets
  BY <1>1 DEF ChangeHands, TypeOK
<1>4. TypeOK'
  BY <1>1, <1>3 DEF TypeOK, Holders
<1>5. Stations'
  BY <1>1, <1>2, <1>3 DEF Stations, Holders
<1>6. LookedUp'
  <2>1. ASSUME NEW p \in Packets, pc[p] = "queued", packet[p].addr.mode = "nwk", p \notin stale',
              NEW m, m = packet[p].addr.to
        PROVE  device[p] \in OrNone(Registered(m)')
    <3>1. ChangeHands({nwk[d], n} \ {None})
      BY <1>1, <1>2 DEF ChangeHands, Stations, Packet, Addressed
    <3>2. p \notin stale /\ Registered(m)' = Registered(m)
      BY <1>1, <2>1, <3>1, HandsChanged
    <3> QED
      BY <2>1, <3>2 DEF LookedUp
  <2> QED
    BY <1>1, <1>2, <2>1 DEF LookedUp, Refused, Eui, OrNone
<1>7. Owed'
  <2>1. ASSUME NEW p \in Packets, asked[p] # None, pc[p] = "ready", p \notin moved',
              NEW x, x = packet[p].addr.to
        PROVE  Held(p, x)'.nwk = asked[p].from
    <3>1. packet[p] \in Packet /\ packet[p].addr.mode = "device"
      BY <2>1 DEF Owed, Stations
    <3>2. /\ x \in Nodes /\ x # None
          /\ packet[p].addr = [mode |-> "device", to |-> x]
      BY <2>1, <3>1, NoneAssumption DEF Packet, Addressed
    <3>3. former[p] # None \/ x # d
      BY <1>1, <2>1, <3>2 DEF Holders
    <3>4. p \notin moved /\ Held(p, x).nwk = asked[p].from
      BY <1>1, <2>1 DEF Owed
    <3> QED
      BY <1>1, <3>2, <3>3, <3>4 DEF Held, ObjectOf, TypeOK
  <2> QED
    BY <1>1, <2>1 DEF Owed
<1>8. NoPlaceLost' /\ SecurityKept' /\ AnsweredAsAsked'
  BY <1>1 DEF NoPlaceLost, SecurityKept, AnsweredAsAsked
<1> QED
  BY <1>4, <1>5, <1>6, <1>7, <1>8

\* Whoever holds a device that is removed keeps it as it was.
LEMMA RemovalKeeps ==
  ASSUME Inv, NEW d \in Nodes, DeviceRemoved(d)
  PROVE  Inv'
<1> USE DEF Inv, session, locals
<1>1. /\ d \in devices /\ d # None
      /\ nwk' = [nwk EXCEPT ![d] = None]
      /\ relays' = [relays EXCEPT ![d] = None]
      /\ former' = [p \in Packets |-> IF p \in Holders(d) THEN Held(p, d) ELSE former[p]]
      /\ ChangeHands({nwk[d]})
      /\ UNCHANGED <<session, taken, pc, packet, device, eui, sent, asked, moved>>
  BY NoneAssumption DEF DeviceRemoved
<1>2. devices' = devices \ {d}
  BY <1>1 DEF devices, TypeOK
<1>3. /\ \A p \in Packets : pc[p] # "queued" => (p \in stale' <=> p \in stale)
      /\ stale' \subseteq Packets
  BY <1>1 DEF ChangeHands, TypeOK
<1>4. \A p \in Packets : Held(p, d) \in Object /\ Held(p, d) # None
  BY <1>1, HeldType, NoneAssumption
<1>5. /\ \A p \in Packets : p \in Holders(d) => former'[p] \in Object /\ former'[p] # None
      /\ \A p \in Packets : p \notin Holders(d) => former'[p] = former[p]
      /\ \A p \in Packets : former[p] # None => former'[p] = former[p]
  BY <1>1, <1>4 DEF Held
<1>6. TypeOK'
  <2>1. former' \in [Packets -> Object \cup {None}]
    BY <1>1, <1>4 DEF TypeOK
  <2> QED
    BY <1>1, <1>3, <2>1 DEF TypeOK
<1>7. Stations'
  <2> SUFFICES ASSUME NEW p \in Packets
               PROVE  /\ pc[p] = "idle" => former'[p] = None
                      /\ packet[p] \in Packet /\ packet[p].addr.mode = "device" =>
                           former'[p] # None \/ packet[p].addr.to \in devices'
    BY <1>1, <1>3 DEF Stations
  <2>1. pc[p] = "idle" => former'[p] = None
    BY <1>5 DEF Stations, Holders
  <2>2. ASSUME packet[p] \in Packet, packet[p].addr.mode = "device"
        PROVE  former'[p] # None \/ packet[p].addr.to \in devices'
    <3>1. /\ packet[p].addr = [mode |-> "device", to |-> packet[p].addr.to]
          /\ pc[p] = "ready"
      BY <2>2 DEF Packet, Addressed, Stations
    <3> QED
      BY <1>2, <1>5, <2>2, <3>1 DEF Stations, Holders
  <2> QED
    BY <2>1, <2>2
<1>8. LookedUp'
  <2>1. ASSUME NEW p \in Packets, pc[p] = "queued", packet[p].addr.mode = "nwk", p \notin stale',
              NEW m, m = packet[p].addr.to
        PROVE  device[p] \in OrNone(Registered(m)')
    <3>1. {nwk[d], None} \ {None} = {nwk[d]}
      BY <1>1 DEF devices
    <3>2. p \notin stale /\ Registered(m)' = Registered(m)
      BY <1>1, <2>1, <3>1, HandsChanged
    <3> QED
      BY <2>1, <3>2 DEF LookedUp
  <2>2. ASSUME NEW p \in Packets, pc[p] = "queued"
        PROVE  /\ device[p] = None => former'[p] = None
               /\ device[p] # None => former'[p] # None \/ device[p] \in devices'
    <3>1. CASE device[p] = d
      BY <1>1, <1>5, <2>2, <3>1 DEF Holders
    <3>2. CASE device[p] # d
      <4>1. former'[p] = former[p]
        BY <1>5, <2>2, <3>2 DEF Holders
      <4> QED
        BY <1>2, <2>2, <3>2, <4>1 DEF LookedUp
    <3> QED
      BY <3>1, <3>2
  <2> QED
    BY <1>1, <2>1, <2>2 DEF LookedUp, Refused, Eui, OrNone
<1>9. Owed'
  <2>1. ASSUME NEW p \in Packets, asked[p] # None, pc[p] = "ready", p \notin moved,
              NEW x, x = packet[p].addr.to
        PROVE  Held(p, x)'.nwk = asked[p].from
    <3>1. packet[p] \in Packet /\ packet[p].addr.mode = "device"
      BY <2>1 DEF Owed, Stations
    <3>2. /\ x \in Nodes /\ x # None
          /\ packet[p].addr = [mode |-> "device", to |-> x]
      BY <2>1, <3>1, NoneAssumption DEF Packet, Addressed
    <3>3. Held(p, x).nwk = asked[p].from
      BY <2>1 DEF Owed
    <3>4. CASE x = d
      <4>1. former'[p] = Held(p, d) /\ former'[p] # None
        BY <1>1, <1>4, <2>1, <3>2, <3>4 DEF Holders
      <4> QED
        BY <1>1, <3>3, <3>4, <4>1 DEF Held
    <3>5. CASE x # d
      <4>1. former'[p] = former[p]
        BY <1>5, <2>1, <3>2, <3>5 DEF Holders
      <4> QED
        BY <1>1, <3>2, <3>3, <3>5, <4>1 DEF Held, ObjectOf, TypeOK
    <3> QED
      BY <3>4, <3>5
  <2> QED
    BY <1>1, <2>1 DEF Owed
<1>10. NoPlaceLost' /\ SecurityKept' /\ AnsweredAsAsked'
  BY <1>1 DEF NoPlaceLost, SecurityKept, AnsweredAsAsked
<1> QED
  BY <1>6, <1>7, <1>8, <1>9, <1>10

-----------------------------------------------------------------------------
(* What a request names *)

\* A request made from what was looked up for its packet names one device.
LEMMA RequestNames ==
  ASSUME Inv, NEW pk, NEW o, NEW d, NEW source \in BOOLEAN,
         Sendable(pk, o, d, Eui(pk.addr, d)),
         Request(pk, o, Eui(pk.addr, d), source).kind = "unicast"
  PROVE  LET r == Request(pk, o, Eui(pk.addr, d), source) IN
         /\ r.destination # None \/ r.eui # None
         /\ r.route # StackDecides => r.eui = d /\ d # None /\ OnTheWay(r.route, o)
         /\ r.destination # None =>
              pk.addr.mode = "nwk" /\ r.destination = pk.addr.to /\ r.eui = d
<1> DEFINE e == Eui(pk.addr, d)
           r == Request(pk, o, e, source)
<1>1. pk.addr \in Addressed /\ pk.addr.mode \in {"nwk", "ieee", "group", "broadcast"}
  BY DEF Sendable, Packet, Addressed
<1>2. pk.addr.mode \in {"nwk", "ieee"}
  BY <1>1 DEF Request
<1>3. /\ r.destination = IF pk.addr.mode = "ieee" THEN None ELSE pk.addr.to
      /\ r.eui = e /\ r.route = RouteTo(o, source)
  BY <1>2 DEF Request
<1>4. /\ pk.addr.mode = "nwk" => pk.addr.to \in Addresses /\ e = d
      /\ pk.addr.mode = "ieee" => pk.addr.to \in Nodes /\ e = pk.addr.to
  BY <1>1 DEF Addressed, Eui
<1>5. r.destination # None \/ r.eui # None
  BY <1>2, <1>3, <1>4, NoneAssumption
<1>6. ASSUME r.route # StackDecides PROVE r.eui = d /\ d # None /\ OnTheWay(r.route, o)
  <2>1. o \in Object \cup {None}
    BY DEF Sendable
  <2>2. o \in Object /\ OnTheWay(r.route, o)
    BY <1>3, <1>6, <2>1, RouteType DEF Inv
  <2>3. d # None
    BY <2>2, NoneAssumption DEF Sendable
  <2> QED
    BY <1>2, <1>3, <1>4, <2>2, <2>3 DEF Sendable
<1> QED
  BY <1>2, <1>3, <1>4, <1>5, <1>6

\* The object a packet has of a device when its request is made
AtHand(p, d) == IF pc[p] = "queued" THEN Held(p, d) ELSE ObjectOf(d)

\* A request is only ever made from what was looked up.
LEMMA RequestMade ==
  ASSUME Inv, [Next]_vars, NEW p \in Packets, sent'[p] \notin {None, sent[p]}
  PROVE  \E pk \in Packet, d \in Nodes \cup {None}, source \in BOOLEAN :
           /\ Sendable(pk, AtHand(p, d), d, Eui(pk.addr, d))
           /\ pk.addr.mode = "nwk" /\ p \notin stale => d \in OrNone(Registered(pk.addr.to))
           /\ sent'[p] = Request(pk, AtHand(p, d), Eui(pk.addr, d), source)
<1> DEFINE Made(pk, o, d) == \E source \in BOOLEAN :
                                sent'[p] = Request(pk, o, Eui(pk.addr, d), source)
<1>1. ASSUME NEW q \in Packets, NEW pk, NEW o, NEW d, Sendable(pk, o, d, Eui(pk.addr, d)),
             Hand(q, pk, o, Eui(pk.addr, d))
      PROVE  q = p /\ Made(pk, o, d)
  <2>1. sent \in [Packets -> Message \cup {None}]
    BY DEF Inv, TypeOK
  <2>2. ~End(q)
    BY <2>1 DEF End
  <2>3. PICK source \in BOOLEAN :
          sent' = [sent EXCEPT ![q] = Understood(Build(Request(pk, o, Eui(pk.addr, d), source)))]
    BY <1>1, <2>2 DEF Hand
  <2>4. Request(pk, o, Eui(pk.addr, d), source) \in Message
    BY <1>1, RequestType DEF Inv
  <2>5. sent' = [sent EXCEPT ![q] = Request(pk, o, Eui(pk.addr, d), source)]
    BY <2>3, <2>4, UnderstoodAsBuilt
  <2>6. q = p
    BY <2>1, <2>5
  <2>7. sent'[p] = Request(pk, o, Eui(pk.addr, d), source)
    BY <2>1, <2>5, <2>6
  <2> QED
    BY <2>6, <2>7
<1>2. ASSUME NEW q \in Packets, End(q) PROVE FALSE
  BY <1>2 DEF End, Inv, TypeOK
<1>3. UNCHANGED sent => FALSE
  OBVIOUS
<1>4. PICK q \in Packets : SendPacket(q) \/ Granted(q)
  BY <1>2, <1>3
  DEF Next, vars, locals, Returns, Confirmed, CancelledInQueue, Offer, ReceiveRequest, Connect,
      StartNetwork, HintsExpire, Disconnect, DisconnectEnds, DeviceJoins, HandleRelays,
      DeviceRemoved
<1>5. CASE SendPacket(q)
  <2> DEFINE pk == Argument(q)
  <2>1. pk \in Packet /\ pk.addr.mode # "device"
    BY <1>5, ArgumentType DEF SendPacket
  <2>2. PICK d \in Lookup(pk.addr) :
          ~Refused(pk, Eui(pk.addr, d)) /\ Hand(q, pk, ObjectOf(d), Eui(pk.addr, d))
    BY <1>2, <1>3, <1>5 DEF SendPacket
  <2> HIDE DEF pk
  <2>3. /\ Sendable(pk, ObjectOf(d), d, Eui(pk.addr, d)) /\ d \in Nodes \cup {None}
        /\ pk.addr.mode = "nwk" => d \in OrNone(Registered(pk.addr.to))
    BY <2>1, <2>2, LookupSendable DEF devices
  <2>4. q = p /\ Made(pk, ObjectOf(d), d)
    BY <1>1, <2>2, <2>3
  <2>5. AtHand(p, d) = ObjectOf(d)
    BY <1>5, <2>4 DEF SendPacket, AtHand
  <2> QED
    BY <2>1, <2>3, <2>4, <2>5
<1>6. CASE Granted(q)
  <2> DEFINE o == Held(q, device[q])
  <2>1. /\ Sendable(packet[q], o, device[q], eui[q])
        /\ eui[q] = Eui(packet[q].addr, device[q])
        /\ packet[q].addr.mode = "nwk" /\ q \notin stale =>
             device[q] \in OrNone(Registered(packet[q].addr.to))
    BY <1>6, WaitsSendable DEF Granted, Inv, LookedUp
  <2>2. packet[q] \in Packet /\ device[q] \in Nodes \cup {None}
    BY <2>1 DEF Sendable
  <2>3. Hand(q, packet[q], o, Eui(packet[q].addr, device[q]))
    BY <1>6, <2>1 DEF Granted
  <2> HIDE DEF o
  <2>4. q = p /\ Made(packet[q], o, device[q])
    BY <1>1, <2>1, <2>3
  <2>5. AtHand(p, device[p]) = o
    BY <1>6, <2>4 DEF Granted, AtHand, o
  <2> QED
    BY <2>1, <2>2, <2>4, <2>5
<1> QED
  BY <1>4, <1>5, <1>6

-----------------------------------------------------------------------------
(* The theorems *)

LEMMA InitInv == Init => Inv
<1> SUFFICES ASSUME Init PROVE Inv
  OBVIOUS
<1> USE DEF Init
<1>1. TypeOK
  <2>1. IsFiniteSet(taken) /\ Cardinality(taken) = 0 /\ Cardinality(taken) <= limit
    BY FS_EmptySet, LimitAssumption
  <2> QED
    BY <2>1 DEF TypeOK
<1>2. Stations
  BY NoneAssumption DEF Stations
<1>3. LookedUp /\ Owed
  BY DEF LookedUp, Owed
<1>4. NoPlaceLost /\ SecurityKept /\ AnsweredAsAsked
  BY DEF NoPlaceLost, SecurityKept, AnsweredAsAsked
<1> QED
  BY <1>1, <1>2, <1>3, <1>4 DEF Inv

LEMMA NextInv == Inv /\ [Next]_vars => Inv'
<1> SUFFICES ASSUME Inv, [Next]_vars PROVE Inv'
  OBVIOUS
<1>1. ASSUME NEW p \in Packets, SendPacket(p) PROVE Inv'
  BY <1>1, SendPacketKeeps
<1>2. ASSUME NEW p \in Packets, Granted(p) PROVE Inv'
  BY <1>2, GrantedKeeps
<1>3. ASSUME NEW p \in Packets, Returns(p) \/ CancelledInQueue(p) PROVE Inv'
  BY <1>3, EndKeeps
<1>4. ASSUME NEW p \in Packets, NEW pk \in Offered, Offer(p, pk) PROVE Inv'
  BY <1>4, OfferKeeps
<1>5. ASSUME NEW p \in Packets, NEW n \in Addresses, NEW secured \in BOOLEAN,
             NEW r \in Received, ReceiveRequest(p, n, secured, r)
      PROVE  Inv'
  BY <1>5, ReceiveRequestKeeps
<1>6. CASE \/ Connect \/ StartNetwork \/ HintsExpire \/ Disconnect \/ DisconnectEnds
           \/ \E d \in Nodes, path \in Paths : HandleRelays(d, path)
           \/ UNCHANGED vars
  BY <1>6, SessionKeeps
<1>7. ASSUME NEW d \in Nodes, DeviceRemoved(d) \/ \E n \in Addresses : DeviceJoins(d, n)
      PROVE  Inv'
  BY <1>7, RemovalKeeps, JoinKeeps
<1> QED
  BY <1>1, <1>2, <1>3, <1>4, <1>5, <1>6, <1>7 DEF Next

\* Whatever is sent and however the registry changes, the invariant holds.
THEOREM Invariance == Spec => []Inv
<1> QED
  BY InitInv, NextInv, PTL DEF Spec

\* The variables have their types: no more places are taken than there are.
THEOREM TypeCorrect == Spec => []TypeOK
BY Invariance, PTL DEF Inv

\* No packet loses the encryption it was to have, nor goes encrypted without the EUI64
\* that names the key, for any packets, any devices and any registry.
THEOREM SecurityIsKept == Spec => []SecurityKept
BY Invariance, PTL DEF Inv

\* An answer is secured as its request was, and goes to the address that came from,
\* unless the device took another before the answer was a packet.
THEOREM AnswersAsAsked == Spec => []AnsweredAsAsked
BY Invariance, PTL DEF Inv

\* The places are held by those who are sending, whatever the limit.
THEOREM PlacesAreKept == Spec => []NoPlaceLost
BY Invariance, PTL DEF Inv

\* A unicast names one device, for relays of any number: the hint, a source route or the
\* last of the recorded relays, is the way to the device of its EUI64 though the registry
\* changed during the wait, and the EUI64 that of the address unless this changed hands.
THEOREM OneDeviceNamed == Spec => NamesOneDevice
<1> DEFINE Names(p) ==
             sent'[p] \notin {None, sent[p]} /\ sent'[p].kind = "unicast" =>
               LET r == sent'[p] IN
               /\ r.destination # None \/ r.eui # None
               /\ r.route # StackDecides =>
                    /\ r.eui # None
                    /\ OnTheWay(r.route,
                                IF pc[p] = "queued" THEN Held(p, r.eui) ELSE ObjectOf(r.eui))
               /\ p \notin stale /\ r.destination # None =>
                    r.eui \in OrNone(Registered(r.destination))
<1>1. ASSUME Inv, [Next]_vars, NEW p \in Packets PROVE Names(p)
  <2> SUFFICES ASSUME sent'[p] \notin {None, sent[p]}, sent'[p].kind = "unicast"
               PROVE  Names(p)
    OBVIOUS
  <2>1. PICK pk \in Packet, d \in Nodes \cup {None}, source \in BOOLEAN :
          /\ Sendable(pk, AtHand(p, d), d, Eui(pk.addr, d))
          /\ pk.addr.mode = "nwk" /\ p \notin stale => d \in OrNone(Registered(pk.addr.to))
          /\ sent'[p] = Request(pk, AtHand(p, d), Eui(pk.addr, d), source)
    BY <1>1, RequestMade
  <2> DEFINE r == Request(pk, AtHand(p, d), Eui(pk.addr, d), source)
  <2>2. r.kind = "unicast"
    BY <2>1
  <2>3. /\ r.destination # None \/ r.eui # None
        /\ r.route # StackDecides => r.eui = d /\ d # None /\ OnTheWay(r.route, AtHand(p, d))
        /\ r.destination # None =>
             pk.addr.mode = "nwk" /\ r.destination = pk.addr.to /\ r.eui = d
    BY <1>1, <2>1, <2>2, RequestNames
  <2>4. sent'[p] = r
    BY <2>1
  <2> HIDE DEF r
  <2> QED
    BY <2>1, <2>3, <2>4 DEF AtHand
<1>2. Inv /\ [Next]_vars => [\A p \in Packets : Names(p)]_vars
  BY <1>1
<1> QED
  BY <1>2, Invariance, PTL DEF Spec, NamesOneDevice
=============================================================================
