------------------------------ MODULE Packets -------------------------------
(***************************************************************************)
(* Packets of ControllerApplication (zigbee/application.py): send_packet,  *)
(* whose tasks share a bounded number of places, and the answers to ZDO    *)
(* requests received, which are sent by it too.  The registry of devices   *)
(* changes while packets wait, and the session may go.                     *)
(*                                                                         *)
(* An action is the code a task runs between two awaits.  zigpy keeps the  *)
(* registry and the places; it gives a place that is free to any task that *)
(* waits, of which their priorities choose one.  request_confirmed is that *)
(* of Api, of which only the end is seen here.                             *)
(***************************************************************************)
EXTENDS Naturals, Sequences, FiniteSets

CONSTANTS
  Nodes,          \* the devices, by their EUI64
  Addresses,      \* network addresses
  Routers,        \* addresses of the devices that relay for them
  Groups,         \* addresses of groups
  Everyone,       \* a broadcast address
  Packets,        \* the packets under way: one task of send_packet each
  Offered,        \* what zigpy may ask to send
  FirstLimit,     \* the places before start_network
  MaxConcurrent,  \* _max_concurrent_requests
  Paths,          \* the relays that a device may be reached by
  None            \* no device, no address, no route, no packet

\* A packet to an address, or, being an answer, to a device wherever it is then.
Addressed ==
  [mode : {"nwk"}, to : Addresses] \cup [mode : {"ieee", "device"}, to : Nodes]
    \cup [mode : {"group"}, to : Groups] \cup [mode : {"broadcast"}, to : {Everyone}]
Packet == [addr : Addressed, encrypted : BOOLEAN]

NoAddress == "0xFFFE"
Zeros == "00:00:00:00:00:00:00:00"

\* build_source_route_to of zigpy: relays are recorded from the device to here, and a
\* source route lists them from here to the device.
BuildSourceRoute(path) == [i \in 1..Len(path) |-> path[Len(path) + 1 - i]]

StackDecides == [control |-> "stackDecides", by |-> None]
Route ==
  {StackDecides}
    \cup [control : {"hintNextHop"}, by : Addresses \cup Routers]
    \cup [control : {"hintSourceRoute"}, by : {BuildSourceRoute(path) : path \in Paths}]

\* What zigpy keeps of a device, which whoever looked it up holds on to: should the
\* device be removed and join again, it is another object that the registry has.
Object == [nwk : Addresses, relays : Paths \cup {None}]

\* A request, as the device understands it
Message ==
  [kind : {"unicast", "group", "broadcast"},
   destination : Addresses \cup Groups \cup {Everyone, None}, eui : Nodes \cup {None},
   encrypted : BOOLEAN, route : Route]

ASSUME OfferedAssumption == Offered \subseteq {pk \in Packet : pk.addr.mode # "device"}
ASSUME LimitAssumption ==
  {FirstLimit, MaxConcurrent} \subseteq Nat \ {0} /\ FirstLimit <= MaxConcurrent
ASSUME PathsAssumption == Paths \subseteq Seq(Routers)
ASSUME NoneAssumption ==
  None \notin Nodes \cup Addresses \cup Routers \cup Paths \cup {<<>>} \cup Packet \cup Message
            \cup Object
ASSUME NoAddressAssumption == NoAddress \notin Addresses \cup Groups \cup {Everyone}

VARIABLES
  nwk,        \* the registry: nwk of each device it has, None of others
  relays,     \* relays of each device
  served,     \* _register_coordinator_device and register_endpoints were called
  api,        \* self._api is not None
  startTime,  \* _start_time: None, within ROUTE_HINT_DURATION, or before
  limit,      \* max_concurrency of the semaphore
  taken,      \* those who hold a place
  pc,         \* where each send_packet stands
  packet,     \* its argument
  device,     \* the device it looked up
  former,     \* the object it holds, if that is no longer the registry's
  eui,        \* destination_eui64
  sent,       \* the request it gave to request_confirmed
  (* Observation: what happened, never read by the code *)
  asked,      \* the request that a packet answers: who from, and whether encrypted
  moved,      \* the answers whose device took another address before they were packets
  stale       \* those that waited for a place while their address changed hands

registry == <<nwk, relays>>
session == <<served, api, startTime, limit>>
locals == <<packet, device, former, eui, sent>>
history == <<asked, moved, stale>>

vars == <<registry, session, taken, pc, locals, history>>

devices == {d \in Nodes : nwk[d] # None}

TypeOK ==
  /\ nwk \in [Nodes -> Addresses \cup {None}]
  /\ relays \in [Nodes -> Paths \cup {None}]
  /\ {served, api} \subseteq BOOLEAN /\ startTime \in {"none", "recent", "past"}
  /\ limit \in {FirstLimit, MaxConcurrent}
  /\ taken \subseteq Packets /\ IsFiniteSet(taken) /\ Cardinality(taken) <= limit
  /\ pc \in [Packets -> {"idle", "ready", "queued", "sending"}]
  /\ packet \in [Packets -> Packet \cup {None}]
  /\ device \in [Packets -> Nodes \cup {None}] /\ eui \in [Packets -> Nodes \cup {None}]
  /\ former \in [Packets -> Object \cup {None}]
  /\ sent \in [Packets -> Message \cup {None}]
  /\ asked \in [Packets -> [from : Addresses, secured : BOOLEAN] \cup {None}]
  /\ moved \subseteq Packets /\ stale \subseteq Packets

-----------------------------------------------------------------------------
(* send_packet *)

\* Those whom get_device may find by an address: out of date, it may be of two.
Registered(n) == {d \in devices : nwk[d] = n}

\* A device as the registry has it
ObjectOf(d) == IF d = None THEN None ELSE [nwk |-> nwk[d], relays |-> relays[d]]

\* A device that a packet was given or looked up, as the packet has it
Held(p, d) == IF former[p] = None THEN ObjectOf(d) ELSE former[p]

OrNone(found) == IF found = {} THEN {None} ELSE found

\* get_device_with_address: a group and a broadcast address have no device.
Lookup(addr) ==
  CASE addr.mode = "nwk"  -> OrNone(Registered(addr.to))
    [] addr.mode = "ieee" -> OrNone({addr.to} \cap devices)
    [] OTHER -> {None}

\* destination_eui64
Eui(addr, d) == IF addr.mode = "ieee" THEN addr.to ELSE d

\* Mutant: what cannot be encrypted is let through.
RefusedNever(pk, e) == FALSE

\* "Cannot send an encrypted packet without a destination EUI64"
Refused(pk, e) == pk.encrypted /\ e = None

\* Mutant: the relays are taken in the order they were recorded in.
RouteToAsRecorded(o, source) ==
  IF o = None \/ startTime = "past" THEN StackDecides
  ELSE CASE o.relays = None -> StackDecides
         [] o.relays = <<>> -> [control |-> "hintNextHop", by |-> o.nwk]
         [] OTHER -> [control |-> "hintNextHop", by |-> Head(o.relays)]

\* The route hint for a device, within the startup period; source is whether routes go
\* to the device whole, CONF_SOURCE_ROUTING.
RouteTo(o, source) ==
  IF o = None \/ startTime = "past" THEN StackDecides
  ELSE CASE o.relays = None -> StackDecides
         [] o.relays = <<>> -> [control |-> "hintNextHop", by |-> o.nwk]
         [] OTHER -> LET maybe_relays == BuildSourceRoute(o.relays) IN
                     IF source THEN [control |-> "hintSourceRoute", by |-> maybe_relays]
                               ELSE [control |-> "hintNextHop", by |-> maybe_relays[1]]

\* What is to be sent: a groupcast, a broadcast or a unicast.  An EUI64 goes without
\* an address.
Request(pk, o, e, source) ==
  IF pk.addr.mode \in {"group", "broadcast"}
  THEN [kind |-> pk.addr.mode, destination |-> pk.addr.to, eui |-> None,
        encrypted |-> FALSE, route |-> StackDecides]
  ELSE [kind |-> "unicast", destination |-> IF pk.addr.mode = "ieee" THEN None ELSE pk.addr.to,
        eui |-> e, encrypted |-> pk.encrypted, route |-> RouteTo(o, source)]

\* The payload: a flag says whether the EUI64 counts, a reserved address that there is
\* none, and the route which of the last fields are there at all.
Payload(r, has) ==
  [kind |-> r.kind, has_eui64 |-> has, aps_encryption |-> r.encrypted,
   destination |-> IF r.destination = None THEN NoAddress ELSE r.destination,
   destination_eui64 |-> IF r.eui = None THEN Zeros ELSE r.eui, route |-> r.route.control,
   next_hop |-> IF r.route.control = "hintNextHop" THEN r.route.by ELSE None,
   relays |-> IF r.route.control = "hintSourceRoute" THEN r.route.by ELSE None]

\* SendUnicastPayload.build and the constructors of the other two
Build(r) == Payload(r, r.eui # None)

\* What the device makes of it
Understood(m) ==
  [kind |-> m.kind, destination |-> IF m.destination = NoAddress THEN None ELSE m.destination,
   eui |-> IF m.has_eui64 THEN m.destination_eui64 ELSE None, encrypted |-> m.aps_encryption,
   route |-> [control |-> m.route, by |-> IF m.next_hop # None THEN m.next_hop ELSE m.relays]]

\* Mutant: the bound is one off.
PlaceLeftAtLimit == Cardinality(taken) <= limit

PlaceLeft == Cardinality(taken) < limit

\* What was looked up is not used any more.
Forget(p) ==
  /\ device' = [device EXCEPT ![p] = None]
  /\ former' = [former EXCEPT ![p] = None]
  /\ eui' = [eui EXCEPT ![p] = None]

\* The coroutine returns or raises.
End(p) ==
  /\ pc' = [pc EXCEPT ![p] = "idle"]
  /\ packet' = [packet EXCEPT ![p] = None]
  /\ Forget(p)
  /\ sent' = [sent EXCEPT ![p] = None]
  /\ asked' = [asked EXCEPT ![p] = None]
  /\ moved' = moved \ {p}
  /\ stale' = stale \ {p}

\* With a place, the request is made and given to self._api, under either configuration.
\* If that is None by now, AttributeError is raised and the place given back.
Hand(p, pk, o, e) ==
  IF api THEN /\ \E source \in BOOLEAN :
                   sent' = [sent EXCEPT ![p] = Understood(Build(Request(pk, o, e, source)))]
              /\ pc' = [pc EXCEPT ![p] = "sending"]
              /\ packet' = [packet EXCEPT ![p] = pk]
              /\ taken' = taken \cup {p}
              /\ Forget(p) /\ stale' = stale \ {p}
              /\ UNCHANGED <<asked, moved>>
         ELSE End(p) /\ UNCHANGED taken

\* The argument, as zigpy makes it when the task runs
Argument(p) ==
  LET pk == packet[p] IN
  IF pk.addr.mode = "device"
  THEN [pk EXCEPT !.addr = [mode |-> "nwk", to |-> Held(p, pk.addr.to).nwk]]
  ELSE pk

\* The task runs, up to the place: it raises, has a place at once, or waits for one.
SendPacket(p) ==
  /\ pc[p] = "ready"
  /\ LET pk == Argument(p) IN
     \E d \in Lookup(pk.addr) :
       LET e == Eui(pk.addr, d) IN
       \/ (Refused(pk, e) \/ ~api) /\ End(p) /\ UNCHANGED taken
       \/ ~Refused(pk, e) /\ api /\ PlaceLeft /\ Hand(p, pk, ObjectOf(d), e)
       \/ /\ ~Refused(pk, e) /\ api /\ ~PlaceLeft
          /\ pc' = [pc EXCEPT ![p] = "queued"]
          /\ packet' = [packet EXCEPT ![p] = pk]
          /\ device' = [device EXCEPT ![p] = d]
          /\ former' = [former EXCEPT ![p] = None]
          /\ eui' = [eui EXCEPT ![p] = e]
          /\ UNCHANGED <<taken, sent, history>>
  /\ UNCHANGED <<registry, session>>

\* Its turn has come.
Granted(p) ==
  /\ pc[p] = "queued" /\ PlaceLeft
  /\ Hand(p, packet[p], Held(p, device[p]), eui[p])
  /\ UNCHANGED <<registry, session>>

\* Mutant: only a send that succeeds gives back its place.
ReleaseOnSuccess(p, out) == IF out = "ok" THEN taken \ {p} ELSE taken

\* async with: the place is given back on every way out.
Release(p, out) == taken \ {p}

\* request_confirmed returns or raises.
Confirmed(p, out) ==
  /\ pc[p] = "sending"
  /\ End(p)
  /\ taken' = Release(p, out)
  /\ UNCHANGED <<registry, session>>

\* The task is cancelled while it waits for a place.
CancelledInQueue(p) ==
  /\ pc[p] = "queued"
  /\ End(p)
  /\ UNCHANGED <<registry, session, taken>>

\* zigpy starts a task that sends a packet.
Offer(p, pk) ==
  /\ pc[p] = "idle"
  /\ pc' = [pc EXCEPT ![p] = "ready"]
  /\ packet' = [packet EXCEPT ![p] = pk]
  /\ UNCHANGED <<registry, session, taken, device, former, eui, sent, history>>

-----------------------------------------------------------------------------
(* ZDO requests received *)

\* Mutant: the answer goes out as any other packet.
AnswerPlain(d, secured) == [addr |-> [mode |-> "device", to |-> d], encrypted |-> FALSE]

\* The answer goes to the device found, with the APS security of the request.
Answer(d, secured) == [addr |-> [mode |-> "device", to |-> d], encrypted |-> secured]

\* A ZDO request: what it asks for, and whether of this node and an endpoint it has.
Received ==
  [command : {"nodeDesc", "activeEp", "another"}, aboutUs : BOOLEAN]
    \cup [command : {"simpleDesc"}, aboutUs : BOOLEAN, ours : BOOLEAN]

\* packet_received and _maybe_handle_local_zdo_request answer it themselves.
Answerable(r) ==
  /\ r.command # "another" /\ r.aboutUs
  /\ r.command = "simpleDesc" => r.ours

\* ReceivedAps with a request from address n: zigpy starts a task that sends the
\* answer.  Nothing comes of it if n is not registered; and before this node is, the
\* search for it raises KeyError.
ReceiveRequest(p, n, secured, r) ==
  /\ pc[p] = "idle"
  /\ served /\ Answerable(r)
  /\ \E d \in Registered(n) : packet' = [packet EXCEPT ![p] = Answer(d, secured)]
  /\ pc' = [pc EXCEPT ![p] = "ready"]
  /\ asked' = [asked EXCEPT ![p] = [from |-> n, secured |-> secured]]
  /\ UNCHANGED <<registry, session, taken, device, former, eui, sent, moved, stale>>

-----------------------------------------------------------------------------
(* The session *)

Connect ==
  /\ ~api
  /\ api' = TRUE
  /\ UNCHANGED <<registry, served, startTime, limit, taken, pc, locals, history>>

\* The end of start_network
StartNetwork ==
  /\ api
  /\ limit' = MaxConcurrent
  /\ startTime' = "recent"
  /\ served' = TRUE
  /\ UNCHANGED <<registry, api, taken, pc, locals, history>>

HintsExpire ==
  /\ startTime = "recent"
  /\ startTime' = "past"
  /\ UNCHANGED <<registry, served, api, limit, taken, pc, locals, history>>

\* disconnect, up to its await ...
Disconnect ==
  /\ startTime # "none"
  /\ startTime' = "none"
  /\ UNCHANGED <<registry, served, api, limit, taken, pc, locals, history>>

\* ... and from there on
DisconnectEnds ==
  /\ api /\ startTime = "none"
  /\ api' = FALSE
  /\ UNCHANGED <<registry, served, startTime, limit, taken, pc, locals, history>>

-----------------------------------------------------------------------------
(* The registry *)

\* The packets that hold a device: answers to it, and those that looked it up
Holders(d) ==
  {p \in Packets : \/ pc[p] = "ready" /\ packet[p].addr = [mode |-> "device", to |-> d]
                   \/ pc[p] = "queued" /\ device[p] = d}

\* Observation: the addresses are no longer, or not only, of the device they were of.
ChangeHands(addresses) ==
  stale' = stale \cup {p \in Packets : /\ pc[p] = "queued" /\ packet[p].addr.mode = "nwk"
                                       /\ packet[p].addr.to \in addresses}

\* A device is known for the first time or again, or at another address.
DeviceJoins(d, n) ==
  /\ nwk[d] # n
  /\ nwk' = [nwk EXCEPT ![d] = n]
  /\ ChangeHands({nwk[d], n})
  /\ moved' = moved \cup {p \in Holders(d) : pc[p] = "ready" /\ former[p] = None}
  /\ UNCHANGED <<relays, session, taken, pc, locals, asked>>

\* A device is removed: whoever holds it keeps it as it was.
DeviceRemoved(d) ==
  /\ d \in devices
  /\ nwk' = [nwk EXCEPT ![d] = None]
  /\ relays' = [relays EXCEPT ![d] = None]
  /\ former' = [p \in Packets |-> IF p \in Holders(d) THEN Held(p, d) ELSE former[p]]
  /\ ChangeHands({nwk[d]})
  /\ UNCHANGED <<session, taken, pc, packet, device, eui, sent, asked, moved>>

\* RouteRecord
HandleRelays(d, path) ==
  /\ d \in devices
  /\ relays' = [relays EXCEPT ![d] = path]
  /\ UNCHANGED <<nwk, session, taken, pc, locals, history>>

-----------------------------------------------------------------------------

Init ==
  /\ nwk = [d \in Nodes |-> None] /\ relays = [d \in Nodes |-> None]
  /\ served = FALSE
  /\ api = FALSE /\ startTime = "none" /\ limit = FirstLimit
  /\ taken = {}
  /\ pc = [p \in Packets |-> "idle"] /\ packet = [p \in Packets |-> None]
  /\ device = [p \in Packets |-> None] /\ eui = [p \in Packets |-> None]
  /\ former = [p \in Packets |-> None] /\ sent = [p \in Packets |-> None]
  /\ asked = [p \in Packets |-> None] /\ moved = {} /\ stale = {}

Returns(p) == \E out \in {"ok", "failed"} : Confirmed(p, out)

Next ==
  \/ \E p \in Packets :
       \/ SendPacket(p) \/ Granted(p) \/ Returns(p) \/ CancelledInQueue(p)
       \/ \E pk \in Offered : Offer(p, pk)
       \/ \E n \in Addresses, secured \in BOOLEAN, r \in Received : ReceiveRequest(p, n, secured, r)
  \/ Connect \/ StartNetwork \/ HintsExpire \/ Disconnect \/ DisconnectEnds
  \/ \E d \in Nodes :
       \/ \E n \in Addresses : DeviceJoins(d, n)
       \/ \E path \in Paths : HandleRelays(d, path)
       \/ DeviceRemoved(d)

Spec == Init /\ [][Next]_vars

-----------------------------------------------------------------------------
(* Properties *)

\* A hint for an object: its recorded relays, the last of which is this node's neighbour
\* and the first the device's, or the device itself for want of any.
OnTheWay(route, o) ==
  LET hops == Len(o.relays) IN
  /\ o.relays # None
  /\ route.control = "hintNextHop" =>
       route.by = IF o.relays = <<>> THEN o.nwk ELSE o.relays[hops]
  /\ route.control = "hintSourceRoute" =>
       /\ hops # 0 /\ Len(route.by) = hops
       /\ \A i \in 1..hops : route.by[i] = o.relays[hops + 1 - i]

\* A unicast names its destination, and what it names is one device.  The hint, which is
\* read after the wait for a place, is the way to the device of the EUI64, which was
\* looked up before it, whatever became of the registry meanwhile: the way there is now,
\* or was when the device was removed during the wait.  And the EUI64 is that of the
\* address, unless the address passed from or to a device during the wait.
\* (send_packet 843-855, 899-923.)
NamesOneDevice ==
  [][\A p \in Packets :
       sent'[p] \notin {None, sent[p]} /\ sent'[p].kind = "unicast" =>
         LET r == sent'[p] IN
         /\ r.destination # None \/ r.eui # None
         /\ r.route # StackDecides =>
              /\ r.eui # None
              /\ OnTheWay(r.route, IF pc[p] = "queued" THEN Held(p, r.eui) ELSE ObjectOf(r.eui))
         /\ p \notin stale /\ r.destination # None =>
              r.eui \in OrNone(Registered(r.destination))]_vars

\* No packet that is to be encrypted is sent in the clear, or without the EUI64 that
\* names its key, though its device may leave while it waits.
\* (send_packet 857-863, 925-930.)
SecurityKept ==
  \A p \in Packets :
    sent[p] # None => /\ sent[p].encrypted = packet[p].encrypted
                      /\ sent[p].encrypted => sent[p].eui # None

\* application.py:621 "Answer with the same APS security the request arrived with":
\* so it is, after the wait for a place too, and to the address the request came from,
\* though the device be removed, or move once its answer waits; if it took another address
\* before, that one.  (_maybe_handle_local_zdo_request 589-681.)
AnsweredAsAsked ==
  \A p \in Packets :
    sent[p] # None /\ asked[p] # None =>
      /\ sent[p].encrypted = asked[p].secured
      /\ p \notin moved => sent[p].destination = asked[p].from

\* A place is held by those who are sending and by nobody else: however a send ends,
\* also by the AttributeError of a session that is gone, no place is lost, and none
\* is left to a packet that waits.  (async with 874-945.)
NoPlaceLost == taken = {p \in Packets : pc[p] = "sending"}
=============================================================================
