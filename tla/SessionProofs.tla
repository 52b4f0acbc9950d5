--------------------------- MODULE SessionProofs ----------------------------
(***************************************************************************)
(* What holds of Session for any number of attempts, over either medium.   *)
(***************************************************************************)
EXTENDS Session, TLAPS

\* Nothing precedes its stage: no port before it is open, no receiver and no
\* self._api before the transport is adopted.  One attempt is open to the first
\* awaits of connect() at a time, and only while there is no self._api.
Stages ==
  \A a \in Attempts :
    /\ pc[a] \in {"idle", "opening"} => port[a] = "none"
    /\ pc[a] \in {"idle", "opening", "probing"} => receiver[a] = "none" /\ app # a
    /\ pc[a] \in {"opening", "probing"} =>
         /\ app = None
         /\ \A b \in Attempts \ {a} : pc[b] \notin {"opening", "probing"}

\* What only one of the media has.
Fitting ==
  /\ \A a \in Attempts :
       /\ Medium[a] = "serial" => client[a] = "none" /\ receiver[a] = "none"
       /\ Medium[a] = "websocket" => port[a] # "closing"
  /\ closer = "client" => Medium[app] = "websocket" /\ port[app] = "closed"

\* The loss of a link is told when its receiver is over or its driver is done.
Told ==
  \A a \in Attempts :
    /\ Medium[a] = "websocket" => losses[a] = IF receiver[a] = "over" THEN 1 ELSE 0
    /\ Medium[a] = "serial" => losses[a] = IF port[a] \in {"dead", "closed"} THEN 1 ELSE 0

\* Whose resources and whose callbacks are whose.
Owned ==
  \A a \in Attempts :
    /\ port[a] = "open" \/ client[a] = "open" =>
         app = a \/ pc[a] \in {"opening", "probing"} \/ left[a] # "none"
    /\ port[a] = "closing" => closing[a] /\ (app = a \/ left[a] # "none")
    /\ receiver[a] \in {"new", "running"} => app = a /\ closer = "none"
    /\ receiver[a] = "cancelled" => closing[a]

Inv == TypeOK /\ Stages /\ Fitting /\ Told /\ Owned

-----------------------------------------------------------------------------
(* The invariant *)

LEMMA ConnectionLostType ==
  ASSUME TypeOK, NEW a \in Attempts, ConnectionLost(a)
  PROVE  /\ req' \in [Attempts -> {"none", "pending", "ok", "lost"}]
         /\ closing' \in [Attempts -> BOOLEAN] /\ reports' \in [Attempts -> Nat]
BY DEF TypeOK, ConnectionLost

LEMMA LostType ==
  ASSUME TypeOK
  PROVE  \A a \in Attempts :
           Lost(a) => /\ req' \in [Attempts -> {"none", "pending", "ok", "lost"}]
                      /\ closing' \in [Attempts -> BOOLEAN]
                      /\ reports' \in [Attempts -> Nat] /\ losses' \in [Attempts -> Nat]
BY ConnectionLostType DEF TypeOK, Lost

LEMMA NextTypeOK == TypeOK /\ [Next]_vars => TypeOK'
<1> SUFFICES ASSUME TypeOK, [Next]_vars PROVE TypeOK'
  OBVIOUS
<1> USE DEF objects, resources, history
<1>1. ASSUME NEW a \in Attempts, Connect(a) PROVE TypeOK'
  BY <1>1 DEF TypeOK, Connecting, Connect
<1>2. ASSUME NEW a \in Attempts, Opened(a) PROVE TypeOK'
  BY <1>2 DEF TypeOK, Connecting, Opened
<1>3. ASSUME NEW a \in Attempts, ProbeRejected(a) PROVE TypeOK'
  BY <1>3 DEF TypeOK, Connecting, ProbeRejected
<1>4. ASSUME NEW a \in Attempts, Adopt(a) PROVE TypeOK'
  <2>1. receiver' \in [Attempts -> {"none", "new", "running", "cancelled", "over", "stillborn"}]
    BY <1>4 DEF TypeOK, Adopt
  <2>2. /\ req' \in [Attempts -> {"none", "pending", "ok", "lost"}]
        /\ pc' \in [Attempts -> Connecting \cup {"idle", "connected", "failed"}]
    BY <1>4 DEF TypeOK, Connecting, Adopt
  <2> QED
    BY <1>4, <2>1, <2>2, NoAttemptAssumption DEF TypeOK, Adopt
<1>5. ASSUME NEW a \in Attempts, ResetEnds(a) PROVE TypeOK'
  BY <1>5 DEF TypeOK, Connecting, ResetEnds
<1>6. ASSUME NEW a \in Attempts, Raises(a) PROVE TypeOK'
  BY <1>6 DEF TypeOK, Connecting, Raises
<1>7. ASSUME NEW a \in Attempts, PortDies(a) PROVE TypeOK'
  BY <1>7, LostType DEF TypeOK, PortDies
<1>8. ASSUME NEW a \in Attempts, DriverCloses(a) PROVE TypeOK'
  BY <1>8, LostType DEF TypeOK, DriverCloses
<1>9. ASSUME NEW a \in Attempts, ReceiverStarts(a) PROVE TypeOK'
  BY <1>9 DEF TypeOK, Connecting, ReceiverStarts
<1>10. ASSUME NEW a \in Attempts, ReceiverEnds(a) PROVE TypeOK'
  BY <1>10, LostType DEF TypeOK, ReceiverEnds
<1>11. ASSUME NEW a \in Attempts, ReceiverCancelled(a) PROVE TypeOK'
  BY <1>11, LostType DEF TypeOK, ReceiverCancelled
<1>12. ASSUME NEW a \in Attempts, NEW what \in {"response", "hello", "other"}, Frame(a, what)
      PROVE  TypeOK'
  <2>1. frames' \in [Attempts -> 0 .. MaxFrames]
    BY <1>12, MaxFramesAssumption DEF TypeOK, Frame
  <2>2. /\ req' \in [Attempts -> {"none", "pending", "ok", "lost"}]
        /\ closing' \in [Attempts -> BOOLEAN] /\ reports' \in [Attempts -> Nat]
    <3>1. CASE ConnectionLost(a)
      BY <3>1, ConnectionLostType
    <3>2. CASE ~ConnectionLost(a)
      BY <1>12, <3>2 DEF TypeOK, Frame
    <3> QED
      BY <3>1, <3>2
  <2> QED
    BY <1>12, <2>1, <2>2 DEF TypeOK, Frame
<1>13. CASE Disconnect
  BY <1>13 DEF TypeOK, Connecting, Disconnect, Cancelled
<1>14. CASE PortCloses
  BY <1>14 DEF TypeOK, Connecting, PortCloses
<1>15. CASE ClientCloses
  BY <1>15 DEF TypeOK, Connecting, ClientCloses
<1>16. CASE DisconnectRaises
  BY <1>16 DEF TypeOK, Connecting, DisconnectRaises
<1>17. CASE UNCHANGED vars
  BY <1>17 DEF TypeOK, Connecting, vars
<1> QED
  BY <1>1, <1>2, <1>3, <1>4, <1>5, <1>6, <1>7, <1>8, <1>9, <1>10, <1>11, <1>12, <1>13, <1>14, <1>15, <1>16, <1>17
  DEF Next, Receive

LEMMA NextStages == (TypeOK /\ Stages) /\ [Next]_vars => Stages'
<1> SUFFICES ASSUME (TypeOK /\ Stages), [Next]_vars PROVE Stages'
  OBVIOUS
<1> USE DEF objects, resources, history
<1>1. ASSUME NEW a \in Attempts, Connect(a) PROVE Stages'
  BY <1>1, NoAttemptAssumption DEF TypeOK, Connecting, Stages, Connect
<1>2. ASSUME NEW a \in Attempts, Opened(a) PROVE Stages'
  BY <1>2, NoAttemptAssumption DEF TypeOK, Connecting, Stages, Opened
<1>3. ASSUME NEW a \in Attempts, ProbeRejected(a) PROVE Stages'
  BY <1>3, NoAttemptAssumption DEF TypeOK, Connecting, Stages, ProbeRejected
<1>4. ASSUME NEW a \in Attempts, Adopt(a) PROVE Stages'
  BY <1>4, NoAttemptAssumption DEF TypeOK, Connecting, Stages, Adopt
<1>5. ASSUME NEW a \in Attempts, ResetEnds(a) PROVE Stages'
  BY <1>5, NoAttemptAssumption DEF TypeOK, Connecting, Stages, ResetEnds
<1>6. ASSUME NEW a \in Attempts, Raises(a) PROVE Stages'
  BY <1>6, NoAttemptAssumption DEF TypeOK, Connecting, Stages, Raises
<1>7. ASSUME NEW a \in Attempts, PortDies(a) PROVE Stages'
  BY <1>7, NoAttemptAssumption DEF TypeOK, Connecting, Stages, PortDies, Lost, ConnectionLost
<1>8. ASSUME NEW a \in Attempts, DriverCloses(a) PROVE Stages'
  BY <1>8, NoAttemptAssumption DEF TypeOK, Connecting, Stages, DriverCloses, Lost, ConnectionLost
<1>9. ASSUME NEW a \in Attempts, ReceiverStarts(a) PROVE Stages'
  BY <1>9, NoAttemptAssumption DEF TypeOK, Connecting, Stages, ReceiverStarts
<1>10. ASSUME NEW a \in Attempts, ReceiverEnds(a) PROVE Stages'
  BY <1>10, NoAttemptAssumption DEF TypeOK, Connecting, Stages, ReceiverEnds, Lost, ConnectionLost
<1>11. ASSUME NEW a \in Attempts, ReceiverCancelled(a) PROVE Stages'
  BY <1>11, NoAttemptAssumption DEF TypeOK, Connecting, Stages, ReceiverCancelled, Lost, ConnectionLost
<1>12. ASSUME NEW a \in Attempts, NEW what \in {"response", "hello", "other"}, Frame(a, what)
      PROVE  Stages'
  BY <1>12, NoAttemptAssumption DEF TypeOK, Connecting, Stages, Frame, Listening, ConnectionLost
<1>13. CASE Disconnect
  BY <1>13, NoAttemptAssumption DEF TypeOK, Connecting, Stages, Disconnect, Cancelled
<1>14. CASE PortCloses
  BY <1>14, NoAttemptAssumption DEF TypeOK, Connecting, Stages, PortCloses
<1>15. CASE ClientCloses
  BY <1>15, NoAttemptAssumption DEF TypeOK, Connecting, Stages, ClientCloses
<1>16. CASE DisconnectRaises
  BY <1>16, NoAttemptAssumption DEF TypeOK, Connecting, Stages, DisconnectRaises
<1>17. CASE UNCHANGED vars
  BY <1>17 DEF TypeOK, Connecting, Stages, vars
<1> QED
  BY <1>1, <1>2, <1>3, <1>4, <1>5, <1>6, <1>7, <1>8, <1>9, <1>10, <1>11, <1>12, <1>13, <1>14, <1>15, <1>16, <1>17
  DEF Next, Receive

LEMMA NextFitting == (TypeOK /\ Stages /\ Fitting) /\ [Next]_vars => Fitting'
<1> SUFFICES ASSUME (TypeOK /\ Stages /\ Fitting), [Next]_vars PROVE Fitting'
  OBVIOUS
<1> USE DEF objects, resources, history
<1>1. ASSUME NEW a \in Attempts, Connect(a) PROVE Fitting'
  BY <1>1, MediumAssumption, NoAttemptAssumption DEF TypeOK, Connecting, Stages, Fitting, Connect
<1>2. ASSUME NEW a \in Attempts, Opened(a) PROVE Fitting'
  BY <1>2, MediumAssumption, NoAttemptAssumption DEF TypeOK, Connecting, Stages, Fitting, Opened
<1>3. ASSUME NEW a \in Attempts, ProbeRejected(a) PROVE Fitting'
  BY <1>3, MediumAssumption, NoAttemptAssumption DEF TypeOK, Connecting, Stages, Fitting, ProbeRejected
<1>4. ASSUME NEW a \in Attempts, Adopt(a) PROVE Fitting'
  BY <1>4, MediumAssumption, NoAttemptAssumption DEF TypeOK, Connecting, Stages, Fitting, Adopt
<1>5. ASSUME NEW a \in Attempts, ResetEnds(a) PROVE Fitting'
  BY <1>5, MediumAssumption, NoAttemptAssumption DEF TypeOK, Connecting, Stages, Fitting, ResetEnds
<1>6. ASSUME NEW a \in Attempts, Raises(a) PROVE Fitting'
  BY <1>6, MediumAssumption, NoAttemptAssumption DEF TypeOK, Connecting, Stages, Fitting, Raises
<1>7. ASSUME NEW a \in Attempts, PortDies(a) PROVE Fitting'
  BY <1>7, MediumAssumption, NoAttemptAssumption DEF TypeOK, Connecting, Stages, Fitting, PortDies, Lost, ConnectionLost
<1>8. ASSUME NEW a \in Attempts, DriverCloses(a) PROVE Fitting'
  BY <1>8, MediumAssumption, NoAttemptAssumption DEF TypeOK, Connecting, Stages, Fitting, DriverCloses, Lost, ConnectionLost
<1>9. ASSUME NEW a \in Attempts, ReceiverStarts(a) PROVE Fitting'
  BY <1>9, MediumAssumption, NoAttemptAssumption DEF TypeOK, Connecting, Stages, Fitting, ReceiverStarts
<1>10. ASSUME NEW a \in Attempts, ReceiverEnds(a) PROVE Fitting'
  BY <1>10, MediumAssumption, NoAttemptAssumption DEF TypeOK, Connecting, Stages, Fitting, ReceiverEnds, Lost, ConnectionLost
<1>11. ASSUME NEW a \in Attempts, ReceiverCancelled(a) PROVE Fitting'
  BY <1>11, MediumAssumption, NoAttemptAssumption DEF TypeOK, Connecting, Stages, Fitting, ReceiverCancelled, Lost, ConnectionLost
<1>12. ASSUME NEW a \in Attempts, NEW what \in {"response", "hello", "other"}, Frame(a, what)
      PROVE  Fitting'
  BY <1>12, MediumAssumption, NoAttemptAssumption DEF TypeOK, Connecting, Stages, Fitting, Frame, Listening, ConnectionLost
<1>13. CASE Disconnect
  BY <1>13, MediumAssumption, NoAttemptAssumption DEF TypeOK, Connecting, Stages, Fitting, Disconnect, Cancelled
<1>14. CASE PortCloses
  BY <1>14, MediumAssumption, NoAttemptAssumption DEF TypeOK, Connecting, Stages, Fitting, PortCloses
<1>15. CASE ClientCloses
  BY <1>15, MediumAssumption, NoAttemptAssumption DEF TypeOK, Connecting, Stages, Fitting, ClientCloses
<1>16. CASE DisconnectRaises
  BY <1>16, MediumAssumption, NoAttemptAssumption DEF TypeOK, Connecting, Stages, Fitting, DisconnectRaises
<1>17. CASE UNCHANGED vars
  BY <1>17 DEF TypeOK, Connecting, Stages, Fitting, vars
<1> QED
  BY <1>1, <1>2, <1>3, <1>4, <1>5, <1>6, <1>7, <1>8, <1>9, <1>10, <1>11, <1>12, <1>13, <1>14, <1>15, <1>16, <1>17
  DEF Next, Receive

LEMMA NextTold == (TypeOK /\ Stages /\ Fitting /\ Told) /\ [Next]_vars => Told'
<1> SUFFICES ASSUME (TypeOK /\ Stages /\ Fitting /\ Told), [Next]_vars PROVE Told'
  OBVIOUS
<1> USE DEF objects, resources, history
<1>1. ASSUME NEW a \in Attempts, Connect(a) PROVE Told'
  BY <1>1, MediumAssumption, NoAttemptAssumption DEF TypeOK, Connecting, Stages, Fitting, Told, Connect
<1>2. ASSUME NEW a \in Attempts, Opened(a) PROVE Told'
  BY <1>2, MediumAssumption, NoAttemptAssumption DEF TypeOK, Connecting, Stages, Fitting, Told, Opened
<1>3. ASSUME NEW a \in Attempts, ProbeRejected(a) PROVE Told'
  BY <1>3, MediumAssumption, NoAttemptAssumption DEF TypeOK, Connecting, Stages, Fitting, Told, ProbeRejected
<1>4. ASSUME NEW a \in Attempts, Adopt(a) PROVE Told'
  BY <1>4, MediumAssumption, NoAttemptAssumption DEF TypeOK, Connecting, Stages, Fitting, Told, Adopt
<1>5. ASSUME NEW a \in Attempts, ResetEnds(a) PROVE Told'
  BY <1>5, MediumAssumption, NoAttemptAssumption DEF TypeOK, Connecting, Stages, Fitting, Told, ResetEnds
<1>6. ASSUME NEW a \in Attempts, Raises(a) PROVE Told'
  BY <1>6, MediumAssumption, NoAttemptAssumption DEF TypeOK, Connecting, Stages, Fitting, Told, Raises
<1>7. ASSUME NEW a \in Attempts, PortDies(a) PROVE Told'
  BY <1>7, MediumAssumption, NoAttemptAssumption DEF TypeOK, Connecting, Stages, Fitting, Told, PortDies, Lost, ConnectionLost
<1>8. ASSUME NEW a \in Attempts, DriverCloses(a) PROVE Told'
  BY <1>8, MediumAssumption, NoAttemptAssumption DEF TypeOK, Connecting, Stages, Fitting, Told, DriverCloses, Lost, ConnectionLost
<1>9. ASSUME NEW a \in Attempts, ReceiverStarts(a) PROVE Told'
  BY <1>9, MediumAssumption, NoAttemptAssumption DEF TypeOK, Connecting, Stages, Fitting, Told, ReceiverStarts
<1>10. ASSUME NEW a \in Attempts, ReceiverEnds(a) PROVE Told'
  BY <1>10, MediumAssumption, NoAttemptAssumption DEF TypeOK, Connecting, Stages, Fitting, Told, ReceiverEnds, Lost, ConnectionLost
<1>11. ASSUME NEW a \in Attempts, ReceiverCancelled(a) PROVE Told'
  BY <1>11, MediumAssumption, NoAttemptAssumption DEF TypeOK, Connecting, Stages, Fitting, Told, ReceiverCancelled, Lost, ConnectionLost
<1>12. ASSUME NEW a \in Attempts, NEW what \in {"response", "hello", "other"}, Frame(a, what)
      PROVE  Told'
  BY <1>12, MediumAssumption, NoAttemptAssumption DEF TypeOK, Connecting, Stages, Fitting, Told, Frame, Listening, ConnectionLost
<1>13. CASE Disconnect
  BY <1>13, MediumAssumption, NoAttemptAssumption DEF TypeOK, Connecting, Stages, Fitting, Told, Disconnect, Cancelled
<1>14. CASE PortCloses
  BY <1>14, MediumAssumption, NoAttemptAssumption DEF TypeOK, Connecting, Stages, Fitting, Told, PortCloses
<1>15. CASE ClientCloses
  BY <1>15, MediumAssumption, NoAttemptAssumption DEF TypeOK, Connecting, Stages, Fitting, Told, ClientCloses
<1>16. CASE DisconnectRaises
  BY <1>16, MediumAssumption, NoAttemptAssumption DEF TypeOK, Connecting, Stages, Fitting, Told, DisconnectRaises
<1>17. CASE UNCHANGED vars
  BY <1>17 DEF TypeOK, Connecting, Stages, Fitting, Told, vars
<1> QED
  BY <1>1, <1>2, <1>3, <1>4, <1>5, <1>6, <1>7, <1>8, <1>9, <1>10, <1>11, <1>12, <1>13, <1>14, <1>15, <1>16, <1>17
  DEF Next, Receive

LEMMA NextOwned == Inv /\ [Next]_vars => Owned'
<1> SUFFICES ASSUME Inv, [Next]_vars PROVE Owned'
  OBVIOUS
<1> USE DEF objects, resources, history
<1>1. ASSUME NEW a \in Attempts, Connect(a) PROVE Owned'
  BY <1>1, MediumAssumption, NoAttemptAssumption DEF TypeOK, Connecting, Inv, Stages, Fitting, Owned, Connect
<1>2. ASSUME NEW a \in Attempts, Opened(a) PROVE Owned'
  BY <1>2, MediumAssumption, NoAttemptAssumption DEF TypeOK, Connecting, Inv, Stages, Fitting, Owned, Opened
<1>3. ASSUME NEW a \in Attempts, ProbeRejected(a) PROVE Owned'
  BY <1>3, MediumAssumption, NoAttemptAssumption DEF TypeOK, Connecting, Inv, Stages, Fitting, Owned, ProbeRejected
<1>4. ASSUME NEW a \in Attempts, Adopt(a) PROVE Owned'
  BY <1>4, MediumAssumption, NoAttemptAssumption DEF TypeOK, Connecting, Inv, Stages, Fitting, Owned, Adopt
<1>5. ASSUME NEW a \in Attempts, ResetEnds(a) PROVE Owned'
  BY <1>5, MediumAssumption, NoAttemptAssumption DEF TypeOK, Connecting, Inv, Stages, Fitting, Owned, ResetEnds
<1>6. ASSUME NEW a \in Attempts, Raises(a) PROVE Owned'
  BY <1>6, MediumAssumption, NoAttemptAssumption DEF TypeOK, Connecting, Inv, Stages, Fitting, Owned, Raises
<1>7. ASSUME NEW a \in Attempts, PortDies(a) PROVE Owned'
  BY <1>7, MediumAssumption, NoAttemptAssumption DEF TypeOK, Connecting, Inv, Stages, Fitting, Owned, PortDies, Lost, ConnectionLost
<1>8. ASSUME NEW a \in Attempts, DriverCloses(a) PROVE Owned'
  BY <1>8, MediumAssumption, NoAttemptAssumption DEF TypeOK, Connecting, Inv, Stages, Fitting, Owned, DriverCloses, Lost, ConnectionLost
<1>9. ASSUME NEW a \in Attempts, ReceiverStarts(a) PROVE Owned'
  BY <1>9, MediumAssumption, NoAttemptAssumption DEF TypeOK, Connecting, Inv, Stages, Fitting, Owned, ReceiverStarts
<1>10. ASSUME NEW a \in Attempts, ReceiverEnds(a) PROVE Owned'
  BY <1>10, MediumAssumption, NoAttemptAssumption DEF TypeOK, Connecting, Inv, Stages, Fitting, Owned, ReceiverEnds, Lost, ConnectionLost
<1>11. ASSUME NEW a \in Attempts, ReceiverCancelled(a) PROVE Owned'
  BY <1>11, MediumAssumption, NoAttemptAssumption DEF TypeOK, Connecting, Inv, Stages, Fitting, Owned, ReceiverCancelled, Lost, ConnectionLost
<1>12. ASSUME NEW a \in Attempts, NEW what \in {"response", "hello", "other"}, Frame(a, what)
      PROVE  Owned'
  BY <1>12, MediumAssumption, NoAttemptAssumption DEF TypeOK, Connecting, Inv, Stages, Fitting, Owned, Frame, Listening, ConnectionLost
<1>13. CASE Disconnect
  BY <1>13, MediumAssumption, NoAttemptAssumption DEF TypeOK, Connecting, Inv, Stages, Fitting, Owned, Disconnect, Cancelled
<1>14. CASE PortCloses
  <2>1. app \in Attempts /\ closer = "port" /\ Medium[app] \in Media
    BY <1>14, MediumAssumption DEF PortCloses, Inv, TypeOK
  <2>2. CASE Medium[app] = "websocket"
    BY <1>14, <2>1, <2>2, NoAttemptAssumption DEF PortCloses, Inv, TypeOK, Fitting, Owned
  <2>3. CASE Medium[app] = "serial"
    <3>1. /\ port[app] \in {"dead", "closed"} /\ client[app] = "none" /\ receiver[app] = "none"
          /\ app' = None /\ UNCHANGED <<pc, closing, port, client, receiver, left>>
      BY <1>14, <2>1, <2>3 DEF PortCloses, Inv, Fitting
    <3> QED
      BY <2>1, <3>1 DEF Inv, Owned
  <2> QED
    BY <2>1, <2>2, <2>3 DEF Media
<1>15. CASE ClientCloses
  BY <1>15, MediumAssumption, NoAttemptAssumption DEF TypeOK, Connecting, Inv, Stages, Fitting, Owned, ClientCloses
<1>16. CASE DisconnectRaises
  BY <1>16, MediumAssumption, NoAttemptAssumption DEF TypeOK, Connecting, Inv, Stages, Fitting, Owned, DisconnectRaises
<1>17. CASE UNCHANGED vars
  BY <1>17 DEF TypeOK, Connecting, Inv, Stages, Fitting, Owned, vars
<1> QED
  BY <1>1, <1>2, <1>3, <1>4, <1>5, <1>6, <1>7, <1>8, <1>9, <1>10, <1>11, <1>12, <1>13, <1>14, <1>15, <1>16, <1>17
  DEF Next, Receive

-----------------------------------------------------------------------------
(* Theorems *)

LEMMA InvHolds == Spec => []Inv
<1>1. Init => Inv
  <2> SUFFICES ASSUME Init PROVE Inv
    OBVIOUS
  <2>1. TypeOK
    BY MaxFramesAssumption DEF Init, TypeOK, Connecting
  <2>2. Stages /\ Fitting
    BY NoAttemptAssumption DEF Init, Stages, Fitting
  <2>3. Told /\ Owned
    BY DEF Init, Told, Owned
  <2> QED
    BY <2>1, <2>2, <2>3 DEF Inv
<1>2. Inv /\ [Next]_vars => Inv'
  BY NextTypeOK, NextStages, NextFitting, NextTold, NextOwned DEF Inv
<1> QED
  BY <1>1, <1>2, PTL DEF Spec

\* Every variable keeps its type, and disconnect() stands at an await only while
\* there is a self._api.
THEOREM TypeCorrect == Spec => []TypeOK
<1>1. Inv => TypeOK
  BY DEF Inv
<1> QED
  BY <1>1, InvHolds, PTL

\* What an attempt opened is closed, or somebody is there to close it, or the call
\* that should have closed it ended early.
THEOREM EverythingReleased == Spec => []Released
<1>1. Inv => Released
  BY DEF Inv, Owned, Released, Connecting
<1> QED
  BY <1>1, InvHolds, PTL

MaySpeak(a) == app = a \/ (Medium[a] = "serial" /\ (pc[a] = "probing" \/ left[a] # "none"))

\* An open serial port is in use, is being probed or was left open.
LEMMA SerialSpeaks ==
  ASSUME Inv, NEW a \in Attempts, Medium[a] = "serial", port[a] \in {"open", "closing"}
  PROVE  MaySpeak(a)
<1>1. pc[a] # "opening"
  BY DEF Inv, Stages
<1> QED
  BY <1>1 DEF Inv, Owned, MaySpeak

LEMMA NextSpeaks ==
  ASSUME Inv, [Next]_vars, NEW a \in Attempts,
         frames'[a] # frames[a] \/ reports'[a] # reports[a]
  PROVE  MaySpeak(a)
<1> USE DEF objects, resources, history
<1>1. Medium[a] \in Media
  BY MediumAssumption
<1>2. ASSUME NEW b \in Attempts, b # a, ConnectionLost(b) PROVE reports'[a] = reports[a]
  BY <1>2 DEF ConnectionLost, Inv, TypeOK
<1>3. ASSUME NEW b \in Attempts, closing[b], ConnectionLost(b) PROVE reports' = reports
  BY <1>3 DEF ConnectionLost, Inv, TypeOK
<1>4. ASSUME NEW b \in Attempts, NEW what \in {"response", "hello", "other"}, Frame(b, what)
      PROVE  MaySpeak(a)
  <2>1. b = a
    <3>1. CASE ConnectionLost(b)
      BY <1>2, <1>4, <3>1 DEF Frame, Inv, TypeOK
    <3>2. CASE ~ConnectionLost(b)
      BY <1>4, <3>2 DEF Frame, Inv, TypeOK
    <3> QED
      BY <3>1, <3>2
  <2>2. CASE Medium[a] = "websocket"
    BY <1>4, <2>1, <2>2 DEF Frame, Listening, Inv, Owned, MaySpeak
  <2>3. CASE Medium[a] = "serial"
    BY <1>4, <2>1, <2>3, SerialSpeaks DEF Frame, Listening
  <2> QED
    BY <1>1, <2>2, <2>3 DEF Media
<1>5. ASSUME NEW b \in Attempts, PortDies(b) PROVE MaySpeak(a)
  <2>1. CASE Medium[b] = "serial"
    <3>1. b = a
      BY <1>2, <1>5, <2>1 DEF PortDies, Lost
    <3> QED
      BY <1>5, <2>1, <3>1, SerialSpeaks DEF PortDies
  <2>2. CASE Medium[b] # "serial"
    BY <1>5, <2>2 DEF PortDies
  <2> QED
    BY <2>1, <2>2
<1>6. ASSUME NEW b \in Attempts, ReceiverEnds(b) PROVE MaySpeak(a)
  <2>1. b = a
    BY <1>2, <1>6 DEF ReceiverEnds, Lost
  <2> QED
    BY <1>6, <2>1 DEF ReceiverEnds, Inv, Owned, MaySpeak
<1>7. ASSUME NEW b \in Attempts, ReceiverCancelled(b) PROVE FALSE
  BY <1>3, <1>7 DEF ReceiverCancelled, Lost, Inv, Owned
<1>8. ASSUME NEW b \in Attempts, DriverCloses(b) PROVE FALSE
  BY <1>3, <1>8 DEF DriverCloses, Lost, Inv, Owned
<1>9. CASE UNCHANGED <<frames, reports>>
  BY <1>9
<1> QED
  BY <1>4, <1>5, <1>6, <1>7, <1>8, <1>9
  DEF Next, Receive, vars, Connect, Opened, ProbeRejected, Adopt, ResetEnds, Raises,
      ReceiverStarts, Disconnect, PortCloses, ClientCloses, DisconnectRaises

\* Only the session in use speaks to the application, and a serial port whose probe
\* is under way or whose connect() or disconnect() ended early.
THEOREM OwnSessionSpeaks == Spec => OnlyOwnSessionSpeaks
<1>1. Inv /\ [Next]_vars =>
        [\A a \in Attempts :
           frames'[a] # frames[a] \/ reports'[a] # reports[a] =>
             \/ app = a
             \/ Medium[a] = "serial" /\ (pc[a] = "probing" \/ left[a] # "none")]_vars
  BY NextSpeaks DEF MaySpeak
<1> QED
  BY <1>1, InvHolds, PTL DEF Spec, OnlyOwnSessionSpeaks

-----------------------------------------------------------------------------
(* Session implements Link. *)

\* Where the transport says that its link is lost, the link loses.
LEMMA LosesLink ==
  ASSUME Inv, NEW a \in Attempts, Lost(a), losses[a] = 0, a \in LinkOpened,
         LinkOpened' = LinkOpened, frames' = frames
  PROVE  LinkOf!Next
<1>1. losses' = [losses EXCEPT ![a] = 1]
  BY DEF Lost, Inv, TypeOK
<1>2. LinkOf!Lose(a)
  BY <1>1 DEF LinkOf!Lose, LinkOf!There
<1> QED
  BY <1>2 DEF LinkOf!Next

\* Every step of Session opens a link, passes a frame on, loses the link or does
\* nothing of the kind.
LEMMA LinkStep ==
  ASSUME Inv, [Next]_vars
  PROVE  [LinkOf!Next]_<<LinkOpened, frames, losses>>
<1> USE DEF objects, resources, history
<1> DEFINE Step == [LinkOf!Next]_<<LinkOpened, frames, losses>>
<1>1. ASSUME NEW a \in Attempts, Opened(a) PROVE Step
  <2>1. port' = [port EXCEPT ![a] = "open"] /\ UNCHANGED <<receiver, frames, losses>>
    BY <1>1 DEF Opened
  <2>2. CASE Medium[a] = "websocket"
    <3>1. LinkOpened' = LinkOpened
      BY <2>1, <2>2 DEF LinkOpened, Inv, TypeOK
    <3> QED
      BY <2>1, <3>1
  <2>3. CASE Medium[a] # "websocket"
    <3>1. LinkOpened' = LinkOpened \cup {a}
      BY <2>1, <2>3 DEF LinkOpened, Inv, TypeOK
    <3> QED
      BY <2>1, <3>1 DEF LinkOf!Next, LinkOf!Open
  <2> QED
    BY <2>2, <2>3
<1>2. ASSUME NEW a \in Attempts, Adopt(a) PROVE Step
  <2>1. UNCHANGED <<port, frames, losses>>
    BY <1>2 DEF Adopt
  <2>2. CASE Medium[a] = "websocket"
    <3>1. LinkOpened' = LinkOpened \cup {a}
      BY <1>2, <2>1, <2>2 DEF Adopt, LinkOpened, Inv, TypeOK
    <3> QED
      BY <2>1, <3>1 DEF LinkOf!Next, LinkOf!Open
  <2>3. CASE Medium[a] # "websocket"
    <3>1. LinkOpened' = LinkOpened
      BY <1>2, <2>1, <2>3 DEF Adopt, LinkOpened, Inv, TypeOK
    <3> QED
      BY <2>1, <3>1
  <2> QED
    BY <2>2, <2>3
<1>3. ASSUME NEW a \in Attempts, NEW what \in {"response", "hello", "other"}, Frame(a, what)
      PROVE  Step
  <2>1. /\ frames' = [frames EXCEPT ![a] = @ + 1]
        /\ Listening(a) /\ UNCHANGED <<port, receiver, losses>>
    BY <1>3 DEF Frame
  <2>2. Medium[a] \in Media
    BY MediumAssumption
  <2>3. LinkOf!There(a)
    BY <2>1, <2>2 DEF LinkOf!There, LinkOpened, Listening, Inv, Told, Media
  <2>4. LinkOf!Frame(a)
    BY <2>1, <2>3 DEF LinkOf!Frame, LinkOpened
  <2> QED
    BY <2>4 DEF LinkOf!Next
<1>4. ASSUME NEW a \in Attempts, PortDies(a) PROVE Step
  <2>1. /\ port[a] = "open" /\ port' = [port EXCEPT ![a] = "dead"]
        /\ UNCHANGED <<receiver, frames>>
    BY <1>4 DEF PortDies
  <2>2. LinkOpened' = LinkOpened
    BY <2>1 DEF LinkOpened, Inv, TypeOK
  <2>3. CASE Medium[a] = "serial"
    <3>1. Lost(a) /\ losses[a] = 0 /\ a \in LinkOpened
      BY <1>4, <2>1, <2>3 DEF PortDies, Inv, Told, LinkOpened
    <3> QED
      BY <2>1, <2>2, <3>1, LosesLink
  <2>4. CASE Medium[a] # "serial"
    BY <1>4, <2>1, <2>2, <2>4 DEF PortDies
  <2> QED
    BY <2>3, <2>4
<1>5. ASSUME NEW a \in Attempts, DriverCloses(a) PROVE Step
  <2>1. /\ port[a] = "closing" /\ port' = [port EXCEPT ![a] = "closed"]
        /\ Lost(a) /\ UNCHANGED <<receiver, frames>>
    BY <1>5 DEF DriverCloses
  <2>2. LinkOpened' = LinkOpened
    BY <2>1 DEF LinkOpened, Inv, TypeOK
  <2>3. Medium[a] = "serial"
    BY <2>1, MediumAssumption DEF Inv, Fitting, Media
  <2>4. losses[a] = 0 /\ a \in LinkOpened
    BY <2>1, <2>3 DEF Inv, Told, LinkOpened
  <2> QED
    BY <2>1, <2>2, <2>4, LosesLink
<1>6. ASSUME NEW a \in Attempts, ReceiverEnds(a) \/ ReceiverCancelled(a) PROVE Step
  <2>1. /\ receiver[a] \in {"running", "cancelled"}
        /\ receiver' = [receiver EXCEPT ![a] = "over"]
        /\ Lost(a) /\ UNCHANGED <<port, frames>>
    BY <1>6 DEF ReceiverEnds, ReceiverCancelled
  <2>2. LinkOpened' = LinkOpened
    BY <2>1 DEF LinkOpened, Inv, TypeOK
  <2>3. Medium[a] = "websocket"
    BY <2>1, MediumAssumption DEF Inv, Fitting, Media
  <2>4. losses[a] = 0 /\ a \in LinkOpened
    BY <2>1, <2>3 DEF Inv, Told, LinkOpened
  <2> QED
    BY <2>1, <2>2, <2>4, LosesLink
<1>7. ASSUME NEW a \in Attempts, ReceiverStarts(a) PROVE Step
  <2>1. LinkOpened' = LinkOpened
    BY <1>7 DEF ReceiverStarts, LinkOpened, Inv, TypeOK
  <2> QED
    BY <1>7, <2>1 DEF ReceiverStarts
<1>8. ASSUME NEW a \in Attempts, ProbeRejected(a) PROVE Step
  <2>1. LinkOpened' = LinkOpened
    BY <1>8 DEF ProbeRejected, LinkOpened, Inv, TypeOK
  <2> QED
    BY <1>8, <2>1 DEF ProbeRejected
<1>9. CASE Disconnect
  <2>1. \A a \in Attempts : (receiver'[a] = "none") = (receiver[a] = "none")
    BY <1>9 DEF Disconnect, Cancelled, Inv, TypeOK
  <2>2. \A a \in Attempts : (port'[a] = "none") = (port[a] = "none")
    BY <1>9 DEF Disconnect, Inv, TypeOK
  <2>3. LinkOpened' = LinkOpened
    BY <2>1, <2>2 DEF LinkOpened
  <2> QED
    BY <1>9, <2>3 DEF Disconnect
<1>10. CASE PortCloses
  <2>1. UNCHANGED <<receiver, frames, losses>>
    BY <1>10 DEF PortCloses
  <2>2. \A a \in Attempts : Medium[a] # "websocket" => port'[a] = port[a]
    BY <1>10 DEF PortCloses, Inv, TypeOK
  <2>3. LinkOpened' = LinkOpened
    BY <2>1, <2>2 DEF LinkOpened
  <2> QED
    BY <2>1, <2>3
<1>11. CASE UNCHANGED <<port, receiver, frames, losses>>
  BY <1>11 DEF LinkOpened
<1> QED
  BY <1>1, <1>2, <1>3, <1>4, <1>5, <1>6, <1>7, <1>8, <1>9, <1>10, <1>11
  DEF Next, Receive, vars, Connect, ResetEnds, Raises, ClientCloses, DisconnectRaises

\* Through every order of loss, cancellation and disconnect, the transport is to
\* ZigguratApi the link of Link: one loss, and no frame after it.
THEOREM SessionKeepsLink == Spec => LinkKept
<1>1. Init => LinkOf!Init
  BY DEF Init, LinkOf!Init, LinkOpened
<1>2. Inv /\ [Next]_vars => [LinkOf!Next]_<<LinkOpened, frames, losses>>
  BY LinkStep
<1> QED
  BY <1>1, <1>2, InvHolds, PTL DEF Spec, LinkKept, LinkOf!Spec
=============================================================================
