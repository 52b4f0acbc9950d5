----------------------------- MODULE ApiProofs -----------------------------
(***************************************************************************)
(* What holds of Api for any set of calls and any number of request ids.   *)
(***************************************************************************)
EXTENDS Api, TLAPS

\* A task ends with an outcome that it read off its futures.
Ends(c) ==
  \E out \in {"ok", "rejected", "failed", "lost", "timeout", "cancelled", "sendError"} :
    /\ pc[c] \in Waiting
    /\ out = "ok" => /\ resp[c] = "ok" \/ pc[c] = "confirm"
                     /\ conf[c] = "success" \/ pc[c] # "confirm"
    /\ out = "ok" /\ Kind[c] \in Sends => pc[c] = "confirm"
    /\ out = "rejected" => resp[c] = "error"
    /\ out = "failed" => conf[c] = "failure" /\ pc[c] = "confirm"
    /\ out = "lost" => "lost" \in {resp[c], conf[c]}
    /\ out = "timeout" => intr[c] = "timeout"
    /\ pc[c] = "sending" => out \in {"timeout", "cancelled", "sendError"}
    /\ pc[c] = "streaming" /\ out \in {"ok", "rejected"} =>
         queue[c] # <<>> /\ Head(queue[c]) = End
    /\ Return(c, out)

\* A task goes on to its next await.
Moves(c) ==
  \E await \in Waiting \ {"sending"} :
    /\ pc[c] \in Waiting
    /\ Kind[c] = "stream" <=> await = "streaming"
    /\ await = "confirm" => Kind[c] \in Sends /\ resp[c] = "ok"
    /\ Proceed(c, await)

\* Next, with the actions sorted by what they change.
Sorted ==
  \/ \E c \in Calls :
       \/ Register(c) \/ Moves(c) \/ Ends(c) \/ StreamYields(c) \/ CancelEnds(c)
       \/ \E why \in {"timeout", "cancelled"} : Interrupt(c, why)
       \/ Deliver(c) \/ AnswerCancel(c) \/ EmitEvent(c)
       \/ \E ok \in BOOLEAN : Respond(c, ok)
       \/ \E v \in {"success", "failure"} : EmitHandoff(c, v) \/ EmitTerminal(c, v)
  \/ \E known \in BOOLEAN : Notify(known)
  \/ Hello \/ LinkDown \/ Disconnect

\* Where a task stands fits the function it runs; a call that has started has an
\* id, and so has a cancellation that was sent; no call's frames precede it.
Stations ==
  \A c \in Calls :
    /\ pc[c] = "streaming" => Kind[c] = "stream"
    /\ pc[c] = "response" => Kind[c] # "stream"
    /\ pc[c] = "confirm" => Kind[c] \in Sends
    /\ pc[c] # "idle" => rid[c] \in Ids
    /\ cancel[c] # "none" => cid[c] \in Ids
    /\ pc[c] = "idle" => frame[c] = "none" /\ owed[c] = {} /\ cancel[c] = "none"

LEMMA NextSorted == TypeOK /\ Stations /\ Next => Sorted
<1> SUFFICES ASSUME TypeOK, Stations, Next PROVE Sorted
  OBVIOUS
<1>1. ASSUME NEW c \in Calls, SendReturns(c) PROVE Moves(c)
  BY <1>1, KindAssumption DEF SendReturns, Runs, Moves, Waiting, Kinds
<1>2. ASSUME NEW c \in Calls, SendRaises(c) PROVE Ends(c)
  BY <1>2 DEF SendRaises, Runs, Ends, Waiting
<1>3. ASSUME NEW c \in Calls, RequestReturns(c) PROVE Ends(c)
  BY <1>3 DEF RequestReturns, Runs, Ends, Waiting, Sends
<1>4. ASSUME NEW c \in Calls, Accepted(c) PROVE Moves(c)
  BY <1>4 DEF Accepted, Runs, Moves, Waiting, Sends
<1>5. ASSUME NEW c \in Calls, Rejected(c) PROVE Ends(c)
  BY <1>5 DEF Rejected, Runs, Ends, Waiting
<1>6. ASSUME NEW c \in Calls, Confirmed(c) PROVE Ends(c)
  BY <1>6 DEF Confirmed, Runs, Ends, Waiting
<1>7. ASSUME NEW c \in Calls, StreamEnds(c) PROVE Ends(c)
  BY <1>7 DEF StreamEnds, Runs, Ends, Waiting, Stations, Sends
<1>8. ASSUME NEW c \in Calls, Raise(c) PROVE Ends(c)
  BY <1>8 DEF Raise, Ends, Waiting, TypeOK
<1> QED
  BY <1>1, <1>2, <1>3, <1>4, <1>5, <1>6, <1>7, <1>8
  DEF Next, Sorted, SendEnds, Awake, DeviceStep

-----------------------------------------------------------------------------
(* Types *)

USE DEF Ids, Waiting, Frames

LEMMA NextIdType ==
  ASSUME TypeOK, NextId
  PROVE  nextId' \in Ids /\ reused' \in BOOLEAN
<1>1. nextId \in 1 .. MaxId /\ MaxId \in Nat \ {0}
  BY MaxIdAssumption DEF TypeOK
<1>2. (nextId % MaxId) + 1 \in 1 .. MaxId
  BY <1>1
<1> QED
  BY <1>2 DEF TypeOK, NextId

LEMMA OwesType == ASSUME NEW k PROVE Owes(k) \subseteq Frames
BY DEF Owes

LEMMA ResponseType ==
  ASSUME TypeOK, NEW i \in Ids, NEW ok \in BOOLEAN, HandleResponse(i, ok)
  PROVE  resp' \in [Calls -> Responses] /\ queue' \in [Calls -> Seq(Item)]
<1> DEFINE p == pending[i]
           v == IF ok THEN "ok" ELSE "error"
<1>1. v \in Responses /\ End \in Item
  BY DEF Responses, End, Item
<1>2. CASE p # None /\ resp[p] = "pending"
  <2>1. p \in Calls
    <3>1. pending[i] \in Calls \cup {None}
      BY DEF TypeOK
    <3> QED
      BY <3>1, <1>2
  <2>2. resp' = [resp EXCEPT ![p] = v]
    BY <1>2 DEF HandleResponse
  <2>3. resp' \in [Calls -> Responses]
    BY <1>1, <2>2, <2>1 DEF TypeOK
  <2>4. queue' = queue \/ queue' = [queue EXCEPT ![p] = Append(@, End)]
    BY <1>2 DEF HandleResponse
  <2>5. queue' \in [Calls -> Seq(Item)]
    <3>1. queue \in [Calls -> Seq(Item)]
      BY DEF TypeOK
    <3>2. queue[p] \in Seq(Item)
      BY <3>1, <2>1
    <3>3. Append(queue[p], End) \in Seq(Item)
      BY <3>2, <1>1
    <3> QED
      BY <2>4, <3>1, <3>3, <2>1
  <2> QED
    BY <2>3, <2>5
<1>3. CASE ~(p # None /\ resp[p] = "pending")
  BY <1>3 DEF TypeOK, HandleResponse
<1> QED
  BY <1>2, <1>3

LEMMA SettleType ==
  ASSUME TypeOK, NEW i \in Ids, NEW v \in {"success", "failure"}, Settle(i, v)
  PROVE  conf' \in [Calls -> Confirmations]
BY DEF TypeOK, Settle, Confirmations

LEMMA RecordType ==
  ASSUME NEW S, NEW f \in [Calls -> S], NEW c \in Calls, NEW v \in S
  PROVE  Record(f, c, v) \in [Calls -> S]
BY DEF Record

LEMMA LossType ==
  ASSUME TypeOK, ConnectionLost
  PROVE  /\ resp' \in [Calls -> Responses] /\ conf' \in [Calls -> Confirmations]
         /\ pending' \in [Ids -> Calls \cup {None}]
         /\ confirms' \in [Ids -> Calls \cup {None}]
         /\ awaiting' \subseteq Ids
         /\ closing' \in BOOLEAN /\ reports' \in Nat
<1>1. resp' \in [Calls -> Responses] /\ conf' \in [Calls -> Confirmations]
  BY DEF TypeOK, ConnectionLost, FailPending, Fail, Responses, Confirmations
<1> QED
  BY <1>1 DEF TypeOK, ConnectionLost, FailPending

LEMMA NextTypeOK == TypeOK /\ Stations /\ [Next]_vars => TypeOK'
<1> SUFFICES ASSUME TypeOK, Stations, [Next]_vars PROVE TypeOK'
  OBVIOUS
<1> USE DEF table, ids, loss, futures, task, cancels, wire, device
<1>1. CASE UNCHANGED vars
  BY <1>1 DEF TypeOK, vars
<1>2. ASSUME NEW c \in Calls, Register(c) PROVE TypeOK'
  <2>1. nextId' \in Ids /\ reused' \in BOOLEAN
    BY <1>2, NextIdType DEF Register
  <2>2. resp' \in [Calls -> Responses] /\ conf' \in [Calls -> Confirmations]
    <3>1. /\ resp \in [Calls -> Responses] /\ conf \in [Calls -> Confirmations]
          /\ "pending" \in Responses /\ "pending" \in Confirmations
      BY DEF TypeOK, Responses, Confirmations
    <3>2. /\ resp' = [resp EXCEPT ![c] = "pending"]
          /\ conf' = conf \/ conf' = [conf EXCEPT ![c] = "pending"]
      BY <1>2 DEF Register
    <3> QED
      BY <3>1, <3>2
  <2>3. /\ pending' \in [Ids -> Calls \cup {None}]
        /\ confirms' \in [Ids -> Calls \cup {None}]
        /\ awaiting' \subseteq Ids
        /\ rid' \in [Calls -> Ids \cup {0}]
    <3>1. /\ nextId \in Ids /\ awaiting \subseteq Ids
          /\ pending \in [Ids -> Calls \cup {None}]
          /\ confirms \in [Ids -> Calls \cup {None}]
          /\ rid \in [Calls -> Ids \cup {0}]
      BY DEF TypeOK
    <3>2. /\ pending' = [pending EXCEPT ![nextId] = c]
          /\ confirms' = confirms \/ confirms' = [confirms EXCEPT ![nextId] = c]
          /\ awaiting' = awaiting \/ awaiting' = awaiting \cup {nextId}
          /\ rid' = [rid EXCEPT ![c] = nextId]
      BY <1>2 DEF Register
    <3> HIDE DEF Ids
    <3> QED
      BY <3>1, <3>2
  <2>4. /\ pc' \in [Calls -> Waiting \cup {"idle", "cancelling", "done"}]
        /\ frame' \in [Calls -> {"none", "wire", "refused"}]
    BY <1>2 DEF TypeOK, Register, Written
  <2> QED
    BY <1>2, <2>1, <2>2, <2>3, <2>4 DEF TypeOK, Register
<1>3. ASSUME NEW c \in Calls, Moves(c) PROVE TypeOK'
  BY <1>3 DEF TypeOK, Moves, Proceed
<1>4. ASSUME NEW c \in Calls, Ends(c) PROVE TypeOK'
  <2>1. PICK out \in Outcomes : pc[c] \in Waiting /\ Return(c, out)
    BY <1>4 DEF Ends, Outcomes
  <2>2. nextId' \in Ids /\ reused' \in BOOLEAN
    BY <2>1, NextIdType DEF Return, TypeOK
  <2>5. /\ cancel' \in [Calls -> {"none", "wire", "over"}]
        /\ cid' \in [Calls -> Ids \cup {0}]
    <3>1. /\ nextId \in Ids \cup {0}
          /\ cancel \in [Calls -> {"none", "wire", "over"}]
          /\ cid \in [Calls -> Ids \cup {0}]
      BY DEF TypeOK
    <3>2. \/ cid' = [cid EXCEPT ![c] = nextId] /\ cancel' = [cancel EXCEPT ![c] = "wire"]
          \/ cid' = cid /\ cancel' = cancel
      BY <2>1 DEF Return
    <3> HIDE DEF Ids
    <3> QED
      BY <3>1, <3>2
  <2>6. pc' \in [Calls -> Waiting \cup {"idle", "cancelling", "done"}]
    <3>1. pc \in [Calls -> Waiting \cup {"idle", "cancelling", "done"}]
      BY DEF TypeOK
    <3>2. pc' = [pc EXCEPT ![c] = "cancelling"] \/ pc' = [pc EXCEPT ![c] = "done"]
      BY <2>1 DEF Return
    <3> QED
      BY <3>1, <3>2
  <2>3. /\ pending' \in [Ids -> Calls \cup {None}]
        /\ confirms' \in [Ids -> Calls \cup {None}]
        /\ awaiting' \subseteq Ids
    <3>1. /\ pending \in [Ids -> Calls \cup {None}]
          /\ confirms \in [Ids -> Calls \cup {None}]
          /\ awaiting \subseteq Ids
      BY DEF TypeOK
    <3>2. /\ pending' = pending \/ pending' = [pending EXCEPT ![rid[c]] = None]
          /\ confirms' = confirms \/ confirms' = [confirms EXCEPT ![rid[c]] = None]
          /\ awaiting' = awaiting \/ awaiting' = awaiting \ {rid[c]}
      BY <2>1 DEF Return
    <3> HIDE DEF Ids
    <3> QED
      BY <3>1, <3>2
  <2>4. outcome' \in [Calls -> Outcomes]
    BY <2>1 DEF Return, TypeOK
  <2> QED
    BY <2>1, <2>2, <2>3, <2>4, <2>5, <2>6 DEF TypeOK, Return
<1>5. ASSUME NEW c \in Calls, StreamYields(c) PROVE TypeOK'
  BY <1>5 DEF TypeOK, StreamYields
<1>6. ASSUME NEW c \in Calls, CancelEnds(c) PROVE TypeOK'
  <2>1. outcome[c] \in Outcomes /\ "sendError" \in Outcomes /\ "cancelled" \in Outcomes
    BY DEF TypeOK, Outcomes
  <2>2. PICK out \in Outcomes : outcome' = [outcome EXCEPT ![c] = out]
    BY <1>6, <2>1 DEF CancelEnds
  <2>3. outcome' \in [Calls -> Outcomes]
    BY <2>2 DEF TypeOK
  <2> QED
    BY <1>6, <2>3 DEF TypeOK, CancelEnds
<1>7. ASSUME NEW c \in Calls, NEW why \in {"timeout", "cancelled"}, Interrupt(c, why)
      PROVE  TypeOK'
  <2>1. resp' \in [Calls -> Responses] /\ conf' \in [Calls -> Confirmations]
    BY <1>7 DEF TypeOK, Interrupt, Responses, Confirmations
  <2> QED
    BY <1>7, <2>1 DEF TypeOK, Interrupt
<1>8. ASSUME NEW c \in Calls, Deliver(c) PROVE TypeOK'
  BY <1>8, OwesType DEF TypeOK, Deliver
<1>9. ASSUME NEW c \in Calls, AnswerCancel(c) PROVE TypeOK'
  <2>1. resp' \in [Calls -> Responses] /\ queue' \in [Calls -> Seq(Item)]
    BY <1>9, ResponseType DEF AnswerCancel, Stations
  <2> QED
    BY <1>9, <2>1 DEF TypeOK, AnswerCancel, Inbound
<1>10. ASSUME NEW c \in Calls, EmitEvent(c) PROVE TypeOK'
  <2>1. <<c, emitted[c] + 1>> \in Item
    BY MaxEventsAssumption DEF TypeOK, Item
  <2>2. queue' \in [Calls -> Seq(Item)]
    <3>1. queue \in [Calls -> Seq(Item)] /\ pending[rid[c]] \in Calls \cup {None}
      BY <1>10 DEF TypeOK, EmitEvent, Stations
    <3>2. \A p \in Calls : Append(queue[p], <<c, emitted[c] + 1>>) \in Seq(Item)
      BY <3>1, <2>1
    <3> QED
      BY <1>10, <3>1, <3>2 DEF EmitEvent, HandleEvent
  <2>3. emitted' \in [Calls -> 0 .. MaxEvents]
    BY <1>10, MaxEventsAssumption DEF TypeOK, EmitEvent
  <2> QED
    BY <1>10, <2>2, <2>3 DEF TypeOK, EmitEvent, Inbound
<1>11. ASSUME NEW c \in Calls, NEW ok \in BOOLEAN, Respond(c, ok) PROVE TypeOK'
  <2>1. resp' \in [Calls -> Responses] /\ queue' \in [Calls -> Seq(Item)]
    BY <1>11, ResponseType DEF Respond, Stations
  <2> QED
    BY <1>11, <2>1, RecordType DEF TypeOK, Respond, Inbound
<1>12. ASSUME NEW c \in Calls, NEW v \in {"success", "failure"}, EmitHandoff(c, v)
       PROVE  TypeOK'
  <2>1. conf' \in [Calls -> Confirmations] /\ awaiting' \subseteq Ids
    <3>1. rid[c] \in Ids
      BY <1>12 DEF TypeOK, Stations, EmitHandoff
    <3>2. \/ conf' = conf /\ awaiting' = awaiting
          \/ awaiting' = awaiting \ {rid[c]} /\ Settle(rid[c], v)
      BY <1>12 DEF EmitHandoff, HandleHandoff, HandleTerminal
    <3>3. conf \in [Calls -> Confirmations] /\ awaiting \subseteq Ids
      BY DEF TypeOK
    <3> HIDE DEF Ids
    <3> QED
      BY <3>1, <3>2, <3>3, SettleType
  <2> QED
    BY <1>12, <2>1, RecordType DEF TypeOK, EmitHandoff, Inbound
<1>13. ASSUME NEW c \in Calls, NEW v \in {"success", "failure"}, EmitTerminal(c, v)
       PROVE  TypeOK'
  <2>1. conf' \in [Calls -> Confirmations] /\ awaiting' \subseteq Ids
    <3>1. rid[c] \in Ids /\ awaiting \subseteq Ids
      BY <1>13 DEF TypeOK, Stations, EmitTerminal
    <3>2. awaiting' = awaiting \ {rid[c]} /\ Settle(rid[c], v)
      BY <1>13 DEF EmitTerminal, HandleTerminal
    <3> HIDE DEF Ids
    <3> QED
      BY <3>1, <3>2, SettleType
  <2> QED
    BY <1>13, <2>1, RecordType DEF TypeOK, EmitTerminal, Inbound
<1>14. ASSUME NEW known \in BOOLEAN, Notify(known) PROVE TypeOK'
  BY <1>14 DEF TypeOK, Notify
<1>15. ASSUME Hello PROVE TypeOK'
  <2>1. /\ resp' \in [Calls -> Responses] /\ conf' \in [Calls -> Confirmations]
        /\ pending' \in [Ids -> Calls \cup {None}]
        /\ confirms' \in [Ids -> Calls \cup {None}]
        /\ awaiting' \subseteq Ids
        /\ closing' \in BOOLEAN /\ reports' \in Nat
    BY <1>15, LossType DEF TypeOK, Hello
  <2> QED
    BY <1>15, <2>1 DEF TypeOK, Hello
<1>16. ASSUME LinkDown PROVE TypeOK'
  BY <1>16, LossType DEF TypeOK, LinkDown
<1>17. ASSUME Disconnect PROVE TypeOK'
  BY <1>17 DEF TypeOK, Disconnect
<1> QED
  BY <1>1, <1>2, <1>3, <1>4, <1>5, <1>6, <1>7, <1>8, <1>9, <1>10, <1>11, <1>12, <1>13,
     <1>14, <1>15, <1>16, <1>17, NextSorted DEF Sorted

LEMMA NextStations == TypeOK /\ Stations /\ [Next]_vars => Stations'
<1> SUFFICES ASSUME TypeOK, Stations, [Next]_vars PROVE Stations'
  OBVIOUS
<1> USE DEF table, ids, loss, futures, task, cancels, wire, device
<1>0. nextId \in Ids
  BY DEF TypeOK
<1>1. CASE UNCHANGED <<pc, rid, cancel, cid, frame, owed>>
  BY <1>1 DEF Stations
<1>2. ASSUME NEW c \in Calls, Register(c) PROVE Stations'
  BY <1>0, <1>2 DEF TypeOK, Stations, Register
<1>3. ASSUME NEW c \in Calls, Moves(c) PROVE Stations'
  BY <1>3, KindAssumption DEF TypeOK, Stations, Moves, Proceed, Sends, Kinds
<1>4. ASSUME NEW c \in Calls, Ends(c) PROVE Stations'
  <2>1. PICK out : pc[c] \in Waiting /\ Return(c, out)
    BY <1>4 DEF Ends
  <2>2. /\ UNCHANGED <<rid, frame, owed>>
        /\ \/ /\ pc' = [pc EXCEPT ![c] = "cancelling"]
              /\ cid' = [cid EXCEPT ![c] = nextId]
              /\ cancel' = [cancel EXCEPT ![c] = "wire"]
           \/ /\ pc' = [pc EXCEPT ![c] = "done"]
              /\ UNCHANGED <<cid, cancel>>
    BY <2>1 DEF Return
  <2> QED
    BY <1>0, <2>1, <2>2 DEF TypeOK, Stations
<1>5. ASSUME NEW c \in Calls, CancelEnds(c) PROVE Stations'
  BY <1>5 DEF TypeOK, Stations, CancelEnds
<1>6. ASSUME NEW c \in Calls, Deliver(c) PROVE Stations'
  BY <1>6 DEF TypeOK, Stations, Deliver
<1>7. ASSUME NEW c \in Calls, AnswerCancel(c) PROVE Stations'
  BY <1>7 DEF TypeOK, Stations, AnswerCancel, Inbound
<1>8. ASSUME NEW c \in Calls, NEW ok \in BOOLEAN, Respond(c, ok) PROVE Stations'
  BY <1>8 DEF TypeOK, Stations, Respond, Inbound
<1>9. ASSUME NEW c \in Calls, NEW v \in {"success", "failure"}, EmitHandoff(c, v)
      PROVE  Stations'
  BY <1>9 DEF TypeOK, Stations, EmitHandoff, Inbound
<1>10. ASSUME NEW c \in Calls, NEW v \in {"success", "failure"}, EmitTerminal(c, v)
       PROVE  Stations'
  BY <1>10 DEF TypeOK, Stations, EmitTerminal, Inbound
<1>11. ASSUME Hello PROVE Stations'
  BY <1>11 DEF TypeOK, Stations, Hello
<1>12. ASSUME LinkDown PROVE Stations'
  BY <1>12 DEF TypeOK, Stations, LinkDown
<1> QED
  BY <1>1, <1>2, <1>3, <1>4, <1>5, <1>6, <1>7, <1>8, <1>9, <1>10, <1>11, <1>12, NextSorted
  DEF Sorted, StreamYields, Interrupt, EmitEvent, Inbound, Notify, Disconnect, vars

LEMMA InitTypes == Init => TypeOK /\ Stations
<1>1. Init => TypeOK
  <2> SUFFICES ASSUME Init PROVE TypeOK
    OBVIOUS
  <2>1. 1 \in Ids
    BY MaxIdAssumption
  <2>2. <<>> \in Seq(Item)
    OBVIOUS
  <2>3. 0 \in 0 .. MaxEvents
    BY MaxEventsAssumption
  <2>4. "none" \in Responses /\ "none" \in Confirmations /\ "none" \in Outcomes
    BY DEF Responses, Confirmations, Outcomes
  <2> QED
    BY <2>1, <2>2, <2>3, <2>4 DEF Init, TypeOK
<1>2. Init => Stations
  BY DEF Init, Stations
<1> QED
  BY <1>1, <1>2

\* Every reachable state is well typed.
THEOREM TypeCorrect == Spec => [](TypeOK /\ Stations)
<1>1. TypeOK /\ Stations /\ [Next]_vars => (TypeOK /\ Stations)'
  BY NextTypeOK, NextStations
<1> QED
  BY <1>1, InitTypes, PTL DEF Spec

-----------------------------------------------------------------------------
(* The report of a loss *)

\* Only a hello, the loss of the link and disconnect() touch what it depends on.
LEMMA OthersReportNothing ==
  ASSUME Sorted, ~Hello, ~LinkDown, ~Disconnect
  PROVE  UNCHANGED <<loss, link, disconnected>>
<1> USE DEF table, ids, futures, task, cancels, wire, device
<1>1. ASSUME NEW c \in Calls, Register(c) PROVE UNCHANGED <<loss, link, disconnected>>
  BY <1>1 DEF Register
<1>2. ASSUME NEW c \in Calls, Moves(c) PROVE UNCHANGED <<loss, link, disconnected>>
  BY <1>2 DEF Moves, Proceed
<1>3. ASSUME NEW c \in Calls, Ends(c) PROVE UNCHANGED <<loss, link, disconnected>>
  BY <1>3 DEF Ends, Return
<1>4. ASSUME NEW c \in Calls,
             StreamYields(c) \/ CancelEnds(c) \/ \E why \in {"timeout", "cancelled"} : Interrupt(c, why)
      PROVE  UNCHANGED <<loss, link, disconnected>>
  BY <1>4 DEF StreamYields, CancelEnds, Interrupt
<1>5. ASSUME NEW c \in Calls, Deliver(c) PROVE UNCHANGED <<loss, link, disconnected>>
  BY <1>5 DEF Deliver
<1>6. ASSUME Inbound PROVE UNCHANGED <<loss, link, disconnected>>
  BY <1>6 DEF Inbound
<1>7. ASSUME NEW known, Notify(known) PROVE UNCHANGED <<loss, link, disconnected>>
  BY <1>7 DEF Notify
<1>8. ASSUME NEW c \in Calls,
             \/ AnswerCancel(c) \/ EmitEvent(c) \/ \E ok \in BOOLEAN : Respond(c, ok)
             \/ \E v \in {"success", "failure"} : EmitHandoff(c, v) \/ EmitTerminal(c, v)
      PROVE  Inbound
  BY <1>8 DEF AnswerCancel, EmitEvent, Respond, EmitHandoff, EmitTerminal
<1> QED
  BY <1>1, <1>2, <1>3, <1>4, <1>5, <1>6, <1>7, <1>8 DEF Sorted

\* _closing remembers that a loss was reported, and that disconnect() was called.
LossRemembered ==
  /\ LossReported
  /\ closing <=> (disconnected \/ reports = 1)

LEMMA NextLossRemembered == TypeOK /\ Stations /\ LossRemembered /\ [Next]_vars => LossRemembered'
<1> SUFFICES ASSUME TypeOK, Stations, LossRemembered, [Next]_vars PROVE LossRemembered'
  OBVIOUS
<1> USE DEF table, ids, loss, futures, task, cancels, wire, device
<1>1. CASE UNCHANGED <<loss, link, disconnected>>
  BY <1>1 DEF LossRemembered, LossReported
<1>2. ASSUME ConnectionLost, UNCHANGED disconnected PROVE LossRemembered'
  BY <1>2 DEF TypeOK, LossRemembered, LossReported, ConnectionLost
<1>3. ASSUME Hello PROVE LossRemembered'
  BY <1>1, <1>2, <1>3 DEF Hello
<1>4. ASSUME LinkDown PROVE LossRemembered'
  BY <1>2, <1>4 DEF LinkDown
<1>5. ASSUME Disconnect PROVE LossRemembered'
  BY <1>5 DEF TypeOK, LossRemembered, LossReported, Disconnect
<1> QED
  BY <1>1, <1>3, <1>4, <1>5, NextSorted, OthersReportNothing DEF vars

LEMMA LossIsRemembered == Spec => []LossRemembered
<1>1. Init => LossRemembered
  BY DEF Init, LossRemembered, LossReported
<1> QED
  BY <1>1, NextLossRemembered, TypeCorrect, PTL DEF Spec

\* A loss is reported once, and whenever disconnect() was not called.
THEOREM LossIsReported == Spec => []LossReported
<1>1. LossRemembered => LossReported
  BY DEF LossRemembered
<1> QED
  BY <1>1, LossIsRemembered, PTL

\* No loss is reported after disconnect().
THEOREM QuietAfterDisconnect == Spec => NoReportAfterDisconnect
<1>1. LossRemembered /\ TypeOK /\ Stations /\ Next => (disconnected => reports' = reports)
  BY NextSorted, OthersReportNothing
  DEF LossRemembered, LossReported, loss, Hello, LinkDown, Disconnect, ConnectionLost
<1>2. LossRemembered /\ TypeOK /\ Stations /\ [Next]_vars
        => [disconnected => reports' = reports]_vars
  BY <1>1
<1> QED
  BY <1>2, LossIsRemembered, TypeCorrect, PTL DEF Spec, NoReportAfterDisconnect

-----------------------------------------------------------------------------
(* What a call reports.  The argument: while no id is handed out in use, an id  *)
(* leads to one call only (IdsApart, Entries); so a frame settles the future of *)
(* the very call the device speaks of (FuturesTrue), whose task then ends with  *)
(* that.                                                                        *)

\* A call that has not started has no result; one that waits has no outcome; a
\* cancellation is sent only as a task ends.
Blank ==
  \A c \in Calls :
    /\ pc[c] = "idle" => /\ resp[c] = "none" /\ conf[c] = "none"
                         /\ answer[c] = "none" /\ verdict[c] = "none"
    /\ pc[c] \in Waiting \cup {"idle"} => outcome[c] = "none" /\ cancel[c] = "none"
    /\ pc[c] = "cancelling" => cancel[c] # "none"
    /\ conf[c] # "none" => Kind[c] \in Sends

\* An entry is that of its id's call; a send has one only while it waits.
Entries ==
  \A i \in Ids :
    /\ pending[i] # None => rid[pending[i]] = i /\ pc[pending[i]] # "idle"
    /\ confirms[i] # None => /\ rid[confirms[i]] = i
                             /\ pc[confirms[i]] \in Waiting
                             /\ Kind[confirms[i]] \in Sends

\* Nothing goes by the id of c any more.
Gone(c) ==
  pc[c] = "done" /\ frame[c] # "wire" /\ owed[c] = {} /\ pending[rid[c]] # c

\* Two calls share an id only if one is gone; a cancellation and a call likewise.
IdsApart ==
  ~reused =>
    \A c \in Calls, d \in Calls :
      /\ c # d /\ pc[c] # "idle" /\ rid[c] = rid[d] => Gone(c) \/ Gone(d)
      /\ cancel[d] = "wire" /\ pc[c] # "idle" /\ cid[d] = rid[c] => Gone(c)

\* The device says nothing twice, and no more than the kind of call calls for.
DeviceOwes ==
  \A c \in Calls :
    /\ owed[c] \subseteq Owes(Kind[c])
    /\ frame[c] = "wire" => owed[c] = {}
    /\ answer[c] # "none" => frame[c] # "wire" /\ "response" \notin owed[c]
    /\ verdict[c] # "none" => frame[c] # "wire" /\ owed[c] \subseteq {"response"}

\* A settled future holds what the device said.
FuturesTrue ==
  ~reused =>
    \A c \in Calls :
      pc[c] \in Waiting =>
        /\ resp[c] = "ok" => answer[c] = "ok"
        /\ resp[c] = "error" => answer[c] = "error"
        /\ conf[c] = "success" => verdict[c] = "success"
        /\ conf[c] = "failure" => verdict[c] = "failure"
        /\ pc[c] = "confirm" => answer[c] = "ok"

Inv ==
  /\ TypeOK /\ Stations /\ Blank /\ Entries /\ IdsApart /\ DeviceOwes
  /\ FuturesTrue /\ NoOrphanWait /\ TruthfulOutcome

HIDE DEF Ids

LEMMA FreshId ==
  ASSUME NextId, ~reused'
  PROVE  /\ ~reused
         /\ \A d \in Calls : rid[d] = nextId => Gone(d)
         /\ \A d \in Calls : cid[d] = nextId => cancel[d] # "wire"
BY DEF NextId, Taken, Gone

\* While the device owes a call something, the call's id leads to no other call.
LEMMA Lookup ==
  ASSUME Inv, ~reused, NEW d \in Calls, owed[d] # {}
  PROVE  /\ pending[rid[d]] \in {d, None}
         /\ confirms[rid[d]] \in {d, None}
         /\ \A c \in Calls : pc[c] \in Waiting /\ rid[c] = rid[d] => c = d
<1>1. rid[d] \in Ids /\ pc[d] # "idle" /\ ~Gone(d)
  BY DEF Inv, TypeOK, Stations, Gone
<1>2. pending[rid[d]] \in Calls \cup {None} /\ confirms[rid[d]] \in Calls \cup {None}
  BY <1>1 DEF Inv, TypeOK
<1>3. \A c \in Calls : rid[c] = rid[d] /\ ~Gone(c) => c = d
  BY <1>1 DEF Inv, IdsApart
<1>4. \A c \in Calls : pc[c] \in Waiting => ~Gone(c)
  BY DEF Gone
<1>5. \A c \in Calls : pending[rid[d]] = c => rid[c] = rid[d] /\ ~Gone(c)
  BY <1>1, NoneAssumption DEF Inv, Entries, Gone
<1>6. \A c \in Calls : confirms[rid[d]] = c => rid[c] = rid[d] /\ pc[c] \in Waiting
  BY <1>1, NoneAssumption DEF Inv, Entries
<1> QED
  BY <1>2, <1>3, <1>4, <1>5, <1>6

\* No entry goes by the id of a cancellation under way.
LEMMA CancelLookup ==
  ASSUME Inv, ~reused, NEW d \in Calls, cancel[d] = "wire"
  PROVE  pending[cid[d]] = None
<1>1. cid[d] \in Ids
  BY DEF Inv, TypeOK, Stations
<1>2. pending[cid[d]] \in Calls \cup {None}
  BY <1>1 DEF Inv, TypeOK
<1>3. \A c \in Calls : pending[cid[d]] = c => rid[c] = cid[d] /\ pc[c] # "idle"
  BY <1>1, NoneAssumption DEF Inv, Entries
<1>4. \A c \in Calls : pending[cid[d]] = c => Gone(c)
  BY <1>3 DEF Inv, IdsApart
<1>5. \A c \in Calls : Gone(c) => pending[rid[c]] # c
  BY DEF Gone
<1> QED
  BY <1>2, <1>3, <1>4, <1>5

\* Inv beyond the types
Rest ==
  /\ Blank /\ Entries /\ IdsApart /\ DeviceOwes
  /\ FuturesTrue /\ NoOrphanWait /\ TruthfulOutcome

LEMMA RegisterInv ==
  ASSUME Inv, TypeOK', Stations', NEW c \in Calls, Register(c)
  PROVE  Rest'
<1> USE DEF table, ids, loss, futures, task, cancels, wire, device
<1>a. ~reused' => ~reused
  BY FreshId DEF Register
<1>b. ~reused' => \A d \in Calls : (rid[d] = nextId => Gone(d)) /\ (cid[d] = nextId => cancel[d] # "wire")
  BY FreshId DEF Register
<1>c. nextId \in Ids /\ pc[c] = "idle" /\ resp[c] = "none" /\ conf[c] = "none"
      /\ owed[c] = {} /\ answer[c] = "none" /\ verdict[c] = "none"
  BY DEF Inv, TypeOK, Register, Blank, Stations
<1>d. \A i \in Ids : /\ pending[i] \in Calls \cup {None} /\ pending[i] # c
                     /\ confirms[i] \in Calls \cup {None} /\ confirms[i] # c
  <2>1. \A i \in Ids : pending[i] \in Calls \cup {None} /\ confirms[i] \in Calls \cup {None}
    BY DEF Inv, TypeOK
  <2>2. \A i \in Ids : (pending[i] # None => pc[pending[i]] # "idle")
                      /\ (confirms[i] # None => pc[confirms[i]] \in Waiting)
    BY DEF Inv, Entries
  <2> QED
    BY <1>c, <2>1, <2>2, NoneAssumption
<1>e. /\ rid' = [rid EXCEPT ![c] = nextId] /\ pc' = [pc EXCEPT ![c] = "sending"]
      /\ pending' = [pending EXCEPT ![nextId] = c]
      /\ UNCHANGED <<owed, answer, verdict, cid, cancel>>
  BY DEF Register
<1>1. Blank'
  BY DEF Inv, TypeOK, Stations, Blank, Register
<1>2. Entries'
  <2>1. \A i \in Ids : confirms'[i] # None => confirms'[i] = confirms[i]
                          \/ (i = nextId /\ confirms'[i] = c /\ Kind[c] \in Sends)
    BY <1>c DEF Register, Inv, TypeOK
  <2>2. \A i \in Ids : pending'[i] = pending[i] \/ (i = nextId /\ pending'[i] = c)
    BY <1>c, <1>e DEF Inv, TypeOK
  <2>3. /\ rid'[c] = nextId /\ pc'[c] \in Waiting
        /\ \A d \in Calls : d # c => rid'[d] = rid[d] /\ pc'[d] = pc[d]
    BY <1>e DEF Inv, TypeOK
  <2>4. Entries
    BY DEF Inv
  <2> HIDE DEF Ids
  <2> QED
    BY <1>d, <2>1, <2>2, <2>3, <2>4, NoneAssumption DEF Entries
<1>3. IdsApart'
  <2> SUFFICES ASSUME ~reused', NEW x \in Calls, NEW d \in Calls
               PROVE  /\ x # d /\ pc'[x] # "idle" /\ rid'[x] = rid'[d] => Gone(x)' \/ Gone(d)'
                      /\ cancel'[d] = "wire" /\ pc'[x] # "idle" /\ cid'[d] = rid'[x] => Gone(x)'
    BY DEF IdsApart
  <2>1. \A y \in Calls : Gone(y) => y # c /\ Gone(y)'
    BY <1>c, <1>e DEF Gone, Register, Inv, TypeOK
  <2>2. /\ rid'[c] = nextId
        /\ \A y \in Calls : y # c => rid'[y] = rid[y] /\ pc'[y] = pc[y]
    BY <1>e DEF Inv, TypeOK
  <2>3. cid'[d] = cid[d] /\ cancel'[d] = cancel[d]
    BY <1>e
  <2>4. IdsApart
    BY DEF Inv
  <2> HIDE DEF Ids
  <2> QED
    BY <1>a, <1>b, <2>1, <2>2, <2>3, <2>4 DEF IdsApart
<1>4. DeviceOwes'
  <2>1. \A d \in Calls : d # c => frame'[d] = frame[d]
    BY DEF Register, Inv, TypeOK
  <2> QED
    BY <1>c, <1>e, <2>1 DEF Inv, DeviceOwes
<1>5. FuturesTrue'
  BY <1>a DEF Inv, TypeOK, FuturesTrue, Blank, Register
<1>6. NoOrphanWait'
  BY <1>a, <1>b, <1>c DEF Inv, TypeOK, Stations, Blank, NoOrphanWait, Gone, Register
<1>7. TruthfulOutcome'
  BY <1>a DEF Inv, TypeOK, Blank, TruthfulOutcome, Register
<1> QED
  BY <1>1, <1>2, <1>3, <1>4, <1>5, <1>6, <1>7 DEF Rest

LEMMA MovesInv ==
  ASSUME Inv, TypeOK', Stations', NEW c \in Calls, Moves(c)
  PROVE  Rest'
<1> USE DEF table, ids, loss, futures, task, cancels, wire, device
<1>1. Blank'
  BY DEF Inv, TypeOK, Stations, Blank, Moves, Proceed
<1>2. Entries'
  BY DEF Inv, TypeOK, Stations, Entries, Moves, Proceed
<1>3. IdsApart'
  BY DEF Inv, TypeOK, Stations, IdsApart, Gone, Moves, Proceed
<1>4. DeviceOwes'
  BY DEF Inv, TypeOK, Stations, DeviceOwes, Moves, Proceed
<1>5. FuturesTrue'
  BY DEF Inv, TypeOK, FuturesTrue, Moves, Proceed
<1>6. NoOrphanWait'
  BY DEF Inv, TypeOK, Stations, NoOrphanWait, Moves, Proceed
<1>7. TruthfulOutcome'
  BY DEF Inv, TypeOK, Stations, TruthfulOutcome, Moves, Proceed
<1> QED
  BY <1>1, <1>2, <1>3, <1>4, <1>5, <1>6, <1>7 DEF Rest

LEMMA EndsInv ==
  ASSUME Inv, TypeOK', Stations', NEW c \in Calls, Ends(c)
  PROVE  Rest'
<1> USE DEF table, ids, loss, futures, task, cancels, wire, device
<1>a. PICK out \in Outcomes :
        /\ pc[c] \in Waiting
        /\ out = "ok" => /\ resp[c] = "ok" \/ pc[c] = "confirm"
                         /\ conf[c] = "success" \/ pc[c] # "confirm"
        /\ out = "ok" /\ Kind[c] \in Sends => pc[c] = "confirm"
        /\ out = "rejected" => resp[c] = "error"
        /\ out = "failed" => conf[c] = "failure"
        /\ Return(c, out)
  BY DEF Ends, Outcomes
<1>b. /\ UNCHANGED <<rid, resp, conf, frame, owed, answer, verdict>>
      /\ outcome' = [outcome EXCEPT ![c] = out]
  BY <1>a DEF Return
<1>c. \/ /\ pc' = [pc EXCEPT ![c] = "cancelling"]
         /\ cid' = [cid EXCEPT ![c] = nextId] /\ cancel' = [cancel EXCEPT ![c] = "wire"]
         /\ NextId
      \/ /\ pc' = [pc EXCEPT ![c] = "done"]
         /\ UNCHANGED <<cid, cancel, reused>>
  BY <1>a DEF Return
<1>d. ~reused' => ~reused
  BY <1>c, FreshId
<1>e. /\ pending' = pending \/ pending' = [pending EXCEPT ![rid[c]] = None]
      /\ \/ Kind[c] \notin Sends /\ confirms' = confirms /\ awaiting' = awaiting
         \/ /\ confirms' = [confirms EXCEPT ![rid[c]] = None]
            /\ awaiting' = awaiting \ {rid[c]}
  BY <1>a DEF Return, Pops, Sends
<1>f. rid[c] \in Ids /\ \A i \in Ids : pending[i] \in Calls \cup {None} /\ confirms[i] \in Calls \cup {None}
  BY <1>a DEF Inv, TypeOK, Stations
<1>g. \A d \in Calls : d # c => pc'[d] = pc[d]
  BY <1>c DEF Inv, TypeOK
<1>i. \A i \in Ids : pending'[i] \in {pending[i], None}
  <2>1. pending \in [Ids -> Calls \cup {None}]
    BY DEF Inv, TypeOK
  <2> QED
    BY <1>e, <1>f, <2>1
<1>h. pc'[c] \notin Waiting /\ pc'[c] # "idle"
  BY <1>c DEF Inv, TypeOK
<1>1. Blank'
  BY DEF Inv, TypeOK, Stations, Blank, Ends, Return
<1>2. Entries'
  <2>1. \A i \in Ids : pending'[i] # None => pending'[i] = pending[i]
    BY <1>i
  <2>2. \A i \in Ids : confirms'[i] # None => confirms'[i] = confirms[i] /\ confirms[i] # c
    <3> SUFFICES ASSUME NEW i \in Ids, confirms'[i] # None
                 PROVE  confirms'[i] = confirms[i] /\ confirms[i] # c
      OBVIOUS
    <3>1. confirms[i] # None => rid[confirms[i]] = i /\ Kind[confirms[i]] \in Sends
      BY DEF Inv, Entries
    <3>2. confirms \in [Ids -> Calls \cup {None}]
      BY DEF Inv, TypeOK
    <3> QED
      BY <1>e, <1>f, <3>1, <3>2
  <2> QED
    BY <1>b, <1>f, <1>g, <1>h, <2>1, <2>2 DEF Inv, Entries
<1>3. IdsApart'
  <2> SUFFICES ASSUME ~reused', NEW x \in Calls, NEW d \in Calls
               PROVE  /\ x # d /\ pc'[x] # "idle" /\ rid'[x] = rid'[d] => Gone(x)' \/ Gone(d)'
                      /\ cancel'[d] = "wire" /\ pc'[x] # "idle" /\ cid'[d] = rid'[x] => Gone(x)'
    BY DEF IdsApart
  <2>1. ~Gone(c)
    BY <1>a DEF Gone
  <2>2. ASSUME NEW y \in Calls, Gone(y) PROVE Gone(y)'
    <3>1. y # c
      BY <2>1, <2>2
    <3>2. pending'[rid[y]] # y
      <4>1. rid[y] \in Ids
        BY <2>2 DEF Gone, Inv, Stations
      <4> QED
        BY <1>i, <2>2, <4>1, NoneAssumption DEF Gone
    <3> QED
      BY <1>b, <1>g, <2>2, <3>1, <3>2 DEF Gone
  <2>3. pc'[x] # "idle" => pc[x] # "idle"
    BY <1>a, <1>g
  <2>4. cancel'[d] = "wire" /\ cid'[d] = rid[x] => (cancel[d] = "wire" /\ cid[d] = rid[x]) \/ Gone(x)
    <3>1. cid \in [Calls -> Ids \cup {0}] /\ cancel \in [Calls -> {"none", "wire", "over"}]
      BY DEF Inv, TypeOK
    <3>2. NextId => (rid[x] = nextId => Gone(x))
      BY FreshId
    <3> HIDE DEF Ids
    <3> QED
      BY <1>c, <3>1, <3>2
  <2> QED
    BY <1>b, <1>d, <2>2, <2>3, <2>4 DEF Inv, IdsApart
<1>4. DeviceOwes'
  BY DEF Inv, TypeOK, Stations, DeviceOwes, Ends, Return
<1>5. FuturesTrue'
  BY <1>b, <1>d, <1>g, <1>h DEF Inv, FuturesTrue
<1>6. NoOrphanWait'
  <2> SUFFICES ASSUME ~reused', NEW d \in Calls, pc'[d] \in Waiting
               PROVE  /\ resp'[d] = "pending" => pending'[rid'[d]] = d
                      /\ conf'[d] = "pending" => /\ confirms'[rid'[d]] = d
                                                 /\ Kind[d] = "ackUnicast" => rid'[d] \in awaiting'
    BY DEF NoOrphanWait
  <2>1. d # c /\ pc[d] \in Waiting /\ rid[d] \in Ids
    BY <1>g, <1>h DEF Inv, Stations
  <2>2. rid[d] # rid[c]
    BY <1>a, <1>d, <2>1 DEF Inv, IdsApart, Gone
  <2>3. pending'[rid[d]] = pending[rid[d]] /\ confirms'[rid[d]] = confirms[rid[d]]
        /\ (rid[d] \in awaiting => rid[d] \in awaiting')
    <3>1. pending \in [Ids -> Calls \cup {None}] /\ confirms \in [Ids -> Calls \cup {None}]
      BY DEF Inv, TypeOK
    <3> HIDE DEF Ids
    <3> QED
      BY <1>e, <2>1, <2>2, <3>1
  <2> QED
    BY <1>b, <1>d, <2>1, <2>3 DEF Inv, NoOrphanWait
<1>7. TruthfulOutcome'
  <2>1. \A d \in Calls : d # c => outcome'[d] = outcome[d]
    BY <1>b DEF Inv, TypeOK
  <2>2. outcome'[c] = out
    BY <1>b DEF Inv, TypeOK
  <2> QED
    BY <1>a, <1>b, <1>d, <2>1, <2>2 DEF Inv, TruthfulOutcome, FuturesTrue
<1> QED
  BY <1>1, <1>2, <1>3, <1>4, <1>5, <1>6, <1>7 DEF Rest

\* A step that leaves alone all that Inv speaks of preserves it.
LEMMA UnmovedInv ==
  ASSUME Inv,
         UNCHANGED <<pending, confirms, awaiting, reused, resp, conf, pc, rid, outcome,
                     cancel, cid, frame, owed, answer, verdict>>
  PROVE  Rest'
<1>1. Blank' /\ Entries' /\ DeviceOwes'
  BY DEF Inv, Blank, Entries, DeviceOwes
<1>2. IdsApart'
  BY DEF Inv, IdsApart, Gone
<1>3. FuturesTrue' /\ NoOrphanWait' /\ TruthfulOutcome'
  BY DEF Inv, FuturesTrue, NoOrphanWait, TruthfulOutcome
<1> QED
  BY <1>1, <1>2, <1>3 DEF Rest

LEMMA CancelEndsInv ==
  ASSUME Inv, TypeOK', Stations', NEW c \in Calls, CancelEnds(c)
  PROVE  Rest'
<1> USE DEF table, ids, loss, futures, task, cancels, wire, device
<1>1. Blank'
  BY DEF Inv, TypeOK, Stations, Blank, CancelEnds
<1>2. Entries'
  BY DEF Inv, TypeOK, Stations, Entries, CancelEnds
<1>3. IdsApart'
  BY DEF Inv, TypeOK, Stations, IdsApart, Gone, CancelEnds
<1>4. DeviceOwes'
  BY DEF Inv, TypeOK, Stations, DeviceOwes, CancelEnds
<1>5. FuturesTrue'
  BY DEF Inv, TypeOK, Stations, FuturesTrue, CancelEnds
<1>6. NoOrphanWait'
  BY DEF Inv, TypeOK, Stations, NoOrphanWait, CancelEnds
<1>7. TruthfulOutcome'
  BY DEF Inv, TypeOK, Stations, TruthfulOutcome, CancelEnds
<1> QED
  BY <1>1, <1>2, <1>3, <1>4, <1>5, <1>6, <1>7 DEF Rest

LEMMA InterruptInv ==
  ASSUME Inv, TypeOK', Stations', NEW c \in Calls, NEW why \in {"timeout", "cancelled"}, Interrupt(c, why)
  PROVE  Rest'
<1> USE DEF table, ids, loss, futures, task, cancels, wire, device
<1>1. Blank'
  BY DEF Inv, TypeOK, Stations, Blank, Interrupt
<1>2. Entries'
  BY DEF Inv, TypeOK, Stations, Entries, Interrupt
<1>3. IdsApart'
  BY DEF Inv, TypeOK, Stations, IdsApart, Gone, Interrupt
<1>4. DeviceOwes'
  BY DEF Inv, TypeOK, Stations, DeviceOwes, Interrupt
<1>5. FuturesTrue'
  BY DEF Inv, TypeOK, Stations, FuturesTrue, Interrupt
<1>6. NoOrphanWait'
  BY DEF Inv, TypeOK, Stations, NoOrphanWait, Interrupt
<1>7. TruthfulOutcome'
  BY DEF Inv, TypeOK, Stations, TruthfulOutcome, Interrupt
<1> QED
  BY <1>1, <1>2, <1>3, <1>4, <1>5, <1>6, <1>7 DEF Rest

LEMMA DeliverInv ==
  ASSUME Inv, TypeOK', Stations', NEW c \in Calls, Deliver(c)
  PROVE  Rest'
<1> USE DEF table, ids, loss, futures, task, cancels, wire, device
<1>1. Blank'
  BY DEF Inv, TypeOK, Stations, Blank, Deliver
<1>2. Entries'
  BY DEF Inv, TypeOK, Stations, Entries, Deliver
<1>3. IdsApart'
  BY DEF Inv, TypeOK, Stations, IdsApart, Gone, Deliver
<1>4. DeviceOwes'
  BY DEF Inv, TypeOK, Stations, DeviceOwes, Deliver
<1>5. FuturesTrue'
  BY DEF Inv, TypeOK, Stations, FuturesTrue, Deliver
<1>6. NoOrphanWait'
  BY DEF Inv, TypeOK, Stations, NoOrphanWait, Deliver
<1>7. TruthfulOutcome'
  BY DEF Inv, TypeOK, Stations, TruthfulOutcome, Deliver
<1> QED
  BY <1>1, <1>2, <1>3, <1>4, <1>5, <1>6, <1>7 DEF Rest

LEMMA AnswerCancelInv ==
  ASSUME Inv, TypeOK', Stations', NEW c \in Calls, AnswerCancel(c)
  PROVE  Rest'
<1> USE DEF table, ids, loss, futures, task, cancels, wire, device
<1>a. ~reused => UNCHANGED <<resp, queue>>
  BY CancelLookup DEF AnswerCancel, HandleResponse
<1>b. /\ UNCHANGED <<pending, confirms, awaiting, reused, conf, pc, rid, cid, frame, answer, verdict>>
      /\ cancel' = [cancel EXCEPT ![c] = "over"]
  BY DEF AnswerCancel, Inbound
<1>c. \A d \in Calls : owed[d] = {} => owed'[d] = {}
  <2>1. owed' = owed \/ owed' = [owed EXCEPT ![c] = {}]
    BY DEF AnswerCancel
  <2>2. owed \in [Calls -> SUBSET Frames]
    BY DEF Inv, TypeOK
  <2> QED
    BY <2>1, <2>2
<1>1. Blank'
  BY DEF Inv, TypeOK, Stations, Blank, AnswerCancel, HandleResponse, Inbound
<1>2. Entries'
  BY DEF Inv, TypeOK, Stations, Entries, AnswerCancel, HandleResponse, Inbound
<1>3. IdsApart'
  <2>1. \A d \in Calls : Gone(d) => Gone(d)'
    BY <1>b, <1>c DEF Gone
  <2>2. \A d \in Calls : cancel'[d] = "wire" => cancel[d] = "wire"
    BY <1>b DEF Inv, TypeOK
  <2> QED
    BY <1>b, <2>1, <2>2 DEF Inv, IdsApart
<1>4. DeviceOwes'
  BY DEF Inv, TypeOK, Stations, DeviceOwes, AnswerCancel, HandleResponse, Inbound
<1>5. FuturesTrue'
  BY <1>a, <1>b DEF Inv, FuturesTrue
<1>6. NoOrphanWait'
  BY DEF Inv, TypeOK, Stations, NoOrphanWait, AnswerCancel, HandleResponse, Inbound
<1>7. TruthfulOutcome'
  BY DEF Inv, TypeOK, Stations, TruthfulOutcome, AnswerCancel, HandleResponse, Inbound
<1> QED
  BY <1>1, <1>2, <1>3, <1>4, <1>5, <1>6, <1>7 DEF Rest

LEMMA RespondInv ==
  ASSUME Inv, TypeOK', Stations', NEW c \in Calls, NEW ok \in BOOLEAN, Respond(c, ok)
  PROVE  Rest'
<1> USE DEF table, ids, loss, futures, task, cancels, wire, device
<1>a. owed[c] # {} /\ "response" \in owed[c]
  BY DEF Respond
<1>b. ~reused => /\ pending[rid[c]] \in {c, None}
                 /\ confirms[rid[c]] \in {c, None}
                 /\ \A d \in Calls : pc[d] \in Waiting /\ rid[d] = rid[c] => d = c
  BY <1>a, Lookup
<1>c. /\ UNCHANGED <<reused, conf, pc, rid, outcome, frame, verdict>>
      /\ owed' = [owed EXCEPT ![c] = IF ok THEN @ \ {"response"} ELSE {}]
      /\ answer' = Record(answer, c, IF ok THEN "ok" ELSE "error")
  BY DEF Respond, Inbound
<1>d. answer[c] = "none"
  BY <1>a DEF Inv, DeviceOwes
<1>e. \A d \in Calls : d # c => answer'[d] = answer[d] /\ owed'[d] = owed[d]
  BY <1>c DEF Record, Inv, TypeOK
<1>f. frame[c] # "wire"
  BY <1>a DEF Inv, DeviceOwes
<1>1. Blank'
  BY DEF Inv, TypeOK, Stations, Blank, Respond, HandleResponse, Record, Inbound
<1>2. Entries'
  BY DEF Inv, TypeOK, Stations, Entries, Respond, HandleResponse, Record, Inbound
<1>3. IdsApart'
  <2>1. \A d \in Calls : Gone(d) => Gone(d)'
    BY <1>a, <1>c, <1>e DEF Gone, Respond, Inbound
  <2>2. IdsApart /\ cid' = cid /\ cancel' = cancel
    BY DEF Inv, Respond, Inbound
  <2> QED
    BY <1>c, <2>1, <2>2 DEF IdsApart
<1>4. DeviceOwes'
  <2>1. owed'[c] \subseteq owed[c] /\ "response" \notin owed'[c]
    BY <1>c DEF Inv, TypeOK
  <2> QED
    BY <1>a, <1>c, <1>e, <1>f, <2>1 DEF Inv, DeviceOwes
<1>5. FuturesTrue'
  <2>1. ~reused => \A d \in Calls : d # c => resp'[d] = resp[d]
    <3>1. ~reused => \/ resp' = resp
                     \/ resp' = [resp EXCEPT ![c] = IF ok THEN "ok" ELSE "error"]
      BY <1>b DEF Respond, HandleResponse
    <3> QED
      BY <3>1 DEF Inv, TypeOK
  <2>2. pc[c] \in Waiting => answer'[c] = IF ok THEN "ok" ELSE "error"
    BY <1>c DEF Record, Inv, TypeOK
  <2>3. ~reused => resp'[c] = resp[c] \/ resp'[c] = IF ok THEN "ok" ELSE "error"
    BY <1>b DEF Respond, HandleResponse, Inv, TypeOK
  <2>4. ~reused /\ pc[c] \in Waiting => resp[c] \notin {"ok", "error"} /\ pc[c] # "confirm"
    BY <1>d DEF Inv, FuturesTrue
  <2> QED
    BY <1>c, <1>e, <2>1, <2>2, <2>3, <2>4 DEF Inv, FuturesTrue
<1>6. NoOrphanWait'
  BY DEF Inv, TypeOK, Stations, NoOrphanWait, Respond, HandleResponse, Record, Inbound
<1>7. TruthfulOutcome'
  <2>1. \A d \in Calls : answer[d] # "none" => answer'[d] = answer[d]
    BY <1>d, <1>e
  <2> QED
    BY <1>c, <2>1 DEF Inv, TruthfulOutcome
<1> QED
  BY <1>1, <1>2, <1>3, <1>4, <1>5, <1>6, <1>7 DEF Rest

LEMMA EmitHandoffInv ==
  ASSUME Inv, TypeOK', Stations', NEW c \in Calls, NEW v \in {"success", "failure"}, EmitHandoff(c, v)
  PROVE  Rest'
<1> USE DEF table, ids, loss, futures, task, cancels, wire, device
<1>a. owed[c] # {} /\ ~(owed[c] \subseteq {"response"})
  BY DEF EmitHandoff
<1>b. ~reused => /\ pending[rid[c]] \in {c, None}
                 /\ confirms[rid[c]] \in {c, None}
                 /\ \A d \in Calls : pc[d] \in Waiting /\ rid[d] = rid[c] => d = c
  BY <1>a, Lookup
<1>c. /\ UNCHANGED <<reused, pending, confirms, resp, pc, rid, outcome, frame, answer>>
      /\ owed'[c] \subseteq owed[c] /\ \A d \in Calls : d # c => owed'[d] = owed[d]
      /\ verdict' = verdict \/ verdict' = Record(verdict, c, v)
  BY DEF EmitHandoff, Inbound, Inv, TypeOK
<1>d. verdict[c] = "none"
  BY <1>a DEF Inv, DeviceOwes
<1>e. \A d \in Calls : d # c => verdict'[d] = verdict[d]
  BY <1>c DEF Record, Inv, TypeOK
<1>f. frame[c] # "wire"
  BY <1>a DEF Inv, DeviceOwes
<1>g. verdict'[c] # "none" => owed'[c] \subseteq {"response"}
  <2>1. verdict'[c] # "none" => v = "failure" \/ Kind[c] = "unicast"
    BY <1>d DEF EmitHandoff
  <2>2. owed'[c] = owed[c] \ (IF v = "success" THEN {"handoff"} ELSE {"handoff", "ack"})
    BY DEF EmitHandoff, Inv, TypeOK
  <2>3. owed[c] \subseteq Owes(Kind[c]) /\ "handoff" \in owed[c]
    BY DEF Inv, DeviceOwes, EmitHandoff
  <2>4. owed[c] \subseteq {"response", "handoff", "ack"} /\ (Kind[c] = "unicast" => "ack" \notin owed[c])
    BY <2>3 DEF Owes
  <2> QED
    BY <2>1, <2>2, <2>4
<1>h. ~reused => \A d \in Calls : d # c => conf'[d] = conf[d]
  BY <1>b DEF EmitHandoff, HandleHandoff, HandleTerminal, Settle, Inv, TypeOK
<1>i. ~reused /\ pc[c] \in Waiting =>
        conf'[c] = conf[c] \/ (conf'[c] = v /\ verdict'[c] = v)
  <2>1. ~reused /\ pc[c] \in Waiting => conf'[c] = conf[c] \/ (conf'[c] = v /\ (v = "failure" \/ rid[c] \notin awaiting) /\ conf[c] = "pending")
    BY <1>b DEF EmitHandoff, HandleHandoff, HandleTerminal, Settle, Inv, TypeOK
  <2>2. Kind[c] \in {"unicast", "ackUnicast"}
    BY DEF EmitHandoff, Inv, DeviceOwes, Owes
  <2>3. pc[c] \in Waiting /\ (v = "failure" \/ Kind[c] = "unicast") => verdict'[c] = v
    BY DEF EmitHandoff, Record, Inv, TypeOK
  <2> QED
    BY <2>1, <2>2, <2>3 DEF Inv, NoOrphanWait
<1>j. ~reused /\ conf'[c] = "pending" =>
        conf[c] = "pending" /\ (confirms[rid[c]] = c => awaiting' = awaiting)
  BY <1>b, NoneAssumption DEF EmitHandoff, HandleHandoff, HandleTerminal, Settle, Inv, TypeOK
<1>k. awaiting \ {rid[c]} \subseteq awaiting'
  BY DEF EmitHandoff, HandleHandoff, HandleTerminal
<1>1. Blank'
  BY DEF Inv, TypeOK, Stations, Blank, EmitHandoff, HandleHandoff, HandleTerminal, Settle, Record, Inbound
<1>2. Entries'
  BY DEF Inv, TypeOK, Stations, Entries, EmitHandoff, HandleHandoff, HandleTerminal, Settle, Record, Inbound
<1>3. IdsApart'
  BY DEF Inv, TypeOK, Stations, IdsApart, Gone, EmitHandoff, HandleHandoff, HandleTerminal, Settle, Record, Inbound
<1>4. DeviceOwes'
  BY <1>a, <1>c, <1>d, <1>e, <1>f, <1>g DEF Inv, DeviceOwes
<1>5. FuturesTrue'
  <2>1. ~reused /\ pc[c] \in Waiting => conf[c] \notin {"success", "failure"}
    BY <1>d DEF Inv, FuturesTrue
  <2> QED
    BY <1>c, <1>e, <1>h, <1>i, <2>1 DEF Inv, FuturesTrue
<1>6. NoOrphanWait'
  <2> SUFFICES ASSUME ~reused', NEW d \in Calls, pc'[d] \in Waiting
               PROVE  /\ resp'[d] = "pending" => pending'[rid'[d]] = d
                      /\ conf'[d] = "pending" => /\ confirms'[rid'[d]] = d
                                                 /\ Kind[d] = "ackUnicast" => rid'[d] \in awaiting'
    BY DEF NoOrphanWait
  <2>1. ~reused /\ pc[d] \in Waiting
    BY <1>c
  <2>2. CASE d = c
    BY <1>c, <1>j, <2>1, <2>2 DEF Inv, NoOrphanWait
  <2>3. CASE d # c
    <3>1. rid[d] # rid[c] /\ conf'[d] = conf[d]
      BY <1>b, <1>h, <2>1, <2>3
    <3>2. rid[d] \in awaiting => rid[d] \in awaiting'
      BY <1>k, <3>1
    <3> QED
      BY <1>c, <2>1, <3>1, <3>2 DEF Inv, NoOrphanWait
  <2> QED
    BY <2>2, <2>3
<1>7. TruthfulOutcome'
  <2>1. \A d \in Calls : verdict[d] # "none" => verdict'[d] = verdict[d]
    BY <1>d, <1>e
  <2> QED
    BY <1>c, <2>1 DEF Inv, TruthfulOutcome
<1> QED
  BY <1>1, <1>2, <1>3, <1>4, <1>5, <1>6, <1>7 DEF Rest

LEMMA EmitTerminalInv ==
  ASSUME Inv, TypeOK', Stations', NEW c \in Calls, NEW v \in {"success", "failure"}, EmitTerminal(c, v)
  PROVE  Rest'
<1> USE DEF table, ids, loss, futures, task, cancels, wire, device
<1>a. owed[c] # {} /\ ~(owed[c] \subseteq {"response"})
  BY DEF EmitTerminal
<1>b. ~reused => /\ pending[rid[c]] \in {c, None}
                 /\ confirms[rid[c]] \in {c, None}
                 /\ \A d \in Calls : pc[d] \in Waiting /\ rid[d] = rid[c] => d = c
  BY <1>a, Lookup
<1>c. /\ UNCHANGED <<reused, pending, confirms, resp, pc, rid, outcome, frame, answer>>
      /\ owed'[c] \subseteq owed[c] /\ \A d \in Calls : d # c => owed'[d] = owed[d]
      /\ verdict' = verdict \/ verdict' = Record(verdict, c, v)
  BY DEF EmitTerminal, Inbound, Inv, TypeOK
<1>d. verdict[c] = "none"
  BY <1>a DEF Inv, DeviceOwes
<1>e. \A d \in Calls : d # c => verdict'[d] = verdict[d]
  BY <1>c DEF Record, Inv, TypeOK
<1>f. frame[c] # "wire"
  BY <1>a DEF Inv, DeviceOwes
<1>g. owed'[c] \subseteq {"response"}
  BY DEF EmitTerminal, Inv, TypeOK
<1>h. ~reused => \A d \in Calls : d # c => conf'[d] = conf[d]
  BY <1>b DEF EmitTerminal, HandleTerminal, Settle, Inv, TypeOK
<1>i. ~reused /\ pc[c] \in Waiting =>
        conf'[c] = conf[c] \/ (conf'[c] = v /\ verdict'[c] = v)
  BY <1>b DEF EmitTerminal, HandleTerminal, Settle, Record, Inv, TypeOK
<1>j. ~reused /\ conf'[c] = "pending" =>
        conf[c] = "pending" /\ (confirms[rid[c]] = c => awaiting' = awaiting)
  BY <1>b, NoneAssumption DEF EmitTerminal, HandleTerminal, Settle, Inv, TypeOK
<1>k. awaiting \ {rid[c]} \subseteq awaiting'
  BY DEF EmitTerminal, HandleTerminal
<1>1. Blank'
  BY DEF Inv, TypeOK, Stations, Blank, EmitTerminal, HandleTerminal, Settle, Record, Inbound
<1>2. Entries'
  BY DEF Inv, TypeOK, Stations, Entries, EmitTerminal, HandleTerminal, Settle, Record, Inbound
<1>3. IdsApart'
  BY DEF Inv, TypeOK, Stations, IdsApart, Gone, EmitTerminal, HandleTerminal, Settle, Record, Inbound
<1>4. DeviceOwes'
  BY <1>a, <1>c, <1>d, <1>e, <1>f, <1>g DEF Inv, DeviceOwes
<1>5. FuturesTrue'
  <2>1. ~reused /\ pc[c] \in Waiting => conf[c] \notin {"success", "failure"}
    BY <1>d DEF Inv, FuturesTrue
  <2> QED
    BY <1>c, <1>e, <1>h, <1>i, <2>1 DEF Inv, FuturesTrue
<1>6. NoOrphanWait'
  <2> SUFFICES ASSUME ~reused', NEW d \in Calls, pc'[d] \in Waiting
               PROVE  /\ resp'[d] = "pending" => pending'[rid'[d]] = d
                      /\ conf'[d] = "pending" => /\ confirms'[rid'[d]] = d
                                                 /\ Kind[d] = "ackUnicast" => rid'[d] \in awaiting'
    BY DEF NoOrphanWait
  <2>1. ~reused /\ pc[d] \in Waiting
    BY <1>c
  <2>2. CASE d = c
    BY <1>c, <1>j, <2>1, <2>2 DEF Inv, NoOrphanWait
  <2>3. CASE d # c
    <3>1. rid[d] # rid[c] /\ conf'[d] = conf[d]
      BY <1>b, <1>h, <2>1, <2>3
    <3>2. rid[d] \in awaiting => rid[d] \in awaiting'
      BY <1>k, <3>1
    <3> QED
      BY <1>c, <2>1, <3>1, <3>2 DEF Inv, NoOrphanWait
  <2> QED
    BY <2>2, <2>3
<1>7. TruthfulOutcome'
  <2>1. \A d \in Calls : verdict[d] # "none" => verdict'[d] = verdict[d]
    BY <1>d, <1>e
  <2> QED
    BY <1>c, <2>1 DEF Inv, TruthfulOutcome
<1> QED
  BY <1>1, <1>2, <1>3, <1>4, <1>5, <1>6, <1>7 DEF Rest

LEMMA HelloInv ==
  ASSUME Inv, TypeOK', Stations', Hello, received
  PROVE  Rest'
<1> USE DEF table, ids, loss, futures, task, cancels, wire, device
<1>a. ConnectionLost
  BY DEF Hello
<1>b. /\ \A d \in Calls : resp'[d] = resp[d] \/ (resp[d] = "pending" /\ resp'[d] = "lost")
      /\ \A d \in Calls : conf'[d] = conf[d] \/ (conf[d] = "pending" /\ conf'[d] = "lost")
      /\ \A d \in Calls, i \in Ids : resp[d] = "pending" /\ pending[i] = d => resp'[d] = "lost"
      /\ \A d \in Calls, i \in Ids : conf[d] = "pending" /\ confirms[i] = d => conf'[d] = "lost"
      /\ \A i \in Ids : pending'[i] = None
  BY <1>a DEF ConnectionLost, FailPending, Fail, Inv, TypeOK
<1>c. /\ UNCHANGED <<reused, pc, rid, cid, cancel, frame, answer, verdict>>
      /\ \A d \in Calls : owed'[d] = {}
  BY DEF Hello
<1>1. Blank'
  BY DEF Inv, TypeOK, Stations, Blank, Hello, ConnectionLost, FailPending, Fail
<1>2. Entries'
  BY DEF Inv, TypeOK, Stations, Entries, Hello, ConnectionLost, FailPending, Fail
<1>3. IdsApart'
  <2>1. \A d \in Calls : Gone(d) => Gone(d)'
    <3>1. \A d \in Calls : pc[d] = "done" => rid[d] \in Ids
      BY DEF Inv, Stations
    <3> QED
      BY <1>b, <1>c, <3>1, NoneAssumption DEF Gone
  <2> QED
    BY <1>c, <2>1 DEF Inv, IdsApart
<1>4. DeviceOwes'
  BY DEF Inv, TypeOK, Stations, DeviceOwes, Hello, ConnectionLost, FailPending, Fail
<1>5. FuturesTrue'
  BY <1>b, <1>c DEF Inv, FuturesTrue
<1>6. NoOrphanWait'
  <2> SUFFICES ASSUME ~reused, NEW d \in Calls, pc[d] \in Waiting
               PROVE  resp'[d] # "pending" /\ conf'[d] # "pending"
    BY <1>c DEF NoOrphanWait
  <2>1. rid[d] \in Ids
    BY DEF Inv, Stations
  <2> QED
    BY <1>b, <2>1 DEF Inv, NoOrphanWait
<1>7. TruthfulOutcome'
  BY DEF Inv, TypeOK, Stations, TruthfulOutcome, Hello, ConnectionLost, FailPending, Fail
<1> QED
  BY <1>1, <1>2, <1>3, <1>4, <1>5, <1>6, <1>7 DEF Rest

LEMMA LinkDownInv ==
  ASSUME Inv, TypeOK', Stations', LinkDown
  PROVE  Rest'
<1> USE DEF table, ids, loss, futures, task, cancels, wire, device
<1>a. ConnectionLost
  BY DEF LinkDown
<1>b. /\ \A d \in Calls : resp'[d] = resp[d] \/ (resp[d] = "pending" /\ resp'[d] = "lost")
      /\ \A d \in Calls : conf'[d] = conf[d] \/ (conf[d] = "pending" /\ conf'[d] = "lost")
      /\ \A d \in Calls, i \in Ids : resp[d] = "pending" /\ pending[i] = d => resp'[d] = "lost"
      /\ \A d \in Calls, i \in Ids : conf[d] = "pending" /\ confirms[i] = d => conf'[d] = "lost"
      /\ \A i \in Ids : pending'[i] = None
  BY <1>a DEF ConnectionLost, FailPending, Fail, Inv, TypeOK
<1>c. /\ UNCHANGED <<reused, pc, rid, cid, answer, verdict>>
      /\ \A d \in Calls : owed'[d] = {} /\ frame'[d] # "wire" /\ (cancel'[d] = "wire" => cancel[d] = "wire")
  BY DEF LinkDown
<1>1. Blank'
  BY DEF Inv, TypeOK, Stations, Blank, LinkDown, ConnectionLost, FailPending, Fail
<1>2. Entries'
  BY DEF Inv, TypeOK, Stations, Entries, LinkDown, ConnectionLost, FailPending, Fail
<1>3. IdsApart'
  <2>1. \A d \in Calls : Gone(d) => Gone(d)'
    <3>1. \A d \in Calls : pc[d] = "done" => rid[d] \in Ids
      BY DEF Inv, Stations
    <3> QED
      BY <1>b, <1>c, <3>1, NoneAssumption DEF Gone
  <2> QED
    BY <1>c, <2>1 DEF Inv, IdsApart
<1>4. DeviceOwes'
  BY DEF Inv, TypeOK, Stations, DeviceOwes, LinkDown, ConnectionLost, FailPending, Fail
<1>5. FuturesTrue'
  BY <1>b, <1>c DEF Inv, FuturesTrue
<1>6. NoOrphanWait'
  <2> SUFFICES ASSUME ~reused, NEW d \in Calls, pc[d] \in Waiting
               PROVE  resp'[d] # "pending" /\ conf'[d] # "pending"
    BY <1>c DEF NoOrphanWait
  <2>1. rid[d] \in Ids
    BY DEF Inv, Stations
  <2> QED
    BY <1>b, <2>1 DEF Inv, NoOrphanWait
<1>7. TruthfulOutcome'
  BY DEF Inv, TypeOK, Stations, TruthfulOutcome, LinkDown, ConnectionLost, FailPending, Fail
<1> QED
  BY <1>1, <1>2, <1>3, <1>4, <1>5, <1>6, <1>7 DEF Rest


LEMMA NextInv == Inv /\ [Next]_vars => Inv'
<1> SUFFICES ASSUME Inv, [Next]_vars PROVE Inv'
  OBVIOUS
<1> USE DEF table, ids, loss, futures, task, cancels, wire, device
<1>1. TypeOK' /\ Stations'
  BY NextTypeOK, NextStations DEF Inv
<1>2. Rest' => Inv'
  BY <1>1 DEF Inv, Rest
<1>3. CASE UNCHANGED vars
  BY <1>2, <1>3, UnmovedInv DEF vars
<1>4. ASSUME NEW c \in Calls, StreamYields(c) PROVE Rest'
  BY <1>4, UnmovedInv DEF StreamYields
<1>5. ASSUME NEW c \in Calls, EmitEvent(c) PROVE Rest'
  BY <1>5, UnmovedInv DEF EmitEvent, Inbound
<1>6. ASSUME NEW known \in BOOLEAN, Notify(known) PROVE Rest'
  BY <1>6, UnmovedInv DEF Notify
<1>7. ASSUME Hello PROVE Rest'
  <2>1. CASE received
    BY <1>1, <1>7, <2>1, HelloInv
  <2>2. CASE ~received
    BY <1>7, <2>2, UnmovedInv DEF Hello
  <2> QED
    BY <2>1, <2>2
<1>8. ASSUME Disconnect PROVE Rest'
  BY <1>8, UnmovedInv DEF Disconnect
<1> QED
  BY <1>1, <1>2, <1>3, <1>4, <1>5, <1>6, <1>7, <1>8, NextSorted, RegisterInv, MovesInv,
     EndsInv, CancelEndsInv, InterruptInv, DeliverInv, AnswerCancelInv, RespondInv,
     EmitHandoffInv, EmitTerminalInv, LinkDownInv
  DEF Sorted, Inv

LEMMA InitInv == Init => Inv
<1> SUFFICES ASSUME Init PROVE Inv
  OBVIOUS
<1>1. TypeOK /\ Stations
  BY InitTypes
<1>2. Blank /\ Entries /\ DeviceOwes
  BY DEF Init, Blank, Entries, DeviceOwes
<1>3. IdsApart /\ FuturesTrue /\ NoOrphanWait /\ TruthfulOutcome
  BY DEF Init, IdsApart, FuturesTrue, NoOrphanWait, TruthfulOutcome
<1> QED
  BY <1>1, <1>2, <1>3 DEF Inv

LEMMA InvHolds == Spec => []Inv
BY InitInv, NextInv, PTL DEF Spec

\* While no id is reused in use, what a call reports is what the device said of it.
THEOREM OutcomeIsTruthful == Spec => []TruthfulOutcome
<1>1. Inv => TruthfulOutcome
  BY DEF Inv
<1> QED
  BY <1>1, InvHolds, PTL

\* While no id is reused in use, no task waits on a future nothing can settle.
THEOREM WaitIsReachable == Spec => []NoOrphanWait
<1>1. Inv => NoOrphanWait
  BY DEF Inv
<1> QED
  BY <1>1, InvHolds, PTL

-----------------------------------------------------------------------------
(* Futures settle once, and a send given up on is cancelled *)

\* A future changes only while it is unsettled, and a confirm future only while
\* its send has not ended.
Steady ==
  \A c \in Calls :
    /\ resp'[c] = resp[c] \/ resp[c] \in {"none", "pending"}
    /\ \/ conf'[c] = conf[c]
       \/ conf[c] \in {"none", "pending"} /\ pc[c] \in Waiting \cup {"idle"}

LEMMA FuturesStep == Inv /\ [Next]_vars => Steady
<1> SUFFICES ASSUME Inv, [Next]_vars PROVE Steady
  OBVIOUS
<1> USE DEF table, ids, loss, futures, task, cancels, wire, device
<1>1. CASE UNCHANGED <<resp, conf>>
  BY <1>1 DEF Steady
<1>2. ASSUME NEW d \in Calls, Register(d) PROVE Steady
  BY <1>2 DEF Register, Inv, TypeOK, Blank, Steady
<1>3. ASSUME NEW d \in Calls, NEW why, Interrupt(d, why) PROVE Steady
  BY <1>3 DEF Interrupt, Inv, TypeOK, Steady
<1>4. ASSUME NEW i, NEW ok, HandleResponse(i, ok), conf' = conf PROVE Steady
  BY <1>4 DEF HandleResponse, Inv, TypeOK, Steady
<1>5. ASSUME NEW i \in Ids, NEW v, Settle(i, v), resp' = resp PROVE Steady
  <2>1. confirms[i] # None => pc[confirms[i]] \in Waiting
    BY DEF Inv, Entries
  <2>2. conf \in [Calls -> Confirmations]
    BY DEF Inv, TypeOK
  <2> QED
    BY <1>5, <2>1, <2>2 DEF Settle, Steady
<1>6. ASSUME ConnectionLost PROVE Steady
  <2>1. \A i \in Ids : confirms[i] # None => pc[confirms[i]] \in Waiting
    BY DEF Inv, Entries
  <2> QED
    BY <1>6, <2>1, NoneAssumption DEF ConnectionLost, FailPending, Fail, Steady
<1>7. ASSUME NEW d \in Calls, AnswerCancel(d) PROVE Steady
  BY <1>4, <1>7 DEF AnswerCancel
<1>8. ASSUME NEW d \in Calls, NEW ok, Respond(d, ok) PROVE Steady
  BY <1>4, <1>8 DEF Respond
<1>9. ASSUME NEW d \in Calls, NEW v, EmitHandoff(d, v) PROVE Steady
  <2>1. rid[d] \in Ids
    BY <1>9 DEF EmitHandoff, Inv, TypeOK, Stations
  <2> QED
    BY <1>1, <1>5, <1>9, <2>1 DEF EmitHandoff, HandleHandoff, HandleTerminal
<1>10. ASSUME NEW d \in Calls, NEW v, EmitTerminal(d, v) PROVE Steady
  <2>1. rid[d] \in Ids
    BY <1>10 DEF EmitTerminal, Inv, TypeOK, Stations
  <2> QED
    BY <1>5, <1>10, <2>1 DEF EmitTerminal, HandleTerminal
<1>11. ASSUME Hello PROVE Steady
  BY <1>1, <1>6, <1>11 DEF Hello
<1>12. ASSUME LinkDown PROVE Steady
  BY <1>6, <1>12 DEF LinkDown
<1>13. ASSUME NEW d \in Calls, Moves(d) \/ Ends(d) PROVE Steady
  BY <1>1, <1>13 DEF Moves, Proceed, Ends, Return
<1>14. ASSUME NEW d \in Calls,
              StreamYields(d) \/ CancelEnds(d) \/ Deliver(d) \/ EmitEvent(d)
       PROVE  Steady
  BY <1>1, <1>14 DEF StreamYields, CancelEnds, Deliver, EmitEvent
<1>15. ASSUME NEW known, Notify(known) PROVE Steady
  BY <1>1, <1>15 DEF Notify
<1>16. ASSUME Disconnect PROVE Steady
  BY <1>1, <1>16 DEF Disconnect
<1>17. CASE UNCHANGED vars
  BY <1>1, <1>17 DEF vars
<1>18. Next => Sorted
  BY NextSorted DEF Inv
<1> QED
  BY <1>2, <1>3, <1>7, <1>8, <1>9, <1>10, <1>11, <1>12, <1>13, <1>14, <1>15, <1>16, <1>17,
     <1>18
  DEF Sorted

\* No future is set twice.
THEOREM FuturesSettleOnce == Spec => SettledOnce
<1>1. Inv /\ [Next]_vars =>
        [\A c \in Calls :
           /\ resp[c] \notin {"none", "pending"} => resp'[c] = resp[c]
           /\ conf[c] \notin {"none", "pending"} => conf'[c] = conf[c]]_vars
  BY FuturesStep DEF Steady
<1> QED
  BY <1>1, InvHolds, PTL DEF Spec, SettledOnce

LEMMA NextAbandoned == Inv /\ AbandonedIsCancelled /\ [Next]_vars => AbandonedIsCancelled'
<1> SUFFICES ASSUME Inv, AbandonedIsCancelled, [Next]_vars PROVE AbandonedIsCancelled'
  OBVIOUS
<1> USE DEF table, ids, loss, futures, task, cancels, wire, device
<1>1. \A c \in Calls : conf'[c] = conf[c] \/ pc[c] \in Waiting \cup {"idle"}
  BY FuturesStep DEF Steady
<1>2. ASSUME closing => closing',
             \A c \in Calls : /\ cancel'[c] # "none" <=> cancel[c] # "none"
                              /\ pc'[c] = "done" => pc[c] \in {"done", "cancelling"}
      PROVE  AbandonedIsCancelled'
  BY <1>1, <1>2 DEF Inv, Blank, AbandonedIsCancelled, Unconfirmed
<1>3. ASSUME NEW c \in Calls, Ends(c) PROVE AbandonedIsCancelled'
  BY <1>3 DEF Ends, Return, Unconfirmed, Inv, TypeOK, Blank, AbandonedIsCancelled
<1>4. ASSUME NEW c \in Calls, Register(c) PROVE AbandonedIsCancelled'
  BY <1>2, <1>4 DEF Register, Inv, TypeOK
<1>5. ASSUME NEW c \in Calls, Moves(c) PROVE AbandonedIsCancelled'
  BY <1>2, <1>5 DEF Moves, Proceed, Inv, TypeOK
<1>6. ASSUME NEW c \in Calls, CancelEnds(c) PROVE AbandonedIsCancelled'
  BY <1>2, <1>6 DEF CancelEnds, Inv, TypeOK
<1>7. ASSUME NEW c \in Calls, NEW why, Interrupt(c, why) PROVE AbandonedIsCancelled'
  BY <1>2, <1>7 DEF Interrupt
<1>8. ASSUME NEW c \in Calls, AnswerCancel(c) PROVE AbandonedIsCancelled'
  BY <1>2, <1>8 DEF AnswerCancel, Inbound, Inv, TypeOK
<1>9. ASSUME Inbound, cancel' = cancel PROVE AbandonedIsCancelled'
  BY <1>2, <1>9 DEF Inbound
<1>10. ASSUME NEW c \in Calls, EmitEvent(c) \/ \E ok \in BOOLEAN : Respond(c, ok)
       PROVE  AbandonedIsCancelled'
  BY <1>9, <1>10 DEF EmitEvent, Respond
<1>11. ASSUME NEW c \in Calls, NEW v, EmitHandoff(c, v) \/ EmitTerminal(c, v)
       PROVE  AbandonedIsCancelled'
  BY <1>9, <1>11 DEF EmitHandoff, EmitTerminal
<1>12. ASSUME NEW c \in Calls, StreamYields(c) \/ Deliver(c) PROVE AbandonedIsCancelled'
  BY <1>2, <1>12 DEF StreamYields, Deliver
<1>13. ASSUME NEW known, Notify(known) PROVE AbandonedIsCancelled'
  BY <1>2, <1>13 DEF Notify
<1>14. ASSUME Hello PROVE AbandonedIsCancelled'
  BY <1>2, <1>14 DEF Hello, ConnectionLost
<1>15. ASSUME LinkDown PROVE AbandonedIsCancelled'
  BY <1>2, <1>15 DEF LinkDown, ConnectionLost, Inv, TypeOK
<1>16. ASSUME Disconnect PROVE AbandonedIsCancelled'
  BY <1>2, <1>16 DEF Disconnect
<1>17. CASE UNCHANGED vars
  BY <1>2, <1>17 DEF vars
<1>18. Next => Sorted
  BY NextSorted DEF Inv
<1> QED
  BY <1>3, <1>4, <1>5, <1>6, <1>7, <1>8, <1>10, <1>11, <1>12, <1>13, <1>14, <1>15, <1>16,
     <1>17, <1>18
  DEF Sorted

\* A send that ends unconfirmed is cancelled on the device, and only such a send.
THEOREM AbandonedSendIsCancelled == Spec => []AbandonedIsCancelled
<1>1. Init => AbandonedIsCancelled
  <2> SUFFICES ASSUME Init, NEW c \in Calls
               PROVE  pc[c] = "idle" /\ cancel[c] = "none"
    BY DEF AbandonedIsCancelled
  <2> QED
    BY DEF Init
<1> QED
  BY <1>1, NextAbandoned, InvHolds, PTL DEF Spec
=============================================================================
