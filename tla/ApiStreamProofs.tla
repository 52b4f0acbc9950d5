-------------------------- MODULE ApiStreamProofs --------------------------
(***************************************************************************)
(* What the tables of Api still hold when a call is over, what the         *)
(* consumer of a stream gets, and that the multiplexer implements          *)
(* Exchange, for any set of calls, ids and events.                         *)
(***************************************************************************)
EXTENDS ApiProofs

USE DEF Waiting

-----------------------------------------------------------------------------
(* Entries left behind *)

\* A stream has no timeout and is never cancelled on the device; it yields nothing
\* before its frame is sent, and the other calls yield nothing at all.
StreamsApart ==
  \A c \in Calls :
    /\ intr[c] = "timeout" => Kind[c] \in Sends
    /\ pc[c] = "cancelling" => Kind[c] \in Sends
    /\ pc[c] = "sending" \/ pc[c] = "idle" \/ Kind[c] # "stream" => seen[c] = <<>>

\* The one entry that outlives its call: that of a stream whose send_frame failed.
LeftBehind(c) ==
  /\ pc[c] = "done" /\ Kind[c] = "stream"
  /\ outcome[c] \in {"sendError", "cancelled"} /\ seen[c] = <<>>

Tables ==
  /\ StreamsApart
  /\ \A i \in Ids, c \in Calls : pending[i] = c => pc[c] \in Waiting \/ LeftBehind(c)
  /\ \A i \in awaiting : confirms[i] # None

\* A step that leaves alone all that Tables speaks of preserves it.
LEMMA UnmovedTables ==
  ASSUME Tables, UNCHANGED <<pending, confirms, pc, intr, outcome, seen>>,
         awaiting' \subseteq awaiting
  PROVE  Tables'
BY DEF Tables, StreamsApart, LeftBehind

LEMMA RegisterTables ==
  ASSUME Inv, Tables, NEW c \in Calls, Register(c)
  PROVE  Tables'
<1>1. /\ UNCHANGED <<intr, outcome, seen>>
      /\ pc[c] = "idle" /\ pc' = [pc EXCEPT ![c] = "sending"]
      /\ pending' = [pending EXCEPT ![nextId] = c]
      /\ \/ confirms' = [confirms EXCEPT ![nextId] = c] /\ awaiting' \subseteq awaiting \cup {nextId}
         \/ confirms' = confirms /\ awaiting' = awaiting
  BY DEF Register, task, Sends
<1>2. /\ pc \in [Calls -> Waiting \cup {"idle", "cancelling", "done"}]
      /\ pending \in [Ids -> Calls \cup {None}] /\ confirms \in [Ids -> Calls \cup {None}]
      /\ nextId \in Ids /\ awaiting \subseteq Ids
  BY DEF Inv, TypeOK
<1>3. StreamsApart'
  BY <1>1, <1>2 DEF Tables, StreamsApart
<1>4. ASSUME NEW i \in Ids, NEW d \in Calls, pending'[i] = d
      PROVE  pc'[d] \in Waiting \/ LeftBehind(d)'
  <2>1. CASE d = c
    BY <1>1, <1>2, <2>1
  <2>2. CASE d # c
    <3>1. pending[i] = d
      BY <1>1, <1>2, <1>4, <2>2
    <3>2. pc[d] \in Waiting \/ LeftBehind(d)
      BY <3>1, <1>4 DEF Tables
    <3>3. pc'[d] = pc[d]
      BY <1>1, <1>2, <2>2
    <3> QED
      BY <1>1, <3>2, <3>3 DEF LeftBehind
  <2> QED
    BY <2>1, <2>2
<1>5. \A i \in awaiting' : confirms'[i] # None
  BY <1>1, <1>2, NoneAssumption DEF Tables
<1> QED
  BY <1>3, <1>4, <1>5 DEF Tables

LEMMA MovesTables ==
  ASSUME Inv, Tables, NEW c \in Calls, Moves(c)
  PROVE  Tables'
<1>1. PICK await \in Waiting \ {"sending"} :
        /\ pc[c] \in Waiting /\ pc' = [pc EXCEPT ![c] = await]
        /\ UNCHANGED <<pending, confirms, awaiting, intr, outcome, seen>>
  BY DEF Moves, Proceed, table, task
<1> QED
  BY <1>1 DEF Tables, StreamsApart, LeftBehind, Inv, TypeOK

LEMMA EndsTables ==
  ASSUME Inv, Tables, NEW c \in Calls, Ends(c)
  PROVE  Tables'
<1>1. PICK out :
        /\ pc[c] \in Waiting
        /\ out = "timeout" => intr[c] = "timeout"
        /\ pc[c] = "sending" => out \in {"timeout", "cancelled", "sendError"}
        /\ Return(c, out)
  BY DEF Ends
<1>2. /\ outcome' = [outcome EXCEPT ![c] = out] /\ intr' = [intr EXCEPT ![c] = "none"]
      /\ seen' = seen
      /\ \/ pc' = [pc EXCEPT ![c] = "cancelling"] /\ Kind[c] \in Sends
         \/ pc' = [pc EXCEPT ![c] = "done"]
  BY <1>1 DEF Return, Unconfirmed, Inv, Blank
<1>3. /\ pc \in [Calls -> Waiting \cup {"idle", "cancelling", "done"}]
      /\ pending \in [Ids -> Calls \cup {None}] /\ confirms \in [Ids -> Calls \cup {None}]
      /\ rid[c] \in Ids /\ awaiting \subseteq Ids
      /\ outcome \in [Calls -> Outcomes] /\ intr \in [Calls -> {"none", "timeout", "cancelled"}]
  BY <1>1 DEF Inv, TypeOK, Stations
<1>4. StreamsApart'
  BY <1>1, <1>2, <1>3 DEF Tables, StreamsApart
<1>5. ASSUME NEW i \in Ids, NEW d \in Calls, pending'[i] = d
      PROVE  pc'[d] \in Waiting \/ LeftBehind(d)'
  <2>1. \/ pending' = [pending EXCEPT ![rid[c]] = None]
        \/ pending' = pending /\ Kind[c] = "stream" /\ pc[c] = "sending"
    BY <1>1 DEF Return, Pops, table
  <2>2. pending[i] = d
    BY <1>3, <1>5, <2>1, NoneAssumption
  <2>3. pc[d] \in Waiting \/ LeftBehind(d)
    BY <2>2 DEF Tables
  <2>4. CASE d # c
    <3>1. pc'[d] = pc[d] /\ outcome'[d] = outcome[d]
      BY <1>2, <1>3, <2>4
    <3> QED
      BY <1>2, <2>3, <3>1 DEF LeftBehind
  <2>5. CASE d = c
    <3>1. rid[c] = i
      BY <2>2, <2>5, NoneAssumption DEF Inv, Entries
    <3>2. Kind[c] = "stream" /\ pc[c] = "sending"
      BY <1>3, <1>5, <2>1, <2>5, <3>1, NoneAssumption
    <3>3. out \in {"cancelled", "sendError"} /\ seen[c] = <<>>
      BY <1>1, <3>2 DEF Tables, StreamsApart, Sends
    <3>4. pc'[c] = "done" /\ outcome'[c] = out
      BY <1>2, <1>3, <3>2 DEF Sends
    <3> QED
      BY <1>2, <2>5, <3>2, <3>3, <3>4 DEF LeftBehind
  <2> QED
    BY <2>4, <2>5
<1>6. \A i \in awaiting' : confirms'[i] # None
  <2>1. \/ confirms' = confirms /\ awaiting' = awaiting
        \/ confirms' = [confirms EXCEPT ![rid[c]] = None] /\ awaiting' = awaiting \ {rid[c]}
    BY <1>1 DEF Return, table
  <2> QED
    BY <1>3, <2>1 DEF Tables
<1> QED
  BY <1>4, <1>5, <1>6 DEF Tables

LEMMA NextTables == Inv /\ Tables /\ [Next]_vars => Tables'
<1> SUFFICES ASSUME Inv, Tables, [Next]_vars PROVE Tables'
  OBVIOUS
<1> USE DEF table, ids, loss, futures, task, cancels, wire, device
<1>1. CASE UNCHANGED vars
  BY <1>1, UnmovedTables DEF vars
<1>2. ASSUME NEW c \in Calls, StreamYields(c) PROVE Tables'
  BY <1>2 DEF StreamYields, Runs, Tables, StreamsApart, LeftBehind, Inv, TypeOK, Stations
<1>3. ASSUME NEW c \in Calls, CancelEnds(c) PROVE Tables'
  <2>1. /\ pc[c] = "cancelling" /\ pc' = [pc EXCEPT ![c] = "done"]
        /\ UNCHANGED <<pending, confirms, awaiting, intr, seen>>
        /\ \A d \in Calls : d # c => outcome'[d] = outcome[d]
    BY <1>3 DEF CancelEnds, Inv, TypeOK
  <2>2. pc \in [Calls -> Waiting \cup {"idle", "cancelling", "done"}]
    BY DEF Inv, TypeOK
  <2> QED
    BY <2>1, <2>2 DEF Tables, StreamsApart, LeftBehind
<1>4. ASSUME NEW c \in Calls, NEW why \in {"timeout", "cancelled"}, Interrupt(c, why)
      PROVE  Tables'
  BY <1>4 DEF Interrupt, MayTimeOut, Tables, StreamsApart, LeftBehind, Inv, TypeOK
<1>5. ASSUME NEW c \in Calls, Deliver(c) PROVE Tables'
  BY <1>5, UnmovedTables DEF Deliver
<1>6. ASSUME Inbound, awaiting' \subseteq awaiting PROVE Tables'
  BY <1>6, UnmovedTables DEF Inbound
<1>7. ASSUME NEW c \in Calls,
             AnswerCancel(c) \/ EmitEvent(c) \/ \E ok \in BOOLEAN : Respond(c, ok)
      PROVE  Tables'
  BY <1>6, <1>7 DEF AnswerCancel, EmitEvent, Respond
<1>8. ASSUME NEW c \in Calls, NEW v, EmitHandoff(c, v) \/ EmitTerminal(c, v) PROVE Tables'
  BY <1>6, <1>8 DEF EmitHandoff, HandleHandoff, EmitTerminal, HandleTerminal
<1>9. ASSUME NEW known, Notify(known) PROVE Tables'
  BY <1>9, UnmovedTables DEF Notify
<1>10. ASSUME ConnectionLost, UNCHANGED <<pc, intr, outcome, seen>> PROVE Tables'
  <2>1. awaiting' = {} /\ \A i \in Ids : pending'[i] = None
    BY <1>10 DEF ConnectionLost, FailPending
  <2> QED
    BY <1>10, <2>1, NoneAssumption DEF Tables, StreamsApart
<1>11. ASSUME Hello PROVE Tables'
  BY <1>10, <1>11, UnmovedTables DEF Hello
<1>12. ASSUME LinkDown PROVE Tables'
  BY <1>10, <1>12 DEF LinkDown
<1>13. ASSUME Disconnect PROVE Tables'
  BY <1>13, UnmovedTables DEF Disconnect
<1>14. Next => Sorted
  BY NextSorted DEF Inv
<1> QED
  BY <1>1, <1>2, <1>3, <1>4, <1>5, <1>7, <1>8, <1>9, <1>11, <1>12, <1>13, <1>14,
     RegisterTables, MovesTables, EndsTables
  DEF Sorted

LEMMA TablesHold == Spec => []Tables
<1>1. Init => Tables
  BY NoneAssumption DEF Init, Tables, StreamsApart
<1> QED
  BY <1>1, NextTables, InvHolds, PTL DEF Spec

\* An entry belongs to a call under way, or to a stream whose frame was not sent, and
\* an ack is awaited only for an entry, even when ids are reused in use.
THEOREM NoEntryIsStale == Spec => []NoStaleEntry
<1>1. Inv /\ Tables => NoStaleEntry
  <2> SUFFICES ASSUME Inv, Tables, NEW i \in Ids
               PROVE  /\ pending[i] # None =>
                           /\ rid[pending[i]] = i
                           /\ \/ pc[pending[i]] \in Waiting
                              \/ /\ Kind[pending[i]] = "stream"
                                 /\ outcome[pending[i]] \in {"sendError", "cancelled"}
                                 /\ seen[pending[i]] = <<>>
                      /\ confirms[i] # None =>
                           rid[confirms[i]] = i /\ pc[confirms[i]] \in Waiting
                      /\ i \in awaiting => confirms[i] # None
    BY DEF NoStaleEntry
  <2>1. pending[i] \in Calls \cup {None}
    BY DEF Inv, TypeOK
  <2>2. /\ pending[i] # None => rid[pending[i]] = i
        /\ confirms[i] # None => rid[confirms[i]] = i /\ pc[confirms[i]] \in Waiting
    BY DEF Inv, Entries
  <2>3. pending[i] # None => pc[pending[i]] \in Waiting \/ LeftBehind(pending[i])
    BY <2>1 DEF Tables
  <2> QED
    BY <2>2, <2>3 DEF Tables, LeftBehind
<1> QED
  BY <1>1, TablesHold, InvHolds, PTL

-----------------------------------------------------------------------------
(* Streams *)

\* The device has the response of c yet to give.
Unanswered(c) == frame[c] = "wire" \/ "response" \in owed[c]

\* The queue goes on where the consumer stands with what was emitted; the None that ends it comes last, and
\* after every event the device emitted.
QueueGoesOn(c) ==
  \A n \in 1 .. Len(queue[c]) :
    \/ queue[c][n] = <<c, Len(seen[c]) + n>> /\ Len(seen[c]) + n <= emitted[c]
    \/ /\ queue[c][n] = End /\ n = Len(queue[c])
       /\ ~Unanswered(c) /\ Len(seen[c]) + n = emitted[c] + 1

StreamFlows(c) ==
  /\ pc[c] = "idle" => queue[c] = <<>> /\ emitted[c] = 0
  /\ \A n \in 1 .. Len(seen[c]) : seen[c][n] = <<c, n>>
  /\ QueueGoesOn(c)
  /\ Unanswered(c) /\ pending[rid[c]] = c => Len(seen[c]) + Len(queue[c]) = emitted[c]
  /\ outcome[c] \in {"ok", "rejected"} => Len(seen[c]) = emitted[c] /\ ~Unanswered(c)

Flows == ~reused => \A c \in Calls : Kind[c] = "stream" => StreamFlows(c)

\* While the device may still say something of c, the id of c leads to c or nowhere.
LEMMA UnansweredLookup ==
  ASSUME Inv, ~reused, NEW c \in Calls, "response" \in owed[c]
  PROVE  /\ pending[rid[c]] \in {c, None} /\ pc[c] # "idle"
         /\ rid[c] \in Ids /\ frame[c] # "wire"
BY Lookup DEF Inv, Stations, DeviceOwes

\* A step that adds nothing to a stream keeps it flowing.
LEMMA FlowKept ==
  ASSUME NEW c \in Calls, StreamFlows(c),
         queue'[c] = queue[c], seen'[c] = seen[c], emitted'[c] = emitted[c],
         pc'[c] = "idle" => pc[c] = "idle",
         Unanswered(c)' => Unanswered(c) /\ (pending'[rid'[c]] = c => pending[rid[c]] = c),
         outcome'[c] \in {"ok", "rejected"} => outcome[c] \in {"ok", "rejected"}
  PROVE  StreamFlows(c)'
<1>1. QueueGoesOn(c)'
  BY DEF StreamFlows, QueueGoesOn
<1> QED
  BY <1>1 DEF StreamFlows

\* The first item is the next event, or the end of a stream that was all seen.
LEMMA FirstItem ==
  ASSUME TypeOK, NEW c \in Calls, StreamFlows(c), queue[c] # <<>>
  PROVE  \/ Head(queue[c]) = <<c, Len(seen[c]) + 1>> /\ Len(seen[c]) < emitted[c]
         \/ /\ Head(queue[c]) = End /\ ~Unanswered(c)
            /\ Len(seen[c]) = emitted[c]
<1>1. queue[c] \in Seq(Item) /\ seen[c] \in Seq(Item) /\ emitted[c] \in Nat
  BY MaxEventsAssumption DEF TypeOK
<1>2. 1 \in 1 .. Len(queue[c]) /\ Head(queue[c]) = queue[c][1]
  BY <1>1
<1>3. \/ queue[c][1] = <<c, Len(seen[c]) + 1>> /\ Len(seen[c]) + 1 <= emitted[c]
      \/ queue[c][1] = End /\ ~Unanswered(c) /\ Len(seen[c]) + 1 = emitted[c] + 1
  BY <1>2 DEF StreamFlows, QueueGoesOn
<1> QED
  BY <1>1, <1>2, <1>3

\* Where an item stands does not change as those before it are taken.
LEMMA Shifts ==
  ASSUME NEW a \in Nat, NEW n \in Nat
  PROVE  /\ a + (n + 1) = (a + n) + 1
         /\ \A b : b = a + 1 => a + (n + 1) = b + n
         /\ \A b, k : b = a + 1 /\ k = n - 1 => b + k = a + n
OBVIOUS

LEMMA Raised ==
  ASSUME NEW a \in Nat, NEW n \in Nat, NEW k \in Nat
  PROVE  /\ a + n <= k => a + n <= k + 1
         /\ a + n = k + 1 => a + n <= k + 1
OBVIOUS

LEMMA EventIsNotEnd == ASSUME NEW c \in Calls, NEW n PROVE <<c, n>> # End
BY NoneAssumption DEF End

LEMMA RegisterFlows ==
  ASSUME Inv, Tables, Flows, NEW c \in Calls, Register(c)
  PROVE  Flows'
<1> SUFFICES ASSUME ~reused', NEW x \in Calls, Kind[x] = "stream" PROVE StreamFlows(x)'
  BY DEF Flows
<1>1. ~reused
  BY FreshId DEF Register
<1>2. /\ UNCHANGED <<queue, seen, emitted, outcome, owed>>
      /\ pc[c] = "idle" /\ pc' = [pc EXCEPT ![c] = "sending"]
      /\ pending' = [pending EXCEPT ![nextId] = c] /\ rid' = [rid EXCEPT ![c] = nextId]
      /\ frame' = [frame EXCEPT ![c] = Written]
  BY DEF Register, task, device
<1>3. /\ pc \in [Calls -> Waiting \cup {"idle", "cancelling", "done"}]
      /\ pending \in [Ids -> Calls \cup {None}] /\ rid \in [Calls -> Ids \cup {0}]
      /\ frame \in [Calls -> {"none", "wire", "refused"}] /\ nextId \in Ids
  BY DEF Inv, TypeOK
<1>4. StreamFlows(x)
  BY <1>1 DEF Flows
<1>5. CASE x # c
  <2>1. rid'[x] = rid[x] /\ frame'[x] = frame[x] /\ pc'[x] = pc[x]
    BY <1>2, <1>3, <1>5
  <2>2. Unanswered(x)' => (pending'[rid[x]] = x => pending[rid[x]] = x)
    <3>1. Unanswered(x)' => rid[x] \in Ids
      BY <1>2, <2>1 DEF Unanswered, Inv, Stations
    <3> QED
      BY <1>2, <1>3, <1>5, <3>1
  <2> QED
    BY <1>2, <1>4, <2>1, <2>2, FlowKept DEF Unanswered
<1>6. CASE x = c
  <2>1. queue[c] = <<>> /\ seen[c] = <<>> /\ emitted[c] = 0
    BY <1>2, <1>4, <1>6 DEF StreamFlows, Tables, StreamsApart
  <2>2. outcome[c] = "none"
    BY <1>2 DEF Inv, Blank
  <2>3. Len(<<>>) = 0 /\ 1 .. 0 = {}
    OBVIOUS
  <2>4. queue'[c] = <<>> /\ seen'[c] = <<>> /\ emitted'[c] = 0 /\ outcome'[c] = "none"
    BY <1>2, <2>1, <2>2
  <2> QED
    BY <1>6, <2>3, <2>4 DEF StreamFlows, QueueGoesOn
<1> QED
  BY <1>5, <1>6

LEMMA EndsFlows ==
  ASSUME Inv, Tables, Flows, NEW c \in Calls, Ends(c)
  PROVE  Flows'
<1> SUFFICES ASSUME ~reused', NEW x \in Calls, Kind[x] = "stream" PROVE StreamFlows(x)'
  BY DEF Flows
<1>1. PICK out :
        /\ pc[c] \in Waiting
        /\ pc[c] = "sending" => out \in {"timeout", "cancelled", "sendError"}
        /\ pc[c] = "streaming" /\ out \in {"ok", "rejected"} =>
             queue[c] # <<>> /\ Head(queue[c]) = End
        /\ Return(c, out)
  BY DEF Ends
<1>2. /\ UNCHANGED <<queue, seen, emitted, rid, frame, owed>>
      /\ outcome' = [outcome EXCEPT ![c] = out]
      /\ \/ pc' = [pc EXCEPT ![c] = "cancelling"] /\ NextId
         \/ pc' = [pc EXCEPT ![c] = "done"] /\ reused' = reused
      /\ pending' = pending \/ pending' = [pending EXCEPT ![rid[c]] = None]
  BY <1>1 DEF Return, table, ids, futures, wire, device
<1>3. /\ pc \in [Calls -> Waiting \cup {"idle", "cancelling", "done"}]
      /\ pending \in [Ids -> Calls \cup {None}] /\ rid[c] \in Ids
      /\ outcome \in [Calls -> Outcomes]
  BY <1>1 DEF Inv, TypeOK, Stations
<1>4. ~reused
  BY <1>2, FreshId
<1>5. StreamFlows(x)
  BY <1>4 DEF Flows
<1>6. /\ pc'[x] = "idle" => pc[x] = "idle"
      /\ Unanswered(x)' <=> Unanswered(x)
  BY <1>2, <1>3 DEF Unanswered
<1>7. Unanswered(x) => (pending'[rid[x]] = x => pending[rid[x]] = x)
  <2>1. Unanswered(x) => rid[x] \in Ids
    BY DEF Unanswered, Inv, Stations
  <2> QED
    BY <1>2, <1>3, <2>1, NoneAssumption
<1>8. CASE outcome'[x] \in {"ok", "rejected"} /\ x = c
  <2>1. out \in {"ok", "rejected"} /\ pc[c] = "streaming"
    BY <1>1, <1>2, <1>3, <1>8 DEF Inv, Stations, Sends
  <2>2. queue[c] # <<>> /\ Head(queue[c]) = End
    BY <1>1, <2>1
  <2>3. Len(seen[c]) = emitted[c] /\ ~Unanswered(c)
    BY <1>5, <1>8, <2>2, FirstItem, EventIsNotEnd DEF Inv
  <2>4. QueueGoesOn(c)'
    BY <1>2, <1>5, <1>6, <1>8 DEF StreamFlows, QueueGoesOn
  <2> QED
    BY <1>2, <1>5, <1>6, <1>8, <2>3, <2>4 DEF StreamFlows
<1>9. CASE ~(outcome'[x] \in {"ok", "rejected"} /\ x = c)
  <2>1. outcome'[x] \in {"ok", "rejected"} => outcome[x] \in {"ok", "rejected"}
    BY <1>2, <1>3, <1>9
  <2> QED
    BY <1>2, <1>5, <1>6, <1>7, <2>1, FlowKept
<1> QED
  BY <1>8, <1>9

LEMMA StreamYieldsFlows ==
  ASSUME Inv, Flows, NEW c \in Calls, StreamYields(c)
  PROVE  Flows'
<1> SUFFICES ASSUME ~reused', NEW x \in Calls, Kind[x] = "stream" PROVE StreamFlows(x)'
  BY DEF Flows
<1>1. /\ UNCHANGED <<pending, rid, pc, outcome, emitted, owed, frame, reused>>
      /\ pc[c] = "streaming"
      /\ queue[c] # <<>> /\ Head(queue[c]) # End
      /\ seen' = [seen EXCEPT ![c] = Append(seen[c], Head(queue[c]))]
      /\ queue' = [queue EXCEPT ![c] = Tail(queue[c])]
  BY DEF StreamYields, Runs, table, ids, wire, device
<1>2. queue \in [Calls -> Seq(Item)] /\ seen \in [Calls -> Seq(Item)] /\ emitted \in [Calls -> Nat]
  BY MaxEventsAssumption DEF Inv, TypeOK
<1>3. StreamFlows(x) /\ (Unanswered(x)' <=> Unanswered(x))
  BY <1>1 DEF Flows, Unanswered
<1>4. CASE x # c
  <2>1. queue'[x] = queue[x] /\ seen'[x] = seen[x]
    BY <1>1, <1>2, <1>4
  <2> QED
    BY <1>1, <1>3, <2>1, FlowKept
<1>5. CASE x = c
  <2> DEFINE q == queue[c]
             s == seen[c]
  <2>1. q \in Seq(Item) /\ s \in Seq(Item) /\ q # <<>> /\ emitted[c] \in Nat
    BY <1>1, <1>2
  <2>2. Head(q) = <<c, Len(s) + 1>>
    BY <1>1, <1>3, <1>5, FirstItem DEF Inv
  <2>3. seen'[c] = Append(s, <<c, Len(s) + 1>>) /\ queue'[c] = Tail(q)
    BY <1>1, <1>2, <2>2
  <2>4. /\ <<c, Len(s) + 1>> \in Item
        /\ Len(Tail(q)) = Len(q) - 1 /\ Len(q) \in Nat \ {0} /\ Len(s) \in Nat
        /\ \A n \in 1 .. Len(q) - 1 : Tail(q)[n] = q[n + 1]
    <3>1. Len(s) \in Nat
      BY <2>1
    <3> QED
      BY <2>1, <3>1 DEF Item
  <2>5. /\ Len(seen'[c]) = Len(s) + 1 /\ Len(queue'[c]) = Len(q) - 1
        /\ \A n \in 1 .. Len(s) : seen'[c][n] = s[n]
        /\ seen'[c][Len(s) + 1] = <<c, Len(s) + 1>>
    BY <2>1, <2>3, <2>4
  <2>6. QueueGoesOn(c)'
    <3> SUFFICES ASSUME NEW n \in 1 .. Len(queue'[c])
                 PROVE  \/ queue'[c][n] = <<c, Len(seen'[c]) + n>> /\ Len(seen'[c]) + n <= emitted'[c]
                        \/ /\ queue'[c][n] = End /\ n = Len(queue'[c])
                           /\ ~Unanswered(c)' /\ Len(seen'[c]) + n = emitted'[c] + 1
      BY DEF QueueGoesOn
    <3>1. n + 1 \in 1 .. Len(q) /\ queue'[c][n] = q[n + 1] /\ n \in Nat
      BY <2>3, <2>4, <2>5
    <3>2. \/ q[n + 1] = <<c, Len(s) + (n + 1)>> /\ Len(s) + (n + 1) <= emitted[c]
          \/ /\ q[n + 1] = End /\ n + 1 = Len(q)
             /\ ~Unanswered(c) /\ Len(s) + (n + 1) = emitted[c] + 1
      BY <1>3, <1>5, <3>1 DEF StreamFlows, QueueGoesOn
    <3>3. Len(s) + (n + 1) = Len(seen'[c]) + n
      <4>1. Len(seen'[c]) = Len(s) + 1 /\ Len(s) \in Nat /\ n \in Nat
        BY <2>4, <2>5, <3>1
      <4>2. \A b : b = Len(s) + 1 => Len(s) + (n + 1) = b + n
        BY <4>1, Shifts, Zenon
      <4> QED
        BY <4>1, <4>2, Zenon
    <3>4. n + 1 = Len(q) => n = Len(queue'[c])
      BY <2>4, <2>5, <3>1
    <3> HIDE DEF q, s
    <3> QED
      BY <1>1, <1>3, <1>5, <3>1, <3>2, <3>3, <3>4
  <2>7. \A n \in 1 .. Len(seen'[c]) : seen'[c][n] = <<c, n>>
    <3>1. \A n \in 1 .. Len(s) : s[n] = <<c, n>>
      BY <1>3, <1>5 DEF StreamFlows
    <3>2. ASSUME NEW n \in 1 .. Len(s) + 1 PROVE seen'[c][n] = <<c, n>>
      <4>1. CASE n = Len(s) + 1
        BY <2>5, <4>1
      <4>2. CASE n # Len(s) + 1
        <5>1. n \in 1 .. Len(s)
          BY <2>4, <4>2
        <5> QED
          BY <2>5, <3>1, <5>1
      <4> QED
        BY <4>1, <4>2
    <3> QED
      BY <2>5, <3>2
  <2>8. Len(seen'[c]) + Len(queue'[c]) = Len(s) + Len(q)
    <3>1. Len(s) \in Nat /\ Len(q) \in Nat
      BY <2>4
    <3>2. \A b, k : b = Len(s) + 1 /\ k = Len(q) - 1 => b + k = Len(s) + Len(q)
      BY <3>1, Shifts, Zenon
    <3> QED
      BY <2>5, <3>2, Zenon
  <2>9. outcome[c] = "none" /\ pc'[c] = "streaming"
    BY <1>1 DEF Inv, Blank
  <2>10. Unanswered(c)' /\ pending'[rid'[c]] = c => Len(s) + Len(q) = emitted'[c]
    BY <1>1, <1>3, <1>5 DEF StreamFlows
  <2> HIDE DEF q, s
  <2> QED
    BY <1>1, <1>5, <2>6, <2>7, <2>8, <2>9, <2>10 DEF StreamFlows
<1> QED
  BY <1>4, <1>5

LEMMA EmitEventFlows ==
  ASSUME Inv, Flows, NEW c \in Calls, EmitEvent(c)
  PROVE  Flows'
<1> SUFFICES ASSUME ~reused', NEW x \in Calls, Kind[x] = "stream" PROVE StreamFlows(x)'
  BY DEF Flows
<1> DEFINE e == <<c, emitted[c] + 1>>
<1>1. /\ UNCHANGED <<pending, rid, pc, outcome, seen, owed, frame, reused>>
      /\ "response" \in owed[c] /\ Kind[c] = "stream"
      /\ emitted' = [emitted EXCEPT ![c] = emitted[c] + 1]
      /\ HandleEvent(rid[c], e)
  BY DEF EmitEvent, Inbound, ids, task, wire
<1>2. queue \in [Calls -> Seq(Item)] /\ seen \in [Calls -> Seq(Item)] /\ emitted \in [Calls -> Nat]
  BY MaxEventsAssumption DEF Inv, TypeOK
<1>3. ~reused /\ StreamFlows(x) /\ (Unanswered(x)' <=> Unanswered(x))
  BY <1>1 DEF Flows, Unanswered
<1>4. pending[rid[c]] \in {c, None} /\ pc[c] # "idle" /\ Unanswered(c)
  BY <1>1, <1>3, UnansweredLookup DEF Unanswered
<1>5. \/ pending[rid[c]] = c /\ queue' = [queue EXCEPT ![c] = Append(queue[c], e)]
      \/ pending[rid[c]] # c /\ queue' = queue
  BY <1>1, <1>4, NoneAssumption DEF HandleEvent
<1>6. CASE x # c
  <2>1. queue'[x] = queue[x] /\ emitted'[x] = emitted[x]
    BY <1>1, <1>2, <1>5, <1>6
  <2> QED
    BY <1>1, <1>3, <2>1, FlowKept
<1>7. CASE x = c
  <2> DEFINE q == queue[c]
             s == seen[c]
  <2>1. /\ q \in Seq(Item) /\ Len(q) \in Nat /\ Len(s) \in Nat
        /\ emitted[c] \in Nat /\ emitted'[c] = emitted[c] + 1
    BY <1>1, <1>2
  <2>2. \A n \in 1 .. Len(q) : q[n] = <<c, Len(s) + n>> /\ Len(s) + n <= emitted[c]
    BY <1>3, <1>4, <1>7 DEF StreamFlows, QueueGoesOn
  <2>3. \/ /\ pending[rid[c]] = c /\ queue'[c] = Append(q, e)
           /\ Len(s) + Len(q) = emitted[c]
        \/ pending[rid[c]] # c /\ queue'[c] = q
    BY <1>2, <1>3, <1>4, <1>5, <1>7 DEF StreamFlows
  <2>4. e \in Item
    BY <2>1 DEF Item
  <2>5. Len(Append(q, e)) = Len(q) + 1 /\ Append(q, e)[Len(q) + 1] = e
        /\ \A n \in 1 .. Len(q) : Append(q, e)[n] = q[n]
    BY <2>1, <2>4
  <2>6. \A n \in 1 .. Len(queue'[c]) :
          queue'[c][n] = <<c, Len(s) + n>> /\ Len(s) + n <= emitted[c] + 1
    <3>1. \A n \in 1 .. Len(q) : q[n] = <<c, Len(s) + n>> /\ Len(s) + n <= emitted[c] + 1
      <4> SUFFICES ASSUME NEW n \in 1 .. Len(q)
                   PROVE  q[n] = <<c, Len(s) + n>> /\ Len(s) + n <= emitted[c] + 1
        OBVIOUS
      <4>1. n \in Nat
        OBVIOUS
      <4>2. q[n] = <<c, Len(s) + n>> /\ Len(s) + n <= emitted[c]
        BY <2>2
      <4>3. Len(s) + n <= emitted[c] + 1
        <5>1. Len(s) + n <= emitted[c] => Len(s) + n <= emitted[c] + 1
          BY <2>1, <4>1, Raised, Zenon
        <5> QED
          BY <4>2, <5>1, Zenon
      <4> QED
        BY <4>2, <4>3, Zenon
    <3>2. CASE queue'[c] = q
      BY <3>1, <3>2
    <3>3. CASE queue'[c] = Append(q, e) /\ Len(s) + Len(q) = emitted[c]
      <4> SUFFICES ASSUME NEW n \in 1 .. Len(q) + 1
                   PROVE  queue'[c][n] = <<c, Len(s) + n>> /\ Len(s) + n <= emitted[c] + 1
        BY <2>5, <3>3
      <4>1. CASE n = Len(q) + 1
        <5>1. Len(s) + n = emitted[c] + 1
          <6>1. Len(s) + (Len(q) + 1) = (Len(s) + Len(q)) + 1
            BY <2>1, Shifts, Zenon
          <6> QED
            BY <3>3, <4>1, <6>1, Zenon
        <5>2. n \in Nat
          OBVIOUS
        <5>3. queue'[c][n] = <<c, Len(s) + n>>
          BY <2>5, <3>3, <4>1, <5>1
        <5>4. Len(s) + n = emitted[c] + 1 => Len(s) + n <= emitted[c] + 1
          BY <2>1, <5>2, Raised, Zenon
        <5> QED
          BY <5>1, <5>3, <5>4, Zenon
      <4>2. CASE n # Len(q) + 1
        <5>1. n \in 1 .. Len(q)
          BY <2>1, <4>2
        <5>2. queue'[c][n] = q[n]
          BY <2>5, <3>3, <5>1
        <5>3. q[n] = <<c, Len(s) + n>> /\ Len(s) + n <= emitted[c] + 1
          BY <3>1, <5>1
        <5>4. queue'[c][n] = <<c, Len(s) + n>>
          BY <5>2, <5>3
        <5> QED
          BY <5>3, <5>4, Zenon
      <4> QED
        BY <4>1, <4>2
    <3> QED
      BY <2>3, <3>2, <3>3
  <2>7. pending'[rid'[c]] = c => Len(s) + Len(queue'[c]) = emitted'[c]
    <3>1. Len(s) + (Len(q) + 1) = (Len(s) + Len(q)) + 1
      BY <2>1, Shifts, Zenon
    <3>2. pending'[rid'[c]] = c => pending[rid[c]] = c
      BY <1>1
    <3> QED
      BY <2>1, <2>3, <2>5, <3>1, <3>2, Zenon
  <2>8. outcome[c] \notin {"ok", "rejected"}
    BY <1>3, <1>4, <1>7 DEF StreamFlows
  <2>9. QueueGoesOn(c)'
    BY <1>1, <2>1, <2>6 DEF QueueGoesOn
  <2>10. \A n \in 1 .. Len(s) : s[n] = <<c, n>>
    BY <1>3, <1>7 DEF StreamFlows
  <2> QED
    BY <1>1, <1>4, <1>7, <2>7, <2>8, <2>9, <2>10 DEF StreamFlows
<1> QED
  BY <1>6, <1>7

LEMMA RespondFlows ==
  ASSUME Inv, Flows, NEW c \in Calls, NEW ok \in BOOLEAN, Respond(c, ok)
  PROVE  Flows'
<1> SUFFICES ASSUME ~reused', NEW x \in Calls, Kind[x] = "stream" PROVE StreamFlows(x)'
  BY DEF Flows
<1>1. /\ UNCHANGED <<pending, rid, pc, outcome, seen, emitted, frame, reused>>
      /\ "response" \in owed[c]
      /\ owed' = [owed EXCEPT ![c] = IF ok THEN owed[c] \ {"response"} ELSE {}]
      /\ HandleResponse(rid[c], ok)
  BY DEF Respond, Inbound, ids, task, wire
<1>2. /\ queue \in [Calls -> Seq(Item)] /\ seen \in [Calls -> Seq(Item)]
      /\ emitted \in [Calls -> Nat] /\ owed \in [Calls -> SUBSET Frames]
  BY MaxEventsAssumption DEF Inv, TypeOK
<1>3. ~reused /\ StreamFlows(x)
  BY <1>1 DEF Flows
<1>4. pending[rid[c]] \in {c, None} /\ pc[c] # "idle" /\ frame[c] # "wire" /\ Unanswered(c)
  BY <1>1, <1>3, UnansweredLookup DEF Unanswered
<1>5. \/ pending[rid[c]] = c /\ queue' = [queue EXCEPT ![c] = Append(queue[c], End)]
      \/ queue' = queue
  BY <1>1, <1>4, NoneAssumption DEF HandleResponse
<1>6. CASE x # c
  <2>1. queue'[x] = queue[x] /\ owed'[x] = owed[x]
    BY <1>1, <1>2, <1>5, <1>6
  <2> QED
    BY <1>1, <1>3, <2>1, FlowKept DEF Unanswered
<1>7. CASE x = c
  <2> DEFINE q == queue[c]
             s == seen[c]
  <2>1. /\ q \in Seq(Item) /\ Len(q) \in Nat /\ Len(s) \in Nat
        /\ emitted[c] \in Nat
    BY <1>2
  <2>2. ~Unanswered(c)'
    BY <1>1, <1>2, <1>4 DEF Unanswered
  <2>3. \A n \in 1 .. Len(q) : q[n] = <<c, Len(s) + n>> /\ Len(s) + n <= emitted[c]
    BY <1>3, <1>4, <1>7 DEF StreamFlows, QueueGoesOn
  <2>4. \/ queue'[c] = Append(q, End) /\ Len(s) + Len(q) = emitted[c]
        \/ queue'[c] = q
    BY <1>2, <1>3, <1>4, <1>5, <1>7 DEF StreamFlows
  <2>5. Len(Append(q, End)) = Len(q) + 1 /\ Append(q, End)[Len(q) + 1] = End
        /\ \A n \in 1 .. Len(q) : Append(q, End)[n] = q[n]
    <3>1. End \in Item
      BY DEF End, Item
    <3> QED
      BY <2>1, <3>1
  <2>6. ASSUME NEW n \in 1 .. Len(queue'[c])
        PROVE  \/ queue'[c][n] = <<c, Len(s) + n>> /\ Len(s) + n <= emitted[c]
               \/ queue'[c][n] = End /\ n = Len(queue'[c]) /\ Len(s) + n = emitted[c] + 1
    <3>1. CASE queue'[c] = q
      BY <2>3, <2>6, <3>1
    <3>2. CASE queue'[c] = Append(q, End) /\ Len(s) + Len(q) = emitted[c] /\ n = Len(q) + 1
      <4>1. Len(s) + (Len(q) + 1) = (Len(s) + Len(q)) + 1
        BY <2>1, Shifts, Zenon
      <4> QED
        BY <2>5, <3>2, <4>1, Zenon
    <3>3. CASE queue'[c] = Append(q, End) /\ n # Len(q) + 1
      <4>1. n \in 1 .. Len(q)
        BY <2>1, <2>5, <2>6, <3>3
      <4> QED
        BY <2>3, <2>5, <3>3, <4>1
    <3> QED
      BY <2>4, <3>1, <3>2, <3>3
  <2>7. QueueGoesOn(c)'
    BY <1>1, <2>2, <2>6 DEF QueueGoesOn
  <2>8. outcome[c] \notin {"ok", "rejected"}
    BY <1>3, <1>4, <1>7 DEF StreamFlows
  <2>9. \A n \in 1 .. Len(s) : s[n] = <<c, n>>
    BY <1>3, <1>7 DEF StreamFlows
  <2> QED
    BY <1>1, <1>4, <1>7, <2>2, <2>7, <2>8, <2>9 DEF StreamFlows
<1> QED
  BY <1>6, <1>7

\* A step that adds nothing to any stream, frees no id and restores no entry.
LEMMA UnmovedFlows ==
  ASSUME Flows, ~reused' => ~reused,
         UNCHANGED <<seen, emitted, rid>>, ~reused => queue' = queue,
         \A c \in Calls :
           /\ pc'[c] = "idle" => pc[c] = "idle"
           /\ Unanswered(c)' => Unanswered(c)
           /\ Unanswered(c) => (pending'[rid[c]] = c => pending[rid[c]] = c)
           /\ Kind[c] = "stream" => outcome'[c] = outcome[c]
  PROVE  Flows'
<1> SUFFICES ASSUME ~reused', NEW c \in Calls, Kind[c] = "stream" PROVE StreamFlows(c)'
  BY DEF Flows
<1>1. StreamFlows(c) /\ queue' = queue
  BY DEF Flows
<1> QED
  BY <1>1, FlowKept

LEMMA NextFlows == Inv /\ Tables /\ Flows /\ [Next]_vars => Flows'
<1> SUFFICES ASSUME Inv, Tables, Flows, [Next]_vars PROVE Flows'
  OBVIOUS
<1> USE DEF table, ids, loss, futures, task, cancels, wire, device
<1>1. ASSUME UNCHANGED <<pending, rid, pc, outcome, seen, emitted, frame, owed, reused>>,
             ~reused => queue' = queue
      PROVE  Flows'
  BY <1>1, UnmovedFlows DEF Unanswered
<1>2. CASE UNCHANGED vars
  BY <1>1, <1>2 DEF vars
<1>3. ASSUME NEW c \in Calls, Moves(c) PROVE Flows'
  <2>1. \A d \in Calls : pc'[d] = "idle" => pc[d] = "idle"
    BY <1>3 DEF Moves, Proceed, Inv, TypeOK
  <2> QED
    BY <1>3, <2>1, UnmovedFlows DEF Moves, Proceed, Unanswered
<1>4. ASSUME NEW c \in Calls, CancelEnds(c) PROVE Flows'
  <2>1. /\ \A d \in Calls : pc'[d] = "idle" => pc[d] = "idle"
        /\ \A d \in Calls : d # c => outcome'[d] = outcome[d]
        /\ Kind[c] # "stream"
    BY <1>4 DEF CancelEnds, Inv, TypeOK, Tables, StreamsApart, Sends
  <2> QED
    BY <1>4, <2>1, UnmovedFlows DEF CancelEnds, Unanswered
<1>5. ASSUME NEW c \in Calls, NEW why, Interrupt(c, why) PROVE Flows'
  BY <1>1, <1>5 DEF Interrupt
<1>6. ASSUME NEW c \in Calls, Deliver(c) PROVE Flows'
  <2>1. \A d \in Calls : Unanswered(d)' => Unanswered(d)
    BY <1>6 DEF Deliver, Unanswered, Inv, TypeOK
  <2> QED
    BY <1>6, <2>1, UnmovedFlows DEF Deliver
<1>7. ASSUME NEW c \in Calls, AnswerCancel(c) PROVE Flows'
  <2>1. ~reused => queue' = queue
    BY <1>7, CancelLookup DEF AnswerCancel, HandleResponse
  <2>2. \A d \in Calls : owed'[d] \subseteq owed[d]
    BY <1>7 DEF AnswerCancel, Inv, TypeOK
  <2>3. \A d \in Calls : Unanswered(d)' => Unanswered(d)
    BY <1>7, <2>2 DEF AnswerCancel, Inbound, Unanswered
  <2> QED
    BY <1>7, <2>1, <2>3, UnmovedFlows DEF AnswerCancel, Inbound
<1>8. ASSUME NEW c \in Calls, NEW v, EmitHandoff(c, v) \/ EmitTerminal(c, v) PROVE Flows'
  <2>1. \A d \in Calls : owed'[d] \subseteq owed[d]
    <3>1. \E S : owed' = [owed EXCEPT ![c] = owed[c] \ S]
      BY <1>8 DEF EmitHandoff, EmitTerminal
    <3> QED
      BY <3>1 DEF Inv, TypeOK
  <2>2. Inbound /\ UNCHANGED <<queue, emitted>>
    BY <1>8 DEF EmitHandoff, EmitTerminal
  <2>3. \A d \in Calls : Unanswered(d)' => Unanswered(d)
    BY <2>1, <2>2 DEF Inbound, Unanswered
  <2> QED
    BY <2>2, <2>3, UnmovedFlows DEF Inbound
<1>9. ASSUME NEW known, Notify(known) PROVE Flows'
  BY <1>1, <1>9 DEF Notify
<1>10. ASSUME ConnectionLost, UNCHANGED <<pc, outcome, seen, rid, emitted, queue, reused>>,
              \A c \in Calls : owed'[c] = {} /\ (frame'[c] = "wire" => frame[c] = "wire")
       PROVE  Flows'
  <2>1. \A c \in Calls : Unanswered(c)' => Unanswered(c)
    BY <1>10 DEF Unanswered
  <2>2. \A c \in Calls : Unanswered(c) => pending'[rid[c]] # c
    <3>1. \A c \in Calls : Unanswered(c) => rid[c] \in Ids
      BY DEF Unanswered, Inv, Stations
    <3> QED
      BY <1>10, <3>1, NoneAssumption DEF ConnectionLost, FailPending
  <2> QED
    BY <1>10, <2>1, <2>2, UnmovedFlows
<1>11. ASSUME Hello PROVE Flows'
  BY <1>1, <1>10, <1>11 DEF Hello
<1>12. ASSUME LinkDown PROVE Flows'
  BY <1>10, <1>12 DEF LinkDown
<1>13. ASSUME Disconnect PROVE Flows'
  BY <1>1, <1>13 DEF Disconnect
<1>14. Next => Sorted
  BY NextSorted DEF Inv
<1> QED
  BY <1>2, <1>3, <1>4, <1>5, <1>6, <1>7, <1>8, <1>9, <1>11, <1>12, <1>13, <1>14,
     RegisterFlows, EndsFlows, StreamYieldsFlows, EmitEventFlows, RespondFlows
  DEF Sorted

LEMMA FlowsHold == Spec => []Flows
<1>1. Init => Flows
  <2> SUFFICES ASSUME Init, NEW c \in Calls PROVE StreamFlows(c)
    BY DEF Flows
  <2>1. queue[c] = <<>> /\ seen[c] = <<>> /\ emitted[c] = 0 /\ outcome[c] = "none"
        /\ ~Unanswered(c)
    BY DEF Init, Unanswered
  <2>2. Len(<<>>) = 0 /\ 1 .. 0 = {}
    OBVIOUS
  <2> QED
    BY <2>1, <2>2 DEF StreamFlows, QueueGoesOn
<1> QED
  BY <1>1, NextFlows, TablesHold, InvHolds, PTL DEF Spec

\* While no id is reused in use, the consumer of a stream gets its events in order and
\* without a gap, and all of them when it ends by the device's response.
THEOREM StreamIsExact == Spec => []StreamExact
<1>1. Tables /\ Flows => StreamExact
  <2> SUFFICES ASSUME Tables, Flows, ~reused, NEW c \in Calls
               PROVE  /\ \A n \in 1 .. Len(seen[c]) : seen[c][n] = <<c, n>>
                      /\ outcome[c] \in {"ok", "rejected"} /\ Kind[c] = "stream" =>
                           Len(seen[c]) = emitted[c]
    BY DEF StreamExact
  <2>1. CASE Kind[c] = "stream"
    BY <2>1 DEF Flows, StreamFlows
  <2>2. CASE Kind[c] # "stream"
    <3>1. seen[c] = <<>>
      BY <2>2 DEF Tables, StreamsApart
    <3>2. 1 .. Len(<<>>) = {}
      OBVIOUS
    <3> QED
      BY <2>2, <3>1, <3>2
  <2> QED
    BY <2>1, <2>2
<1> QED
  BY <1>1, TablesHold, FlowsHold, PTL

-----------------------------------------------------------------------------
(* The multiplexer implements Exchange *)

\* A future is lost only with the connection; a message is not cancelled on the device
\* by a send that had its confirmation.
Reasons ==
  \A c \in Calls :
    /\ resp[c] = "lost" \/ conf[c] = "lost" => closing
    /\ pc[c] = "cancelling" => outcome[c] \in Outcomes \ {"none", "ok", "failed"}

\* A step that fails no future for the connection's loss, and by which no task ends.
LEMMA UnmovedReasons ==
  ASSUME Reasons, closing => closing',
         \A c \in Calls :
           /\ resp'[c] = "lost" => resp[c] = "lost"
           /\ conf'[c] = "lost" => conf[c] = "lost"
           /\ pc'[c] = "cancelling" => pc[c] = "cancelling" /\ outcome'[c] = outcome[c]
  PROVE  Reasons'
BY DEF Reasons

LEMMA EndsReasons ==
  ASSUME Inv, Reasons, NEW c \in Calls, Ends(c)
  PROVE  Reasons'
<1>1. PICK out \in Outcomes \ {"none"} :
        /\ out = "ok" => conf[c] = "success" \/ pc[c] # "confirm"
        /\ out = "ok" /\ Kind[c] \in Sends => pc[c] = "confirm"
        /\ out = "failed" => conf[c] = "failure"
        /\ Return(c, out)
  BY DEF Ends, Outcomes
<1>2. UNCHANGED <<resp, conf, closing>> /\ outcome' = [outcome EXCEPT ![c] = out]
  BY <1>1 DEF Return, futures, loss
<1>3. \/ pc' = [pc EXCEPT ![c] = "cancelling"] /\ conf[c] \in {"pending", "cancelled"}
      \/ pc' = [pc EXCEPT ![c] = "done"]
  BY <1>1 DEF Return, Unconfirmed
<1>4. pc'[c] = "cancelling" => out \notin {"ok", "failed"}
  BY <1>1, <1>3 DEF Inv, TypeOK, Blank
<1>5. \A d \in Calls : d # c => pc'[d] = pc[d] /\ outcome'[d] = outcome[d]
  BY <1>2, <1>3 DEF Inv, TypeOK
<1>6. outcome'[c] = out
  BY <1>2 DEF Inv, TypeOK
<1> QED
  BY <1>1, <1>2, <1>4, <1>5, <1>6 DEF Reasons

LEMMA NextReasons == Inv /\ Reasons /\ [Next]_vars => Reasons'
<1> SUFFICES ASSUME Inv, Reasons, [Next]_vars PROVE Reasons'
  OBVIOUS
<1> USE DEF table, ids, loss, futures, task, cancels, wire, device
<1>1. ASSUME UNCHANGED <<resp, conf, pc, outcome>>, closing => closing' PROVE Reasons'
  BY <1>1, UnmovedReasons
<1>2. CASE UNCHANGED vars
  BY <1>1, <1>2 DEF vars
<1>3. ASSUME NEW c \in Calls, Register(c) PROVE Reasons'
  <2>1. \A d \in Calls : /\ resp'[d] = "lost" => resp[d] = "lost"
                         /\ conf'[d] = "lost" => conf[d] = "lost"
                         /\ pc'[d] = "cancelling" => pc[d] = "cancelling"
    BY <1>3 DEF Register, Inv, TypeOK
  <2> QED
    BY <1>3, <2>1, UnmovedReasons DEF Register
<1>4. ASSUME NEW c \in Calls, Moves(c) PROVE Reasons'
  <2>1. \A d \in Calls : pc'[d] = "cancelling" => pc[d] = "cancelling"
    BY <1>4 DEF Moves, Proceed, Inv, TypeOK
  <2> QED
    BY <1>4, <2>1, UnmovedReasons DEF Moves, Proceed
<1>5. ASSUME NEW c \in Calls, CancelEnds(c) PROVE Reasons'
  <2>1. \A d \in Calls :
          pc'[d] = "cancelling" => d # c /\ pc[d] = "cancelling" /\ outcome'[d] = outcome[d]
    BY <1>5 DEF CancelEnds, Inv, TypeOK
  <2> QED
    BY <1>5, <2>1, UnmovedReasons DEF CancelEnds
<1>6. ASSUME NEW c \in Calls, NEW why, Interrupt(c, why) PROVE Reasons'
  <2>1. \A d \in Calls : /\ resp'[d] = "lost" => resp[d] = "lost"
                         /\ conf'[d] = "lost" => conf[d] = "lost"
    BY <1>6 DEF Interrupt, Inv, TypeOK
  <2> QED
    BY <1>6, <2>1, UnmovedReasons DEF Interrupt
<1>7. ASSUME NEW i, NEW ok, HandleResponse(i, ok), UNCHANGED <<conf, pc, outcome, closing>>
      PROVE  Reasons'
  <2>1. \A d \in Calls : resp'[d] = "lost" => resp[d] = "lost"
    BY <1>7 DEF HandleResponse, Inv, TypeOK
  <2> QED
    BY <1>7, <2>1, UnmovedReasons
<1>8. ASSUME NEW c \in Calls, AnswerCancel(c) \/ \E ok \in BOOLEAN : Respond(c, ok) PROVE Reasons'
  BY <1>7, <1>8 DEF AnswerCancel, Respond, Inbound
<1>9. ASSUME NEW i, NEW v \in {"success", "failure"}, Settle(i, v), UNCHANGED <<resp, pc, outcome, closing>>
      PROVE  Reasons'
  <2>1. \A d \in Calls : conf'[d] = "lost" => conf[d] = "lost"
    BY <1>9 DEF Settle, Inv, TypeOK
  <2> QED
    BY <1>9, <2>1, UnmovedReasons
<1>10. ASSUME NEW c \in Calls, NEW v \in {"success", "failure"}, EmitHandoff(c, v) \/ EmitTerminal(c, v)
       PROVE  Reasons'
  BY <1>1, <1>9, <1>10 DEF EmitHandoff, HandleHandoff, EmitTerminal, HandleTerminal, Inbound
<1>11. ASSUME NEW c \in Calls, StreamYields(c) \/ Deliver(c) \/ EmitEvent(c) PROVE Reasons'
  BY <1>1, <1>11 DEF StreamYields, Deliver, EmitEvent, Inbound
<1>12. ASSUME NEW known, Notify(known) PROVE Reasons'
  BY <1>1, <1>12 DEF Notify
<1>13. ASSUME ConnectionLost, UNCHANGED <<pc, outcome>> PROVE Reasons'
  BY <1>13 DEF ConnectionLost, Reasons
<1>14. ASSUME Hello PROVE Reasons'
  BY <1>1, <1>13, <1>14 DEF Hello
<1>15. ASSUME LinkDown PROVE Reasons'
  BY <1>13, <1>15 DEF LinkDown
<1>16. ASSUME Disconnect PROVE Reasons'
  BY <1>1, <1>16 DEF Disconnect
<1>17. Next => Sorted
  BY NextSorted DEF Inv
<1> QED
  BY <1>2, <1>3, <1>4, <1>5, <1>6, <1>8, <1>10, <1>11, <1>12, <1>14, <1>15, <1>16, <1>17, EndsReasons
  DEF Sorted

LEMMA ReasonsHold == Spec => []Reasons
<1>1. Init => Reasons
  BY DEF Init, Reasons
<1> QED
  BY <1>1, NextReasons, InvHolds, PTL DEF Spec

Promise == [Exchanges!Next]_(Exchanges!vars)

\* What Exchange speaks of, but for the calls made.
mapped == <<answer, verdict, emitted, seen, outcome, closing, reused>>

\* A task that neither starts nor ends leaves the calls made as they are.
LEMMA AskedKept ==
  ASSUME \A c \in Calls : (pc'[c] = "idle") = (pc[c] = "idle")
  PROVE  Asked' = Asked
BY DEF Asked

LEMMA Stutter ==
  ASSUME UNCHANGED mapped, Asked' = Asked
  PROVE  Promise
BY DEF Promise, mapped, Exchanges!vars

LEMMA Kept ==
  ASSUME NEW c \in Calls, Exchanges!Keeps(c)
  PROVE  Promise
BY DEF Promise, Exchanges!Next

LEMMA LoseStep ==
  ASSUME closing', UNCHANGED <<answer, verdict, emitted, seen, outcome, reused>>, pc' = pc
  PROVE  Promise
<1>1. Asked' = Asked
  BY DEF Asked
<1>2. Exchanges!Lose
  BY <1>1, Zenon DEF Exchanges!Lose
<1> QED
  BY <1>2 DEF Promise, Exchanges!Next

LEMMA RegisterStep ==
  ASSUME Inv, ~reused', NEW c \in Calls, Register(c)
  PROVE  Promise
<1>1. ~reused /\ reused' = reused
  BY FreshId, NextIdType DEF Register, Inv, TypeOK
<1>2. /\ UNCHANGED <<answer, verdict, emitted, seen, outcome, closing>>
      /\ pc' = [pc EXCEPT ![c] = "sending"]
  BY DEF Register, device, task, loss
<1>3. Asked' = Asked \cup {c}
  BY <1>2 DEF Asked, Inv, TypeOK
<1>4. Exchanges!Ask(c)
  BY <1>1, <1>2, <1>3 DEF Exchanges!Ask
<1> QED
  BY <1>4, Kept DEF Exchanges!Keeps

LEMMA EndsStep ==
  ASSUME Inv, Tables, Flows, Reasons, ~reused', NEW c \in Calls, Ends(c)
  PROVE  Promise
<1>1. PICK out \in {"ok", "rejected", "failed", "lost", "timeout", "cancelled", "sendError"} :
        /\ pc[c] \in Waiting
        /\ out = "ok" => /\ resp[c] = "ok" \/ pc[c] = "confirm"
                         /\ conf[c] = "success" \/ pc[c] # "confirm"
        /\ out = "ok" /\ Kind[c] \in Sends => pc[c] = "confirm"
        /\ out = "rejected" => resp[c] = "error"
        /\ out = "failed" => conf[c] = "failure" /\ pc[c] = "confirm"
        /\ out = "lost" => "lost" \in {resp[c], conf[c]}
        /\ out = "timeout" => intr[c] = "timeout"
        /\ pc[c] = "sending" => out \in {"timeout", "cancelled", "sendError"}
        /\ pc[c] = "streaming" /\ out \in {"ok", "rejected"} =>
             queue[c] # <<>> /\ Head(queue[c]) = End
        /\ Return(c, out)
  BY DEF Ends
<1>2. /\ UNCHANGED <<answer, verdict, emitted, seen, closing>>
      /\ outcome' = [outcome EXCEPT ![c] = out]
      /\ \/ pc' = [pc EXCEPT ![c] = "cancelling"] /\ NextId
         \/ pc' = [pc EXCEPT ![c] = "done"] /\ reused' = reused
  BY <1>1 DEF Return, ids, task, device, loss
<1>3. ~reused /\ reused' = reused
  <2>1. CASE NextId
    BY <2>1, FreshId, NextIdType DEF Inv, TypeOK
  <2>2. CASE reused' = reused
    BY <2>2
  <2> QED
    BY <1>2, <2>1, <2>2
<1>4. Asked' = Asked
  <2>1. \A d \in Calls : (pc'[d] = "idle") = (pc[d] = "idle")
    BY <1>1, <1>2 DEF Inv, TypeOK
  <2> QED
    BY <2>1, AskedKept
<1>5. Exchanges!Open(c)
  BY <1>1 DEF Exchanges!Open, Asked, Inv, Blank
<1>6. out \in {"ok", "rejected"} => Exchanges!AllSeen(c)
  <2> SUFFICES ASSUME out \in {"ok", "rejected"}, Kind[c] = "stream"
               PROVE  Len(seen[c]) = emitted[c]
    BY DEF Exchanges!AllSeen, CallsOf
  <2>1. pc[c] = "streaming"
    BY <1>1 DEF Inv, Stations, Sends
  <2>2. queue[c] # <<>> /\ Head(queue[c]) = End
    BY <1>1, <2>1
  <2>3. StreamFlows(c)
    BY <1>3 DEF Flows
  <2> QED
    BY <2>2, <2>3, FirstItem, EventIsNotEnd DEF Inv
<1>7. Exchanges!Justified(c, out)
  <2>1. /\ resp[c] = "ok" => answer[c] = "ok"
        /\ resp[c] = "error" => answer[c] = "error"
        /\ conf[c] = "success" => verdict[c] = "success"
        /\ conf[c] = "failure" => verdict[c] = "failure"
        /\ pc[c] = "confirm" => answer[c] = "ok"
    BY <1>1, <1>3 DEF Inv, FuturesTrue
  <2>2. CASE out = "ok"
    BY <1>1, <1>6, <2>1, <2>2 DEF Exchanges!Justified, CallsOf
  <2>3. CASE out = "rejected"
    BY <1>1, <1>6, <2>1, <2>3 DEF Exchanges!Justified
  <2>4. CASE out = "failed"
    BY <1>1, <2>1, <2>4 DEF Exchanges!Justified
  <2>5. CASE out = "lost"
    BY <1>1, <2>5 DEF Exchanges!Justified, Reasons
  <2>6. CASE out = "timeout"
    BY <1>1, <2>6 DEF Exchanges!Justified, CallsOf, Tables, StreamsApart
  <2>7. CASE out \in {"cancelled", "sendError"}
    BY <2>7 DEF Exchanges!Justified
  <2> QED
    BY <1>1, <2>2, <2>3, <2>4, <2>5, <2>6, <2>7
<1>8. Exchanges!Close(c, out)
  BY <1>2, <1>3, <1>4, <1>5, <1>7 DEF Exchanges!Close
<1> QED
  BY <1>1, <1>8, Kept DEF Exchanges!Keeps

LEMMA CancelEndsStep ==
  ASSUME Inv, Tables, Reasons, NEW c \in Calls, CancelEnds(c)
  PROVE  Promise
<1>1. /\ pc[c] = "cancelling" /\ pc' = [pc EXCEPT ![c] = "done"]
      /\ UNCHANGED <<answer, verdict, emitted, seen, closing, reused>>
      /\ outcome' = outcome \/ \E out \in {"cancelled", "sendError"} : outcome' = [outcome EXCEPT ![c] = out]
  <2>1. [outcome EXCEPT ![c] = outcome[c]] = outcome
    BY DEF Inv, TypeOK
  <2> QED
    BY <2>1 DEF CancelEnds, ids, device, loss
<1>2. Asked' = Asked
  <2>1. \A d \in Calls : (pc'[d] = "idle") = (pc[d] = "idle")
    BY <1>1 DEF Inv, TypeOK
  <2> QED
    BY <2>1, AskedKept
<1>3. CASE outcome' = outcome
  BY <1>1, <1>2, <1>3, Stutter DEF mapped
<1>4. ASSUME NEW out \in {"cancelled", "sendError"}, outcome' = [outcome EXCEPT ![c] = out]
      PROVE  Promise
  <2>1. c \in CallsOf(Sends)
    BY <1>1 DEF Tables, StreamsApart, CallsOf
  <2>2. outcome[c] \in {"rejected", "lost", "timeout", "cancelled", "sendError"}
    BY <1>1 DEF Reasons, Outcomes
  <2>3. Exchanges!CancelFails(c, out)
    BY <1>1, <1>2, <1>4, <2>1, <2>2 DEF Exchanges!CancelFails
  <2> QED
    BY <2>3, Kept DEF Exchanges!Keeps
<1> QED
  BY <1>1, <1>3, <1>4

LEMMA StreamYieldsStep ==
  ASSUME Inv, Flows, ~reused', NEW c \in Calls, StreamYields(c)
  PROVE  Promise
<1>1. /\ UNCHANGED <<answer, verdict, emitted, outcome, closing, reused, pc>>
      /\ seen' = [seen EXCEPT ![c] = Append(seen[c], Head(queue[c]))]
      /\ pc[c] = "streaming" /\ queue[c] # <<>> /\ Head(queue[c]) # End
  BY DEF StreamYields, Runs, ids, device, loss
<1>2. StreamFlows(c)
  BY <1>1 DEF Flows, Inv, Stations
<1>3. Head(queue[c]) = <<c, Len(seen[c]) + 1>> /\ Len(seen[c]) < emitted[c]
  BY <1>1, <1>2, FirstItem DEF Inv
<1>4. Asked' = Asked /\ Exchanges!Open(c)
  BY <1>1 DEF Asked, Exchanges!Open, Inv, Blank
<1>5. seen' = [seen EXCEPT ![c] = Append(@, <<c, Len(@) + 1>>)]
  BY <1>1, <1>3, Zenon
<1>6. Exchanges!Take(c)
  BY <1>1, <1>3, <1>4, <1>5, Zenon DEF Exchanges!Take
<1> QED
  BY <1>6, Kept DEF Exchanges!Keeps

LEMMA EmitEventStep ==
  ASSUME Inv, NEW c \in Calls, EmitEvent(c)
  PROVE  Promise
<1>1. /\ UNCHANGED <<answer, verdict, seen, outcome, closing, reused, pc>>
      /\ emitted' = [emitted EXCEPT ![c] = @ + 1]
      /\ Kind[c] = "stream" /\ "response" \in owed[c]
  BY DEF EmitEvent, Inbound, ids, task, loss
<1>2. answer[c] = "none" /\ pc[c] # "idle"
  BY <1>1 DEF Inv, DeviceOwes, Stations
<1>3. Asked' = Asked /\ c \in Asked \cap CallsOf({"stream"})
  BY <1>1, <1>2 DEF Asked, CallsOf
<1>4. Exchanges!Emit(c)
  BY <1>1, <1>2, <1>3 DEF Exchanges!Emit
<1> QED
  BY <1>4, Kept DEF Exchanges!Keeps

LEMMA RespondStep ==
  ASSUME Inv, NEW c \in Calls, NEW ok \in BOOLEAN, Respond(c, ok)
  PROVE  Promise
<1> DEFINE v == IF ok THEN "ok" ELSE "error"
<1>1. /\ UNCHANGED <<verdict, emitted, seen, outcome, closing, reused, pc>>
      /\ "response" \in owed[c]
      /\ answer' = Record(answer, c, v)
  BY DEF Respond, Inbound, ids, task, loss
<1>2. Asked' = Asked
  BY <1>1 DEF Asked
<1>3. CASE pc[c] \in Waiting
  <2>1. answer' = [answer EXCEPT ![c] = v]
    BY <1>1, <1>3 DEF Record
  <2>2. answer[c] = "none" /\ Exchanges!Open(c)
    BY <1>1, <1>3 DEF Inv, DeviceOwes, Blank, Exchanges!Open, Asked
  <2>3. Exchanges!Answer(c, v)
    BY <1>1, <1>2, <2>1, <2>2 DEF Exchanges!Answer
  <2> QED
    BY <2>3, Kept DEF Exchanges!Keeps
<1>4. CASE pc[c] \notin Waiting
  BY <1>1, <1>2, <1>4, Stutter DEF Record, mapped
<1> QED
  BY <1>3, <1>4

LEMMA JudgeStep ==
  ASSUME Inv, NEW c \in Calls, NEW v \in {"success", "failure"},
         EmitHandoff(c, v) \/ EmitTerminal(c, v)
  PROVE  Promise
<1>1. /\ UNCHANGED <<answer, emitted, seen, outcome, closing, reused, pc>>
      /\ verdict' = verdict \/ verdict' = Record(verdict, c, v)
      /\ owed[c] \cap {"handoff", "ack", "quorum"} # {}
  BY DEF EmitHandoff, EmitTerminal, Inbound, ids, task, loss
<1>2. Asked' = Asked
  BY <1>1 DEF Asked
<1>3. CASE verdict' = verdict \/ pc[c] \notin Waiting
  BY <1>1, <1>2, <1>3, Stutter DEF Record, mapped
<1>4. CASE verdict' = Record(verdict, c, v) /\ pc[c] \in Waiting
  <2>1. verdict' = [verdict EXCEPT ![c] = v]
    BY <1>4 DEF Record
  <2>2. verdict[c] = "none" /\ c \in CallsOf(Sends)
    BY <1>1 DEF Inv, DeviceOwes, Owes, CallsOf, Sends
  <2>3. Exchanges!Open(c)
    BY <1>4 DEF Inv, Blank, Exchanges!Open, Asked
  <2>4. Exchanges!Judge(c, v)
    BY <1>1, <1>2, <2>1, <2>2, <2>3 DEF Exchanges!Judge
  <2> QED
    BY <2>4, Kept DEF Exchanges!Keeps
<1> QED
  BY <1>1, <1>3, <1>4

LEMMA ExchangeStep ==
  Inv /\ Tables /\ Flows /\ Reasons /\ [Next]_vars => [Exchanges!Next]_(Exchanges!vars)
<1> SUFFICES ASSUME Inv, Tables, Flows, Reasons, [Next]_vars PROVE Promise
  BY DEF Promise
<1>1. CASE reused'
  BY <1>1 DEF Promise, Exchanges!Next
<1>2. ASSUME UNCHANGED mapped, pc' = pc PROVE Promise
  BY <1>2, Stutter DEF Asked
<1>3. CASE UNCHANGED vars
  BY <1>2, <1>3 DEF vars, mapped, device, task, loss, ids
<1>4. ASSUME NEW c \in Calls, Moves(c) PROVE Promise
  <2>1. \A d \in Calls : (pc'[d] = "idle") = (pc[d] = "idle")
    BY <1>4 DEF Moves, Proceed, Inv, TypeOK
  <2>2. UNCHANGED mapped
    BY <1>4 DEF Moves, Proceed, mapped, device, loss, ids
  <2> QED
    BY <2>1, <2>2, AskedKept, Stutter
<1>5. ASSUME NEW c \in Calls, \/ \E why \in {"timeout", "cancelled"} : Interrupt(c, why)
                              \/ Deliver(c) \/ AnswerCancel(c)
      PROVE  Promise
  BY <1>2, <1>5 DEF Interrupt, Deliver, AnswerCancel, Inbound, mapped, device, task, loss, ids
<1>6. ASSUME NEW known \in BOOLEAN, Notify(known) PROVE Promise
  BY <1>2, <1>6 DEF Notify, mapped, device, task, loss, ids
<1>7. CASE Hello
  <2>1. CASE received
    BY <1>7, <2>1, LoseStep DEF Hello, ConnectionLost, task, ids
  <2>2. CASE ~received
    BY <1>2, <1>7, <2>2 DEF Hello, mapped, task, loss, ids
  <2> QED
    BY <2>1, <2>2
<1>8. CASE LinkDown
  BY <1>8, LoseStep DEF LinkDown, ConnectionLost, task, ids
<1>9. CASE Disconnect
  BY <1>9, LoseStep DEF Disconnect, device, task, ids
<1>10. Next => Sorted
  BY NextSorted DEF Inv
<1> QED
  BY <1>1, <1>3, <1>4, <1>5, <1>6, <1>7, <1>8, <1>9, <1>10, RegisterStep, EndsStep,
     CancelEndsStep, StreamYieldsStep, EmitEventStep, RespondStep, JudgeStep
  DEF Sorted

\* Of each call, the multiplexer of many keeps what it would promise of that call alone:
\* one end, for a reason the device or the host gave, and no event but its own, none
\* after the end, until an id is handed out while a call still goes by it.
THEOREM ApiKeepsPromise == Spec => PromiseKept
<1>1. Init => Exchanges!Init
  BY DEF Init, Exchanges!Init, Asked
<1>2. Inv /\ Tables /\ Flows /\ Reasons /\ [Next]_vars => [Exchanges!Next]_(Exchanges!vars)
  BY ExchangeStep
<1> QED
  BY <1>1, <1>2, InvHolds, TablesHold, FlowsHold, ReasonsHold, PTL
  DEF Spec, PromiseKept, Exchanges!Spec

===============================================================================
