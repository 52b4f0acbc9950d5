-------------------------------- MODULE Api --------------------------------
(***************************************************************************)
(* ZigguratApi (zigbee/api.py): one-shot requests, confirmed sends and     *)
(* streamed requests of many asyncio tasks, multiplexed by request id over *)
(* one transport to a device that answers when it likes.                   *)
(*                                                                         *)
(* A call is one activation of request, request_confirmed or               *)
(* request_stream.  An action is the code a task runs between two awaits,  *)
(* or one frame handled by _handle_frame.  The pipe from the device is     *)
(* FIFO and its frames are handled one at a time, so the device emitting a *)
(* frame and the host handling it are one step.                            *)
(***************************************************************************)
EXTENDS Integers, Sequences

CONSTANTS
  Calls,       \* the calls the application may make
  Kind,        \* what each call is: a member of Kinds
  MaxId,       \* the largest request id (0x3FFF)
  MaxEvents,   \* bound: events the device emits for one stream
  None         \* no call: an id that is in no table

Sends == {"unicast", "ackUnicast", "broadcast"}   \* request_confirmed
Kinds == Sends \cup {"request", "stream"}

Ids == 1 .. MaxId

ASSUME MaxIdAssumption == MaxId \in Nat \ {0}
ASSUME MaxEventsAssumption == MaxEvents \in Nat
ASSUME NoneAssumption == None \notin Calls
ASSUME KindAssumption == Kind \in [Calls -> Kinds]

VARIABLES
  (* The ZigguratApi object *)
  nextId,      \* _request_id
  pending,     \* _pending: the call registered under each id
  confirms,    \* _pending_confirms: the send registered under each id
  awaiting,    \* _awaiting_aps_ack
  closing,     \* _closing
  received,    \* _received_frame
  reports,     \* how often _on_disconnect was called
  (* The coroutine of each call *)
  pc,          \* the await it stands at
  rid,         \* its request_id
  resp,        \* its _Pending.response future
  conf,        \* its confirm future
  queue,       \* its _Pending.events queue
  intr,        \* a cancellation delivered and not yet raised in it
  outcome,     \* how it ended
  cancel,      \* the CancelRequest frame of _cancel_send
  cid,         \* the id that frame was sent under
  (* The transport and the device *)
  link,        \* "up" or "down"
  frame,       \* the request frame of each call
  owed,        \* the frames the device still has to emit for each call
  (* Observation: what happened, never read by the code *)
  answer,      \* the device's response to the call, while it lasts
  verdict,     \* the device's terminal verdict on the message of a send
  emitted,     \* how many events the device emitted for the call
  seen,        \* the items the consumer of the stream got
  disconnected,\* disconnect() was called
  reused       \* an id was handed out while something still went by it

table == <<pending, confirms, awaiting>>
ids == <<nextId, reused>>
loss == <<closing, reports>>
futures == <<resp, conf, queue>>
task == <<pc, rid, intr, outcome, seen>>
cancels == <<cancel, cid>>
wire == <<link, frame>>
device == <<owed, answer, verdict, emitted>>

vars == <<table, ids, loss, received, futures, task, cancels, wire, device, disconnected>>

-----------------------------------------------------------------------------
(* Types *)

Item == (Calls \cup {None}) \X Nat
End == <<None, 0>>            \* the None that ends events.get()

Waiting == {"sending", "response", "confirm", "streaming"}
Responses == {"none", "pending", "ok", "error", "lost", "cancelled"}
Confirmations == {"none", "pending", "success", "failure", "lost", "cancelled"}
Outcomes == {"none", "ok", "rejected", "failed", "lost", "timeout", "cancelled", "sendError"}
Frames == {"response", "handoff", "ack", "quorum"}

TypeOK ==
  /\ nextId \in Ids
  /\ pending \in [Ids -> Calls \cup {None}]
  /\ confirms \in [Ids -> Calls \cup {None}]
  /\ awaiting \subseteq Ids
  /\ closing \in BOOLEAN /\ received \in BOOLEAN /\ reports \in Nat
  /\ pc \in [Calls -> Waiting \cup {"idle", "cancelling", "done"}]
  /\ rid \in [Calls -> Ids \cup {0}]
  /\ resp \in [Calls -> Responses]
  /\ conf \in [Calls -> Confirmations]
  /\ queue \in [Calls -> Seq(Item)]
  /\ intr \in [Calls -> {"none", "timeout", "cancelled"}]
  /\ outcome \in [Calls -> Outcomes]
  /\ cancel \in [Calls -> {"none", "wire", "over"}]
  /\ cid \in [Calls -> Ids \cup {0}]
  /\ link \in {"up", "down"}
  /\ frame \in [Calls -> {"none", "wire", "refused"}]
  /\ owed \in [Calls -> SUBSET Frames]
  /\ answer \in [Calls -> {"none", "ok", "error"}]
  /\ verdict \in [Calls -> {"none", "success", "failure"}]
  /\ emitted \in [Calls -> 0 .. MaxEvents]
  /\ seen \in [Calls -> Seq(Item)]
  /\ disconnected \in BOOLEAN /\ reused \in BOOLEAN

-----------------------------------------------------------------------------
(* Request ids *)

\* Something still goes by id i: an entry, a task, or a frame under way.
Taken(i) ==
  \/ \E d \in Calls :
       /\ rid[d] = i
       /\ \/ pc[d] # "done"
          \/ pending[i] = d
          \/ frame[d] = "wire"
          \/ owed[d] # {}
  \/ \E d \in Calls : cid[d] = i /\ cancel[d] = "wire"

\* Mutant: the counter is not wrapped.
NextIdUnwrapped == nextId' = nextId + 1 /\ reused' = (reused \/ Taken(nextId))

\* _next_id: hands out nextId
NextId ==
  /\ nextId' = (nextId % MaxId) + 1
  /\ reused' = (reused \/ Taken(nextId))

-----------------------------------------------------------------------------
(* The tasks *)

\* A frame written by send_frame: on a dead link the write raises.
Written == IF link = "up" THEN "wire" ELSE "refused"

\* Up to the first await: an id is taken, the entries are made, send_frame writes.
Register(c) ==
  /\ pc[c] = "idle"
  /\ NextId
  /\ rid' = [rid EXCEPT ![c] = nextId]
  /\ pending' = [pending EXCEPT ![nextId] = c]
  /\ resp' = [resp EXCEPT ![c] = "pending"]
  /\ IF Kind[c] \in Sends
     THEN /\ confirms' = [confirms EXCEPT ![nextId] = c]
          /\ conf' = [conf EXCEPT ![c] = "pending"]
     ELSE UNCHANGED <<confirms, conf>>
  /\ awaiting' = IF Kind[c] = "ackUnicast" THEN awaiting \cup {nextId} ELSE awaiting
  /\ frame' = [frame EXCEPT ![c] = Written]
  /\ pc' = [pc EXCEPT ![c] = "sending"]
  /\ UNCHANGED <<loss, received, queue, intr, outcome, seen, cancels, link, device,
                 disconnected>>

\* Mutant: a call that succeeds leaves its entry behind.
PopsFailed(c, out) == out # "ok"

\* The finally clauses pop the entry; the send_frame of a stream is outside its try.
Pops(c, out) == Kind[c] # "stream" \/ pc[c] # "sending"

\* Mutant: a confirm future that was cancelled counts as done.
UnconfirmedPending(c) == conf[c] = "pending"

\* Mutant: a send whose confirmation came is cancelled like the others.
UnconfirmedOrNot(c) == conf[c] # "none"

\* confirm exists, and: not confirm.done() or confirm.cancelled()
Unconfirmed(c) == conf[c] \in {"pending", "cancelled"}

\* The coroutine returns or raises.  A send that is unconfirmed goes on to
\* _cancel_send, up to its own send_frame; there it still has out to raise.
Return(c, out) ==
  /\ IF Pops(c, out)
     THEN /\ pending' = [pending EXCEPT ![rid[c]] = None]
          /\ IF Kind[c] \in Sends
             THEN /\ confirms' = [confirms EXCEPT ![rid[c]] = None]
                  /\ awaiting' = awaiting \ {rid[c]}
             ELSE UNCHANGED <<confirms, awaiting>>
     ELSE UNCHANGED table
  /\ outcome' = [outcome EXCEPT ![c] = out]
  /\ intr' = [intr EXCEPT ![c] = "none"]
  /\ IF Unconfirmed(c) /\ ~closing
     THEN /\ NextId
          /\ cid' = [cid EXCEPT ![c] = nextId]
          /\ cancel' = [cancel EXCEPT ![c] = "wire"]
          /\ pc' = [pc EXCEPT ![c] = "cancelling"]
     ELSE /\ pc' = [pc EXCEPT ![c] = "done"]
          /\ UNCHANGED <<ids, cancels>>
  /\ UNCHANGED <<loss, received, futures, rid, seen, wire, device, disconnected>>

\* The task of c runs at this await, not interrupted ...
Runs(c, await) == pc[c] = await /\ intr[c] = "none"

\* ... on to the next.
Proceed(c, await) ==
  /\ pc' = [pc EXCEPT ![c] = await]
  /\ UNCHANGED <<table, ids, loss, received, futures, rid, intr, outcome, seen,
                 cancels, wire, device, disconnected>>

\* send_frame returns: the frame was written (WebSocket) or acknowledged (Spinel).
SendReturns(c) ==
  /\ Runs(c, "sending")
  /\ frame[c] # "refused"
  /\ Proceed(c, IF Kind[c] = "stream" THEN "streaming" ELSE "response")

\* send_frame raises: the link is dead, or the tunnel write timed out, in which
\* case the device may have the frame or get it yet.
SendRaises(c) == Runs(c, "sending") /\ Return(c, "sendError")

\* await pending.response returns in request, ...
RequestReturns(c) ==
  Kind[c] = "request" /\ Runs(c, "response") /\ resp[c] = "ok" /\ Return(c, "ok")

\* ... returns in request_confirmed, ...
Accepted(c) ==
  Kind[c] \in Sends /\ Runs(c, "response") /\ resp[c] = "ok" /\ Proceed(c, "confirm")

\* ... or raises in either.
Rejected(c) ==
  /\ Runs(c, "response")
  /\ \/ resp[c] = "error" /\ Return(c, "rejected")
     \/ resp[c] = "lost" /\ Return(c, "lost")

\* await confirm returns or raises.
Confirmed(c) ==
  /\ Runs(c, "confirm")
  /\ \/ conf[c] = "success" /\ Return(c, "ok")
     \/ conf[c] = "failure" /\ Return(c, "failed")
     \/ conf[c] = "lost" /\ Return(c, "lost")

\* events.get() returns an item, which is yielded ...
StreamYields(c) ==
  /\ Runs(c, "streaming")
  /\ queue[c] # <<>> /\ Head(queue[c]) # End
  /\ seen' = [seen EXCEPT ![c] = Append(@, Head(queue[c]))]
  /\ queue' = [queue EXCEPT ![c] = Tail(@)]
  /\ UNCHANGED <<table, ids, loss, received, resp, conf, pc, rid, intr, outcome,
                 cancels, wire, device, disconnected>>

\* ... or the None that ends them; the response was settled before it was put.
StreamEnds(c) ==
  /\ Runs(c, "streaming")
  /\ queue[c] # <<>> /\ Head(queue[c]) = End
  /\ \/ resp[c] = "ok" /\ Return(c, "ok")
     \/ resp[c] = "error" /\ Return(c, "rejected")

\* Mutant: only the wait for the confirmation is under the timeout.
MayTimeOutLate(c) == Kind[c] \in Sends /\ pc[c] = "confirm"

\* The body of asyncio.timeout(CONFIRM_TIMEOUT)
MayTimeOut(c) == Kind[c] \in Sends /\ pc[c] \in Waiting

\* Task.cancel(), by the caller or by the timeout: it cancels the future awaited
\* unless that is settled already, and is raised when the task next runs.  The
\* caller's cancellation prevails over the timeout's.
Interrupt(c, why) ==
  /\ pc[c] \in Waiting
  /\ why = "timeout" => MayTimeOut(c)
  /\ intr[c] = "none" \/ (intr[c] = "timeout" /\ why = "cancelled")
  /\ intr' = [intr EXCEPT ![c] = why]
  /\ resp' = [resp EXCEPT ![c] =
                IF pc[c] = "response" /\ @ = "pending" THEN "cancelled" ELSE @]
  /\ conf' = [conf EXCEPT ![c] =
                IF pc[c] = "confirm" /\ @ = "pending" THEN "cancelled" ELSE @]
  /\ UNCHANGED <<table, ids, loss, received, queue, pc, rid, outcome, seen, cancels,
                 wire, device, disconnected>>

\* The interrupted task runs: CancelledError, or TimeoutError, leaves its await.
Raise(c) == pc[c] \in Waiting /\ intr[c] # "none" /\ Return(c, intr[c])

\* The send_frame of _cancel_send returns, raises or is interrupted.  Whatever it
\* raises replaces the exception the coroutine was ending with; being shielded,
\* the frame goes out even when the task is cancelled here.
CancelEnds(c) ==
  /\ pc[c] = "cancelling"
  /\ pc' = [pc EXCEPT ![c] = "done"]
  /\ \E out \in {outcome[c], "sendError", "cancelled"} :
       outcome' = [outcome EXCEPT ![c] = out]
  /\ UNCHANGED <<table, ids, loss, received, futures, rid, intr, seen, cancels, wire,
                 device, disconnected>>

-----------------------------------------------------------------------------
(* What the host does with a frame *)

\* _handle_response: settles the response registered under id i.
HandleResponse(i, ok) ==
  LET p == pending[i] IN
  IF p # None /\ resp[p] = "pending"
  THEN /\ resp' = [resp EXCEPT ![p] = IF ok THEN "ok" ELSE "error"]
       /\ queue' = IF Kind[p] = "stream" THEN [queue EXCEPT ![p] = Append(@, End)]
                                         ELSE queue
  ELSE UNCHANGED <<resp, queue>>

\* Mutant: a queue of one item drops what it cannot hold.
HandleEventFull(i, item) ==
  LET p == pending[i] IN
  queue' = IF p # None /\ queue[p] = <<>> THEN [queue EXCEPT ![p] = <<item>>] ELSE queue

\* _handle_event: queues an item for the stream registered under id i.
HandleEvent(i, item) ==
  LET p == pending[i] IN
  queue' = IF p # None /\ Kind[p] = "stream"
           THEN [queue EXCEPT ![p] = Append(@, item)] ELSE queue

\* Mutant: the confirm future is set without asking whether it is done.
SettleAgain(i, v) ==
  conf' = IF confirms[i] # None THEN [conf EXCEPT ![confirms[i]] = v] ELSE conf

\* Sets the result of the confirm future registered under id i, unless it is done.
Settle(i, v) ==
  LET p == confirms[i] IN
  conf' = IF p # None /\ conf[p] = "pending" THEN [conf EXCEPT ![p] = v] ELSE conf

\* An ApsAckConfirm or a BroadcastConfirm
HandleTerminal(i, v) == awaiting' = awaiting \ {i} /\ Settle(i, v)

\* Mutant: the handoff settles a send that awaits its APS ack.
HandleHandoffEarly(i, v) == HandleTerminal(i, v)

\* A SendConfirm: the result of the local handoff, which when good is not terminal
\* for a send that awaits an APS ack.
HandleHandoff(i, v) ==
  IF \/ confirms[i] = None \/ conf[confirms[i]] # "pending"
     \/ v = "success" /\ i \in awaiting
  THEN UNCHANGED <<conf, awaiting>>
  ELSE HandleTerminal(i, v)

\* Mutant: the entries are forgotten, their futures are not failed.
FailNone(future, entries) == future

\* Every unsettled future in a table fails.
Fail(future, entries) ==
  [c \in Calls |-> IF future[c] = "pending" /\ \E i \in Ids : entries[i] = c
                   THEN "lost" ELSE future[c]]

\* The first half of _connection_lost
FailPending ==
  /\ resp' = Fail(resp, pending)
  /\ conf' = Fail(conf, confirms)
  /\ pending' = [i \in Ids |-> None]
  /\ confirms' = [i \in Ids |-> None]
  /\ awaiting' = {}

\* Mutant: a loss that is reported is not remembered.
ConnectionLostAgain ==
  FailPending /\ UNCHANGED closing /\ reports' = IF closing THEN reports ELSE reports + 1

\* Mutant: a connection that is being closed is left as it is.
ConnectionLostQuiet ==
  IF closing THEN UNCHANGED <<resp, conf, table, loss>>
             ELSE FailPending /\ closing' = TRUE /\ reports' = reports + 1

ConnectionLost ==
  /\ FailPending
  /\ closing' = TRUE
  /\ reports' = IF closing THEN reports ELSE reports + 1

-----------------------------------------------------------------------------
(* The device, with what the host does on each frame of it *)

Owes(kind) ==
  {f \in Frames : \/ f = "response"
                  \/ f = "handoff" /\ kind \in {"unicast", "ackUnicast"}
                  \/ f = "ack" /\ kind = "ackUnicast"
                  \/ f = "quorum" /\ kind = "broadcast"}

\* The device gets a request.
Deliver(c) ==
  /\ link = "up"
  /\ frame[c] = "wire"
  /\ frame' = [frame EXCEPT ![c] = "none"]
  /\ owed' = [owed EXCEPT ![c] = Owes(Kind[c])]
  /\ UNCHANGED <<table, ids, loss, received, futures, task, cancels, link, answer,
                 verdict, emitted, disconnected>>

\* What the device says of a call before the call ends.
Record(what, c, v) == IF pc[c] \in Waiting THEN [what EXCEPT ![c] = v] ELSE what

\* A response, event or confirmation came in and was handled to its end.
Inbound ==
  /\ link = "up"
  /\ received' = TRUE
  /\ UNCHANGED <<pending, confirms, ids, loss, task, cid, wire, disconnected>>

\* It gets the cancellation of a send, after the send, may still stop it, and
\* answers; no entry was ever made under the id of that answer.
AnswerCancel(c) ==
  /\ cancel[c] = "wire" /\ frame[c] # "wire"
  /\ cancel' = [cancel EXCEPT ![c] = "over"]
  /\ owed' \in {owed, [owed EXCEPT ![c] = {}]}
  /\ HandleResponse(cid[c], TRUE)
  /\ Inbound /\ UNCHANGED <<awaiting, conf, answer, verdict, emitted>>

\* It responds to a request.  A send it refuses gets no confirmation; a
\* confirmation may precede the response to a send it accepts.
Respond(c, ok) ==
  /\ "response" \in owed[c]
  /\ ok \/ owed[c] = Owes(Kind[c])
  /\ owed' = [owed EXCEPT ![c] = IF ok THEN @ \ {"response"} ELSE {}]
  /\ answer' = Record(answer, c, IF ok THEN "ok" ELSE "error")
  /\ HandleResponse(rid[c], ok)
  /\ Inbound /\ UNCHANGED <<awaiting, conf, cancel, verdict, emitted>>

\* It emits an event of a stream it has not ended.
EmitEvent(c) ==
  /\ Kind[c] = "stream" /\ "response" \in owed[c]
  /\ emitted[c] < MaxEvents
  /\ emitted' = [emitted EXCEPT ![c] = @ + 1]
  /\ HandleEvent(rid[c], <<c, emitted[c] + 1>>)
  /\ Inbound /\ UNCHANGED <<awaiting, resp, conf, cancel, owed, answer, verdict>>

\* It hands the message to its radio, or fails to, which ends the send.
EmitHandoff(c, v) ==
  /\ "handoff" \in owed[c]
  /\ owed' = [owed EXCEPT ![c] = @ \ (IF v = "success" THEN {"handoff"}
                                                       ELSE {"handoff", "ack"})]
  /\ verdict' = IF v = "failure" \/ Kind[c] = "unicast"
                THEN Record(verdict, c, v) ELSE verdict
  /\ HandleHandoff(rid[c], v)
  /\ Inbound /\ UNCHANGED <<resp, queue, cancel, answer, emitted>>

\* It learns the fate of the message: the APS ack or the passive-ack quorum.
EmitTerminal(c, v) ==
  /\ owed[c] \cap {"ack", "quorum"} # {} /\ "handoff" \notin owed[c]
  /\ owed' = [owed EXCEPT ![c] = @ \ {"ack", "quorum"}]
  /\ verdict' = Record(verdict, c, v)
  /\ HandleTerminal(rid[c], v)
  /\ Inbound /\ UNCHANGED <<resp, queue, cancel, answer, emitted>>

\* Any other notification: handed to the application, or of a command unknown to
\* the host, which returns before _received_frame is set.
Notify(known) ==
  /\ link = "up"
  /\ received' = (received \/ known)
  /\ UNCHANGED <<table, ids, loss, futures, task, cancels, wire, device, disconnected>>

\* The device says hello: it starts or, when it has spoken before, it rebooted and
\* has forgotten every request.
Hello ==
  /\ link = "up"
  /\ received' = TRUE
  /\ IF received
     THEN ConnectionLost /\ owed' = [c \in Calls |-> {}]
     ELSE UNCHANGED <<resp, conf, table, loss, owed>>
  /\ UNCHANGED <<ids, queue, task, cancels, wire, answer, verdict, emitted, disconnected>>

\* The transport is gone, with the frames in it.
LinkDown ==
  /\ link = "up"
  /\ link' = "down"
  /\ frame' = [c \in Calls |-> IF frame[c] = "wire" THEN "none" ELSE frame[c]]
  /\ cancel' = [c \in Calls |-> IF cancel[c] = "wire" THEN "over" ELSE cancel[c]]
  /\ owed' = [c \in Calls |-> {}]
  /\ ConnectionLost
  /\ UNCHANGED <<ids, received, queue, task, cid, answer, verdict, emitted, disconnected>>

\* Mutant: _closing is left to _connection_lost.
DisconnectLate ==
  /\ ~disconnected
  /\ disconnected' = TRUE
  /\ UNCHANGED <<table, ids, loss, received, futures, task, cancels, wire, device>>

\* disconnect(): the transport is asked to close; LinkDown follows.
Disconnect ==
  /\ ~disconnected
  /\ disconnected' = TRUE
  /\ closing' = TRUE
  /\ UNCHANGED <<table, ids, reports, received, futures, task, cancels, wire, device>>

-----------------------------------------------------------------------------
(* The connected state, right after connect() *)

Init ==
  /\ nextId = 1
  /\ pending = [i \in Ids |-> None] /\ confirms = [i \in Ids |-> None]
  /\ awaiting = {}
  /\ closing = FALSE /\ received = FALSE /\ reports = 0
  /\ pc = [c \in Calls |-> "idle"] /\ rid = [c \in Calls |-> 0]
  /\ resp = [c \in Calls |-> "none"] /\ conf = [c \in Calls |-> "none"]
  /\ queue = [c \in Calls |-> <<>>]
  /\ intr = [c \in Calls |-> "none"] /\ outcome = [c \in Calls |-> "none"]
  /\ cancel = [c \in Calls |-> "none"] /\ cid = [c \in Calls |-> 0]
  /\ link = "up" /\ frame = [c \in Calls |-> "none"]
  /\ owed = [c \in Calls |-> {}]
  /\ answer = [c \in Calls |-> "none"] /\ verdict = [c \in Calls |-> "none"]
  /\ emitted = [c \in Calls |-> 0] /\ seen = [c \in Calls |-> <<>>]
  /\ disconnected = FALSE /\ reused = FALSE

SendEnds(c) == SendReturns(c) \/ SendRaises(c)

\* The task of c is ready to run.
Awake(c) ==
  \/ RequestReturns(c) \/ Accepted(c) \/ Rejected(c) \/ Confirmed(c)
  \/ StreamYields(c) \/ StreamEnds(c) \/ Raise(c)

DeviceStep(c) ==
  \/ Deliver(c) \/ AnswerCancel(c) \/ EmitEvent(c)
  \/ \E ok \in BOOLEAN : Respond(c, ok)
  \/ \E v \in {"success", "failure"} : EmitHandoff(c, v) \/ EmitTerminal(c, v)

Next ==
  \/ \E c \in Calls :
       \/ Register(c) \/ SendEnds(c) \/ Awake(c) \/ CancelEnds(c)
       \/ \E why \in {"timeout", "cancelled"} : Interrupt(c, why)
       \/ DeviceStep(c)
  \/ \E known \in BOOLEAN : Notify(known)
  \/ Hello \/ LinkDown \/ Disconnect

Spec == Init /\ [][Next]_vars

(***************************************************************************)
(* A write ends: the WebSocket heartbeat or the Spinel response timeout    *)
(* sees to it.  The event loop runs a task that is ready, and a timer that *)
(* is due.  A transport asked to close closes.  Nothing is assumed of the  *)
(* device.                                                                 *)
(***************************************************************************)
Fairness ==
  /\ \A c \in Calls : /\ WF_vars(SendEnds(c))
                      /\ WF_vars(Awake(c))
                      /\ WF_vars(CancelEnds(c))
                      /\ WF_vars(Interrupt(c, "timeout"))
  /\ WF_vars(disconnected /\ LinkDown)

FairSpec == Spec /\ Fairness

-----------------------------------------------------------------------------
(* Properties.  Those that speak of one call's own frames assume that no id was  *)
(* handed out while it was in use: with 0x3FFF ids that takes a call which       *)
(* outlives 0x3FFF others.  Such a call may lose what comes after to another.    *)

\* What a call reports is what the device said of that very call: "ok" is the OK
\* of its own response and, for a send, the verdict on its own message - the ack
\* and never the handoff when an ack was requested; "rejected" and "failed" are
\* the device's words too.  (request 111-124, request_confirmed 126-162,
\* _handle_notification 246-265.)
TruthfulOutcome ==
  ~reused =>
    \A c \in Calls :
      /\ outcome[c] = "ok" => /\ answer[c] = "ok"
                              /\ Kind[c] \in Sends => verdict[c] = "success"
      /\ outcome[c] = "rejected" => answer[c] = "error"
      /\ outcome[c] = "failed" => verdict[c] = "failure"

\* A task that waits on an unsettled future can still be reached: its entry is in
\* the table, where a frame or _connection_lost finds it, and a send that waits
\* for an APS ack is marked so.  (the registrations 115, 137-143, 172 against the
\* pops 124, 154-156, 184 and clears 82-87.)
NoOrphanWait ==
  ~reused =>
    \A c \in Calls :
      /\ pc[c] \in Waiting /\ resp[c] = "pending" => pending[rid[c]] = c
      /\ pc[c] \in Waiting /\ conf[c] = "pending" =>
           /\ confirms[rid[c]] = c
           /\ Kind[c] = "ackUnicast" => rid[c] \in awaiting

\* An entry belongs to a call under way, except the one a stream leaves behind
\* when its send_frame raises or is cancelled; an ack is awaited only for an
\* entry.  (the finally clauses 123-124, 153-156, 183-184.)
NoStaleEntry ==
  \A i \in Ids :
    /\ pending[i] # None =>
         LET c == pending[i] IN
         /\ rid[c] = i
         /\ \/ pc[c] \in Waiting
            \/ Kind[c] = "stream" /\ outcome[c] \in {"sendError", "cancelled"} /\ seen[c] = <<>>
    /\ confirms[i] # None => rid[confirms[i]] = i /\ pc[confirms[i]] \in Waiting
    /\ i \in awaiting => confirms[i] # None

\* A send is cancelled on the device when it was given up on without a
\* confirmation, unless the connection is going; and never once it was confirmed.
\* (request_confirmed 158-159, _cancel_send 99-107.)
AbandonedIsCancelled ==
  \A c \in Calls :
    /\ cancel[c] # "none" => conf[c] \in {"pending", "cancelled"}
    /\ pc[c] = "done" /\ conf[c] \in {"pending", "cancelled"} =>
         cancel[c] # "none" \/ closing

\* The loss of a connection is reported, and never twice - the reboot of the device
\* and the end of the transport that follows it are one loss - unless disconnect()
\* had been called.  (_connection_lost 88-91.)
LossReported ==
  /\ reports <= 1
  /\ link = "down" /\ ~disconnected => reports = 1

\* After disconnect() the application hears of no loss, whichever of the two
\* closes the connection.  (disconnect 70-73, _connection_lost 88-91.)
NoReportAfterDisconnect == [][disconnected => reports' = reports]_vars

\* A future settles once: to set it again would raise InvalidStateError out of the
\* frame handler or the connection_lost callback.  (the done() checks 80, 84, 209,
\* 251, 264.)
SettledOnce ==
  [][\A c \in Calls :
       /\ resp[c] \notin {"none", "pending"} => resp'[c] = resp[c]
       /\ conf[c] \notin {"none", "pending"} => conf'[c] = conf[c]]_vars

\* The consumer of a stream gets the events of that stream, in order and without
\* a gap, all of them when it ends by the device's response.
\* (request_stream 164-184, _handle_event 237-244.)
StreamExact ==
  ~reused =>
    \A c \in Calls :
      /\ \A n \in 1 .. Len(seen[c]) : seen[c][n] = <<c, n>>
      /\ outcome[c] \in {"ok", "rejected"} /\ Kind[c] = "stream" =>
           Len(seen[c]) = emitted[c]

CallsOf(kinds) == {c \in Calls : Kind[c] \in kinds}

Asked == {c \in Calls : pc[c] # "idle"}

Exchanges == INSTANCE Exchange WITH
  Messages <- CallsOf(Sends), Streams <- CallsOf({"stream"}),
  asked <- Asked, gone <- closing, muddled <- reused

\* To its callers, the multiplexer is what Exchange describes: whatever other calls,
\* losses and timeouts do meanwhile, a call ends once and truthfully, "lost" only after
\* a loss, and a stream yields only what was emitted for it and nothing after its end.
\* (request 109-124, request_confirmed 126-162, request_stream 164-184, _handle_frame 188-265.)
PromiseKept == Exchanges!Spec

\* A send ends, whatever the device and the connection do.
\* (asyncio.timeout(CONFIRM_TIMEOUT) 149, _cancel_send 99-107.)
SendsEnd == \A c \in CallsOf(Sends) : pc[c] # "idle" ~> pc[c] = "done"

\* A request, which has no timeout of its own, ends once the connection is lost or
\* disconnect() is called.  (_connection_lost 79-82, disconnect 70-73, request 119-124.)
RequestsEndAfterLoss ==
  \A c \in CallsOf({"request"}) :
    pc[c] # "idle" /\ (link = "down" \/ disconnected) ~> pc[c] = "done"

\* api.py:168 "An error response or disconnect is raised once the stream is
\* exhausted": a stream, too, ends once the connection is lost.
StreamsEndAfterLoss ==
  \A c \in CallsOf({"stream"}) :
    pc[c] # "idle" /\ (link = "down" \/ disconnected) ~> pc[c] = "done"
=============================================================================
