------------------------------ MODULE Session -------------------------------
(***************************************************************************)
(* How a session comes and goes: connect and disconnect of                 *)
(* ControllerApplication, over ZigguratApi.connect and disconnect, over    *)
(* connect_transport, WebSocketTransport and SpinelTransport               *)
(* (zigbee/transport.py).                                                  *)
(*                                                                         *)
(* Each attempt to connect makes a ZigguratApi of its own, whose callbacks *)
(* outlive the attempt.  An action is the code a task runs between two     *)
(* awaits, or a callback of the event loop.  aiohttp and the serial driver *)
(* are taken as the code uses them.                                        *)
(***************************************************************************)
EXTENDS Naturals

CONSTANTS
  Attempts,   \* the calls of connect()
  Medium,     \* the transport of each: a member of Media
  MaxFrames,  \* bound: the frames of one attempt
  None        \* no attempt: self._api is None

Media == {"websocket", "serial"}

ASSUME MediumAssumption == Medium \in [Attempts -> Media]
ASSUME MaxFramesAssumption == MaxFrames \in Nat
ASSUME NoAttemptAssumption == None \notin Attempts

VARIABLES
  app,       \* the attempt whose ZigguratApi is self._api
  closer,    \* the await disconnect() stands at
  pc,        \* the await the connect() of an attempt stands at
  closing,   \* _closing of its ZigguratApi
  req,       \* the response future of its Reset request
  port,      \* its WebSocket, or its serial port
  client,    \* its aiohttp.ClientSession
  receiver,  \* its _receive_loop task
  (* Observation: what happened, never read by the code *)
  frames,    \* how many frames went to on_frame
  losses,    \* how often on_lost was called
  reports,   \* how often connection_lost of the application was called
  left       \* the call that ended without having released what it opened

objects == <<closing, req>>
resources == <<port, client>>
history == <<frames, losses, reports, left>>

vars == <<app, closer, pc, objects, resources, receiver, history>>

Connecting == {"opening", "probing", "resetting"}

TypeOK ==
  /\ app \in Attempts \cup {None}
  /\ closer \in {"none", "port", "client"} /\ (closer # "none" => app # None)
  /\ pc \in [Attempts -> Connecting \cup {"idle", "connected", "failed"}]
  /\ closing \in [Attempts -> BOOLEAN]
  /\ req \in [Attempts -> {"none", "pending", "ok", "lost"}]
  /\ port \in [Attempts -> {"none", "open", "closing", "dead", "closed"}]
  /\ client \in [Attempts -> {"none", "open", "closed"}]
  /\ receiver \in [Attempts -> {"none", "new", "running", "cancelled", "over", "stillborn"}]
  /\ frames \in [Attempts -> 0 .. MaxFrames]
  /\ losses \in [Attempts -> Nat] /\ reports \in [Attempts -> Nat]
  /\ left \in [Attempts -> {"none", "connect", "disconnect"}]

-----------------------------------------------------------------------------
(* Callbacks of the transport *)

\* _connection_lost, as far as a session goes
ConnectionLost(a) ==
  /\ req' = [req EXCEPT ![a] = IF @ = "pending" THEN "lost" ELSE @]
  /\ closing' = [closing EXCEPT ![a] = TRUE]
  /\ reports' = [reports EXCEPT ![a] = IF closing[a] THEN @ ELSE @ + 1]

\* on_lost
Lost(a) ==
  /\ ConnectionLost(a)
  /\ losses' = [losses EXCEPT ![a] = @ + 1]

-----------------------------------------------------------------------------
(* connect() *)

\* It opens a WebSocket, through a client session, or a serial port.  zigpy
\* connects when it is disconnected and not already connecting.
Connect(a) ==
  /\ pc[a] = "idle"
  /\ app = None /\ \A b \in Attempts : pc[b] \notin Connecting
  /\ pc' = [pc EXCEPT ![a] = "opening"]
  /\ client' = [client EXCEPT ![a] = IF Medium[a] = "websocket" THEN "open" ELSE "none"]
  /\ UNCHANGED <<app, closer, objects, port, receiver, history>>

\* It is open; the hello of the server, or the property of the firmware, is awaited.
Opened(a) ==
  /\ pc[a] = "opening"
  /\ pc' = [pc EXCEPT ![a] = "probing"]
  /\ port' = [port EXCEPT ![a] = "open"]
  /\ UNCHANGED <<app, closer, objects, client, receiver, history>>

\* Mutant: the session of a WebSocket that says something else is left open.
ProbeRejectedOpen(a) ==
  /\ pc[a] = "probing" /\ Medium[a] = "websocket"
  /\ pc' = [pc EXCEPT ![a] = "failed"]
  /\ UNCHANGED <<app, closer, objects, resources, receiver, history>>

\* The WebSocket says something else than a hello, or closes.
ProbeRejected(a) ==
  /\ pc[a] = "probing" /\ Medium[a] = "websocket"
  /\ pc' = [pc EXCEPT ![a] = "failed"]
  /\ port' = [port EXCEPT ![a] = "closed"]
  /\ client' = [client EXCEPT ![a] = "closed"]
  /\ UNCHANGED <<app, closer, objects, receiver, history>>

\* The probe has succeeded, though its medium may be gone since: the transport is
\* adopted, self._api is set and Reset is sent, a write that fails on a serial port
\* whose loss is known.
Adopt(a) ==
  /\ pc[a] = "probing" /\ port[a] \in {"open", "dead"}
  /\ receiver' = [receiver EXCEPT ![a] = IF Medium[a] = "websocket" THEN "new" ELSE "none"]
  /\ app' = a
  /\ req' = [req EXCEPT ![a] =
               IF Medium[a] = "serial" /\ port[a] = "dead" THEN "lost" ELSE "pending"]
  /\ pc' = [pc EXCEPT ![a] = "resetting"]
  /\ UNCHANGED <<closer, closing, resources, history>>

\* Reset is answered, or its response fails.
ResetEnds(a) ==
  /\ pc[a] = "resetting"
  /\ \/ req[a] = "ok" /\ pc' = [pc EXCEPT ![a] = "connected"]
     \/ req[a] = "lost" /\ pc' = [pc EXCEPT ![a] = "failed"]
  /\ UNCHANGED <<app, closer, objects, resources, receiver, history>>

\* Any other exception leaves connect(): the port cannot be opened, the probe times
\* out, the firmware is a foreign one, a write fails, the caller cancels.  Before the
\* transport is adopted nobody else can release what was opened.
Raises(a) ==
  /\ pc[a] \in Connecting
  /\ pc' = [pc EXCEPT ![a] = "failed"]
  /\ left' = [left EXCEPT ![a] = IF pc[a] = "resetting" THEN @ ELSE "connect"]
  /\ UNCHANGED <<app, closer, objects, resources, receiver, frames, losses, reports>>

-----------------------------------------------------------------------------
(* While it is open *)

\* The medium can pass a frame on: the receiver task runs, or the protocol of the
\* serial port listens, as it does from the moment the port is open.
Listening(a) ==
  IF Medium[a] = "websocket" THEN receiver[a] = "running" ELSE port[a] \in {"open", "closing"}

\* A frame goes to _handle_frame: the response to Reset, the hello of a device that
\* rebooted, or another.
Frame(a, what) ==
  /\ Listening(a)
  /\ frames[a] < MaxFrames
  /\ frames' = [frames EXCEPT ![a] = @ + 1]
  /\ \/ /\ what = "response"
        /\ req' = [req EXCEPT ![a] = IF @ = "pending" THEN "ok" ELSE @]
        /\ UNCHANGED <<closing, reports>>
     \/ what = "hello" /\ frames[a] > 0 /\ ConnectionLost(a)
     \/ what = "other" /\ UNCHANGED <<objects, reports>>
  /\ UNCHANGED <<app, closer, pc, resources, receiver, losses, left>>

\* The medium is gone; the driver of a serial port calls connection_lost.
PortDies(a) ==
  /\ port[a] = "open"
  /\ port' = [port EXCEPT ![a] = "dead"]
  /\ IF Medium[a] = "serial" THEN Lost(a) ELSE UNCHANGED <<objects, losses, reports>>
  /\ UNCHANGED <<app, closer, pc, client, receiver, frames, left>>

\* The receiver task runs for the first time.
ReceiverStarts(a) ==
  /\ receiver[a] = "new"
  /\ receiver' = [receiver EXCEPT ![a] = "running"]
  /\ UNCHANGED <<app, closer, pc, objects, resources, history>>

\* Mutant: a WebSocket that the peer closes is not told of as a loss.
ReceiverEndsQuietly(a) ==
  /\ receiver[a] = "running" /\ port[a] = "dead"
  /\ receiver' = [receiver EXCEPT ![a] = "over"]
  /\ UNCHANGED <<app, closer, pc, objects, resources, history>>

\* Its loop ends with the WebSocket.
ReceiverEnds(a) ==
  /\ receiver[a] = "running" /\ port[a] = "dead"
  /\ receiver' = [receiver EXCEPT ![a] = "over"]
  /\ Lost(a)
  /\ UNCHANGED <<app, closer, pc, resources, frames, left>>

\* Mutant: the CancelledError is not raised again, and the loss is told below, too.
ReceiverFallsThrough(a) ==
  /\ receiver[a] = "cancelled"
  /\ receiver' = [receiver EXCEPT ![a] = "over"]
  /\ ConnectionLost(a)
  /\ losses' = [losses EXCEPT ![a] = @ + 2]
  /\ UNCHANGED <<app, closer, pc, resources, frames, left>>

\* Mutant: a receiver that is cancelled tells nobody.
ReceiverCancelledQuietly(a) ==
  /\ receiver[a] = "cancelled"
  /\ receiver' = [receiver EXCEPT ![a] = "over"]
  /\ UNCHANGED <<app, closer, pc, objects, resources, history>>

\* CancelledError is raised in it.
ReceiverCancelled(a) ==
  /\ receiver[a] = "cancelled"
  /\ receiver' = [receiver EXCEPT ![a] = "over"]
  /\ Lost(a)
  /\ UNCHANGED <<app, closer, pc, resources, frames, left>>

-----------------------------------------------------------------------------
(* disconnect() *)

\* The receiver after Task.cancel(): one that has not run yet never will.
Cancelled(task) ==
  CASE task = "new" -> "stillborn"
    [] task = "running" -> "cancelled"
    [] OTHER -> task

\* Mutant: the receiver is not cancelled and the loss not expected.
DisconnectUnmarked ==
  /\ app # None /\ closer = "none"
  /\ closer' = "port"
  /\ UNCHANGED <<app, pc, objects, resources, receiver, history>>

\* Mutant: disconnect() does not ask whether there is a self._api.
DisconnectUnguarded ==
  /\ closer = "none"
  /\ closer' = "port"
  /\ UNCHANGED <<app, pc, objects, resources, receiver, history>>

\* It is called when there is a self._api; up to the first await.  The driver of a
\* serial port is asked to close it.
Disconnect ==
  /\ app # None /\ closer = "none"
  /\ closing' = [closing EXCEPT ![app] = TRUE]
  /\ receiver' = [receiver EXCEPT ![app] = Cancelled(@)]
  /\ port' = [port EXCEPT ![app] =
                IF Medium[app] = "serial" /\ @ = "open" THEN "closing" ELSE @]
  /\ closer' = "port"
  /\ UNCHANGED <<app, pc, req, client, history>>

\* The driver has closed it, and calls connection_lost.
DriverCloses(a) ==
  /\ port[a] = "closing"
  /\ port' = [port EXCEPT ![a] = "closed"]
  /\ Lost(a)
  /\ UNCHANGED <<app, closer, pc, client, receiver, frames, left>>

\* The WebSocket is closed, and the client session is next; or the serial port is,
\* and self._api is forgotten.
PortCloses ==
  /\ closer = "port"
  /\ IF Medium[app] = "websocket"
     THEN /\ port' = [port EXCEPT ![app] = "closed"]
          /\ closer' = "client" /\ UNCHANGED app
     ELSE /\ port[app] \in {"dead", "closed"}
          /\ closer' = "none" /\ app' = None /\ UNCHANGED port
  /\ UNCHANGED <<pc, objects, client, receiver, history>>

ClientCloses ==
  /\ closer = "client"
  /\ client' = [client EXCEPT ![app] = "closed"]
  /\ closer' = "none" /\ app' = None
  /\ UNCHANGED <<pc, objects, port, receiver, history>>

\* It raises or is cancelled at its await: self._api is forgotten all the same.
DisconnectRaises ==
  /\ closer # "none"
  /\ left' = [left EXCEPT ![app] = "disconnect"]
  /\ closer' = "none" /\ app' = None
  /\ UNCHANGED <<pc, objects, resources, receiver, frames, losses, reports>>

-----------------------------------------------------------------------------

Init ==
  /\ app = None /\ closer = "none"
  /\ pc = [a \in Attempts |-> "idle"]
  /\ closing = [a \in Attempts |-> FALSE] /\ req = [a \in Attempts |-> "none"]
  /\ port = [a \in Attempts |-> "none"] /\ client = [a \in Attempts |-> "none"]
  /\ receiver = [a \in Attempts |-> "none"]
  /\ frames = [a \in Attempts |-> 0] /\ losses = [a \in Attempts |-> 0]
  /\ reports = [a \in Attempts |-> 0] /\ left = [a \in Attempts |-> "none"]

Receive(a) == ReceiverStarts(a) \/ ReceiverEnds(a) \/ ReceiverCancelled(a)

Next ==
  \/ \E a \in Attempts :
       \/ Connect(a) \/ Opened(a) \/ ProbeRejected(a) \/ Adopt(a) \/ ResetEnds(a)
       \/ Raises(a) \/ PortDies(a) \/ DriverCloses(a) \/ Receive(a)
       \/ \E what \in {"response", "hello", "other"} : Frame(a, what)
  \/ Disconnect \/ PortCloses \/ ClientCloses \/ DisconnectRaises

Spec == Init /\ [][Next]_vars

\* The event loop runs a task that is ready, and the driver of a serial port closes it
\* when asked.  Nothing is assumed of the peer.
Fairness ==
  \A a \in Attempts :
    WF_vars(Receive(a)) /\ WF_vars(ResetEnds(a)) /\ WF_vars(DriverCloses(a))

FairSpec == Spec /\ Fairness

-----------------------------------------------------------------------------
(* Properties *)

\* The links: a WebSocket from when it is adopted, a serial port from when it is open.
LinkOpened ==
  {a \in Attempts : IF Medium[a] = "websocket" THEN receiver[a] # "none" ELSE port[a] # "none"}

LinkOf == INSTANCE Link WITH Links <- Attempts, opened <- LinkOpened

\* Over either medium, through every order of loss, cancellation and disconnect, the
\* transport is the link that Api takes it for: no frame after the loss, no second
\* loss.  (_receive_loop 204-222, _SpinelProtocol.connection_lost 68-70.)
LinkKept == LinkOf!Spec

\* Only the session in use speaks to the application, by a frame or by the report of
\* a loss.  A serial port is the exception: its protocol speaks while the port is
\* probed, and goes on when the probe fails or disconnect() is cut short, because
\* nobody closes the port then, or waits until it is closed.  (connect 111-130, disconnect 132-139, _adopt 184-191,
\* SpinelTransport.connect 116-126.)
OnlyOwnSessionSpeaks ==
  [][\A a \in Attempts :
       frames'[a] # frames[a] \/ reports'[a] # reports[a] =>
         \/ app = a
         \/ Medium[a] = "serial" /\ (pc[a] = "probing" \/ left[a] # "none")]_vars

\* What an attempt opened is closed unless the attempt is under way or in use, or
\* the call that should have closed it ended early: a probe that timed out or was
\* refused by the firmware, a cancelled connect() or disconnect().
\* (_probe_websocket 159-171, start_ziggurat 82-87, disconnect 193-202.)
Released ==
  \A a \in Attempts :
    port[a] = "open" \/ client[a] = "open" =>
      app = a \/ pc[a] \in Connecting \/ left[a] # "none"

\* The Reset request of connect(), which has no timeout, ends once the session is
\* lost or is being closed, unless the receiver was cancelled before it ever ran:
\* such a task calls no on_lost.  (_receive_loop 204-222, connect 125-130.)
ResetEndsWithSession ==
  \A a \in Attempts :
    pc[a] = "resetting" /\ (port[a] # "open" \/ (app = a /\ closer # "none"))
      ~> pc[a] # "resetting" \/ receiver[a] = "stillborn"

\* The application hears of the loss of the session in use, whatever the connect()
\* that made it was doing then, unless disconnect() is called first; a hello of the
\* firmware may have been reported as that loss earlier, even before self._api was
\* set.  (_receive_loop 204-222, SpinelTransport.connect 116-126, _connection_lost 78-91.)
LossHeard ==
  \A a \in Attempts :
    app = a /\ port[a] = "dead" ~> reports[a] = 1 \/ app # a \/ closer # "none"
=============================================================================
