------------------------------- MODULE Radio --------------------------------
(***************************************************************************)
(* What ControllerApplication asks of the running radio                    *)
(* (zigbee/application.py): permits, energy and network scans and packet   *)
(* captures, over sessions that come and go, with a device that goes on    *)
(* from one session to the next.  Of a session only connect()'s Reset and  *)
(* the request ids are seen here, which each ZigguratApi counts from 1.    *)
(*                                                                         *)
(* A task runs one of these methods: a script of requests, awaited one by  *)
(* one.  The device takes a request in the step that sends it; what it     *)
(* says goes through one FIFO pipe.  What the device does with a request   *)
(* is taken from what the code and its tests expect of it.                 *)
(***************************************************************************)
EXTENDS Wire, Sequences, FiniteSets

CONSTANTS
  Tasks,        \* the calls of these methods
  Channels,     \* the channels of a scan
  Count,        \* count, of energy_scan
  MaxSessions,  \* bound: the sessions
  MaxId,        \* bound: the ids of a session
  MaxEvents,    \* bound: the packets captured, or beacons heard, by one stream
  MaxPipe,      \* bound: frames on the way to the host
  None          \* no task, and no method

Kinds == {"capture", "hop", "energy", "scan", "permit", "own", "steered", "withKey"}

ASSUME CountAssumption == {Count, MaxSessions, MaxEvents, MaxPipe} \subseteq Nat \ {0}
ASSUME MaxIdAssumption == MaxId \in 2 .. MaxRequestId
ASSUME NoneAssumption == None \notin Tasks \cup Kinds
ASSUME ChannelsAssumption == Channels \cap (1 .. MaxEvents) = {}

VARIABLES
  (* The sessions *)
  session,     \* how many there have been
  phase,       \* of the last: "down", "open", "resetting" or "ready"
  nextId,      \* _request_id of its ZigguratApi
  pending,     \* its _pending: the task registered under each id
  pipe,        \* the frames on the way to the host
  (* The tasks *)
  kind,        \* the method that each is a call of, None before it is made
  pc,          \* "idle", "waiting" or "done"
  at,          \* the request of its script that a task is at
  rid,         \* the id of that request, 0 when it awaits something else
  resp,        \* the response to it
  readings,    \* all_results of energy_scan: how many of each channel
  outcome,     \* how it ended
  (* The device *)
  streams,     \* the streams it is at: the id, the task, the session, what is left
  window,      \* the join window: who opened it, and whether for direct joins
  keyed,       \* the tasks whose provisional key it has
  (* Observation: what happened, never read by the code *)
  got,         \* the tasks whose events each task was given
  reported,    \* the readings the device took for each task
  permitted,   \* the tasks whose PermitJoins the device accepted
  early        \* the tasks that sent a request while Reset was still awaited

host == <<session, phase, nextId, pending>>
task == <<kind, pc, at, rid, resp, readings, outcome>>
device == <<streams, window, keyed>>
history == <<got, reported, permitted, early>>

vars == <<host, pipe, task, device, history>>

-----------------------------------------------------------------------------
(* The scripts *)

\* Mutant: the window is opened before the device has the key.
ScriptKeyLast(k) ==
  CASE k = "withKey" -> <<"Place", "Broadcast", "PermitDirect", "SetProvisionalKey">>
    [] k = "capture" -> <<"PacketCapture">>
    [] k = "energy"  -> [i \in 1 .. Count |-> "EnergyScan"]
    [] k = "permit"  -> <<"Place", "Broadcast", "PermitDirect">>
    [] k = "own"     -> <<"PermitDirect">>
    [] k = "steered" -> <<"AskRouter", "PermitSteered">>
    [] k = "hop"     -> <<"PacketCaptureChannel">>
    [] OTHER -> <<"NetworkScan">>

\* Mutant: a steered permit ends with the router's answer.
ScriptRouterOnly(k) ==
  CASE k = "steered" -> <<"AskRouter">>
    [] k = "withKey" -> <<"SetProvisionalKey", "Place", "Broadcast", "PermitDirect">>
    [] k = "capture" -> <<"PacketCapture">>
    [] k = "energy"  -> [i \in 1 .. Count |-> "EnergyScan"]
    [] k = "permit"  -> <<"Place", "Broadcast", "PermitDirect">>
    [] k = "own"     -> <<"PermitDirect">>
    [] k = "hop"     -> <<"PacketCaptureChannel">>
    [] OTHER -> <<"NetworkScan">>

\* What each method requests.  zigpy's own permit sends a broadcast, which first waits
\* for a place among the packets, and calls permit_ncp; given the coordinator itself it
\* only calls permit_ncp; given a router it asks that and awaits its ZDO response.
Script(k) ==
  CASE k = "capture" -> <<"PacketCapture">>
    [] k = "hop"     -> <<"PacketCaptureChannel">>
    [] k = "energy"  -> [i \in 1 .. Count |-> "EnergyScan"]
    [] k = "scan"    -> <<"NetworkScan">>
    [] k = "permit"  -> <<"Place", "Broadcast", "PermitDirect">>
    [] k = "own"     -> <<"PermitDirect">>
    [] k = "steered" -> <<"AskRouter", "PermitSteered">>
    [] k = "withKey" -> <<"SetProvisionalKey", "Place", "Broadcast", "PermitDirect">>

\* What a task awaits without a request of its own to the device
Elsewhere == {"AskRouter", "Place"}

Streamed == {"PacketCapture", "EnergyScan", "NetworkScan"}

Asks(t) == Script(kind[t])[at[t]]      \* the request task t is at
Last(t) == at[t] = Len(Script(kind[t]))

-----------------------------------------------------------------------------
(* Types *)

Ids == 1 .. MaxId

NoReadings == [c \in Channels |-> 0]
Readings == [Channels -> 0 .. Count]
Closed == [by |-> None, direct |-> FALSE]

\* A scan has channels left, another stream packets.
Stream ==
  [id : Ids, owner : Tasks, session : 1 .. MaxSessions, left : SUBSET (Channels \cup 1 .. MaxEvents)]

\* A response or an event: its header, and what the body says of what
Frame == [header : Byte \X Byte, owner : Tasks \cup {None}, says : {"ok", "error"} \cup Channels]

TypeOK ==
  /\ session \in 0 .. MaxSessions
  /\ phase \in {"down", "open", "resetting", "ready"}
  /\ nextId \in Ids
  /\ pending \in [Ids -> Tasks \cup {None}]
  /\ pipe \in Seq(Frame) /\ Len(pipe) <= MaxPipe
  /\ kind \in [Tasks -> Kinds \cup {None}]
  /\ pc \in [Tasks -> {"idle", "waiting", "done"}]
  /\ at \in [Tasks -> 1 .. 4 + Count] /\ rid \in [Tasks -> Ids \cup {0}]
  /\ resp \in [Tasks -> {"none", "ok", "error", "lost"}]
  /\ readings \in [Tasks -> Readings] /\ reported \in [Tasks -> Readings]
  /\ outcome \in [Tasks -> {"none", "ok", "failed", "incomplete", "abandoned"}]
  /\ streams \subseteq Stream
  /\ window \in [by : Tasks \cup {None}, direct : BOOLEAN]
  /\ {keyed, permitted, early} \subseteq SUBSET Tasks
  /\ got \in [Tasks -> SUBSET Tasks]

-----------------------------------------------------------------------------
(* The device and the radio *)

\* A frame it writes
Reply(type, id, owner, says) ==
  [header |-> Header(id, type), owner |-> owner, says |-> says]

Say(frame) == Len(pipe) < MaxPipe /\ pipe' = Append(pipe, frame)

\* A stream begins: a scan has each channel left, in any order.
Begins(what, id, t) ==
  streams' = streams \cup
    {[id |-> id, owner |-> t, session |-> session,
      left |-> IF what = "EnergyScan" THEN Channels ELSE 1 .. MaxEvents]}

\* It takes a request and answers it, at once unless it is a stream.
Takes(what, id, t) ==
  \/ /\ Say(Reply(RESPONSE, id, t, "error"))
     /\ UNCHANGED <<device, permitted>>
  \/ /\ what \in Streamed
     /\ Begins(what, id, t)
     /\ UNCHANGED <<pipe, window, keyed, permitted>>
  \/ /\ what \in {"PermitDirect", "PermitSteered"}
     /\ window' = [by |-> t, direct |-> what = "PermitDirect"]
     /\ permitted' = permitted \cup {t}
     /\ Say(Reply(RESPONSE, id, t, "ok")) /\ UNCHANGED <<streams, keyed>>
  \/ /\ what = "SetProvisionalKey"
     /\ keyed' = keyed \cup {t}
     /\ Say(Reply(RESPONSE, id, t, "ok")) /\ UNCHANGED <<streams, window, permitted>>
  \/ /\ what \in {"Broadcast", "PacketCaptureChannel"}
     /\ Say(Reply(RESPONSE, id, t, "ok")) /\ UNCHANGED <<device, permitted>>

Emptied(s, e) == [s EXCEPT !.left = @ \ {e}]

\* It reports an item of a stream; what is written while no session is there is lost.
EmitEvent(s, e) ==
  /\ e \in s.left
  /\ streams' = (streams \ {s}) \cup {Emptied(s, e)}
  /\ reported' = IF e \in Channels THEN [reported EXCEPT ![s.owner][e] = @ + 1] ELSE reported
  /\ IF phase = "down" THEN UNCHANGED pipe
     ELSE Say(Reply(EVENT, s.id, s.owner, IF e \in Channels THEN e ELSE "ok"))
  /\ UNCHANGED <<host, task, window, keyed, got, permitted, early>>

\* It ends a stream, maybe before the stream has reported everything.
EndStream(s, says) ==
  /\ streams' = streams \ {s}
  /\ IF phase = "down" THEN UNCHANGED pipe ELSE Say(Reply(RESPONSE, s.id, s.owner, says))
  /\ UNCHANGED <<host, task, window, keyed, history>>

WindowCloses ==
  /\ window # Closed
  /\ window' = Closed
  /\ UNCHANGED <<host, pipe, task, streams, keyed, history>>

-----------------------------------------------------------------------------
(* The sessions *)

\* The task is ready to run.  The requests of the packets that have the places have
\* failed with the session, so that its turn has come where it waits for one.
Ready(t) ==
  /\ pc[t] = "waiting"
  /\ \/ resp[t] \in {"ok", "error"}
     \/ resp[t] = "lost" /\ Asks(t) \notin Streamed
     \/ Asks(t) = "Place"

\* The transport is there: from now on frames reach a ZigguratApi that expects none.
\* Long before, the event loop has run the tasks that were ready.
Open ==
  /\ phase = "down" /\ session < MaxSessions
  /\ \A t \in Tasks : ~Ready(t)
  /\ session' = session + 1 /\ phase' = "open"
  /\ nextId' = 1 /\ pending' = [i \in Ids |-> None]
  /\ UNCHANGED <<pipe, task, device, history>>

\* Mutant: connect() does not clear what a previous client left.
ConnectWithoutReset ==
  /\ phase = "open"
  /\ nextId' = 2
  /\ phase' = "resetting"
  /\ Say(Reply(RESPONSE, 1, None, "ok"))
  /\ UNCHANGED <<session, pending, task, device, history>>

\* Reset, soft: every stream of a previous client is over.
Reset ==
  /\ phase = "open"
  /\ nextId' = 2
  /\ phase' = "resetting"
  /\ \/ Say(Reply(RESPONSE, 1, None, "ok")) /\ streams' = {}
     \/ Say(Reply(RESPONSE, 1, None, "error")) /\ UNCHANGED streams
  /\ UNCHANGED <<session, pending, task, window, keyed, history>>

\* Every response future of the session fails.  A task that awaits something else awaits on.
Fail ==
  /\ pending' = [i \in Ids |-> None]
  /\ resp' = [t \in Tasks |->
                IF rid[t] # 0 /\ pending[rid[t]] = t /\ resp[t] = "none" THEN "lost" ELSE resp[t]]

\* The session is lost, or closed.
Lose ==
  /\ phase # "down"
  /\ phase' = "down" /\ pipe' = <<>>
  /\ Fail
  /\ UNCHANGED <<session, nextId, kind, pc, at, rid, readings, outcome, device, history>>

\* The device reboots, and has forgotten everything.
Reboot ==
  /\ phase # "down"
  /\ phase' = "down" /\ pipe' = <<>>
  /\ Fail
  /\ streams' = {} /\ window' = Closed /\ keyed' = {}
  /\ UNCHANGED <<session, nextId, kind, pc, at, rid, readings, outcome, history>>

-----------------------------------------------------------------------------
(* The host *)

\* The task whose stream an event belongs to
StreamOf(id) ==
  IF pending[id] # None /\ Asks(pending[id]) \in Streamed THEN pending[id] ELSE None

\* Mutant: of each channel only the last reading is kept.
ReadLast(t, c) == [readings EXCEPT ![t][c] = 1]

\* Mutant: a reading is entered twice.
ReadTwice(t, c) == [readings EXCEPT ![t][c] = @ + 2]

\* all_results.setdefault(result.channel, []).append(result.rssi)
Read(t, c) == [readings EXCEPT ![t][c] = @ + 1]

HandleEvent(f) ==
  LET t == StreamOf(RequestIdOf(f.header)) IN
  /\ got' = IF t = None THEN got ELSE [got EXCEPT ![t] = @ \cup {f.owner}]
  /\ readings' = IF t # None /\ Asks(t) = "EnergyScan" /\ f.says \in Channels
                 THEN Read(t, f.says) ELSE readings
  /\ UNCHANGED <<phase, resp>>

\* Mutant: connect() goes on whatever the response is.
HandleResponseAnyway(f) ==
  LET id == RequestIdOf(f.header) t == pending[id] IN
  /\ phase' = IF phase = "resetting" /\ id = 1 THEN "ready" ELSE phase
  /\ resp' = IF t # None /\ resp[t] = "none" THEN [resp EXCEPT ![t] = f.says] ELSE resp
  /\ UNCHANGED <<got, readings>>

\* The response of Reset ends connect(), which raises an error response.
HandleResponse(f) ==
  LET id == RequestIdOf(f.header) t == pending[id] IN
  /\ phase' = IF phase = "resetting" /\ id = 1 /\ f.says = "ok" THEN "ready" ELSE phase
  /\ resp' = IF t # None /\ resp[t] = "none" THEN [resp EXCEPT ![t] = f.says] ELSE resp
  /\ UNCHANGED <<got, readings>>

Handle ==
  /\ pipe # <<>>
  /\ pipe' = Tail(pipe)
  /\ \/ FrameTypeOf(Head(pipe).header) = EVENT /\ HandleEvent(Head(pipe))
     \/ FrameTypeOf(Head(pipe).header) = RESPONSE /\ HandleResponse(Head(pipe))
  /\ UNCHANGED <<session, nextId, pending, kind, pc, at, rid, outcome, device, reported, permitted, early>>

-----------------------------------------------------------------------------
(* The tasks *)

\* _pending without the entry of t
Without(t) == [id \in Ids |-> IF pending[id] = t THEN None ELSE pending[id]]

\* A task sends request number i of method k by self._api, as that is now.
Send(t, k, i) ==
  LET what == Script(k)[i] IN
  /\ at' = [at EXCEPT ![t] = i]
  /\ pc' = [pc EXCEPT ![t] = "waiting"]
  /\ resp' = [resp EXCEPT ![t] = "none"]
  /\ IF what \in Elsewhere
     THEN /\ rid' = [rid EXCEPT ![t] = 0]
          /\ pending' = Without(t)
          /\ UNCHANGED <<nextId, pipe, device, permitted>>
     ELSE /\ rid' = [rid EXCEPT ![t] = nextId]
          /\ nextId < MaxId /\ nextId' = nextId + 1
          /\ pending' = [Without(t) EXCEPT ![nextId] = t]
          /\ Takes(what, nextId, t)
  /\ UNCHANGED <<session, phase>>
  /\ early' = IF phase = "resetting" THEN early \cup {t} ELSE early
  /\ UNCHANGED <<readings, outcome, got, reported>>

\* The coroutine returns or raises, or the generator is closed; the entry goes.
End(t, out) ==
  /\ pc' = [pc EXCEPT ![t] = "done"]
  /\ outcome' = [outcome EXCEPT ![t] = out]
  /\ pending' = Without(t)
  /\ at' = [at EXCEPT ![t] = 1] /\ rid' = [rid EXCEPT ![t] = 0]
  /\ resp' = [resp EXCEPT ![t] = "none"]
  /\ UNCHANGED <<kind, session, phase, nextId, pipe, readings, device, history>>

\* zigpy calls a method once it is connected.
Begin(t, k) ==
  /\ pc[t] = "idle" /\ phase = "ready"
  /\ kind' = [kind EXCEPT ![t] = k]
  /\ Send(t, k, 1)

\* What it awaited is there: an OK response, a place or, whether the router answered or
\* not, the end of zigpy's request to it.
Resumes(t) ==
  pc[t] = "waiting" /\ (resp[t] = "ok" \/ Asks(t) \in Elsewhere)

\* It goes on, by the self._api that is there now; if none is, it fails.
GoesOn(t) ==
  /\ Resumes(t) /\ ~Last(t)
  /\ IF phase \in {"resetting", "ready"}
     THEN Send(t, kind[t], at[t] + 1) /\ UNCHANGED kind
     ELSE End(t, "failed")

\* energy_scan averages the readings of each channel: KeyError if there is none.
Result(t) ==
  IF kind[t] = "energy" /\ \E c \in Channels : readings[t][c] = 0 THEN "incomplete" ELSE "ok"

Returns(t) == Resumes(t) /\ Last(t) /\ End(t, Result(t))

\* A stream hides a lost session from its task: no item ends it.
Raises(t) ==
  /\ pc[t] = "waiting"
  /\ \/ resp[t] = "error"
     \/ resp[t] = "lost" /\ Asks(t) \notin Streamed
  /\ End(t, "failed")

\* The caller cancels it, or has had enough packets.  The device is not told.
Abandon(t) ==
  /\ pc[t] = "waiting"
  /\ End(t, "abandoned")

-----------------------------------------------------------------------------

Init ==
  /\ session = 0 /\ phase = "down" /\ nextId = 1
  /\ pending = [i \in Ids |-> None] /\ pipe = <<>>
  /\ kind = [t \in Tasks |-> None] /\ pc = [t \in Tasks |-> "idle"] /\ at = [t \in Tasks |-> 1]
  /\ rid = [t \in Tasks |-> 0] /\ resp = [t \in Tasks |-> "none"]
  /\ readings = [t \in Tasks |-> NoReadings] /\ outcome = [t \in Tasks |-> "none"]
  /\ streams = {} /\ window = Closed /\ keyed = {}
  /\ got = [t \in Tasks |-> {}] /\ reported = [t \in Tasks |-> NoReadings]
  /\ permitted = {} /\ early = {}

Step(t) == (\E k \in Kinds : Begin(t, k)) \/ GoesOn(t) \/ Returns(t) \/ Raises(t) \/ Abandon(t)

Next ==
  \/ Open \/ Reset \/ Lose \/ Reboot \/ Handle \/ WindowCloses
  \/ \E t \in Tasks : Step(t)
  \/ \E s \in streams :
       \/ \E e \in s.left : EmitEvent(s, e)
       \/ \E says \in {"ok", "error"} : EndStream(s, says)

Spec == Init /\ [][Next]_vars

-----------------------------------------------------------------------------
(* Properties *)

\* A task is given the items of its own request and of no other: not those that a
\* capture abandoned in this session or in a previous one goes on with, though ids
\* start again at 1 in each session.  (connect 125-130, request_stream 164-184,
\* _handle_event 237-244.)
OwnEventsOnly == \A t \in Tasks : got[t] \subseteq {t}

\* application.py:128-129 "Clear any transient radio state left by a previous client
\* (e.g. a packet capture still streaming on the firmware) so this session starts from
\* idle": once connect() has returned, what streams was asked for in this session.
StartsFromIdle ==
  phase = "ready" => \A s \in streams : s.session = session

\* The energies that energy_scan returns are of every reading the device took for it, in
\* all its scans, each once: a scan of a lost session, whose items are gone, does not end.
\* (energy_scan 374-397, request_stream 164-184.)
ScanComplete ==
  \A t \in Tasks :
    kind[t] = "energy" /\ outcome[t] = "ok" => readings[t] = reported[t]

\* A device that joins with its link key through the window that was opened for it
\* finds that key at the trust center, whatever else is permitted, refused or given up
\* meanwhile.  (permit_with_link_key 366-372.)
KeyBeforeWindow ==
  window.by # None /\ kind[window.by] = "withKey" => window.by \in keyed

Permitting == {"permit", "own", "steered", "withKey"}

\* A permit that returns had its PermitJoins accepted by the device: with a router
\* asked first, in whatever session there is when that has answered.  Only if that
\* session still awaits Reset may what a capture of the one before says be taken for the
\* device's answer.
\* (permit 341-358, permit_ncp 360-364.)
PermitTruthful ==
  \A t \in Tasks :
    kind[t] \in Permitting /\ outcome[t] = "ok" =>
      t \in permitted \cup early
=============================================================================
