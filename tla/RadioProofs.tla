----------------------------- MODULE RadioProofs -----------------------------
(***************************************************************************)
(* What holds of Radio for any tasks, channels, counts and sessions.       *)
(***************************************************************************)
EXTENDS Radio, TLAPS

Id(f) == RequestIdOf(f.header)
Type(f) == FrameTypeOf(f.header)

Streaming == {"capture", "energy", "scan"}    \* the methods that await a stream
Permits == {"PermitDirect", "PermitSteered"}

\* What a frame, or a stream, says it belongs to is no task of this session but its own.
Current(id, t) == id < nextId /\ pending[id] \in {None, t}

Stations ==
  \A t \in Tasks :
    /\ pc[t] = "idle" <=> kind[t] = None
    /\ pc[t] = "waiting" => at[t] \in 1 .. Len(Script(kind[t]))
    /\ pc[t] = "waiting" => (rid[t] = 0 <=> Asks(t) \in Elsewhere)
    /\ rid[t] = 0 => resp[t] = "none"
    /\ pc[t] # "waiting" => rid[t] = 0
    /\ pc[t] # "done" => outcome[t] = "none"

\* An entry is that of the task that awaits the id, and a task that awaits has one.
Entries ==
  /\ \A i \in Ids : pending[i] # None =>
       /\ pc[pending[i]] = "waiting" /\ rid[pending[i]] = i /\ resp[pending[i]] # "lost"
       /\ i >= 2 /\ i < nextId
  /\ \A t \in Tasks : rid[t] # 0 /\ resp[t] = "none" => pending[rid[t]] = t

\* What is left of a session in the next.
Sessions ==
  /\ phase # "down" => session >= 1
  /\ phase \in {"resetting", "ready"} => nextId >= 2
  /\ phase \in {"down", "open"} => \A i \in Ids : pending[i] = None
  /\ phase # "down" => \A t \in Tasks : resp[t] = "lost" => Asks(t) \in Streamed
  /\ phase \in {"open", "resetting"} =>
       \A t \in Tasks : pc[t] = "waiting" =>
         \/ Asks(t) = "AskRouter"
         \/ Asks(t) \in Streamed /\ resp[t] = "lost"
         \/ Asks(t) = "PermitSteered" /\ t \in early

\* Of the frames on their way, those after the answer to Reset are current.
Frames ==
  /\ \A i \in 1 .. Len(pipe) :
       /\ Id(pipe[i]) \in Ids /\ Type(pipe[i]) \in {RESPONSE, EVENT}
       /\ Type(pipe[i]) = RESPONSE => pipe[i].says \in {"ok", "error"}
       /\ pipe[i].owner # None => kind[pipe[i].owner] # None
  /\ phase = "down" => pipe = <<>>
  /\ phase = "open" => \A i \in 1 .. Len(pipe) : Id(pipe[i]) # 1
  /\ phase = "resetting" =>
       \A i \in 1 .. Len(pipe) :
         Id(pipe[i]) = 1 /\ Type(pipe[i]) = RESPONSE /\ pipe[i].says = "ok" =>
           streams = {} /\ \A j \in i + 1 .. Len(pipe) : Current(Id(pipe[j]), pipe[j].owner)
  /\ phase = "ready" => \A i \in 1 .. Len(pipe) : Current(Id(pipe[i]), pipe[i].owner)

Streams ==
  /\ \A s \in streams :
       /\ s.id # 1 /\ kind[s.owner] \in Streaming
       /\ s.left \subseteq IF kind[s.owner] = "energy" THEN Channels ELSE 1 .. MaxEvents
       /\ phase = "ready" => s.session = session /\ Current(s.id, s.owner)
  /\ \A s, z \in streams : s.owner = z.owner => s = z

\* Nothing more comes of the stream of t.
Over(t) ==
  /\ \A s \in streams : s.owner # t
  /\ \A i \in 1 .. Len(pipe) : pipe[i].owner # t

\* The response is the last that comes of a stream.
Endings ==
  /\ \A t \in Tasks :
       kind[t] \in Streaming /\ (resp[t] \in {"ok", "error"} \/ outcome[t] = "ok") => Over(t)
  /\ \A i \in 1 .. Len(pipe) :
       LET t == pipe[i].owner IN
       t # None /\ kind[t] \in Streaming /\ Type(pipe[i]) = RESPONSE =>
         /\ \A s \in streams : s.owner # t
         /\ \A j \in i + 1 .. Len(pipe) : pipe[j].owner # t

\* The stream of a task that awaits one is that of its present request.
Labels ==
  \A t \in Tasks :
    kind[t] \in Streaming /\ pc[t] = "waiting" /\ resp[t] # "lost" =>
      /\ \A s \in streams : s.owner = t => s.id = rid[t]
      /\ \A i \in 1 .. Len(pipe) : pipe[i].owner = t => Id(pipe[i]) = rid[t]

\* What a permit was told, or is about to be told, the device did.
Granted ==
  /\ \A t \in Tasks : \A i \in 1 .. Len(pipe) :
       Type(pipe[i]) = RESPONSE /\ pipe[i].says = "ok" /\ pending[Id(pipe[i])] = t =>
         /\ Asks(t) \in Permits => t \in permitted \cup early
         /\ Asks(t) = "SetProvisionalKey" => t \in keyed
  /\ \A t \in Tasks : resp[t] = "ok" /\ Asks(t) \in Permits => t \in permitted \cup early

Keys ==
  /\ \A t \in Tasks :
       kind[t] = "withKey" /\ pc[t] = "waiting" /\ phase # "down" /\ (at[t] # 1 \/ resp[t] = "ok")
         => t \in keyed
  /\ window.by # None => kind[window.by] # None

\* A reading of t that is on its way.
Brings(f, t, c) == Type(f) = EVENT /\ f.owner = t /\ f.says = c
Underway(t, c) == \E i \in 1 .. Len(pipe) : Brings(pipe[i], t, c)
Once(t, c) ==
  \A i, j \in 1 .. Len(pipe) : Brings(pipe[i], t, c) /\ Brings(pipe[j], t, c) => i = j

Scanned(t) == IF pc[t] = "waiting" THEN at[t] ELSE Count

Scans ==
  /\ \A t \in Tasks : kind[t] # "energy" => readings[t] = NoReadings /\ reported[t] = NoReadings
  /\ \A t \in Tasks, c \in Channels : kind[t] = "energy" =>
       /\ readings[t][c] <= reported[t][c] /\ reported[t][c] <= Scanned(t)
       /\ (pc[t] = "waiting" /\ resp[t] # "lost") \/ outcome[t] = "ok" =>
            reported[t][c] = readings[t][c] + IF Underway(t, c) THEN 1 ELSE 0
       /\ \A s \in streams : s.owner = t /\ c \in s.left =>
            reported[t][c] < Scanned(t) /\ ~Underway(t, c)
       /\ Once(t, c)

Inv ==
  /\ TypeOK /\ Stations /\ Entries /\ Sessions /\ Frames /\ Streams /\ Endings
  /\ Labels /\ Granted /\ Keys /\ Scans
  /\ OwnEventsOnly /\ KeyBeforeWindow /\ PermitTruthful /\ ScanComplete

-----------------------------------------------------------------------------
(* The operators *)

LEMMA IdRange ==
  /\ MaxId \in Nat /\ MaxId >= 2 /\ 1 \in Ids /\ 2 \in Ids
  /\ \A i \in Ids : i \in RequestIds /\ i \in Nat /\ i >= 1 /\ i <= MaxId
  /\ \A i \in Nat : i >= 1 /\ i <= MaxId => i \in Ids
<1>1. MaxId \in Nat /\ MaxId >= 2 /\ MaxId <= 16383
  BY MaxIdAssumption DEF MaxRequestId
<1> QED
  BY <1>1 DEF Ids, RequestIds, MaxRequestId

\* A frame is read as it was written.
LEMMA ReplyRead ==
  ASSUME NEW id \in Ids, NEW type \in {RESPONSE, EVENT},
         NEW owner \in Tasks \cup {None}, NEW says \in {"ok", "error"} \cup Channels
  PROVE  LET f == Reply(type, id, owner, says) IN
         /\ f \in Frame /\ Id(f) = id /\ Type(f) = type
         /\ f.owner = owner /\ f.says = says
<1>1. type \in FrameTypes /\ id \in RequestIds
  BY IdRange DEF FrameTypes, REQUEST, RESPONSE, EVENT, NOTIFICATION
<1>2. /\ Header(id, type) \in Byte \X Byte
      /\ RequestIdOf(Header(id, type)) = id /\ FrameTypeOf(Header(id, type)) = type
  BY <1>1, HeaderRoundTrip
<1> QED
  BY <1>2 DEF Reply, Frame, Id, Type

\* A frame that is written comes last.
LEMMA Said ==
  ASSUME TypeOK, NEW f \in Frame, Say(f)
  PROVE  /\ pipe' \in Seq(Frame) /\ Len(pipe') <= MaxPipe
         /\ Len(pipe) \in Nat /\ Len(pipe') = Len(pipe) + 1 /\ Len(pipe) + 1 \in 1 .. Len(pipe')
         /\ \A i \in 1 .. Len(pipe) : pipe'[i] = pipe[i] /\ pipe[i] \in Frame /\ i \in 1 .. Len(pipe')
         /\ pipe'[Len(pipe) + 1] = f
         /\ \A i \in 1 .. Len(pipe') : i \in 1 .. Len(pipe) \/ i = Len(pipe) + 1
<1>1. MaxPipe \in Nat
  BY CountAssumption
<1> QED
  BY <1>1 DEF TypeOK, Say

\* The frame that is handled is the first.
LEMMA Popped ==
  ASSUME TypeOK, pipe # <<>>, pipe' = Tail(pipe)
  PROVE  /\ pipe' \in Seq(Frame) /\ Len(pipe) \in Nat \ {0} /\ 1 \in 1 .. Len(pipe)
         /\ Len(pipe') = Len(pipe) - 1 /\ Len(pipe') <= MaxPipe
         /\ \A i \in 1 .. Len(pipe') : /\ pipe'[i] = pipe[i + 1] /\ i + 1 \in 2 .. Len(pipe)
                                       /\ i + 1 \in 1 .. Len(pipe) /\ pipe[i + 1] \in Frame
         /\ Head(pipe) = pipe[1] /\ pipe[1] \in Frame
<1>1. MaxPipe \in Nat
  BY CountAssumption
<1> QED
  BY <1>1 DEF TypeOK

\* The scripts, request by request
LEMMA Scripts ==
  ASSUME NEW k \in Kinds, NEW i \in 1 .. Len(Script(k))
  PROVE  /\ i \in Nat /\ Count \in Nat /\ Count >= 1
         /\ Len(Script(k)) = IF k = "energy" THEN Count
                             ELSE IF k = "withKey" THEN 4
                             ELSE IF k = "permit" THEN 3
                             ELSE IF k = "steered" THEN 2 ELSE 1
         /\ \/ k = "capture" /\ i = 1 /\ Script(k)[i] = "PacketCapture"
            \/ k = "hop" /\ i = 1 /\ Script(k)[i] = "PacketCaptureChannel"
            \/ k = "energy" /\ Script(k)[i] = "EnergyScan"
            \/ k = "scan" /\ i = 1 /\ Script(k)[i] = "NetworkScan"
            \/ k = "own" /\ i = 1 /\ Script(k)[i] = "PermitDirect"
            \/ k = "permit" /\ i = 1 /\ Script(k)[i] = "Place"
            \/ k = "permit" /\ i = 2 /\ Script(k)[i] = "Broadcast"
            \/ k = "permit" /\ i = 3 /\ Script(k)[i] = "PermitDirect"
            \/ k = "steered" /\ i = 1 /\ Script(k)[i] = "AskRouter"
            \/ k = "steered" /\ i = 2 /\ Script(k)[i] = "PermitSteered"
            \/ k = "withKey" /\ i = 1 /\ Script(k)[i] = "SetProvisionalKey"
            \/ k = "withKey" /\ i = 2 /\ Script(k)[i] = "Place"
            \/ k = "withKey" /\ i = 3 /\ Script(k)[i] = "Broadcast"
            \/ k = "withKey" /\ i = 4 /\ Script(k)[i] = "PermitDirect"
<1>0. Count \in Nat /\ Count >= 1
  BY CountAssumption
<1>1. CASE k = "capture"
  <2>1. Script(k) = <<"PacketCapture">>
    BY <1>1 DEF Script
  <2>2. Len(Script(k)) = 1 /\ i \in {1}
    BY <2>1
  <2>3. i = 1 /\ Script(k)[i] = "PacketCapture"
    BY <2>1, <2>2
  <2> QED
    BY <1>0, <1>1, <2>2, <2>3
<1>2. CASE k = "hop"
  <2>1. Script(k) = <<"PacketCaptureChannel">>
    BY <1>2 DEF Script
  <2>2. Len(Script(k)) = 1 /\ i \in {1}
    BY <2>1
  <2>3. i = 1 /\ Script(k)[i] = "PacketCaptureChannel"
    BY <2>1, <2>2
  <2> QED
    BY <1>0, <1>2, <2>2, <2>3
<1>3. CASE k = "energy"
  <2>1. Script(k) = [j \in 1 .. Count |-> "EnergyScan"]
    BY <1>3 DEF Script
  <2>2. Script(k) \in Seq({"EnergyScan"}) /\ Len(Script(k)) = Count
    BY <1>0, <2>1
  <2> QED
    BY <1>0, <1>3, <2>1, <2>2
<1>4. CASE k = "scan"
  <2>1. Script(k) = <<"NetworkScan">>
    BY <1>4 DEF Script
  <2>2. Len(Script(k)) = 1 /\ i \in {1}
    BY <2>1
  <2>3. i = 1 /\ Script(k)[i] = "NetworkScan"
    BY <2>1, <2>2
  <2> QED
    BY <1>0, <1>4, <2>2, <2>3
<1>5. CASE k = "permit"
  <2>1. Script(k) = <<"Place", "Broadcast", "PermitDirect">>
    BY <1>5 DEF Script
  <2>2. Len(Script(k)) = 3 /\ i \in {1, 2, 3}
    BY <2>1
  <2>3. \/ i = 1 /\ Script(k)[i] = "Place"
        \/ i = 2 /\ Script(k)[i] = "Broadcast"
        \/ i = 3 /\ Script(k)[i] = "PermitDirect"
    BY <2>1, <2>2
  <2> QED
    BY <1>0, <1>5, <2>2, <2>3
<1>6. CASE k = "steered"
  <2>1. Script(k) = <<"AskRouter", "PermitSteered">>
    BY <1>6 DEF Script
  <2>2. Len(Script(k)) = 2 /\ i \in {1, 2}
    BY <2>1
  <2>3. \/ i = 1 /\ Script(k)[i] = "AskRouter"
        \/ i = 2 /\ Script(k)[i] = "PermitSteered"
    BY <2>1, <2>2
  <2> QED
    BY <1>0, <1>6, <2>2, <2>3
<1>7. CASE k = "withKey"
  <2>1. Script(k) = <<"SetProvisionalKey", "Place", "Broadcast", "PermitDirect">>
    BY <1>7 DEF Script
  <2>2. Len(Script(k)) = 4 /\ i \in {1, 2, 3, 4}
    BY <2>1
  <2>3. \/ i = 1 /\ Script(k)[i] = "SetProvisionalKey"
        \/ i = 2 /\ Script(k)[i] = "Place"
        \/ i = 3 /\ Script(k)[i] = "Broadcast"
        \/ i = 4 /\ Script(k)[i] = "PermitDirect"
    BY <2>1, <2>2
  <2> QED
    BY <1>0, <1>7, <2>2, <2>3
<1>8. CASE k = "own"
  <2>1. Script(k) = <<"PermitDirect">>
    BY <1>8 DEF Script
  <2>2. Len(Script(k)) = 1 /\ i \in {1}
    BY <2>1
  <2>3. i = 1 /\ Script(k)[i] = "PermitDirect"
    BY <2>1, <2>2
  <2> QED
    BY <1>0, <1>8, <2>2, <2>3
<1> QED
  BY <1>1, <1>2, <1>3, <1>4, <1>5, <1>6, <1>7, <1>8 DEF Kinds

\* What each method awaits, ...
LEMMA ScriptKinds ==
  ASSUME NEW k \in Kinds, NEW i \in 1 .. Len(Script(k))
  PROVE  /\ Len(Script(k)) \in 1 .. 4 + Count /\ i \in Nat
         /\ k \in Streaming <=> Script(k)[i] \in Streamed
         /\ k = "energy" <=> Script(k)[i] = "EnergyScan"
         /\ k = "energy" => Len(Script(k)) = Count
         /\ k = "steered" <=> Script(k)[i] \in {"AskRouter", "PermitSteered"}
         /\ Script(k)[i] = "AskRouter" => i = 1 /\ Len(Script(k)) = 2
         /\ Script(k)[i] = "Place" =>
              i < Len(Script(k)) /\ ((k = "permit" /\ i = 1) \/ (k = "withKey" /\ i = 2))
         /\ Script(k)[i] = "PermitSteered" => i = 2 /\ Len(Script(k)) = 2
         /\ k = "steered" /\ i = 1 => Script(k)[i] = "AskRouter"
         /\ k = "steered" /\ i = 2 => Script(k)[i] = "PermitSteered"
<1> DEFINE what == Script(k)[i]
           last == Len(Script(k))
<1>1. last \in 1 .. 4 + Count /\ i \in Nat /\ (k = "energy" => last = Count)
  BY Scripts, CountAssumption
<1>2. /\ k \in Streaming <=> what \in Streamed
      /\ k = "energy" <=> what = "EnergyScan"
  BY Scripts DEF Streaming, Streamed
<1>3. /\ k = "steered" <=> what \in {"AskRouter", "PermitSteered"}
      /\ what = "AskRouter" => i = 1 /\ last = 2
      /\ what = "PermitSteered" => i = 2 /\ last = 2
  BY Scripts
<1>4. k = "steered" => (i = 1 => what = "AskRouter") /\ (i = 2 => what = "PermitSteered")
  BY Scripts
<1>5. what = "Place" => i < last /\ ((k = "permit" /\ i = 1) \/ (k = "withKey" /\ i = 2))
  BY Scripts
<1> QED
  BY <1>1, <1>2, <1>3, <1>4, <1>5

\* ... and what it ends with.
LEMMA ScriptEnds ==
  ASSUME NEW k \in Kinds, NEW i \in 1 .. Len(Script(k))
  PROVE  /\ Script(k)[i] = "SetProvisionalKey" => k = "withKey" /\ i = 1
         /\ k = "withKey" /\ i = 1 => Script(k)[i] = "SetProvisionalKey"
         /\ Script(k)[i] \in Permits => k \in Permitting
         /\ Script(k)[i] \in Permits => i = Len(Script(k))
         /\ k \in Permitting /\ i = Len(Script(k)) => Script(k)[i] \in Permits
         /\ k = "withKey" /\ Script(k)[i] = "PermitDirect" => i = 4
<1> DEFINE what == Script(k)[i]
           last == Len(Script(k))
<1>1. /\ what = "SetProvisionalKey" => k = "withKey" /\ i = 1
      /\ k = "withKey" /\ i = 1 => what = "SetProvisionalKey"
      /\ what \in Permits => k \in Permitting
      /\ k = "withKey" /\ what = "PermitDirect" => i = 4
  BY Scripts DEF Permits, Permitting
<1>2. k \in Permitting => last = IF k = "withKey" THEN 4 ELSE IF k = "permit" THEN 3
                                ELSE IF k = "steered" THEN 2 ELSE 1
  BY Scripts DEF Permitting
<1>3. k \in Permitting => (i = last <=> what \in Permits)
  <2>1. CASE k = "own"
    BY <1>2, <2>1, Scripts DEF Permits, Permitting
  <2>2. CASE k = "permit"
    BY <1>2, <2>2, Scripts DEF Permits, Permitting
  <2>3. CASE k = "steered"
    BY <1>2, <2>3, Scripts DEF Permits, Permitting
  <2>4. CASE k = "withKey"
    BY <1>2, <2>4, Scripts DEF Permits, Permitting
  <2> QED
    BY <2>1, <2>2, <2>3, <2>4 DEF Permitting
<1> QED
  BY <1>1, <1>3

-----------------------------------------------------------------------------
(* The steps *)

\* What a task that waits is at
LEMMA Waiting ==
  ASSUME TypeOK, Stations, NEW t \in Tasks, pc[t] = "waiting"
  PROVE  /\ kind[t] \in Kinds /\ at[t] \in 1 .. Len(Script(kind[t]))
         /\ kind[t] \in Streaming <=> Asks(t) \in Streamed
         /\ kind[t] = "energy" <=> Asks(t) = "EnergyScan"
         /\ Asks(t) = "AskRouter" \/ Asks(t) = "PermitSteered" => kind[t] = "steered"
         /\ Asks(t) = "PermitSteered" => Last(t) /\ Asks(t) \notin Streamed
         /\ Asks(t) \in Elsewhere => ~Last(t) /\ Asks(t) \notin Streamed
         /\ Asks(t) = "Place" => kind[t] = "permit" \/ (kind[t] = "withKey" /\ at[t] = 2)
         /\ kind[t] \in Streaming => Asks(t) \notin Elsewhere /\ rid[t] # 0
<1>1. kind[t] \in Kinds /\ at[t] \in 1 .. Len(Script(kind[t]))
  BY DEF TypeOK, Stations
<1>2. /\ kind[t] \in Streaming <=> Asks(t) \in Streamed
      /\ kind[t] = "energy" <=> Asks(t) = "EnergyScan"
      /\ kind[t] = "steered" <=> Asks(t) \in {"AskRouter", "PermitSteered"}
  BY <1>1, ScriptKinds DEF Asks
<1>3. /\ Asks(t) = "PermitSteered" => Last(t)
      /\ Asks(t) \in Elsewhere => ~Last(t)
      /\ Asks(t) = "Place" => kind[t] = "permit" \/ (kind[t] = "withKey" /\ at[t] = 2)
  BY <1>1, ScriptKinds DEF Asks, Last, Elsewhere
<1>4. Asks(t) \in Streamed => Asks(t) \notin Elsewhere
  BY DEF Streamed, Elsewhere
<1>5. rid[t] = 0 <=> Asks(t) \in Elsewhere
  BY DEF Stations
<1> QED
  BY <1>1, <1>2, <1>3, <1>4, <1>5 DEF Streamed, Elsewhere

\* A task that is at a request has one, and awaits it.
LEMMA Registered ==
  ASSUME TypeOK, Stations, Entries, NEW i \in Ids, pending[i] # None
  PROVE  LET t == pending[i] IN
         t \in Tasks /\ pc[t] = "waiting" /\ rid[t] = i /\ i >= 2 /\ i < nextId /\ resp[t] # "lost"
BY DEF TypeOK, Entries

\* The coroutine of t ends, with "ok" only after its last response.
Ends(t) ==
  /\ pc[t] = "waiting"
  /\ \E out \in {"ok", "failed", "incomplete", "abandoned"} :
       End(t, out) /\ (out = "ok" => resp[t] = "ok" /\ Last(t) /\ Result(t) = "ok")

\* It sends the first request of a method or the next.
Sends(t, k, i) ==
  /\ Send(t, k, i)
  /\ kind' = [kind EXCEPT ![t] = k]
  /\ phase \in {"resetting", "ready"}
  /\ \/ pc[t] = "idle" /\ phase = "ready" /\ i = 1
     \/ /\ pc[t] = "waiting" /\ k = kind[t] /\ i = at[t] + 1
        /\ resp[t] = "ok" \/ Asks(t) \in Elsewhere

LEMMA Steps ==
  ASSUME Inv, NEW t \in Tasks, Step(t)
  PROVE  Ends(t) \/ \E k \in Kinds : \E i \in 1 .. Len(Script(k)) : Sends(t, k, i)
<1> USE DEF Inv
<1>1. ASSUME NEW k \in Kinds, Begin(t, k) PROVE \E i \in 1 .. Len(Script(k)) : Sends(t, k, i)
  <2>1. 1 \in 1 .. Len(Script(k))
    <3>1. Count \in Nat \ {0}
      BY CountAssumption
    <3>2. Script(k) \in {<<"PacketCapture">>, <<"PacketCaptureChannel">>, <<"NetworkScan">>,
                         <<"PermitDirect">>, <<"Place", "Broadcast", "PermitDirect">>,
                         <<"AskRouter", "PermitSteered">>,
                         <<"SetProvisionalKey", "Place", "Broadcast", "PermitDirect">>,
                         [i \in 1 .. Count |-> "EnergyScan"]}
      BY DEF Script, Kinds
    <3>3. [i \in 1 .. Count |-> "EnergyScan"] \in Seq({"EnergyScan"})
          /\ Len([i \in 1 .. Count |-> "EnergyScan"]) = Count
      BY <3>1
    <3> QED
      BY <3>1, <3>2, <3>3
  <2> QED
    BY <1>1, <2>1 DEF Begin, Sends
<1>2. CASE GoesOn(t)
  <2>1. pc[t] = "waiting" /\ kind[t] \in Kinds /\ at[t] \in 1 .. Len(Script(kind[t])) /\ ~Last(t)
    BY <1>2, Waiting DEF GoesOn, Resumes
  <2>2. CASE phase \in {"resetting", "ready"}
    <3>1. at[t] + 1 \in 1 .. Len(Script(kind[t]))
      BY <2>1, Scripts DEF Last
    <3>2. Sends(t, kind[t], at[t] + 1)
      BY <1>2, <2>1, <2>2 DEF GoesOn, Resumes, Sends, TypeOK
    <3> QED
      BY <2>1, <3>1, <3>2
  <2>3. CASE phase \notin {"resetting", "ready"}
    BY <1>2, <2>1, <2>3 DEF GoesOn, Ends
  <2> QED
    BY <2>2, <2>3
<1>3. CASE Returns(t)
  <2>1. pc[t] = "waiting" /\ resp[t] = "ok" /\ Last(t)
    BY <1>3, Waiting DEF Returns, Resumes
  <2> QED
    BY <1>3, <2>1 DEF Returns, Ends, Result
<1>4. CASE Raises(t) \/ Abandon(t)
  BY <1>4 DEF Raises, Abandon, Ends
<1> QED
  BY <1>1, <1>2, <1>3, <1>4 DEF Step

LEMMA OpenKeeps ==
  ASSUME Inv, Open
  PROVE  Inv'
<1> USE DEF Inv
<1>1. /\ phase = "down" /\ session < MaxSessions /\ \A t \in Tasks : ~Ready(t)
      /\ session' = session + 1 /\ phase' = "open"
      /\ nextId' = 1 /\ pending' = [i \in Ids |-> None]
      /\ UNCHANGED <<pipe, kind, pc, at, rid, resp, readings, outcome, streams, window, keyed,
                     got, reported, permitted, early>>
  BY DEF Open, task, device, history
<1>2. pipe = <<>> /\ Len(pipe) = 0 /\ \A i \in Ids : pending[i] = None
  BY <1>1 DEF Frames, Sessions
<1>3. session' \in 1 .. MaxSessions
  BY <1>1, CountAssumption DEF TypeOK
<1>4. TypeOK'
  BY <1>1, <1>3, IdRange DEF TypeOK
<1>5. Stations'
  BY <1>1 DEF Stations, Asks
<1>6. \A t \in Tasks : resp[t] = "none" => rid[t] = 0
  BY <1>2, NoneAssumption DEF Entries, TypeOK
<1>7. Entries'
  BY <1>1, <1>6 DEF Entries
<1>8. \A t \in Tasks : pc[t] = "waiting" =>
        Asks(t) = "AskRouter" \/ (Asks(t) \in Streamed /\ resp[t] = "lost")
  BY <1>1, <1>6 DEF Ready, TypeOK, Stations, Elsewhere
<1>9. \A t \in Tasks : resp[t] = "lost" => pc[t] = "waiting"
  BY DEF Stations
<1>10. Sessions'
  <2>1. \A t \in Tasks : resp[t] = "lost" => Asks(t) \in Streamed
    BY <1>8, <1>9, Waiting DEF Stations, Elsewhere
  <2> QED
    BY <1>1, <1>3, <1>8, <2>1 DEF Sessions, Asks
<1>11. Frames' /\ Granted'
  BY <1>1, <1>2 DEF Frames, Granted, Asks
<1>12. Streams' /\ Endings' /\ Labels'
  BY <1>1, <1>2 DEF Streams, Endings, Over, Labels, Id
<1>13. Keys'
  <2>1. ASSUME NEW t \in Tasks, kind[t] = "withKey", pc[t] = "waiting" PROVE FALSE
    <3>1. Asks(t) \notin Streamed /\ Asks(t) # "AskRouter"
      BY <2>1, Waiting DEF Streaming
    <3> QED
      BY <1>8, <2>1, <3>1
  <2> QED
    BY <1>1, <2>1 DEF Keys
<1>14. Scans'
  BY <1>1 DEF Scans, Underway, Once, Brings, Scanned
<1>15. OwnEventsOnly' /\ KeyBeforeWindow' /\ PermitTruthful' /\ ScanComplete'
  BY <1>1 DEF OwnEventsOnly, KeyBeforeWindow, PermitTruthful, ScanComplete
<1> QED
  BY <1>4, <1>5, <1>7, <1>10, <1>11, <1>12, <1>13, <1>14, <1>15

\* A frame that brings no reading of t from c changes nothing for them.
LEMMA SaidOther ==
  ASSUME TypeOK, NEW f \in Frame, Say(f), NEW t, NEW c, ~Brings(f, t, c)
  PROVE  /\ Underway(t, c)' <=> Underway(t, c)
         /\ Once(t, c) => Once(t, c)'
<1>1. \A i \in 1 .. Len(pipe') : Brings(pipe'[i], t, c) => i \in 1 .. Len(pipe) /\ Brings(pipe[i], t, c)
  BY Said
<1>2. \A i \in 1 .. Len(pipe) : Brings(pipe[i], t, c) => i \in 1 .. Len(pipe') /\ Brings(pipe'[i], t, c)
  BY Said
<1> QED
  BY <1>1, <1>2 DEF Underway, Once, Brings, Type

\* The readings are kept by a step that takes none.
LEMMA ScansKept ==
  ASSUME TypeOK, Scans, UNCHANGED <<kind, pc, at, resp, readings, outcome, reported>>, streams' \subseteq streams,
         \A t \in Tasks, c \in Channels :
           /\ Underway(t, c)' <=> Underway(t, c)
           /\ Once(t, c) => Once(t, c)'
  PROVE  Scans'
BY DEF Scans, Scanned

LEMMA ResetKeeps ==
  ASSUME Inv, Reset
  PROVE  Inv'
<1> USE DEF Inv
<1>1. /\ phase = "open" /\ phase' = "resetting" /\ nextId' = 2
      /\ UNCHANGED <<session, pending, kind, pc, at, rid, resp, readings, outcome, window, keyed,
                     got, reported, permitted, early>>
  BY DEF Reset, task, history
<1>2. PICK says \in {"ok", "error"} :
        /\ Say(Reply(RESPONSE, 1, None, says))
        /\ IF says = "ok" THEN streams' = {} ELSE streams' = streams
  BY DEF Reset
<1> DEFINE f == Reply(RESPONSE, 1, None, says)
           n == Len(pipe)
<1>3. f \in Frame /\ Id(f) = 1 /\ Type(f) = RESPONSE /\ f.owner = None /\ f.says = says
  BY ReplyRead, IdRange
<1> HIDE DEF f
<1>4. Say(f)
  BY <1>2 DEF f
<1>5. /\ pipe' \in Seq(Frame) /\ Len(pipe') <= MaxPipe /\ n \in Nat /\ Len(pipe') = n + 1
      /\ \A i \in 1 .. n : pipe'[i] = pipe[i] /\ pipe[i] \in Frame /\ i \in 1 .. Len(pipe')
      /\ pipe'[n + 1] = f
      /\ \A i \in 1 .. Len(pipe') : i \in 1 .. n \/ i = n + 1
  BY <1>3, <1>4, Said
<1>6. \A i \in Ids : pending[i] = None
  BY <1>1 DEF Sessions
<1>7. streams' \subseteq streams
  BY <1>2
<1>8. TypeOK'
  BY <1>1, <1>5, <1>7, IdRange DEF TypeOK
<1>9. Stations'
  BY <1>1 DEF Stations, Asks
<1>10. Entries'
  BY <1>1, <1>6, NoneAssumption DEF Entries
<1>11. Sessions'
  BY <1>1 DEF Sessions, Asks
<1>12. Frames'
  <2>1. ASSUME NEW i \in 1 .. Len(pipe')
        PROVE  /\ Id(pipe'[i]) \in Ids /\ Type(pipe'[i]) \in {RESPONSE, EVENT}
               /\ Type(pipe'[i]) = RESPONSE => pipe'[i].says \in {"ok", "error"}
               /\ pipe'[i].owner # None => kind[pipe'[i].owner] # None
    BY <1>3, <1>5, IdRange DEF Frames
  <2>2. ASSUME NEW i \in 1 .. Len(pipe'), Id(pipe'[i]) = 1, pipe'[i].says = "ok"
        PROVE  streams' = {} /\ i + 1 .. Len(pipe') = {}
    <3>1. i = n + 1
      BY <1>1, <1>5, <2>2 DEF Frames
    <3> QED
      BY <1>2, <1>3, <1>5, <2>2, <3>1
  <2> QED
    BY <1>1, <2>1, <2>2 DEF Frames, Id, Type
<1>13. Streams'
  BY <1>1, <1>7 DEF Streams
<1>14. Endings'
  <2>1. ASSUME NEW t \in Tasks, Over(t) PROVE Over(t)'
    BY <1>3, <1>5, <1>7, <2>1, NoneAssumption DEF Over
  <2>2. ASSUME NEW i \in 1 .. Len(pipe'), pipe'[i].owner # None, kind[pipe'[i].owner] \in Streaming,
               Type(pipe'[i]) = RESPONSE
        PROVE  /\ \A s \in streams' : s.owner # pipe'[i].owner
               /\ \A j \in i + 1 .. Len(pipe') : pipe'[j].owner # pipe'[i].owner
    <3>1. i \in 1 .. n /\ pipe'[i] = pipe[i]
      BY <1>3, <1>5, <2>2
    <3>2. \A j \in i + 1 .. Len(pipe') : j = n + 1 \/ (j \in i + 1 .. n /\ pipe'[j] = pipe[j])
      BY <1>5, <3>1
    <3> QED
      BY <1>3, <1>5, <1>7, <2>2, <3>1, <3>2 DEF Endings
  <2> QED
    BY <1>1, <2>1, <2>2 DEF Endings, Type
<1>15. Granted'
  <2>1. \A i \in 1 .. Len(pipe') : Id(pipe'[i]) \in Ids
    BY <1>12 DEF Frames, Id
  <2> QED
    BY <1>1, <1>6, <2>1, NoneAssumption DEF Granted, Asks, Id
<1>16. Keys'
  BY <1>1 DEF Keys
<1>17. Scans'
  <2>1. \A t, c : ~Brings(f, t, c)
    BY <1>3 DEF Brings, RESPONSE, EVENT
  <2> QED
    BY <1>1, <1>3, <1>4, <1>7, <2>1, SaidOther, ScansKept
<1>18. OwnEventsOnly' /\ KeyBeforeWindow' /\ PermitTruthful' /\ ScanComplete'
  BY <1>1 DEF OwnEventsOnly, KeyBeforeWindow, PermitTruthful, ScanComplete
<1>19. Labels'
  BY <1>1, <1>3, <1>5, <1>7, NoneAssumption DEF Labels, Id
<1> QED
  BY <1>19, <1>8, <1>9, <1>10, <1>11, <1>12, <1>13, <1>14, <1>15, <1>16, <1>17, <1>18

LEMMA GoneKeeps ==
  ASSUME Inv, Lose \/ Reboot
  PROVE  Inv'
<1> USE DEF Inv
<1>1. /\ phase' = "down" /\ pipe' = <<>> /\ Len(pipe') = 0
      /\ pending' = [i \in Ids |-> None]
      /\ resp' = [t \in Tasks |->
                IF rid[t] # 0 /\ pending[rid[t]] = t /\ resp[t] = "none" THEN "lost" ELSE resp[t]]
      /\ UNCHANGED <<session, nextId, kind, pc, at, rid, readings, outcome,
                     got, reported, permitted, early>>
      /\ streams' \subseteq streams
      /\ UNCHANGED <<window, keyed>> \/ (window' = Closed /\ keyed' = {})
  <2>1. CASE Lose
    BY <2>1 DEF Lose, Fail, device, history
  <2>2. CASE Reboot
    BY <2>2 DEF Reboot, Fail, history
  <2> QED
    BY <2>1, <2>2
<1>2. TypeOK'
  <2>1. pipe' \in Seq(Frame) /\ Len(pipe') <= MaxPipe
    BY <1>1, CountAssumption
  <2>2. resp' \in [Tasks -> {"none", "ok", "error", "lost"}]
    BY <1>1 DEF TypeOK
  <2>3. window' \in [by : Tasks \cup {None}, direct : BOOLEAN] /\ keyed' \subseteq Tasks
    <3>1. Closed \in [by : Tasks \cup {None}, direct : BOOLEAN]
      BY DEF Closed
    <3> QED
      BY <1>1, <3>1 DEF TypeOK
  <2> QED
    BY <1>1, <2>1, <2>2, <2>3 DEF TypeOK
<1>3. \A t \in Tasks : /\ resp'[t] \in {"ok", "error"} => resp'[t] = resp[t]
                       /\ resp'[t] = "none" => rid[t] = 0
  BY <1>1 DEF Entries
<1>4. Stations'
  BY <1>1, <1>3 DEF Stations, Asks
<1>5. Entries'
  BY <1>1, <1>3 DEF Entries
<1>6. Sessions'
  BY <1>1 DEF Sessions
<1>7. Frames'
  BY <1>1 DEF Frames
<1>8. Streams'
  BY <1>1 DEF Streams
<1>9. Endings'
  BY <1>1, <1>3 DEF Endings, Over
<1>a. Labels'
  <2>1. ASSUME NEW t \in Tasks, NEW s \in streams,
               kind[t] \in Streaming, pc[t] = "waiting", resp'[t] # "lost", s.owner = t
        PROVE  FALSE
    <3>1. resp[t] \notin {"ok", "error"}
      BY <2>1 DEF Endings, Over
    <3>2. rid[t] # 0
      BY <2>1, Waiting DEF Stations
    <3> QED
      BY <1>2, <1>3, <2>1, <3>1, <3>2 DEF TypeOK
  <2> QED
    BY <1>1, <2>1 DEF Labels
<1>10. Granted'
  BY <1>1, <1>3 DEF Granted, Asks
<1>11. Keys'
  BY <1>1 DEF Keys, Closed
<1>12. Scans'
  <2>1. \A t \in Tasks, c \in Channels : ~Underway(t, c)' /\ Once(t, c)'
    BY <1>1 DEF Underway, Once
  <2>2. ASSUME NEW t \in Tasks, NEW c \in Channels, kind[t] = "energy",
               (pc[t] = "waiting" /\ resp'[t] # "lost") \/ outcome[t] = "ok"
        PROVE  reported[t][c] = readings[t][c]
    <3>1. resp[t] \in {"ok", "error"} \/ outcome[t] = "ok"
      <4>1. CASE pc[t] = "waiting" /\ resp'[t] # "lost"
        <5>1. rid[t] # 0
          BY <2>2, <4>1, Waiting DEF Streaming
        <5> QED
          BY <1>2, <1>3, <4>1, <5>1 DEF TypeOK
      <4> QED
        BY <2>2, <4>1
    <3>2. ~Underway(t, c)
      BY <2>2, <3>1 DEF Endings, Over, Underway, Brings, Streaming
    <3>3. (pc[t] = "waiting" /\ resp[t] # "lost") \/ outcome[t] = "ok"
      BY <3>1 DEF Stations
    <3>4. reported[t] \in Readings /\ readings[t] \in Readings
      BY DEF TypeOK
    <3> QED
      BY <2>2, <3>2, <3>3, <3>4 DEF Scans, Readings
  <2>3. reported \in [Tasks -> Readings] /\ readings \in [Tasks -> Readings]
    BY DEF TypeOK
  <2> QED
    BY <1>1, <2>1, <2>2, <2>3 DEF Scans, Scanned, Readings
<1>13. OwnEventsOnly' /\ KeyBeforeWindow' /\ PermitTruthful' /\ ScanComplete'
  BY <1>1 DEF OwnEventsOnly, KeyBeforeWindow, PermitTruthful, ScanComplete, Closed
<1> QED
  BY <1>2, <1>4, <1>5, <1>6, <1>7, <1>8, <1>9, <1>10, <1>11, <1>12, <1>13, <1>a

LEMMA WindowClosesKeeps ==
  ASSUME Inv, WindowCloses
  PROVE  Inv'
<1> USE DEF Inv
<1>1. /\ window' = Closed
      /\ UNCHANGED <<session, phase, nextId, pending, pipe, kind, pc, at, rid, resp, readings, outcome,
                     streams, keyed, got, reported, permitted, early>>
  BY DEF WindowCloses, host, task, history
<1>2. TypeOK'
  BY <1>1 DEF TypeOK, Closed
<1>3. Stations' /\ Entries' /\ Sessions' /\ Frames'
  BY <1>1 DEF Stations, Entries, Sessions, Frames, Current, Asks, Id, Type
<1>4. Streams' /\ Endings' /\ Labels' /\ Granted' /\ Keys'
  BY <1>1 DEF Streams, Current, Endings, Over, Labels, Granted, Keys, Asks, Id, Type, Closed
<1>5. Scans'
  BY <1>1 DEF Scans, Scanned, Underway, Once, Brings, Type
<1>6. OwnEventsOnly' /\ KeyBeforeWindow' /\ PermitTruthful' /\ ScanComplete'
  BY <1>1 DEF OwnEventsOnly, KeyBeforeWindow, PermitTruthful, ScanComplete, Closed
<1> QED
  BY <1>2, <1>3, <1>4, <1>5, <1>6

\* What a stream says while a session is there: it belongs to the task, and that
\* task's method awaits a stream.
LEMMA StreamFrame ==
  ASSUME Inv, NEW s \in streams, NEW type \in {RESPONSE, EVENT}, NEW says \in {"ok", "error"} \cup Channels
  PROVE  LET f == Reply(type, s.id, s.owner, says) IN
         /\ f \in Frame /\ Id(f) = s.id /\ Type(f) = type /\ f.owner = s.owner /\ f.says = says
         /\ s.id \in Ids /\ s.id # 1 /\ s.owner \in Tasks /\ s.owner # None
         /\ kind[s.owner] \in Streaming /\ kind[s.owner] # None
<1>1. s \in Stream /\ s.id # 1 /\ kind[s.owner] \in Streaming
  BY DEF Inv, TypeOK, Streams
<1>2. s.id \in Ids /\ s.owner \in Tasks
  BY <1>1 DEF Stream
<1>3. kind[s.owner] # None
  BY <1>1, NoneAssumption DEF Streaming, Kinds
<1> QED
  BY <1>1, <1>2, <1>3, ReplyRead, NoneAssumption

\* Such a frame fits the others.
LEMMA StreamFrameFits ==
  ASSUME Inv, NEW s \in streams, NEW type \in {RESPONSE, EVENT}, NEW says \in {"ok", "error"} \cup Channels,
         Say(Reply(type, s.id, s.owner, says)), type = RESPONSE => says \in {"ok", "error"},
         UNCHANGED <<phase, kind, nextId, pending>>, phase # "down"
  PROVE  Frames'
<1> USE DEF Inv
<1> DEFINE f == Reply(type, s.id, s.owner, says)
           n == Len(pipe)
<1>1. /\ f \in Frame /\ Id(f) = s.id /\ Type(f) = type /\ f.owner = s.owner /\ f.says = says
      /\ s.id \in Ids /\ s.id # 1 /\ s.owner \in Tasks /\ kind[s.owner] # None
  BY StreamFrame
<1>2. Say(f)
  OBVIOUS
<1> HIDE DEF f
<1>3. /\ n \in Nat /\ Len(pipe') = n + 1
      /\ \A i \in 1 .. n : pipe'[i] = pipe[i]
      /\ pipe'[n + 1] = f
      /\ \A i \in 1 .. Len(pipe') : i \in 1 .. n \/ i = n + 1
  BY <1>1, <1>2, Said
<1>4. ASSUME NEW i \in 1 .. Len(pipe')
      PROVE  /\ Id(pipe'[i]) \in Ids /\ Type(pipe'[i]) \in {RESPONSE, EVENT}
             /\ Type(pipe'[i]) = RESPONSE => pipe'[i].says \in {"ok", "error"}
             /\ pipe'[i].owner # None => kind[pipe'[i].owner] # None
  BY <1>1, <1>3 DEF Frames
<1>5. ASSUME phase = "open", NEW i \in 1 .. Len(pipe') PROVE Id(pipe'[i]) # 1
  BY <1>1, <1>3, <1>5 DEF Frames
<1>6. ASSUME phase = "resetting", NEW i \in 1 .. Len(pipe'),
             Id(pipe'[i]) = 1, Type(pipe'[i]) = RESPONSE, pipe'[i].says = "ok"
      PROVE  FALSE
  BY <1>1, <1>3, <1>6 DEF Frames
<1>7. ASSUME phase = "ready", NEW i \in 1 .. Len(pipe') PROVE Current(Id(pipe'[i]), pipe'[i].owner)
  BY <1>1, <1>3, <1>7 DEF Frames, Streams
<1> QED
  BY <1>4, <1>5, <1>6, <1>7 DEF Frames, Id, Type, Current

LEMMA EndStreamKeeps ==
  ASSUME Inv, NEW s \in streams, NEW says \in {"ok", "error"}, EndStream(s, says)
  PROVE  Inv'
<1> USE DEF Inv
<1> DEFINE f == Reply(RESPONSE, s.id, s.owner, says)
           n == Len(pipe)
<1>1. /\ streams' = streams \ {s}
      /\ UNCHANGED <<session, phase, nextId, pending, kind, pc, at, rid, resp, readings, outcome,
                     window, keyed, got, reported, permitted, early>>
  BY DEF EndStream, host, task, history
<1>2. /\ f \in Frame /\ Id(f) = s.id /\ Type(f) = RESPONSE /\ f.owner = s.owner /\ f.says = says
      /\ s.id \in Ids /\ s.id # 1 /\ s.owner \in Tasks /\ kind[s.owner] \in Streaming
  BY StreamFrame
<1>3. IF phase = "down" THEN UNCHANGED pipe ELSE Say(f)
  BY DEF EndStream
<1>4. CASE phase = "down"
  <2>1. TypeOK' /\ Stations' /\ Entries' /\ Sessions' /\ Frames'
    BY <1>1, <1>3, <1>4 DEF TypeOK, Stations, Entries, Sessions, Frames, Asks, Id, Type
  <2>2. Streams' /\ Endings' /\ Labels' /\ Granted' /\ Keys'
    BY <1>1, <1>3, <1>4 DEF Streams, Endings, Over, Labels, Granted, Keys, Asks, Id, Type
  <2>3. Scans'
    BY <1>1, <1>3, <1>4, ScansKept DEF Underway, Once, Brings, Type
  <2>4. OwnEventsOnly' /\ KeyBeforeWindow' /\ PermitTruthful' /\ ScanComplete'
    BY <1>1 DEF OwnEventsOnly, KeyBeforeWindow, PermitTruthful, ScanComplete
  <2> QED
    BY <2>1, <2>2, <2>3, <2>4
<1>5. CASE phase # "down"
  <2>1. Say(f)
    BY <1>3, <1>5
  <2>2. Frames'
    BY <1>1, <1>5, <2>1, StreamFrameFits
  <2> HIDE DEF f
  <2>3. /\ pipe' \in Seq(Frame) /\ Len(pipe') <= MaxPipe /\ n \in Nat /\ Len(pipe') = n + 1
        /\ \A i \in 1 .. n : pipe'[i] = pipe[i] /\ pipe[i] \in Frame /\ i \in 1 .. Len(pipe')
        /\ pipe'[n + 1] = f
        /\ \A i \in 1 .. Len(pipe') : i \in 1 .. n \/ i = n + 1
    BY <1>2, <2>1, Said
  <2>4. TypeOK' /\ Stations' /\ Entries' /\ Sessions' /\ Streams' /\ Keys'
    BY <1>1, <2>3 DEF TypeOK, Stations, Entries, Sessions, Streams, Keys, Asks, Current
  <2>5. Endings'
    <3>1. ASSUME NEW t \in Tasks, Over(t) PROVE Over(t)'
      BY <1>1, <1>2, <2>3, <3>1 DEF Over
    <3>2. ASSUME NEW i \in 1 .. Len(pipe'), pipe'[i].owner # None, kind[pipe'[i].owner] \in Streaming,
                 Type(pipe'[i]) = RESPONSE
          PROVE  /\ \A z \in streams' : z.owner # pipe'[i].owner
                 /\ \A j \in i + 1 .. Len(pipe') : pipe'[j].owner # pipe'[i].owner
      <4>1. CASE i = n + 1
        <5>1. \A z \in streams' : z.owner # s.owner
          BY <1>1 DEF Streams
        <5>2. i + 1 .. Len(pipe') = {}
          BY <2>3, <4>1
        <5> QED
          BY <1>2, <2>3, <4>1, <5>1, <5>2
      <4>2. CASE i \in 1 .. n
        <5>1. \A j \in i + 1 .. Len(pipe') : j = n + 1 \/ (j \in i + 1 .. n /\ pipe'[j] = pipe[j])
          BY <2>3, <4>2
        <5>2. /\ \A z \in streams : z.owner # pipe[i].owner
              /\ \A j \in i + 1 .. n : pipe[j].owner # pipe[i].owner
          BY <2>3, <3>2, <4>2 DEF Endings
        <5> QED
          BY <1>1, <1>2, <2>3, <4>2, <5>1, <5>2
      <4> QED
        BY <2>3, <4>1, <4>2
    <3> QED
      BY <1>1, <3>1, <3>2 DEF Endings, Type
  <2>6. Granted'
    <3>1. ASSUME pending[s.id] # None
          PROVE  LET t == pending[s.id] IN
                 /\ Asks(t) \in Permits => t \in permitted \cup early
                 /\ Asks(t) # "SetProvisionalKey"
      <4> DEFINE t == pending[s.id]
      <4>1. t \in Tasks /\ pc[t] = "waiting" /\ rid[t] = s.id /\ rid[t] # 0
        BY <1>2, <3>1, Registered, IdRange
      <4>2. CASE phase = "ready"
        <5>1. t = s.owner
          BY <3>1, <4>2 DEF Streams, Current
        <5>2. Asks(t) \in Streamed
          BY <1>2, <4>1, <5>1, Waiting
        <5> QED
          BY <5>2 DEF Streamed, Permits
      <4>3. CASE phase = "resetting"
        <5>1. Asks(t) # "AskRouter"
          BY <4>1 DEF Stations, Elsewhere
        <5>2. Asks(t) \in Streamed \/ (Asks(t) = "PermitSteered" /\ t \in early)
          BY <4>1, <4>3, <5>1 DEF Sessions
        <5> QED
          BY <5>2 DEF Streamed, Permits
      <4>4. CASE phase = "open"
        BY <1>2, <3>1, <4>4 DEF Sessions
      <4> QED
        BY <1>5, <4>2, <4>3, <4>4 DEF TypeOK
    <3>2. \A i \in 1 .. Len(pipe') : pipe'[i] = f \/ (i \in 1 .. n /\ pipe'[i] = pipe[i])
      BY <2>3
    <3> QED
      BY <1>1, <1>2, <3>1, <3>2, NoneAssumption DEF Granted, Asks, Id, Type
  <2>7. Scans'
    <3>1. \A t, c : ~Brings(f, t, c)
      BY <1>2 DEF Brings, RESPONSE, EVENT
    <3> QED
      BY <1>1, <1>2, <2>1, <3>1, SaidOther, ScansKept
  <2>8. OwnEventsOnly' /\ KeyBeforeWindow' /\ PermitTruthful' /\ ScanComplete'
    BY <1>1 DEF OwnEventsOnly, KeyBeforeWindow, PermitTruthful, ScanComplete
  <2>9. Labels'
    BY <1>1, <1>2, <2>3 DEF Labels, Id
  <2> QED
    BY <2>2, <2>4, <2>5, <2>6, <2>7, <2>8, <2>9
<1> QED
  BY <1>4, <1>5

\* An energy scan reports channels, and nothing else does.
LEMMA Items ==
  ASSUME Inv, NEW s \in streams, NEW e \in s.left
  PROVE  kind[s.owner] = "energy" <=> e \in Channels
<1>1. s.left \subseteq IF kind[s.owner] = "energy" THEN Channels ELSE 1 .. MaxEvents
  BY DEF Inv, Streams
<1> QED
  BY <1>1, ChannelsAssumption

\* What nothing more comes of is not under way.
LEMMA OverNotUnderway ==
  ASSUME NEW t, NEW c, Over(t)
  PROVE  ~Underway(t, c)
BY DEF Over, Underway, Brings

LEMMA EmitEventKeeps ==
  ASSUME Inv, NEW s \in streams, NEW e \in s.left, EmitEvent(s, e)
  PROVE  Inv'
<1> USE DEF Inv
<1> DEFINE says == IF e \in Channels THEN e ELSE "ok"
           f == Reply(EVENT, s.id, s.owner, says)
           n == Len(pipe)
           o == s.owner
<1>1. /\ streams' = (streams \ {s}) \cup {Emptied(s, e)}
      /\ UNCHANGED <<session, phase, nextId, pending, kind, pc, at, rid, resp, readings, outcome,
                     window, keyed, got, permitted, early>>
  BY DEF EmitEvent, host, task
<1>2. /\ f \in Frame /\ Id(f) = s.id /\ Type(f) = EVENT /\ f.owner = o /\ f.says = says
      /\ s.id \in Ids /\ s.id # 1 /\ o \in Tasks /\ o # None /\ kind[o] \in Streaming
  <2>1. says \in {"ok", "error"} \cup Channels
    OBVIOUS
  <2> HIDE DEF says
  <2> QED
    BY <2>1, StreamFrame
<1>3. IF phase = "down" THEN UNCHANGED pipe ELSE Say(f)
  BY DEF EmitEvent
<1>4. reported' = IF e \in Channels THEN [reported EXCEPT ![o][e] = @ + 1] ELSE reported
  BY DEF EmitEvent
<1>5. kind[o] = "energy" <=> e \in Channels
  BY Items
<1>6. s \in Stream /\ streams \subseteq Stream
  BY DEF TypeOK
<1>7. /\ Emptied(s, e) \in Stream
      /\ Emptied(s, e).id = s.id /\ Emptied(s, e).owner = o /\ Emptied(s, e).session = s.session
      /\ Emptied(s, e).left = s.left \ {e}
  BY <1>6 DEF Stream, Emptied
<1>8. ASSUME NEW z \in streams'
      PROVE  \E y \in streams : /\ z.id = y.id /\ z.owner = y.owner /\ z.session = y.session
                                /\ z.left \subseteq y.left
                                /\ y = s => z.left = s.left \ {e}
                                /\ y # s => z = y
  BY <1>1, <1>7
<1>9. \A z, y \in streams' : z.owner = y.owner => z = y
  BY <1>1, <1>7 DEF Streams
<1>10. streams' \subseteq Stream
  BY <1>1, <1>6, <1>7
<1>11. Streams'
  <2>1. ASSUME NEW z \in streams'
        PROVE  /\ z.id # 1 /\ kind[z.owner] \in Streaming
               /\ z.left \subseteq IF kind[z.owner] = "energy" THEN Channels ELSE 1 .. MaxEvents
               /\ phase = "ready" => z.session = session /\ Current(z.id, z.owner)
    BY <1>8 DEF Streams
  <2> QED
    BY <1>1, <1>9, <2>1 DEF Streams, Current
<1>12. ~Over(o) /\ ~(resp[o] \in {"ok", "error"} \/ outcome[o] = "ok")
  BY <1>2 DEF Over, Endings
<1>13. reported \in [Tasks -> Readings] /\ readings \in [Tasks -> Readings] /\ Count \in Nat
  BY CountAssumption DEF TypeOK
<1>14. e \in Channels => reported[o][e] < Scanned(o) /\ ~Underway(o, e) /\ Scanned(o) \in 0 .. Count
  <2>1. ASSUME e \in Channels PROVE Scanned(o) \in 0 .. Count
    <3>1. CASE pc[o] = "waiting"
      <4>1. at[o] \in 1 .. Len(Script(kind[o])) /\ kind[o] \in Kinds
        BY <1>2, <3>1, Waiting
      <4>2. Len(Script(kind[o])) = Count
        BY <1>5, <2>1, <4>1, Scripts
      <4> QED
        BY <1>13, <3>1, <4>1, <4>2 DEF Scanned
    <3>2. CASE pc[o] # "waiting"
      BY <1>13, <3>2 DEF Scanned
    <3> QED
      BY <3>1, <3>2
  <2> QED
    BY <1>2, <1>5, <2>1 DEF Scans
<1>15. /\ reported' \in [Tasks -> Readings]
       /\ \A t \in Tasks, c \in Channels :
            reported'[t][c] = IF t = o /\ c = e THEN reported[t][c] + 1 ELSE reported[t][c]
  <2>1. CASE e \in Channels
    <3>1. reported[o] \in [Channels -> 0 .. Count] /\ reported[o][e] + 1 \in 0 .. Count
      BY <1>2, <1>13, <1>14, <2>1 DEF Readings
    <3>2. [reported[o] EXCEPT ![e] = reported[o][e] + 1] \in Readings
      BY <2>1, <3>1 DEF Readings
    <3>3. reported' = [reported EXCEPT ![o] = [reported[o] EXCEPT ![e] = reported[o][e] + 1]]
      BY <1>2, <1>4, <1>13, <2>1
    <3> QED
      BY <1>2, <1>13, <2>1, <3>1, <3>2, <3>3
  <2>2. CASE e \notin Channels
    BY <1>4, <1>13, <2>2
  <2> QED
    BY <2>1, <2>2
<1>16. Stations' /\ Entries' /\ Sessions' /\ Keys'
  BY <1>1 DEF Stations, Entries, Sessions, Keys, Asks
<1>17. /\ pipe' \in Seq(Frame) /\ Len(pipe') <= MaxPipe
       /\ \A i \in 1 .. Len(pipe') : pipe'[i] = f \/ (i \in 1 .. n /\ pipe'[i] = pipe[i])
       /\ \A i \in 1 .. n : \A j \in i + 1 .. Len(pipe') :
            pipe'[j] = f \/ (j \in i + 1 .. n /\ pipe'[j] = pipe[j])
       /\ \A i \in 1 .. n : pipe'[i] = pipe[i]
  <2>1. CASE phase = "down"
    BY <1>3, <2>1 DEF TypeOK
  <2>2. CASE phase # "down"
    <3> HIDE DEF f
    <3>1. /\ pipe' \in Seq(Frame) /\ Len(pipe') <= MaxPipe /\ n \in Nat /\ Len(pipe') = n + 1
          /\ \A i \in 1 .. n : pipe'[i] = pipe[i]
          /\ pipe'[n + 1] = f
          /\ \A i \in 1 .. Len(pipe') : i \in 1 .. n \/ i = n + 1
      BY <1>2, <1>3, <2>2, Said
    <3> QED
      BY <3>1
  <2> QED
    BY <2>1, <2>2
<1>18. TypeOK'
  BY <1>1, <1>10, <1>15, <1>17 DEF TypeOK
<1>19. Frames'
  <2>1. CASE phase = "down"
    BY <1>1, <1>3, <2>1 DEF Frames, Id, Type
  <2>2. CASE phase # "down"
    <3>1. says \in {"ok", "error"} \cup Channels /\ Say(f)
      BY <1>3, <2>2
    <3>2. EVENT # RESPONSE
      BY DEF RESPONSE, EVENT
    <3> HIDE DEF says
    <3> QED
      BY <1>1, <2>2, <3>1, <3>2, StreamFrameFits
  <2> QED
    BY <2>1, <2>2
<1> HIDE DEF f
<1>20. Endings'
  <2>1. ASSUME NEW t \in Tasks, t # o, Over(t) PROVE Over(t)'
    <3>1. \A z \in streams' : z.owner # t
      BY <1>8, <2>1 DEF Over
    <3>2. \A i \in 1 .. Len(pipe') : pipe'[i].owner # t
      BY <1>2, <1>17, <2>1 DEF Over
    <3> QED
      BY <3>1, <3>2 DEF Over
  <2>2. ASSUME NEW i \in 1 .. Len(pipe'), pipe'[i].owner # None, kind[pipe'[i].owner] \in Streaming,
               Type(pipe'[i]) = RESPONSE
        PROVE  /\ \A z \in streams' : z.owner # pipe'[i].owner
               /\ \A j \in i + 1 .. Len(pipe') : pipe'[j].owner # pipe'[i].owner
    <3>1. i \in 1 .. n /\ pipe'[i] = pipe[i]
      BY <1>2, <1>17, <2>2 DEF RESPONSE, EVENT
    <3>2. /\ \A z \in streams : z.owner # pipe[i].owner
          /\ \A j \in i + 1 .. n : pipe[j].owner # pipe[i].owner
      BY <2>2, <3>1 DEF Endings
    <3>3. \A z \in streams' : z.owner # pipe'[i].owner
      BY <1>8, <3>1, <3>2
    <3> QED
      BY <1>2, <1>17, <3>1, <3>2, <3>3
  <2> QED
    BY <1>1, <1>12, <2>1, <2>2 DEF Endings, Type
<1>21. Granted'
  BY <1>1, <1>2, <1>17 DEF Granted, Asks, Id, Type, RESPONSE, EVENT
<1>22. ASSUME NEW t \in Tasks, kind[t] = "energy", NEW c \in Channels, ~(t = o /\ c = e)
       PROVE  (Underway(t, c)' <=> Underway(t, c)) /\ (Once(t, c) => Once(t, c)')
  <2>1. ~Brings(f, t, c)
    BY <1>2, <1>5, <1>22 DEF Brings
  <2>2. CASE phase = "down"
    BY <1>3, <2>2 DEF Underway, Once, Brings, Type
  <2>3. CASE phase # "down"
    BY <1>2, <1>3, <2>1, <2>3, SaidOther
  <2> QED
    BY <2>2, <2>3
<1>23. ASSUME e \in Channels
       PROVE  Once(o, e)' /\ (phase # "down" => Underway(o, e)')
  <2>1. \A i \in 1 .. n : ~Brings(pipe[i], o, e)
    BY <1>14, <1>23 DEF Underway
  <2>2. CASE phase = "down"
    BY <1>3, <2>1, <2>2 DEF Once, Brings, Type
  <2>3. CASE phase # "down"
    <3>1. /\ n \in Nat /\ Len(pipe') = n + 1
          /\ \A i \in 1 .. n : pipe'[i] = pipe[i]
          /\ pipe'[n + 1] = f
          /\ \A i \in 1 .. Len(pipe') : i \in 1 .. n \/ i = n + 1
      BY <1>2, <1>3, <2>3, Said
    <3>2. \A i \in 1 .. Len(pipe') : Brings(pipe'[i], o, e) => i = n + 1
      BY <2>1, <3>1
    <3>3. Brings(f, o, e)
      BY <1>2, <1>23 DEF Brings
    <3> QED
      BY <3>1, <3>2, <3>3 DEF Once, Underway, Brings, Type
  <2> QED
    BY <2>2, <2>3
<1>24. Scans'
  <2>1. ASSUME NEW t \in Tasks, kind[t] # "energy"
        PROVE  readings[t] = NoReadings /\ reported'[t] = NoReadings
    <3>1. t = o => e \notin Channels
      BY <1>5, <2>1
    <3>2. reported'[t] = reported[t]
      BY <1>4, <1>13, <2>1, <3>1
    <3> QED
      BY <2>1, <3>2 DEF Scans
  <2>2. ASSUME NEW t \in Tasks, NEW c \in Channels, kind[t] = "energy"
        PROVE  /\ readings[t][c] <= reported'[t][c] /\ reported'[t][c] <= Scanned(t)
               /\ (pc[t] = "waiting" /\ resp[t] # "lost") \/ outcome[t] = "ok" =>
                    reported'[t][c] = readings[t][c] + IF Underway(t, c)' THEN 1 ELSE 0
               /\ \A z \in streams' : z.owner = t /\ c \in z.left =>
                    reported'[t][c] < Scanned(t) /\ ~Underway(t, c)'
               /\ Once(t, c)'
    <3>0. reported[t][c] \in Nat /\ readings[t][c] \in Nat
      BY <1>13 DEF Readings
    <3>1. CASE ~(t = o /\ c = e)
      <4>1. reported'[t][c] = reported[t][c]
        BY <1>15, <3>1
      <4>2. \A z \in streams' : z.owner = t /\ c \in z.left =>
              \E y \in streams : y.owner = t /\ c \in y.left
        BY <1>8
      <4> QED
        BY <1>22, <2>2, <3>1, <4>1, <4>2 DEF Scans
    <3>2. CASE t = o /\ c = e
      <4>1. reported'[t][c] = reported[t][c] + 1
        BY <1>15, <3>2
      <4>2. reported[t][c] < Scanned(t) /\ ~Underway(t, c) /\ Scanned(t) \in Nat
        BY <1>14, <3>2
      <4>3. \A z \in streams' : z.owner = t => c \notin z.left
        BY <1>7, <1>9, <1>1, <3>2
      <4>4. readings[t][c] <= reported[t][c]
        BY <2>2 DEF Scans
      <4>5. Once(t, c)'
        BY <1>23, <3>2
      <4>6. ASSUME (pc[t] = "waiting" /\ resp[t] # "lost") \/ outcome[t] = "ok"
            PROVE  reported'[t][c] = readings[t][c] + IF Underway(t, c)' THEN 1 ELSE 0
        <5>1. pc[t] = "waiting" /\ resp[t] = "none"
          BY <1>12, <3>2, <4>6 DEF TypeOK
        <5>2. rid[t] # 0
          BY <2>2, <5>1, Waiting DEF Streaming
        <5>3. phase # "down"
          BY <5>1, <5>2, NoneAssumption DEF Entries, Sessions, TypeOK
        <5>4. Underway(t, c)'
          BY <1>23, <3>2, <5>3
        <5>5. reported[t][c] = readings[t][c] + 0
          BY <2>2, <4>2, <4>6 DEF Scans
        <5> QED
          BY <3>0, <4>1, <5>4, <5>5
      <4> QED
        BY <3>0, <4>1, <4>2, <4>3, <4>4, <4>5, <4>6
    <3> QED
      BY <3>1, <3>2
  <2> QED
    BY <1>1, <2>1, <2>2 DEF Scans, Scanned
<1>25. ScanComplete'
  <2>1. ASSUME NEW t \in Tasks, outcome[t] = "ok" PROVE reported'[t] = reported[t]
    <3>1. \A c \in Channels : reported'[t][c] = reported[t][c]
      BY <1>12, <1>15, <2>1
    <3> QED
      BY <1>13, <1>15, <3>1 DEF Readings
  <2> QED
    BY <1>1, <2>1 DEF ScanComplete
<1>26. OwnEventsOnly' /\ KeyBeforeWindow' /\ PermitTruthful'
  BY <1>1 DEF OwnEventsOnly, KeyBeforeWindow, PermitTruthful
<1>27. Labels'
  BY <1>1, <1>2, <1>8, <1>17 DEF Labels, Id
<1> QED
  BY <1>27, <1>11, <1>16, <1>18, <1>19, <1>20, <1>21, <1>24, <1>25, <1>26

\* The frame that is handled may take a reading with it.
LEMMA PoppedReadings ==
  ASSUME TypeOK, pipe # <<>>, pipe' = Tail(pipe), NEW t, NEW c
  PROVE  /\ Once(t, c) => Once(t, c)'
         /\ ~Brings(pipe[1], t, c) => (Underway(t, c)' <=> Underway(t, c))
         /\ Brings(pipe[1], t, c) => Underway(t, c)
         /\ Brings(pipe[1], t, c) /\ Once(t, c) => ~Underway(t, c)'
<1> DEFINE n == Len(pipe)
<1>1. /\ n \in Nat \ {0} /\ 1 \in 1 .. n /\ Len(pipe') = n - 1
      /\ \A i \in 1 .. Len(pipe') : pipe'[i] = pipe[i + 1] /\ i + 1 \in 1 .. n /\ i + 1 \in 2 .. n
  BY Popped
<1>2. \A i \in 1 .. n : i # 1 => i - 1 \in 1 .. Len(pipe') /\ pipe'[i - 1] = pipe[i]
  BY <1>1
<1>3. Once(t, c) => Once(t, c)'
  <2> SUFFICES ASSUME Once(t, c), NEW i \in 1 .. Len(pipe'), NEW j \in 1 .. Len(pipe'),
                      Brings(pipe'[i], t, c), Brings(pipe'[j], t, c)
               PROVE  i = j
    BY DEF Once, Brings, Type
  <2>1. i + 1 = j + 1
    BY <1>1 DEF Once
  <2> QED
    BY <1>1, <2>1
<1>4. Underway(t, c)' <=> \E i \in 2 .. n : Brings(pipe[i], t, c)
  <2>1. ASSUME NEW i \in 2 .. n, Brings(pipe[i], t, c) PROVE Underway(t, c)'
    BY <1>1, <1>2, <2>1 DEF Underway, Brings, Type
  <2>2. ASSUME Underway(t, c)' PROVE \E i \in 2 .. n : Brings(pipe[i], t, c)
    BY <1>1, <2>2 DEF Underway, Brings, Type
  <2> QED
    BY <2>1, <2>2
<1>5. Underway(t, c) <=> Brings(pipe[1], t, c) \/ \E i \in 2 .. n : Brings(pipe[i], t, c)
  BY <1>1 DEF Underway
<1>6. Brings(pipe[1], t, c) /\ Once(t, c) => ~\E i \in 2 .. n : Brings(pipe[i], t, c)
  BY <1>1 DEF Once
<1> QED
  BY <1>3, <1>4, <1>5, <1>6

\* What a frame does to a task, it does to one that sent a request in this session:
\* to the task it belongs to, or to a permit that was early.
LEMMA Addressee ==
  ASSUME Inv, pipe # <<>>, pending[Id(pipe[1])] # None
  PROVE  LET t == pending[Id(pipe[1])] IN
         /\ t \in Tasks /\ pc[t] = "waiting" /\ rid[t] = Id(pipe[1]) /\ rid[t] # 0 /\ resp[t] # "lost"
         /\ \/ phase = "ready" /\ t = pipe[1].owner
            \/ phase = "resetting" /\ Asks(t) = "PermitSteered" /\ t \in early /\ kind[t] = "steered"
<1> USE DEF Inv
<1> DEFINE t == pending[Id(pipe[1])]
<1>1. 1 \in 1 .. Len(pipe)
  BY DEF TypeOK
<1>2. Id(pipe[1]) \in Ids
  BY <1>1 DEF Frames
<1>3. t \in Tasks /\ pc[t] = "waiting" /\ rid[t] = Id(pipe[1]) /\ rid[t] # 0 /\ resp[t] # "lost"
  BY <1>2, Registered, IdRange
<1>4. phase \in {"ready", "resetting"}
  BY <1>2 DEF Sessions, TypeOK
<1>5. CASE phase = "ready"
  BY <1>1, <1>3, <1>5 DEF Frames, Current
<1>6. CASE phase = "resetting"
  <2>1. Asks(t) # "AskRouter"
    BY <1>3 DEF Stations, Elsewhere
  <2>2. Asks(t) = "PermitSteered" /\ t \in early
    BY <1>3, <1>6, <2>1 DEF Sessions
  <2> QED
    BY <1>3, <1>6, <2>2, Waiting
<1> QED
  BY <1>3, <1>4, <1>5, <1>6

\* What handling a frame leaves of those behind it
LEMMA Behind ==
  ASSUME Inv, pipe # <<>>, pipe' = Tail(pipe), UNCHANGED <<nextId, pending, kind, streams>>,
         phase' = phase \/ /\ phase = "resetting" /\ phase' = "ready" /\ Id(pipe[1]) = 1
                           /\ Type(pipe[1]) = RESPONSE /\ pipe[1].says = "ok"
  PROVE  /\ Frames'
         /\ \A t \in Tasks : Over(t) => Over(t)'
         /\ \A i \in 1 .. Len(pipe') :
              LET t == pipe'[i].owner IN
              t # None /\ kind[t] \in Streaming /\ Type(pipe'[i]) = RESPONSE =>
                /\ \A s \in streams : s.owner # t
                /\ \A j \in i + 1 .. Len(pipe') : pipe'[j].owner # t
<1> USE DEF Inv
<1> DEFINE n == Len(pipe)
<1>1. /\ n \in Nat \ {0} /\ 1 \in 1 .. n /\ Len(pipe') = n - 1
      /\ \A i \in 1 .. Len(pipe') : pipe'[i] = pipe[i + 1] /\ i + 1 \in 1 .. n /\ i + 1 \in 2 .. n
      /\ \A i \in 1 .. Len(pipe') : \A j \in i + 1 .. Len(pipe') :
           j + 1 \in (i + 1) + 1 .. n /\ pipe'[j] = pipe[j + 1]
  BY Popped
<1>2. \A t \in Tasks : Over(t) => Over(t)'
  BY <1>1 DEF Over
<1>3. ASSUME NEW i \in 1 .. Len(pipe'), pipe'[i].owner # None, kind[pipe'[i].owner] \in Streaming,
             Type(pipe'[i]) = RESPONSE
      PROVE  /\ \A s \in streams : s.owner # pipe'[i].owner
             /\ \A j \in i + 1 .. Len(pipe') : pipe'[j].owner # pipe'[i].owner
  BY <1>1, <1>3 DEF Endings
<1>4. \A i \in 1 .. Len(pipe') :
        /\ Id(pipe'[i]) \in Ids /\ Type(pipe'[i]) \in {RESPONSE, EVENT}
        /\ Type(pipe'[i]) = RESPONSE => pipe'[i].says \in {"ok", "error"}
        /\ pipe'[i].owner # None => kind[pipe'[i].owner] # None
  BY <1>1 DEF Frames
<1>5. phase # "down" /\ phase' # "down"
  BY DEF Frames
<1>6. ASSUME phase' = phase, phase = "open" PROVE Frames'
  BY <1>1, <1>4, <1>6 DEF Frames, Id, Type
<1>7. ASSUME phase' = phase, phase = "resetting" PROVE Frames'
  <2>1. ASSUME NEW i \in 1 .. Len(pipe'),
               Id(pipe'[i]) = 1, Type(pipe'[i]) = RESPONSE, pipe'[i].says = "ok"
        PROVE  streams = {} /\ \A j \in i + 1 .. Len(pipe') : Current(Id(pipe'[j]), pipe'[j].owner)
    BY <1>1, <1>7, <2>1 DEF Frames
  <2> QED
    BY <1>4, <1>7, <2>1 DEF Frames, Id, Type, Current
<1>8. ASSUME phase' = phase, phase = "ready" PROVE Frames'
  BY <1>1, <1>4, <1>8 DEF Frames, Id, Type, Current
<1>9. ASSUME phase = "resetting", phase' = "ready", Id(pipe[1]) = 1,
             Type(pipe[1]) = RESPONSE, pipe[1].says = "ok"
      PROVE  Frames'
  <2>1. \A j \in 2 .. n : Current(Id(pipe[j]), pipe[j].owner)
    BY <1>1, <1>9 DEF Frames
  <2> QED
    BY <1>1, <1>4, <1>9, <2>1 DEF Frames, Id, Type, Current
<1>10. Frames'
  BY <1>5, <1>6, <1>7, <1>8, <1>9 DEF TypeOK
<1> QED
  BY <1>2, <1>3, <1>10

LEMMA HandleEventKeeps ==
  ASSUME Inv, pipe # <<>>, pipe' = Tail(pipe), Type(pipe[1]) = EVENT, HandleEvent(pipe[1]),
         UNCHANGED <<session, nextId, pending, kind, pc, at, rid, outcome,
                     streams, window, keyed, reported, permitted, early>>
  PROVE  Inv'
<1> USE DEF Inv
<1> DEFINE f == pipe[1]
           t == StreamOf(Id(f))
<1>1. UNCHANGED <<phase, resp, session, nextId, pending, kind, pc, at, rid, outcome,
                  streams, window, keyed, reported, permitted, early>>
  BY DEF HandleEvent
<1>2. f \in Frame /\ 1 \in 1 .. Len(pipe) /\ Id(f) \in Ids
  BY Popped DEF Frames
<1>3. t # None => /\ t \in Tasks /\ t = f.owner /\ pending[Id(f)] = t
                  /\ pc[t] = "waiting" /\ resp[t] # "lost" /\ kind[t] \in Streaming
  <2> SUFFICES ASSUME t # None PROVE t \in Tasks /\ t = f.owner /\ pending[Id(f)] = t
                  /\ pc[t] = "waiting" /\ resp[t] # "lost" /\ kind[t] \in Streaming
    OBVIOUS
  <2>1. pending[Id(f)] = t /\ pending[Id(f)] # None /\ Asks(t) \in Streamed
    BY DEF StreamOf
  <2>2. t \in Tasks /\ t = f.owner /\ pc[t] = "waiting" /\ resp[t] # "lost"
    BY <2>1, Addressee DEF Streamed
  <2> QED
    BY <2>1, <2>2, Waiting
<1>4. readings \in [Tasks -> Readings] /\ reported \in [Tasks -> Readings] /\ Count \in Nat
  BY CountAssumption DEF TypeOK
<1>5. /\ got' = IF t = None THEN got ELSE [got EXCEPT ![t] = @ \cup {f.owner}]
      /\ readings' = IF t # None /\ Asks(t) = "EnergyScan" /\ f.says \in Channels
                     THEN Read(t, f.says) ELSE readings
  BY DEF HandleEvent, Id
<1> HIDE DEF t, f
<1>6. OwnEventsOnly' /\ got' \in [Tasks -> SUBSET Tasks]
  <2>1. got \in [Tasks -> SUBSET Tasks]
    BY DEF TypeOK
  <2>2. CASE t = None
    BY <1>5, <2>1, <2>2 DEF OwnEventsOnly
  <2>3. CASE t # None
    BY <1>3, <1>5, <2>1, <2>3 DEF OwnEventsOnly
  <2> QED
    BY <2>2, <2>3
<1>7. ASSUME NEW x \in Tasks, NEW c \in Channels, kind[x] = "energy",
             Brings(f, x, c), (pc[x] = "waiting" /\ resp[x] # "lost") \/ outcome[x] = "ok"
      PROVE  x = t
  <2>1. ~Over(x)
    BY <1>2, <1>7 DEF Over, Brings, f
  <2>2. pc[x] = "waiting" /\ resp[x] = "none"
    BY <1>7, <2>1 DEF Endings, TypeOK, Streaming
  <2>3. Asks(x) \in Streamed /\ rid[x] # 0
    BY <1>7, <2>2, Waiting DEF Streaming, Stations
  <2>4. Id(f) = rid[x]
    BY <1>2, <1>7, <2>2 DEF Labels, Brings, Streaming, f
  <2>5. pending[Id(f)] = x
    BY <2>2, <2>3, <2>4 DEF Entries
  <2> QED
    BY <2>3, <2>5, NoneAssumption DEF StreamOf, t
<1>8. ASSUME NEW x \in Tasks, NEW c \in Channels, x = t, c = f.says, kind[x] = "energy"
      PROVE  /\ Brings(f, x, c) /\ Underway(x, c) /\ ~Underway(x, c)' /\ Once(x, c)'
             /\ readings[x][c] + 1 = reported[x][c] /\ reported[x][c] \in 1 .. Count
             /\ \A s \in streams : s.owner = x => c \notin s.left
             /\ reported[x][c] <= Scanned(x)
  <2>0. x # None
    BY NoneAssumption
  <2>1. Brings(f, x, c)
    BY <1>3, <1>8, <2>0 DEF Brings, f
  <2>2. Once(x, c)
    BY <1>8 DEF Scans
  <2>3. Underway(x, c) /\ ~Underway(x, c)' /\ Once(x, c)'
    BY <2>1, <2>2, PoppedReadings DEF f
  <2>4. reported[x][c] = readings[x][c] + 1
    BY <1>3, <1>8, <2>0, <2>3 DEF Scans
  <2>5. readings[x][c] \in 0 .. Count /\ reported[x][c] \in 0 .. Count
    BY <1>4 DEF Readings
  <2>6. reported[x][c] <= Scanned(x) /\ \A s \in streams : s.owner = x => c \notin s.left
    BY <1>8, <2>3 DEF Scans
  <2> QED
    BY <1>4, <2>1, <2>3, <2>4, <2>5, <2>6
<1>9. /\ readings' \in [Tasks -> Readings]
      /\ \A x \in Tasks, c \in Channels :
           readings'[x][c] = IF x = t /\ kind[x] = "energy" /\ c = f.says
                             THEN readings[x][c] + 1 ELSE readings[x][c]
  <2>1. CASE t # None /\ kind[t] = "energy" /\ f.says \in Channels
    <3>1. t \in Tasks /\ Asks(t) = "EnergyScan" /\ readings[t] \in [Channels -> 0 .. Count]
      BY <1>3, <1>4, <2>1, Waiting DEF Readings
    <3>2. readings[t][f.says] + 1 \in 0 .. Count
      BY <1>8, <2>1, <3>1
    <3>3. readings' = [readings EXCEPT ![t] = [readings[t] EXCEPT ![f.says] = readings[t][f.says] + 1]]
      BY <1>4, <1>5, <2>1, <3>1 DEF Read
    <3>4. [readings[t] EXCEPT ![f.says] = readings[t][f.says] + 1] \in Readings
      BY <2>1, <3>1, <3>2 DEF Readings
    <3> QED
      BY <1>4, <2>1, <3>1, <3>3, <3>4
  <2>2. CASE ~(t # None /\ kind[t] = "energy" /\ f.says \in Channels)
    <3>1. readings' = readings
      BY <1>3, <1>5, <2>2, Waiting
    <3> QED
      BY <1>4, <2>2, <3>1, NoneAssumption
  <2> QED
    BY <2>1, <2>2
<1>10. TypeOK'
  BY <1>1, <1>6, <1>9, Popped DEF TypeOK
<1>11. Stations' /\ Entries' /\ Sessions' /\ Streams' /\ Keys'
  BY <1>1 DEF Stations, Entries, Sessions, Streams, Keys, Asks, Current
<1>12. /\ Frames'
       /\ \A x \in Tasks : Over(x) => Over(x)'
       /\ \A i \in 1 .. Len(pipe') :
            LET o == pipe'[i].owner IN
            o # None /\ kind[o] \in Streaming /\ Type(pipe'[i]) = RESPONSE =>
              /\ \A s \in streams : s.owner # o
              /\ \A j \in i + 1 .. Len(pipe') : pipe'[j].owner # o
  BY <1>1, Behind
<1>13. Endings'
  BY <1>1, <1>12 DEF Endings, Type
<1>14. \A i \in 1 .. Len(pipe') : pipe'[i] = pipe[i + 1] /\ i + 1 \in 1 .. Len(pipe)
  BY Popped
<1>15. Labels' /\ Granted'
  BY <1>1, <1>14 DEF Labels, Granted, Asks, Id, Type
<1>16. Scans'
  <2>1. ASSUME NEW x \in Tasks, kind[x] # "energy" PROVE readings'[x] = NoReadings
    <3>1. readings'[x] = readings[x]
      BY <1>3, <1>4, <1>5, <1>9, <2>1, Waiting DEF Read
    <3> QED
      BY <2>1, <3>1 DEF Scans
  <2>2. ASSUME NEW x \in Tasks, NEW c \in Channels, kind[x] = "energy"
        PROVE  /\ readings'[x][c] <= reported[x][c]
               /\ (pc[x] = "waiting" /\ resp[x] # "lost") \/ outcome[x] = "ok" =>
                    reported[x][c] = readings'[x][c] + IF Underway(x, c)' THEN 1 ELSE 0
               /\ \A s \in streams : s.owner = x /\ c \in s.left =>
                    reported[x][c] < Scanned(x) /\ ~Underway(x, c)'
               /\ Once(x, c)'
    <3>0. reported[x][c] \in Nat /\ readings[x][c] \in Nat
      BY <1>4 DEF Readings
    <3>1. CASE x = t /\ c = f.says
      <4>1. readings'[x][c] = readings[x][c] + 1
        BY <1>9, <2>2, <3>1
      <4>2. /\ ~Underway(x, c)' /\ Once(x, c)' /\ readings[x][c] + 1 = reported[x][c]
            /\ \A s \in streams : s.owner = x => c \notin s.left
        BY <1>8, <2>2, <3>1
      <4> QED
        BY <3>0, <4>1, <4>2
    <3>2. CASE ~(x = t /\ c = f.says)
      <4>1. readings'[x][c] = readings[x][c]
        BY <1>9, <3>2
      <4>2. CASE Brings(f, x, c)
        <5>1. ~((pc[x] = "waiting" /\ resp[x] # "lost") \/ outcome[x] = "ok")
          BY <1>7, <2>2, <3>2, <4>2 DEF Brings
        <5>2. Underway(x, c) /\ Once(x, c)'
          BY <2>2, <4>2, PoppedReadings DEF Scans, f
        <5> QED
          BY <2>2, <4>1, <5>1, <5>2 DEF Scans
      <4>3. CASE ~Brings(f, x, c)
        <5>1. (Underway(x, c)' <=> Underway(x, c)) /\ Once(x, c)'
          BY <2>2, <4>3, PoppedReadings DEF Scans, f
        <5> QED
          BY <2>2, <4>1, <5>1 DEF Scans
      <4> QED
        BY <4>2, <4>3
    <3> QED
      BY <3>1, <3>2
  <2> QED
    BY <1>1, <2>1, <2>2 DEF Scans, Scanned
<1>17. ScanComplete'
  <2>1. ASSUME NEW x \in Tasks, outcome[x] = "ok" PROVE readings'[x] = readings[x]
    <3>1. x # t
      BY <1>3, <2>1, NoneAssumption DEF Stations
    <3>2. \A c \in Channels : readings'[x][c] = readings[x][c]
      BY <1>9, <3>1
    <3> QED
      BY <1>4, <1>9, <3>2 DEF Readings
  <2> QED
    BY <1>1, <2>1 DEF ScanComplete
<1>18. KeyBeforeWindow' /\ PermitTruthful'
  BY <1>1 DEF KeyBeforeWindow, PermitTruthful
<1> QED
  BY <1>6, <1>10, <1>11, <1>12, <1>13, <1>15, <1>16, <1>17, <1>18

LEMMA HandleResponseKeeps ==
  ASSUME Inv, pipe # <<>>, pipe' = Tail(pipe), Type(pipe[1]) = RESPONSE, HandleResponse(pipe[1]),
         UNCHANGED <<session, nextId, pending, kind, pc, at, rid, outcome,
                     streams, window, keyed, reported, permitted, early>>
  PROVE  Inv'
<1> USE DEF Inv
<1> DEFINE f == pipe[1]
           t == pending[Id(f)]
           lands == t # None /\ resp[t] = "none"
<1>1. UNCHANGED <<session, nextId, pending, kind, pc, at, rid, outcome, readings, got,
                  streams, window, keyed, reported, permitted, early>>
  BY DEF HandleResponse
<1>2. /\ f \in Frame /\ 1 \in 1 .. Len(pipe) /\ Id(f) \in Ids /\ f.says \in {"ok", "error"}
      /\ Type(f) = RESPONSE
  BY Popped DEF Frames
<1>3. /\ phase' = IF phase = "resetting" /\ Id(f) = 1 /\ f.says = "ok" THEN "ready" ELSE phase
      /\ resp' = IF lands THEN [resp EXCEPT ![t] = f.says] ELSE resp
  BY DEF HandleResponse, Id
<1>4. t # None =>
        /\ t \in Tasks /\ pc[t] = "waiting" /\ rid[t] # 0 /\ resp[t] # "lost" /\ Id(f) # 1
        /\ \/ phase = "ready" /\ t = f.owner
           \/ phase = "resetting" /\ Asks(t) = "PermitSteered" /\ t \in early /\ kind[t] = "steered"
  BY <1>2, Addressee, Registered
<1>5. /\ \A x \in Tasks : resp'[x] = IF lands /\ x = t THEN f.says ELSE resp[x]
      /\ resp' \in [Tasks -> {"none", "ok", "error", "lost"}]
  <2>1. resp \in [Tasks -> {"none", "ok", "error", "lost"}]
    BY DEF TypeOK
  <2> QED
    BY <1>2, <1>3, <1>4, <2>1
<1>6. \A x \in Tasks : /\ resp'[x] = "lost" <=> resp[x] = "lost"
                       /\ resp'[x] = "none" => resp[x] = "none"
  BY <1>2, <1>5
<1>7. phase' # phase => /\ phase = "resetting" /\ phase' = "ready" /\ Id(f) = 1 /\ f.says = "ok"
                        /\ streams = {} /\ resp' = resp
  BY <1>2, <1>3, <1>4 DEF Frames
<1>8. /\ Frames'
      /\ \A x \in Tasks : Over(x) => Over(x)'
      /\ \A i \in 1 .. Len(pipe') :
           LET o == pipe'[i].owner IN
           o # None /\ kind[o] \in Streaming /\ Type(pipe'[i]) = RESPONSE =>
             /\ \A s \in streams : s.owner # o
             /\ \A j \in i + 1 .. Len(pipe') : pipe'[j].owner # o
  BY <1>1, <1>2, <1>7, Behind
<1>9. \A i \in 1 .. Len(pipe') : pipe'[i] = pipe[i + 1] /\ i + 1 \in 1 .. Len(pipe) /\ i + 1 \in 2 .. Len(pipe)
  BY Popped
<1>10. lands => /\ Id(f) \in Ids /\ t \in Tasks
                /\ f.says = "ok" /\ Asks(t) \in Permits => t \in permitted \cup early
                /\ f.says = "ok" /\ Asks(t) = "SetProvisionalKey" => t \in keyed
  BY <1>2, <1>4 DEF Granted
<1>11. ASSUME NEW x \in Tasks, x = t, lands, kind[x] \in Streaming PROVE Over(x)'
  <2>1. x = f.owner /\ x # None
    BY <1>4, <1>11 DEF Streaming
  <2>2. /\ \A s \in streams : s.owner # x
        /\ \A j \in 2 .. Len(pipe) : pipe[j].owner # x
    BY <1>2, <1>11, <2>1 DEF Endings
  <2> QED
    BY <1>1, <1>9, <2>2 DEF Over
<1>12. \A x, c : ~Brings(f, x, c)
  BY <1>2 DEF Brings, RESPONSE, EVENT
<1>13. TypeOK'
  BY <1>1, <1>3, <1>5, Popped DEF TypeOK
<1> HIDE DEF t, f, lands
<1>14. Stations'
  BY <1>1, <1>4, <1>5 DEF Stations, Asks, lands
<1>15. Entries'
  BY <1>1, <1>6 DEF Entries, TypeOK
<1>16. Sessions'
  BY <1>1, <1>6, <1>7 DEF Sessions, Asks
<1>17. Streams'
  BY <1>1, <1>7 DEF Streams, Current
<1>18. Endings'
  <2>1. ASSUME NEW x \in Tasks, kind[x] \in Streaming, resp'[x] \in {"ok", "error"} \/ outcome[x] = "ok"
        PROVE  Over(x)'
    <3>1. CASE lands /\ x = t
      BY <1>11, <2>1, <3>1
    <3>2. CASE ~(lands /\ x = t)
      BY <1>5, <1>8, <2>1, <3>2 DEF Endings
    <3> QED
      BY <3>1, <3>2
  <2> QED
    BY <1>1, <1>8, <2>1 DEF Endings, Type
<1>19. Labels'
  BY <1>1, <1>6, <1>9 DEF Labels, Id
<1>20. Granted'
  <2>1. ASSUME NEW x \in Tasks, resp'[x] = "ok", Asks(x) \in Permits PROVE x \in permitted \cup early
    BY <1>5, <1>10, <2>1 DEF Granted
  <2>2. ASSUME NEW i \in 1 .. Len(pipe'), Type(pipe'[i]) = RESPONSE, pipe'[i].says = "ok",
               NEW x \in Tasks, x = pending[Id(pipe'[i])]
        PROVE  /\ Asks(x) \in Permits => x \in permitted \cup early
               /\ Asks(x) = "SetProvisionalKey" => x \in keyed
    BY <1>9, <2>2 DEF Granted
  <2> QED
    BY <1>1, <2>1, <2>2 DEF Granted, Asks, Id, Type
<1>21. Keys'
  <2>1. ASSUME NEW x \in Tasks, kind[x] = "withKey", pc[x] = "waiting", phase # "down",
               at[x] # 1 \/ resp'[x] = "ok"
        PROVE  x \in keyed
    <3>1. CASE at[x] # 1 \/ resp[x] = "ok"
      BY <2>1, <3>1 DEF Keys
    <3>2. CASE at[x] = 1 /\ resp[x] # "ok"
      <4>1. lands /\ x = t /\ f.says = "ok"
        BY <1>5, <2>1, <3>2
      <4>2. Asks(x) = "SetProvisionalKey"
        BY <2>1, <3>2, Waiting, ScriptEnds DEF Asks
      <4> QED
        BY <1>10, <4>1, <4>2
    <3> QED
      BY <3>1, <3>2
  <2> QED
    BY <1>1, <1>7, <2>1 DEF Keys
<1>22. Scans'
  <2>1. \A x \in Tasks, c \in Channels :
          (Underway(x, c)' <=> Underway(x, c)) /\ (Once(x, c) => Once(x, c)')
    BY <1>12, PoppedReadings DEF f
  <2> QED
    BY <1>1, <1>6, <2>1 DEF Scans, Scanned
<1>23. OwnEventsOnly' /\ KeyBeforeWindow' /\ PermitTruthful' /\ ScanComplete'
  BY <1>1 DEF OwnEventsOnly, KeyBeforeWindow, PermitTruthful, ScanComplete
<1> QED
  BY <1>8, <1>13, <1>14, <1>15, <1>16, <1>17, <1>18, <1>19, <1>20, <1>21, <1>22, <1>23

LEMMA HandleKeeps ==
  ASSUME Inv, Handle
  PROVE  Inv'
<1>1. pipe # <<>> /\ pipe' = Tail(pipe) /\ Head(pipe) = pipe[1]
  BY Popped DEF Handle, Inv
<1>2. UNCHANGED <<session, nextId, pending, kind, pc, at, rid, outcome,
                  streams, window, keyed, reported, permitted, early>>
  BY DEF Handle, device
<1>3. \/ Type(pipe[1]) = EVENT /\ HandleEvent(pipe[1])
      \/ Type(pipe[1]) = RESPONSE /\ HandleResponse(pipe[1])
  BY <1>1 DEF Handle, Type
<1> QED
  BY <1>1, <1>2, <1>3, HandleEventKeeps, HandleResponseKeeps

\* A task that ends has had its last response if it ends well.
LEMMA EndsKeeps ==
  ASSUME Inv, NEW t \in Tasks, Ends(t)
  PROVE  Inv'
<1> USE DEF Inv
<1>1. PICK out \in {"ok", "failed", "incomplete", "abandoned"} :
        /\ End(t, out)
        /\ out = "ok" => resp[t] = "ok" /\ Last(t) /\ Result(t) = "ok"
  BY DEF Ends
<1>2. /\ pc[t] = "waiting" /\ kind[t] \in Kinds /\ at[t] \in 1 .. Len(Script(kind[t])) /\ t # None
      /\ kind[t] # None
  BY Waiting, NoneAssumption DEF Ends
<1>3. UNCHANGED <<kind, session, phase, nextId, pipe, readings, streams, window, keyed,
                  got, reported, permitted, early>>
  BY <1>1 DEF End, device, history
<1>4. /\ \A x \in Tasks : /\ pc'[x] = IF x = t THEN "done" ELSE pc[x]
                          /\ outcome'[x] = IF x = t THEN out ELSE outcome[x]
                          /\ at'[x] = IF x = t THEN 1 ELSE at[x]
                          /\ rid'[x] = IF x = t THEN 0 ELSE rid[x]
                          /\ resp'[x] = IF x = t THEN "none" ELSE resp[x]
      /\ \A i \in Ids : pending'[i] = IF pending[i] = t THEN None ELSE pending[i]
  BY <1>1 DEF End, Without, TypeOK
<1>5. TypeOK'
  <2>1. /\ pc' \in [Tasks -> {"idle", "waiting", "done"}]
        /\ outcome' \in [Tasks -> {"none", "ok", "failed", "incomplete", "abandoned"}]
        /\ rid' \in [Tasks -> Ids \cup {0}]
        /\ resp' \in [Tasks -> {"none", "ok", "error", "lost"}]
        /\ pending' \in [Ids -> Tasks \cup {None}]
    BY <1>1 DEF End, Without, TypeOK
  <2>2. at' \in [Tasks -> 1 .. 4 + Count]
    BY <1>1, CountAssumption DEF End, TypeOK
  <2> QED
    BY <1>3, <2>1, <2>2 DEF TypeOK
<1>6. \A x \in Tasks : x # t => Asks(x)' = Asks(x)
  BY <1>3, <1>4 DEF Asks
<1>7. Stations'
  BY <1>2, <1>3, <1>4, <1>6 DEF Stations
<1>8. Entries'
  <2>1. ASSUME NEW i \in Ids, pending'[i] # None PROVE pending'[i] = pending[i] /\ pending[i] # t
    BY <1>4, <2>1
  <2>2. ASSUME NEW i \in Ids, pending'[i] # None
        PROVE  /\ pc'[pending'[i]] = "waiting" /\ rid'[pending'[i]] = i /\ resp'[pending'[i]] # "lost"
               /\ i >= 2 /\ i < nextId
    BY <1>4, <2>1, <2>2, Registered
  <2>3. ASSUME NEW x \in Tasks, rid'[x] # 0, resp'[x] = "none" PROVE pending'[rid'[x]] = x
    <3>1. x # t /\ rid'[x] = rid[x] /\ rid[x] \in Ids /\ pending[rid[x]] = x
      BY <1>4, <2>3 DEF Entries, TypeOK
    <3> QED
      BY <1>4, <3>1
  <2> QED
    BY <1>3, <2>2, <2>3 DEF Entries
<1>9. Sessions'
  <2>1. \A i \in Ids : pending[i] = None => pending'[i] = None
    BY <1>4
  <2> QED
    BY <1>3, <1>4, <1>6, <2>1 DEF Sessions
<1>10. \A i \in Ids : \A o : Current(i, o) => Current(i, o)'
  BY <1>3, <1>4 DEF Current
<1>11. Frames'
  BY <1>3, <1>10 DEF Frames, Id, Type
<1>12. Streams'
  BY <1>3, <1>10 DEF Streams, Stream, TypeOK
<1>13. \A x : Over(x)' <=> Over(x)
  BY <1>3 DEF Over
<1>14. Endings'
  <2>1. ASSUME NEW x \in Tasks, kind[x] \in Streaming, resp'[x] \in {"ok", "error"} \/ outcome'[x] = "ok"
        PROVE  Over(x)
    BY <1>1, <1>4, <2>1 DEF Endings
  <2> QED
    BY <1>3, <1>13, <2>1 DEF Endings, Type
<1>15. Labels'
  BY <1>3, <1>4 DEF Labels, Id
<1>16. Granted'
  <2>1. ASSUME NEW i \in 1 .. Len(pipe), pending'[Id(pipe[i])] # None
        PROVE  pending'[Id(pipe[i])] \in Tasks \ {t} /\ pending'[Id(pipe[i])] = pending[Id(pipe[i])]
    <3>1. Id(pipe[i]) \in Ids
      BY DEF Frames
    <3>2. pending'[Id(pipe[i])] = pending[Id(pipe[i])] /\ pending[Id(pipe[i])] # t
      BY <1>4, <2>1, <3>1
    <3> QED
      BY <2>1, <3>1, <3>2, Registered
  <2>2. ASSUME NEW i \in 1 .. Len(pipe), Type(pipe[i]) = RESPONSE, pipe[i].says = "ok",
               NEW x \in Tasks, x = pending'[Id(pipe[i])]
        PROVE  /\ Asks(x)' \in Permits => x \in permitted \cup early
               /\ Asks(x)' = "SetProvisionalKey" => x \in keyed
    <3>1. x # t /\ x = pending[Id(pipe[i])] /\ x # None
      BY <2>1, <2>2, NoneAssumption
    <3> QED
      BY <1>6, <2>2, <3>1 DEF Granted
  <2>3. ASSUME NEW x \in Tasks, resp'[x] = "ok", Asks(x)' \in Permits PROVE x \in permitted \cup early
    BY <1>4, <1>6, <2>3 DEF Granted
  <2> QED
    BY <1>3, <2>2, <2>3 DEF Granted, Id, Type
<1>17. Keys'
  BY <1>3, <1>4 DEF Keys
<1>18. \A x, c : (Underway(x, c)' <=> Underway(x, c)) /\ (Once(x, c)' <=> Once(x, c))
  BY <1>3 DEF Underway, Once, Brings, Type
<1>19. readings \in [Tasks -> Readings] /\ reported \in [Tasks -> Readings] /\ Count \in Nat
  BY CountAssumption DEF TypeOK
<1>20. kind[t] = "energy" => Scanned(t) \in Nat /\ Scanned(t) <= Count /\ Scanned(t)' = Count
  BY <1>2, <1>3, <1>4, <1>19, ScriptKinds DEF Scanned
<1>21. \A x \in Tasks : x # t => Scanned(x)' = Scanned(x)
  BY <1>3, <1>4 DEF Scanned
<1>22. Scans'
  <2>1. ASSUME NEW x \in Tasks, NEW c \in Channels, kind[x] = "energy"
        PROVE  /\ readings[x][c] <= reported[x][c] /\ reported[x][c] <= Scanned(x)'
               /\ (pc'[x] = "waiting" /\ resp'[x] # "lost") \/ outcome'[x] = "ok" =>
                    reported[x][c] = readings[x][c] + IF Underway(x, c) THEN 1 ELSE 0
               /\ \A s \in streams : s.owner = x /\ c \in s.left =>
                    reported[x][c] < Scanned(x)' /\ ~Underway(x, c)
               /\ Once(x, c)
    <3>0. reported[x][c] \in Nat
      BY <1>19 DEF Readings
    <3>1. CASE x = t
      <4>1. /\ readings[x][c] <= reported[x][c] /\ reported[x][c] <= Scanned(x)
            /\ \A s \in streams : s.owner = x /\ c \in s.left =>
                    reported[x][c] < Scanned(x) /\ ~Underway(x, c)
            /\ Once(x, c)
        BY <2>1 DEF Scans
      <4>2. outcome'[x] = "ok" => reported[x][c] = readings[x][c] + IF Underway(x, c) THEN 1 ELSE 0
        BY <1>1, <1>2, <1>4, <2>1, <3>1 DEF Scans
      <4>3. pc'[x] # "waiting"
        BY <1>4, <3>1
      <4> QED
        BY <1>19, <1>20, <2>1, <3>0, <3>1, <4>1, <4>2, <4>3
    <3>2. CASE x # t
      BY <1>4, <1>21, <2>1, <3>2 DEF Scans
    <3> QED
      BY <3>1, <3>2
  <2>2. \A x \in Tasks : kind[x] # "energy" => readings[x] = NoReadings /\ reported[x] = NoReadings
    BY DEF Scans
  <2> QED
    BY <1>3, <1>18, <2>1, <2>2 DEF Scans
<1>23. ScanComplete'
  <2>1. ASSUME kind[t] = "energy", out = "ok", NEW c \in Channels
        PROVE  readings[t][c] = reported[t][c]
    <3>1. Over(t)
      BY <1>1, <2>1 DEF Endings, Streaming
    <3>2. ~Underway(t, c)
      BY <3>1 DEF Over, Underway, Brings
    <3>3. reported[t][c] = readings[t][c] + 0
      BY <1>1, <1>2, <2>1, <3>2 DEF Scans
    <3> QED
      BY <1>19, <3>3 DEF Readings
  <2>2. kind[t] = "energy" /\ out = "ok" => readings[t] = reported[t]
    BY <1>19, <2>1 DEF Readings
  <2> QED
    BY <1>3, <1>4, <2>2 DEF ScanComplete
<1>24. PermitTruthful'
  <2>1. ASSUME kind[t] \in Permitting, out = "ok" PROVE t \in permitted \cup early
    <3>1. Asks(t) \in Permits
      BY <1>1, <1>2, <2>1, ScriptEnds DEF Asks, Last
    <3> QED
      BY <1>1, <2>1, <3>1 DEF Granted
  <2> QED
    BY <1>3, <1>4, <2>1 DEF PermitTruthful
<1>25. OwnEventsOnly' /\ KeyBeforeWindow'
  BY <1>3 DEF OwnEventsOnly, KeyBeforeWindow
<1> QED
  BY <1>5, <1>7, <1>8, <1>9, <1>11, <1>12, <1>14, <1>15, <1>16, <1>17, <1>22, <1>23, <1>24, <1>25

\* Where a task is when it sends
LEMMA Sending ==
  ASSUME Inv, NEW t \in Tasks, NEW k \in Kinds, NEW i \in 1 .. Len(Script(k)), Sends(t, k, i)
  PROVE  /\ phase \in {"resetting", "ready"} /\ nextId \in Nat /\ nextId >= 2 /\ session \in 1 .. MaxSessions
         /\ i \in Nat /\ i \in 1 .. 4 + Count /\ t # None /\ k # None
         /\ \/ pc[t] = "idle" /\ kind[t] = None /\ i = 1 /\ phase = "ready"
            \/ /\ pc[t] = "waiting" /\ kind[t] = k /\ i = at[t] + 1 /\ at[t] \in Nat
               /\ resp[t] = "ok" \/ Asks(t) \in Elsewhere
         /\ phase = "resetting" => Script(k)[i] = "PermitSteered"
         /\ pc[t] = "idle" \/ k \in Streaming => Over(t)
         /\ \A s \in streams : s.owner # t
         /\ k = "withKey" /\ i # 1 => t \in keyed
<1> USE DEF Inv
<1>1. t # None /\ k # None
  BY NoneAssumption
<1>2. phase \in {"resetting", "ready"} /\ nextId \in Nat /\ nextId >= 2 /\ session \in 1 .. MaxSessions
  <2>1. phase \in {"resetting", "ready"} /\ nextId \in Ids /\ session \in 0 .. MaxSessions
    BY DEF Sends, TypeOK
  <2>2. nextId >= 2 /\ session >= 1
    BY <2>1 DEF Sessions
  <2> QED
    BY <2>1, <2>2, IdRange, CountAssumption
<1>3. \/ pc[t] = "idle" /\ kind[t] = None /\ i = 1 /\ phase = "ready"
      \/ /\ pc[t] = "waiting" /\ kind[t] = k /\ i = at[t] + 1 /\ at[t] \in Nat
         /\ resp[t] = "ok" \/ Asks(t) \in Elsewhere
  <2>1. at[t] \in Nat
    BY DEF TypeOK
  <2> QED
    BY <2>1 DEF Sends, Stations
<1>4. i \in Nat /\ i \in 1 .. 4 + Count
  <2>1. Len(Script(k)) \in 1 .. 4 + Count /\ Count \in Nat
    BY ScriptKinds, CountAssumption
  <2> QED
    BY <2>1
<1>5. pc[t] = "idle" \/ k \in Streaming => Over(t)
  <2>1. CASE pc[t] = "idle"
    <3>1. \A s \in streams : s.owner # t
      BY <1>3, <2>1, NoneAssumption DEF Streams, Streaming, Kinds
    <3>2. \A j \in 1 .. Len(pipe) : pipe[j].owner # t
      BY <1>1, <1>3, <2>1 DEF Frames
    <3> QED
      BY <3>1, <3>2 DEF Over
  <2>2. CASE pc[t] # "idle" /\ k \in Streaming
    <3>1. Asks(t) \in Streamed
      BY <1>3, <2>2, Waiting
    <3>2. resp[t] = "ok"
      BY <1>3, <2>2, Waiting
    <3> QED
      BY <1>3, <2>2, <3>2 DEF Endings
  <2> QED
    BY <2>1, <2>2
<1>6. \A s \in streams : s.owner # t
  <2> SUFFICES ASSUME NEW s \in streams, s.owner = t PROVE FALSE
    OBVIOUS
  <2>1. ~Over(t) /\ kind[t] \in Streaming
    BY DEF Over, Streams
  <2> QED
    BY <1>3, <1>5, <2>1
<1>7. ASSUME phase = "resetting" PROVE Script(k)[i] = "PermitSteered"
  <2>1. pc[t] = "waiting" /\ kind[t] = k /\ i = at[t] + 1 /\ (resp[t] = "ok" \/ Asks(t) \in Elsewhere)
    BY <1>3, <1>7
  <2>2. Asks(t) # "PermitSteered"
    BY <2>1, Waiting DEF Last
  <2>3. Asks(t) = "AskRouter"
    BY <1>7, <2>1, <2>2 DEF Sessions, Streamed, Elsewhere
  <2>4. k = "steered" /\ at[t] \in 1 .. Len(Script(k))
    BY <2>1, <2>3, Waiting
  <2>5. at[t] = 1
    BY <2>1, <2>3, <2>4, ScriptKinds DEF Asks
  <2> QED
    BY <2>1, <2>4, <2>5, ScriptKinds
<1>8. ASSUME k = "withKey", i # 1 PROVE t \in keyed
  <2>1. pc[t] = "waiting" /\ kind[t] = k /\ (resp[t] = "ok" \/ Asks(t) \in Elsewhere)
    BY <1>3, <1>8
  <2>2. resp[t] = "ok" \/ at[t] # 1
    BY <1>8, <2>1, Waiting DEF Elsewhere
  <2> QED
    BY <1>2, <1>8, <2>1, <2>2 DEF Keys
<1> QED
  BY <1>1, <1>2, <1>3, <1>4, <1>5, <1>6, <1>7, <1>8

\* What sending does to the task, and what it leaves of the others
LEMMA SendMoves ==
  ASSUME Inv, NEW t \in Tasks, NEW k \in Kinds, NEW i \in 1 .. Len(Script(k)), Sends(t, k, i)
  PROVE  /\ UNCHANGED <<session, phase, readings, outcome, got, reported>>
         /\ \A x \in Tasks : /\ kind'[x] = IF x = t THEN k ELSE kind[x]
                             /\ pc'[x] = IF x = t THEN "waiting" ELSE pc[x]
                             /\ at'[x] = IF x = t THEN i ELSE at[x]
                             /\ resp'[x] = IF x = t THEN "none" ELSE resp[x]
                             /\ Asks(x)' = IF x = t THEN Script(k)[i] ELSE Asks(x)
         /\ kind' \in [Tasks -> Kinds \cup {None}] /\ pc' \in [Tasks -> {"idle", "waiting", "done"}]
         /\ at' \in [Tasks -> 1 .. 4 + Count] /\ resp' \in [Tasks -> {"none", "ok", "error", "lost"}]
         /\ early \subseteq early' /\ early' \subseteq Tasks
         /\ phase = "resetting" => t \in early'
         /\ phase = "ready" => early' = early
<1> USE DEF Inv
<1>1. /\ at' = [at EXCEPT ![t] = i] /\ pc' = [pc EXCEPT ![t] = "waiting"]
      /\ resp' = [resp EXCEPT ![t] = "none"] /\ kind' = [kind EXCEPT ![t] = k]
      /\ early' = IF phase = "resetting" THEN early \cup {t} ELSE early
      /\ UNCHANGED <<session, phase, readings, outcome, got, reported>>
  BY DEF Sends, Send, host
<1>2. i \in 1 .. 4 + Count
  BY Sending
<1>3. \A x \in Tasks : /\ kind'[x] = IF x = t THEN k ELSE kind[x]
                       /\ pc'[x] = IF x = t THEN "waiting" ELSE pc[x]
                       /\ at'[x] = IF x = t THEN i ELSE at[x]
                       /\ resp'[x] = IF x = t THEN "none" ELSE resp[x]
  BY <1>1 DEF TypeOK
<1>4. \A x \in Tasks : Asks(x)' = IF x = t THEN Script(k)[i] ELSE Asks(x)
  BY <1>3 DEF Asks
<1>5. /\ kind' \in [Tasks -> Kinds \cup {None}] /\ pc' \in [Tasks -> {"idle", "waiting", "done"}]
      /\ at' \in [Tasks -> 1 .. 4 + Count] /\ resp' \in [Tasks -> {"none", "ok", "error", "lost"}]
      /\ early' \subseteq Tasks
  BY <1>1, <1>2 DEF TypeOK
<1> QED
  BY <1>1, <1>3, <1>4, <1>5

\* A task goes on to await what no request of its own to the device brings.
LEMMA ElsewhereKeeps ==
  ASSUME Inv, NEW t \in Tasks, NEW k \in Kinds, NEW i \in 1 .. Len(Script(k)), Sends(t, k, i),
         Script(k)[i] \in Elsewhere
  PROVE  Inv'
<1> USE DEF Inv
<1> DEFINE what == Script(k)[i]
<1>1. /\ k \notin Streaming /\ k \in Kinds /\ k # None /\ t # None /\ phase = "ready"
      /\ \/ kind[t] = None /\ pc[t] = "idle"
         \/ kind[t] = k /\ pc[t] = "waiting"
      /\ i \in Nat /\ i \in 1 .. Len(Script(k))
      /\ k = "withKey" /\ i # 1 => t \in keyed
      /\ kind[t] = None => Over(t)
      /\ \A s \in streams : s.owner # t
  <2>1. k \notin Streaming /\ what # "PermitSteered"
    BY ScriptKinds DEF Elsewhere, Streamed
  <2> QED
    BY <2>1, Sending, NoneAssumption DEF what, Stations
<1>2. /\ rid' = [rid EXCEPT ![t] = 0] /\ pending' = Without(t)
      /\ UNCHANGED <<nextId, pipe, streams, window, keyed, permitted>>
  BY DEF Sends, Send, device
<1>3. /\ UNCHANGED <<session, phase, readings, outcome, got, reported, early>>
      /\ \A x \in Tasks : /\ kind'[x] = IF x = t THEN k ELSE kind[x]
                          /\ pc'[x] = IF x = t THEN "waiting" ELSE pc[x]
                          /\ at'[x] = IF x = t THEN i ELSE at[x]
                          /\ resp'[x] = IF x = t THEN "none" ELSE resp[x]
                          /\ Asks(x)' = IF x = t THEN what ELSE Asks(x)
                          /\ rid'[x] = IF x = t THEN 0 ELSE rid[x]
  BY <1>1, <1>2, SendMoves DEF TypeOK
<1>a. /\ pending' \in [Ids -> Tasks \cup {None}]
      /\ \A j \in Ids : pending'[j] = IF pending[j] = t THEN None ELSE pending[j]
  BY <1>2 DEF Without, TypeOK
<1> HIDE DEF what
<1>4. TypeOK'
  <2>1. rid' \in [Tasks -> Ids \cup {0}]
    BY <1>2 DEF TypeOK
  <2> QED
    BY <1>2, <1>3, <1>a, <2>1, SendMoves DEF TypeOK
<1>5. \A j \in Ids : pending'[j] # t /\ (pending'[j] # None => pending'[j] = pending[j])
  BY <1>1, <1>a
<1>6. Stations'
  <2>1. what \in Elsewhere
    BY DEF what
  <2>2. outcome[t] = "none"
    BY <1>1 DEF Stations
  <2> QED
    BY <1>1, <1>3, <2>1, <2>2 DEF Stations
<1>7. Entries'
  <2>1. ASSUME NEW j \in Ids, pending'[j] # None
        PROVE  /\ pc'[pending'[j]] = "waiting" /\ rid'[pending'[j]] = j /\ resp'[pending'[j]] # "lost"
               /\ j >= 2 /\ j < nextId
    BY <1>3, <1>5, <2>1, Registered
  <2>2. ASSUME NEW x \in Tasks, rid'[x] # 0, resp'[x] = "none" PROVE pending'[rid'[x]] = x
    <3>1. x # t /\ rid'[x] = rid[x] /\ rid[x] \in Ids /\ pending[rid[x]] = x
      BY <1>3, <2>2 DEF Entries, TypeOK
    <3> QED
      BY <1>a, <3>1
  <2> QED
    BY <1>2, <2>1, <2>2 DEF Entries
<1>8. Sessions'
  BY <1>1, <1>2, <1>3 DEF Sessions
<1>13. \A j \in 1 .. Len(pipe) : pipe[j].owner # None => pipe[j].owner \in Tasks
  <2>1. pipe \in Seq(Frame)
    BY DEF TypeOK
  <2>2. \A j \in 1 .. Len(pipe) : pipe[j] \in Frame
    BY <2>1
  <2> QED
    BY <1>1, <2>2 DEF Frame, Over
<1>b. ASSUME NEW j \in Ids, NEW o, Current(j, o) PROVE j < nextId' /\ pending'[j] \in {None, o}
  BY <1>2, <1>5, <1>b DEF Current
<1>9. Frames'
  <2>1. \A j \in 1 .. Len(pipe) : pipe[j].owner # None => kind'[pipe[j].owner] # None
    BY <1>1, <1>3, <1>13 DEF Frames
  <2>2. \A j \in 1 .. Len(pipe) : Current(Id(pipe[j]), pipe[j].owner)'
    BY <1>1, <1>2, <1>b DEF Frames, Current, Id
  <2> QED
    BY <1>1, <1>2, <1>3, <2>1, <2>2 DEF Frames, Current, Id, Type
<1>10. Streams'
  <2>1. \A s \in streams : s.owner \in Tasks /\ s.owner # t /\ s.id \in Ids
    BY <1>1 DEF TypeOK, Stream
  <2>2. \A s \in streams : s.id < nextId' /\ pending'[s.id] \in {None, s.owner}
    BY <1>1, <1>b, <2>1 DEF Streams
  <2> QED
    BY <1>1, <1>2, <1>3, <2>1, <2>2 DEF Streams, Current
<1>11. \A x : Over(x)' <=> Over(x)
  BY <1>2 DEF Over
<1>12. \A x \in Tasks : kind'[x] \in Streaming => x # t /\ kind[x] \in Streaming
  BY <1>1, <1>3
<1>14. Endings' /\ Labels'
  BY <1>2, <1>3, <1>11, <1>12, <1>13 DEF Endings, Labels, Id, Type
<1>15. Granted'
  <2>1. \A j \in 1 .. Len(pipe) : Id(pipe[j]) \in Ids
    BY DEF Frames
  <2>2. ASSUME NEW x \in Tasks, NEW j \in 1 .. Len(pipe), Type(pipe[j]) = RESPONSE, pipe[j].says = "ok",
               pending'[Id(pipe[j])] = x
        PROVE  /\ Asks(x)' \in Permits => x \in permitted \cup early
               /\ Asks(x)' = "SetProvisionalKey" => x \in keyed
    <3>1. x # t /\ pending[Id(pipe[j])] = x
      BY <1>5, <2>1, <2>2, NoneAssumption
    <3> QED
      BY <1>3, <2>2, <3>1 DEF Granted
  <2>3. ASSUME NEW x \in Tasks, resp'[x] = "ok", Asks(x)' \in Permits PROVE x \in permitted \cup early
    BY <1>3, <2>3 DEF Granted
  <2> QED
    BY <1>2, <1>3, <2>2, <2>3 DEF Granted, Id, Type
<1>16. Keys' /\ KeyBeforeWindow'
  <2>1. window.by # None => window.by \in Tasks /\ kind'[window.by] = kind[window.by]
    BY <1>1, <1>3 DEF Keys, TypeOK
  <2>2. ASSUME NEW x \in Tasks, kind'[x] = "withKey", pc'[x] = "waiting", at'[x] # 1 \/ resp'[x] = "ok"
        PROVE  x \in keyed
    BY <1>1, <1>3, <2>2 DEF Keys
  <2> QED
    BY <1>2, <1>3, <2>1, <2>2 DEF Keys, KeyBeforeWindow
<1>17. Scans'
  <2>1. \A x, c : (Underway(x, c)' <=> Underway(x, c)) /\ (Once(x, c)' <=> Once(x, c))
    BY <1>2 DEF Underway, Once, Brings, Type
  <2>2. \A x \in Tasks : x # t => Scanned(x)' = Scanned(x)
    BY <1>3 DEF Scanned
  <2>3. readings[t] = NoReadings /\ reported[t] = NoReadings
    BY <1>1, NoneAssumption DEF Scans, Kinds, Streaming
  <2>4. ASSUME NEW x \in Tasks, kind'[x] # "energy" PROVE readings[x] = NoReadings /\ reported[x] = NoReadings
    BY <1>3, <2>3, <2>4 DEF Scans
  <2>5. ASSUME NEW x \in Tasks, NEW c \in Channels, kind'[x] = "energy"
        PROVE  /\ readings[x][c] <= reported[x][c] /\ reported[x][c] <= Scanned(x)'
               /\ (pc'[x] = "waiting" /\ resp'[x] # "lost") \/ outcome[x] = "ok" =>
                    reported[x][c] = readings[x][c] + IF Underway(x, c) THEN 1 ELSE 0
               /\ \A s \in streams : s.owner = x /\ c \in s.left =>
                    reported[x][c] < Scanned(x)' /\ ~Underway(x, c)
               /\ Once(x, c)
    BY <1>1, <1>3, <2>2, <2>5 DEF Scans, Streaming
  <2> QED
    BY <1>2, <1>3, <2>1, <2>4, <2>5 DEF Scans
<1>18. OwnEventsOnly' /\ ScanComplete' /\ PermitTruthful'
  <2>1. outcome[t] # "ok"
    BY <1>1 DEF Stations
  <2> QED
    BY <1>2, <1>3, <2>1 DEF OwnEventsOnly, ScanComplete, PermitTruthful
<1> QED
  BY <1>4, <1>6, <1>7, <1>8, <1>9, <1>10, <1>14, <1>15, <1>16, <1>17, <1>18

\* The device answers a request at once or begins a stream.
LEMMA Taken ==
  ASSUME TypeOK, NEW t \in Tasks, NEW id \in Ids, NEW what, Takes(what, id, t), session \in 1 .. MaxSessions
  PROVE  /\ permitted \subseteq permitted' /\ keyed \subseteq keyed'
         /\ permitted' \subseteq Tasks /\ keyed' \subseteq Tasks
         /\ window' \in [by : Tasks \cup {None}, direct : BOOLEAN]
         /\ window' = window \/ (window'.by = t /\ what \in Permits)
         /\ \/ /\ what \in Streamed /\ UNCHANGED pipe
               /\ \E s \in Stream :
                    /\ streams' = streams \cup {s}
                    /\ s.id = id /\ s.owner = t /\ s.session = session
                    /\ s.left = IF what = "EnergyScan" THEN Channels ELSE 1 .. MaxEvents
            \/ /\ UNCHANGED streams
               /\ \E says \in {"ok", "error"} :
                    /\ Say(Reply(RESPONSE, id, t, says))
                    /\ says = "ok" /\ what \in Permits => t \in permitted'
                    /\ says = "ok" /\ what = "SetProvisionalKey" => t \in keyed'
<1>1. CASE Say(Reply(RESPONSE, id, t, "error")) /\ UNCHANGED <<device, permitted>>
  BY <1>1 DEF device, TypeOK
<1>2. CASE what \in Streamed /\ Begins(what, id, t) /\ UNCHANGED <<pipe, window, keyed, permitted>>
  <2> DEFINE s == [id |-> id, owner |-> t, session |-> session,
                   left |-> IF what = "EnergyScan" THEN Channels ELSE 1 .. MaxEvents]
  <2>1. s \in Stream
    BY DEF Stream
  <2>2. streams' = streams \cup {s}
    BY <1>2 DEF Begins
  <2> QED
    BY <1>2, <2>1, <2>2 DEF TypeOK
<1>3. CASE /\ what \in Permits
           /\ window' = [by |-> t, direct |-> what = "PermitDirect"]
           /\ permitted' = permitted \cup {t}
           /\ Say(Reply(RESPONSE, id, t, "ok")) /\ UNCHANGED <<streams, keyed>>
  BY <1>3 DEF TypeOK, Permits
<1>4. CASE /\ what = "SetProvisionalKey"
           /\ keyed' = keyed \cup {t}
           /\ Say(Reply(RESPONSE, id, t, "ok")) /\ UNCHANGED <<streams, window, permitted>>
  BY <1>4 DEF TypeOK, Permits
<1>5. CASE /\ what \in {"Broadcast", "PacketCaptureChannel"}
           /\ Say(Reply(RESPONSE, id, t, "ok")) /\ UNCHANGED <<device, permitted>>
  BY <1>5 DEF device, TypeOK, Permits
<1> QED
  BY <1>1, <1>2, <1>3, <1>4, <1>5 DEF Takes, Permits

\* What sending a request adds to the pipe and to the streams
LEMMA Request ==
  ASSUME Inv, NEW t \in Tasks, NEW k \in Kinds, NEW i \in 1 .. Len(Script(k)), Sends(t, k, i),
         Script(k)[i] \notin Elsewhere
  PROVE  /\ rid' = [rid EXCEPT ![t] = nextId] /\ nextId' = nextId + 1 /\ nextId + 1 \in Ids
         /\ pending' \in [Ids -> Tasks \cup {None}] /\ pending'[nextId] = t
         /\ \A j \in Ids : j # nextId => pending'[j] = IF pending[j] = t THEN None ELSE pending[j]
         /\ permitted \subseteq permitted' /\ keyed \subseteq keyed'
         /\ permitted' \subseteq Tasks /\ keyed' \subseteq Tasks
         /\ window' \in [by : Tasks \cup {None}, direct : BOOLEAN]
         /\ window' = window \/ (window'.by = t /\ Script(k)[i] \in Permits)
         /\ pipe' \in Seq(Frame) /\ Len(pipe') <= MaxPipe /\ Len(pipe) \in Nat
         /\ \A j \in 1 .. Len(pipe') :
              \/ j \in 1 .. Len(pipe) /\ pipe'[j] = pipe[j]
              \/ /\ j = Len(pipe') /\ pipe'[j].owner = t /\ Id(pipe'[j]) = nextId
                 /\ Type(pipe'[j]) = RESPONSE /\ pipe'[j].says \in {"ok", "error"}
                 /\ pipe'[j].says = "ok" /\ Script(k)[i] \in Permits => t \in permitted'
                 /\ pipe'[j].says = "ok" /\ Script(k)[i] = "SetProvisionalKey" => t \in keyed'
                 /\ UNCHANGED streams
         /\ \/ UNCHANGED streams
            \/ \E s \in Stream :
                 /\ streams' = streams \cup {s} /\ UNCHANGED pipe /\ Script(k)[i] \in Streamed
                 /\ s.id = nextId /\ s.owner = t /\ s.session = session
                 /\ s.left = IF Script(k)[i] = "EnergyScan" THEN Channels ELSE 1 .. MaxEvents
         /\ \A x, c : (Underway(x, c)' <=> Underway(x, c)) /\ (Once(x, c) => Once(x, c)')
<1> USE DEF Inv
<1> DEFINE what == Script(k)[i]
<1>1. /\ rid' = [rid EXCEPT ![t] = nextId] /\ nextId' = nextId + 1 /\ nextId < MaxId
      /\ pending' = [Without(t) EXCEPT ![nextId] = t]
      /\ Takes(what, nextId, t)
  BY DEF Sends, Send
<1> HIDE DEF what
<1>2. nextId \in Ids /\ session \in 1 .. MaxSessions /\ pending \in [Ids -> Tasks \cup {None}]
  BY Sending DEF TypeOK
<1>3. nextId + 1 \in Ids
  BY <1>1, <1>2, IdRange
<1>5. /\ pending' \in [Ids -> Tasks \cup {None}] /\ pending'[nextId] = t
      /\ \A j \in Ids : j # nextId => pending'[j] = IF pending[j] = t THEN None ELSE pending[j]
  BY <1>1, <1>2 DEF Without
<1>6. /\ permitted \subseteq permitted' /\ keyed \subseteq keyed'
      /\ permitted' \subseteq Tasks /\ keyed' \subseteq Tasks
      /\ window' \in [by : Tasks \cup {None}, direct : BOOLEAN]
      /\ window' = window \/ (window'.by = t /\ what \in Permits)
      /\ \/ /\ what \in Streamed /\ UNCHANGED pipe
            /\ \E s \in Stream :
                 /\ streams' = streams \cup {s}
                 /\ s.id = nextId /\ s.owner = t /\ s.session = session
                 /\ s.left = IF what = "EnergyScan" THEN Channels ELSE 1 .. MaxEvents
         \/ /\ UNCHANGED streams
            /\ \E says \in {"ok", "error"} :
                 /\ Say(Reply(RESPONSE, nextId, t, says))
                 /\ says = "ok" /\ what \in Permits => t \in permitted'
                 /\ says = "ok" /\ what = "SetProvisionalKey" => t \in keyed'
  BY <1>1, <1>2, Taken
<1>7. pipe \in Seq(Frame) /\ Len(pipe) <= MaxPipe /\ Len(pipe) \in Nat
  BY DEF TypeOK
<1>8. CASE UNCHANGED pipe
  <2>1. \A x, c : (Underway(x, c)' <=> Underway(x, c)) /\ (Once(x, c) => Once(x, c)')
    BY <1>8 DEF Underway, Once, Brings, Type
  <2>2. \/ UNCHANGED streams
        \/ \E s \in Stream :
             /\ streams' = streams \cup {s} /\ UNCHANGED pipe /\ what \in Streamed
             /\ s.id = nextId /\ s.owner = t /\ s.session = session
             /\ s.left = IF what = "EnergyScan" THEN Channels ELSE 1 .. MaxEvents
    BY <1>6, <1>8
  <2>3. /\ pipe' \in Seq(Frame) /\ Len(pipe') <= MaxPipe
        /\ \A j \in 1 .. Len(pipe') : j \in 1 .. Len(pipe) /\ pipe'[j] = pipe[j]
    BY <1>7, <1>8
  <2> QED
    BY <1>1, <1>3, <1>5, <1>6, <1>7, <2>1, <2>2, <2>3 DEF what
<1>9. ASSUME UNCHANGED streams, NEW says \in {"ok", "error"},
             Say(Reply(RESPONSE, nextId, t, says)),
             says = "ok" /\ what \in Permits => t \in permitted',
             says = "ok" /\ what = "SetProvisionalKey" => t \in keyed'
      PROVE  /\ pipe' \in Seq(Frame) /\ Len(pipe') <= MaxPipe
             /\ \A j \in 1 .. Len(pipe') :
                  \/ j \in 1 .. Len(pipe) /\ pipe'[j] = pipe[j]
                  \/ /\ j = Len(pipe') /\ pipe'[j].owner = t /\ Id(pipe'[j]) = nextId
                     /\ Type(pipe'[j]) = RESPONSE /\ pipe'[j].says \in {"ok", "error"}
                     /\ pipe'[j].says = "ok" /\ what \in Permits => t \in permitted'
                     /\ pipe'[j].says = "ok" /\ what = "SetProvisionalKey" => t \in keyed'
             /\ \A x, c : (Underway(x, c)' <=> Underway(x, c)) /\ (Once(x, c) => Once(x, c)')
  <2> DEFINE f == Reply(RESPONSE, nextId, t, says)
  <2>1. f \in Frame /\ Id(f) = nextId /\ Type(f) = RESPONSE /\ f.owner = t /\ f.says = says
    BY <1>2, ReplyRead
  <2>2. Say(f)
    BY <1>9
  <2> HIDE DEF f
  <2>3. /\ pipe' \in Seq(Frame) /\ Len(pipe') <= MaxPipe /\ Len(pipe') = Len(pipe) + 1
        /\ \A j \in 1 .. Len(pipe') : \/ j \in 1 .. Len(pipe) /\ pipe'[j] = pipe[j]
                                      \/ j = Len(pipe') /\ pipe'[j] = f
    BY <2>1, <2>2, Said
  <2>4. \A x, c : ~Brings(f, x, c)
    BY <2>1 DEF Brings, RESPONSE, EVENT
  <2>5. \A x, c : (Underway(x, c)' <=> Underway(x, c)) /\ (Once(x, c) => Once(x, c)')
    BY <2>1, <2>2, <2>4, SaidOther
  <2> QED
    BY <1>9, <2>1, <2>3, <2>5
<1>10. CASE ~UNCHANGED pipe
  <2>1. UNCHANGED streams
    BY <1>6, <1>10
  <2>2. PICK says \in {"ok", "error"} :
          /\ Say(Reply(RESPONSE, nextId, t, says))
          /\ says = "ok" /\ what \in Permits => t \in permitted'
          /\ says = "ok" /\ what = "SetProvisionalKey" => t \in keyed'
    BY <1>6, <1>10
  <2>3. /\ pipe' \in Seq(Frame) /\ Len(pipe') <= MaxPipe
        /\ \A j \in 1 .. Len(pipe') :
             \/ j \in 1 .. Len(pipe) /\ pipe'[j] = pipe[j]
             \/ /\ j = Len(pipe') /\ pipe'[j].owner = t /\ Id(pipe'[j]) = nextId
                /\ Type(pipe'[j]) = RESPONSE /\ pipe'[j].says \in {"ok", "error"}
                /\ pipe'[j].says = "ok" /\ what \in Permits => t \in permitted'
                /\ pipe'[j].says = "ok" /\ what = "SetProvisionalKey" => t \in keyed'
        /\ \A x, c : (Underway(x, c)' <=> Underway(x, c)) /\ (Once(x, c) => Once(x, c)')
    BY <1>9, <2>1, <2>2
  <2> QED
    BY <1>1, <1>3, <1>5, <1>6, <1>7, <2>1, <2>3 DEF what
<1> QED
  BY <1>8, <1>10

LEMMA RequestKeeps ==
  ASSUME Inv, NEW t \in Tasks, NEW k \in Kinds, NEW i \in 1 .. Len(Script(k)), Sends(t, k, i),
         Script(k)[i] \notin Elsewhere
  PROVE  Inv'
<1> USE DEF Inv
<1> DEFINE what == Script(k)[i]
<1>1. /\ phase \in {"resetting", "ready"} /\ nextId \in Nat /\ nextId >= 2 /\ session \in 1 .. MaxSessions
      /\ i \in Nat /\ i >= 1 /\ i \in 1 .. Len(Script(k)) /\ t # None /\ k # None
      /\ \/ pc[t] = "idle" /\ kind[t] = None /\ i = 1 /\ phase = "ready"
         \/ /\ pc[t] = "waiting" /\ kind[t] = k /\ i = at[t] + 1 /\ at[t] \in Nat
            /\ resp[t] = "ok" \/ Asks(t) \in Elsewhere
      /\ phase = "resetting" => what = "PermitSteered"
      /\ pc[t] = "idle" \/ k \in Streaming => Over(t)
      /\ \A s \in streams : s.owner # t
      /\ k = "withKey" /\ i # 1 => t \in keyed
  BY Sending
<1>2. /\ UNCHANGED <<session, phase, readings, outcome, got, reported>>
      /\ \A x \in Tasks : /\ kind'[x] = IF x = t THEN k ELSE kind[x]
                          /\ pc'[x] = IF x = t THEN "waiting" ELSE pc[x]
                          /\ at'[x] = IF x = t THEN i ELSE at[x]
                          /\ resp'[x] = IF x = t THEN "none" ELSE resp[x]
                          /\ Asks(x)' = IF x = t THEN what ELSE Asks(x)
      /\ early \subseteq early'
      /\ phase = "resetting" => t \in early'
  BY SendMoves
<1>3. /\ nextId' = nextId + 1 /\ nextId \in Ids /\ pending'[nextId] = t
      /\ \A x \in Tasks : rid'[x] = IF x = t THEN nextId ELSE rid[x]
      /\ \A j \in Ids : j # nextId => pending'[j] = IF pending[j] = t THEN None ELSE pending[j]
  BY Request DEF TypeOK
<1>4. /\ permitted \subseteq permitted' /\ keyed \subseteq keyed'
      /\ window' = window \/ (window'.by = t /\ what \in Permits)
      /\ window'.by \in Tasks \cup {None}
  BY Request
<1>5. \A j \in 1 .. Len(pipe') :
        \/ j \in 1 .. Len(pipe) /\ pipe'[j] = pipe[j]
        \/ /\ j = Len(pipe') /\ pipe'[j].owner = t /\ Id(pipe'[j]) = nextId
           /\ Type(pipe'[j]) = RESPONSE /\ pipe'[j].says \in {"ok", "error"}
           /\ pipe'[j].says = "ok" /\ what \in Permits => t \in permitted'
           /\ pipe'[j].says = "ok" /\ what = "SetProvisionalKey" => t \in keyed'
           /\ UNCHANGED streams
  BY Request
<1>6. /\ what \in Streamed <=> k \in Streaming
      /\ what = "EnergyScan" <=> k = "energy"
      /\ what = "SetProvisionalKey" => k = "withKey" /\ i = 1
      /\ k = "withKey" /\ what = "PermitDirect" => i = 4
      /\ what = "PermitSteered" => k = "steered"
      /\ i <= Len(Script(k))
  BY <1>1, ScriptKinds, ScriptEnds
<1>7. /\ streams' \subseteq Stream
      /\ \A s \in streams' :
           \/ s \in streams /\ s.owner # t
           \/ /\ k \in Streaming /\ s.id = nextId /\ s.owner = t /\ s.session = session
              /\ s.left = IF k = "energy" THEN Channels ELSE 1 .. MaxEvents
              /\ phase = "ready"
      /\ \A s, z \in streams' : s.owner = z.owner => s = z
      /\ phase = "resetting" => UNCHANGED streams
  <2>1. streams \subseteq Stream
    BY DEF TypeOK
  <2>2. \A s, z \in streams : s.owner = z.owner => s = z
    BY DEF Streams
  <2>3. CASE UNCHANGED streams
    BY <1>1, <2>1, <2>2, <2>3
  <2>4. CASE \E s \in Stream :
               /\ streams' = streams \cup {s} /\ UNCHANGED pipe /\ what \in Streamed
               /\ s.id = nextId /\ s.owner = t /\ s.session = session
               /\ s.left = IF what = "EnergyScan" THEN Channels ELSE 1 .. MaxEvents
    <3>1. phase = "ready"
      BY <1>1, <2>4 DEF Streamed
    <3> QED
      BY <1>1, <1>6, <2>1, <2>2, <2>4, <3>1
  <2> QED
    BY <2>3, <2>4, Request
<1>8. TypeOK'
  <2>1. /\ pending' \in [Ids -> Tasks \cup {None}]
        /\ permitted' \subseteq Tasks /\ keyed' \subseteq Tasks
        /\ window' \in [by : Tasks \cup {None}, direct : BOOLEAN]
        /\ pipe' \in Seq(Frame) /\ Len(pipe') <= MaxPipe
        /\ rid' = [rid EXCEPT ![t] = nextId] /\ nextId' \in Ids
    BY Request
  <2>3. rid' \in [Tasks -> Ids \cup {0}]
    BY <1>3, <2>1 DEF TypeOK
  <2>2. /\ kind' \in [Tasks -> Kinds \cup {None}] /\ pc' \in [Tasks -> {"idle", "waiting", "done"}]
        /\ at' \in [Tasks -> 1 .. 4 + Count] /\ resp' \in [Tasks -> {"none", "ok", "error", "lost"}]
        /\ early' \subseteq Tasks
    BY SendMoves
  <2> QED
    BY <1>2, <1>7, <2>1, <2>2, <2>3 DEF TypeOK
<1> HIDE DEF what
<1>9. Stations'
  <2>1. outcome[t] = "none"
    BY <1>1 DEF Stations
  <2> QED
    BY <1>1, <1>2, <1>3, <2>1 DEF Stations, what
<1>10. Entries'
  <2>1. ASSUME NEW j \in Ids, pending'[j] # None
        PROVE  /\ pc'[pending'[j]] = "waiting" /\ rid'[pending'[j]] = j /\ resp'[pending'[j]] # "lost"
               /\ j >= 2 /\ j < nextId'
    <3>1. CASE j = nextId
      BY <1>1, <1>2, <1>3, <3>1
    <3>2. CASE j # nextId
      <4>1. pending'[j] = pending[j] /\ pending[j] # t
        BY <1>3, <2>1, <3>2
      <4>2. j \in Nat
        BY IdRange
      <4> QED
        BY <1>1, <1>2, <1>3, <2>1, <4>1, <4>2, Registered
    <3> QED
      BY <3>1, <3>2
  <2>2. ASSUME NEW x \in Tasks, rid'[x] # 0, resp'[x] = "none" PROVE pending'[rid'[x]] = x
    <3>1. CASE x = t
      BY <1>3, <3>1
    <3>2. CASE x # t
      <4>1. rid'[x] = rid[x] /\ rid[x] \in Ids /\ pending[rid[x]] = x
        BY <1>2, <1>3, <2>2, <3>2 DEF Entries, TypeOK
      <4>2. rid[x] < nextId /\ rid[x] \in Nat
        BY <4>1, IdRange, Registered, NoneAssumption
      <4> QED
        BY <1>1, <1>3, <3>2, <4>1, <4>2
    <3> QED
      BY <3>1, <3>2
  <2> QED
    BY <2>1, <2>2 DEF Entries
<1>11. Sessions'
  <2>1. nextId' >= 2
    BY <1>1, <1>3
  <2> QED
    BY <1>1, <1>2, <2>1 DEF Sessions
<1>12. ASSUME NEW j \in Ids, NEW o, Current(j, o) PROVE j < nextId' /\ pending'[j] \in {None, o}
  <2>1. j < nextId /\ j \in Nat
    BY <1>12, IdRange DEF Current
  <2> QED
    BY <1>1, <1>3, <1>12, <2>1 DEF Current
<1>13. nextId < nextId' /\ pending'[nextId] = t
  BY <1>1, <1>3
<1>14. /\ \A j \in 1 .. Len(pipe) : /\ Id(pipe[j]) \in Ids
                                    /\ pipe[j].owner # None => pipe[j].owner \in Tasks
       /\ Len(pipe) \in Nat /\ Len(pipe') \in Nat
  <2>1. pipe \in Seq(Frame) /\ pipe' \in Seq(Frame)
    BY <1>8 DEF TypeOK
  <2>2. \A j \in 1 .. Len(pipe) : pipe[j] \in Frame
    BY <2>1
  <2> QED
    BY <2>1, <2>2 DEF Frame, Frames
<1>15. Frames'
  <2>1. ASSUME NEW j \in 1 .. Len(pipe')
        PROVE  /\ Id(pipe'[j]) \in Ids /\ Type(pipe'[j]) \in {RESPONSE, EVENT}
               /\ Type(pipe'[j]) = RESPONSE => pipe'[j].says \in {"ok", "error"}
               /\ pipe'[j].owner # None => kind'[pipe'[j].owner] # None
    <3>1. CASE j \in 1 .. Len(pipe) /\ pipe'[j] = pipe[j]
      BY <1>1, <1>2, <1>14, <3>1 DEF Frames
    <3>2. CASE pipe'[j].owner = t /\ Id(pipe'[j]) = nextId /\ Type(pipe'[j]) = RESPONSE
               /\ pipe'[j].says \in {"ok", "error"}
      BY <1>1, <1>2, <1>3, <3>2
    <3> QED
      BY <1>5, <3>1, <3>2
  <2>2. ASSUME NEW j \in 1 .. Len(pipe'),
               j \in 1 .. Len(pipe) => Current(Id(pipe[j]), pipe[j].owner)
        PROVE  Id(pipe'[j]) < nextId' /\ pending'[Id(pipe'[j])] \in {None, pipe'[j].owner}
    <3>1. CASE j \in 1 .. Len(pipe) /\ pipe'[j] = pipe[j]
      BY <1>12, <1>14, <2>2, <3>1
    <3>2. CASE pipe'[j].owner = t /\ Id(pipe'[j]) = nextId
      BY <1>13, <3>2
    <3> QED
      BY <1>5, <3>1, <3>2
  <2>3. ASSUME phase = "ready", NEW j \in 1 .. Len(pipe')
        PROVE  Id(pipe'[j]) < nextId' /\ pending'[Id(pipe'[j])] \in {None, pipe'[j].owner}
    BY <2>2, <2>3 DEF Frames
  <2>4. ASSUME phase = "resetting", NEW j \in 1 .. Len(pipe'),
               Id(pipe'[j]) = 1, Type(pipe'[j]) = RESPONSE, pipe'[j].says = "ok"
        PROVE  /\ streams' = {}
               /\ \A y \in j + 1 .. Len(pipe') :
                    Id(pipe'[y]) < nextId' /\ pending'[Id(pipe'[y])] \in {None, pipe'[y].owner}
    <3>1. j \in 1 .. Len(pipe) /\ pipe'[j] = pipe[j]
      BY <1>1, <1>5, <2>4
    <3>2. streams = {} /\ \A y \in j + 1 .. Len(pipe) : Current(Id(pipe[y]), pipe[y].owner)
      BY <2>4, <3>1 DEF Frames
    <3>3. ASSUME NEW y \in j + 1 .. Len(pipe')
          PROVE  Id(pipe'[y]) < nextId' /\ pending'[Id(pipe'[y])] \in {None, pipe'[y].owner}
      <4>1. y \in 1 .. Len(pipe') /\ (y \in 1 .. Len(pipe) => y \in j + 1 .. Len(pipe))
        BY <1>14
      <4> QED
        BY <2>2, <3>2, <4>1
    <3> QED
      BY <1>7, <2>4, <3>2, <3>3
  <2> QED
    BY <1>1, <1>2, <2>1, <2>3, <2>4 DEF Frames, Current, Id, Type
<1>16. Streams'
  <2>1. ASSUME NEW s \in streams'
        PROVE  /\ s.id # 1 /\ kind'[s.owner] \in Streaming
               /\ s.left \subseteq IF kind'[s.owner] = "energy" THEN Channels ELSE 1 .. MaxEvents
               /\ phase = "ready" =>
                    s.session = session /\ s.id < nextId' /\ pending'[s.id] \in {None, s.owner}
    <3>1. s \in Stream
      BY <1>7
    <3>2. s.owner \in Tasks /\ s.id \in Ids
      BY <3>1 DEF Stream
    <3>3. CASE s \in streams /\ s.owner # t
      BY <1>2, <1>12, <3>2, <3>3 DEF Streams
    <3>4. CASE /\ k \in Streaming /\ s.id = nextId /\ s.owner = t /\ s.session = session
               /\ s.left = IF k = "energy" THEN Channels ELSE 1 .. MaxEvents
      BY <1>1, <1>2, <1>13, <3>4
    <3> QED
      BY <1>7, <3>3, <3>4
  <2> QED
    BY <1>2, <1>7, <2>1 DEF Streams, Current
<1>17. ASSUME NEW x \in Tasks, x # t, Over(x) PROVE Over(x)'
  BY <1>5, <1>7, <1>17 DEF Over
<1>18. Endings'
  <2>1. ASSUME NEW x \in Tasks, kind'[x] \in Streaming, resp'[x] \in {"ok", "error"} \/ outcome[x] = "ok"
        PROVE  Over(x)'
    <3>1. x # t
      BY <1>1, <1>2, <2>1 DEF Stations
    <3> QED
      BY <1>2, <1>17, <2>1, <3>1 DEF Endings
  <2>2. ASSUME NEW j \in 1 .. Len(pipe'), pipe'[j].owner # None, kind'[pipe'[j].owner] \in Streaming,
               Type(pipe'[j]) = RESPONSE
        PROVE  /\ \A s \in streams' : s.owner # pipe'[j].owner
               /\ \A y \in j + 1 .. Len(pipe') : pipe'[y].owner # pipe'[j].owner
    <3>1. CASE j \in 1 .. Len(pipe) /\ pipe'[j] = pipe[j]
      <4>1. pipe[j].owner \in Tasks /\ pipe[j].owner # t
        BY <1>1, <1>2, <1>14, <2>2, <3>1 DEF Over
      <4>2. /\ \A s \in streams : s.owner # pipe[j].owner
            /\ \A y \in j + 1 .. Len(pipe) : pipe[y].owner # pipe[j].owner
        BY <1>2, <2>2, <3>1, <4>1 DEF Endings
      <4>3. \A y \in j + 1 .. Len(pipe') : y \in 1 .. Len(pipe') /\ (y \in 1 .. Len(pipe) => y \in j + 1 .. Len(pipe))
        BY <1>14
      <4> QED
        BY <1>5, <1>7, <3>1, <4>1, <4>2, <4>3
    <3>2. CASE j = Len(pipe') /\ pipe'[j].owner = t /\ UNCHANGED streams
      BY <1>1, <1>14, <3>2
    <3> QED
      BY <1>5, <3>1, <3>2
  <2> QED
    BY <1>2, <2>1, <2>2 DEF Endings, Type
<1>19. Labels'
  <2>1. ASSUME NEW x \in Tasks, kind'[x] \in Streaming, pc'[x] = "waiting", resp'[x] # "lost"
        PROVE  /\ \A s \in streams' : s.owner = x => s.id = rid'[x]
               /\ \A j \in 1 .. Len(pipe') : pipe'[j].owner = x => Id(pipe'[j]) = rid'[x]
    <3>1. CASE x = t
      <4>1. Over(t)
        BY <1>1, <1>2, <2>1, <3>1
      <4> QED
        BY <1>3, <1>5, <1>7, <3>1, <4>1 DEF Over
    <3>2. CASE x # t
      BY <1>2, <1>3, <1>5, <1>7, <2>1, <3>2 DEF Labels
    <3> QED
      BY <3>1, <3>2
  <2> QED
    BY <2>1 DEF Labels, Id
<1>20. Granted'
  <2>1. ASSUME NEW x \in Tasks, NEW j \in 1 .. Len(pipe'), Type(pipe'[j]) = RESPONSE, pipe'[j].says = "ok",
               pending'[Id(pipe'[j])] = x
        PROVE  /\ Asks(x)' \in Permits => x \in permitted' \cup early'
               /\ Asks(x)' = "SetProvisionalKey" => x \in keyed'
    <3>1. CASE j \in 1 .. Len(pipe) /\ pipe'[j] = pipe[j] /\ Id(pipe[j]) = nextId
      <4>1. x = t
        BY <1>3, <2>1, <3>1
      <4>2. phase = "resetting"
        BY <1>1, <3>1 DEF Frames, Current
      <4> QED
        BY <1>1, <1>2, <4>1, <4>2
    <3>2. CASE j \in 1 .. Len(pipe) /\ pipe'[j] = pipe[j] /\ Id(pipe[j]) # nextId
      <4>1. pending[Id(pipe[j])] = x /\ x # t
        BY <1>1, <1>3, <1>14, <2>1, <3>2, NoneAssumption
      <4> QED
        BY <1>2, <1>4, <2>1, <3>2, <4>1 DEF Granted
    <3>3. CASE /\ pipe'[j].owner = t /\ Id(pipe'[j]) = nextId
               /\ pipe'[j].says = "ok" /\ what \in Permits => t \in permitted'
               /\ pipe'[j].says = "ok" /\ what = "SetProvisionalKey" => t \in keyed'
      BY <1>2, <1>3, <2>1, <3>3
    <3> QED
      BY <1>5, <3>1, <3>2, <3>3
  <2>2. ASSUME NEW x \in Tasks, resp'[x] = "ok", Asks(x)' \in Permits PROVE x \in permitted' \cup early'
    <3>1. x # t
      BY <1>2, <2>2
    <3> QED
      BY <1>2, <1>4, <2>2, <3>1 DEF Granted
  <2> QED
    BY <2>1, <2>2 DEF Granted, Id, Type
<1>21. Keys'
  <2>1. ASSUME NEW x \in Tasks, kind'[x] = "withKey", pc'[x] = "waiting", at'[x] # 1 \/ resp'[x] = "ok"
        PROVE  x \in keyed'
    <3>1. CASE x = t
      BY <1>1, <1>2, <1>4, <2>1, <3>1
    <3>2. CASE x # t
      BY <1>1, <1>2, <1>4, <2>1, <3>2 DEF Keys
    <3> QED
      BY <3>1, <3>2
  <2>2. window'.by # None => kind'[window'.by] # None
    BY <1>1, <1>2, <1>4 DEF Keys
  <2> QED
    BY <2>1, <2>2 DEF Keys
<1>22. KeyBeforeWindow'
  <2> SUFFICES ASSUME window'.by # None, kind'[window'.by] = "withKey" PROVE window'.by \in keyed'
    BY DEF KeyBeforeWindow
  <2>1. CASE window' = window
    <3>1. window.by \in Tasks /\ kind[window.by] # None
      BY <1>4, <2>1 DEF Keys
    <3>2. kind[window.by] = "withKey"
      BY <1>1, <1>2, <2>1, <3>1
    <3> QED
      BY <1>4, <2>1, <3>2 DEF KeyBeforeWindow
  <2>2. CASE window'.by = t /\ what \in Permits
    <3>1. k = "withKey"
      BY <1>2, <2>2
    <3>2. what = "PermitDirect" /\ i = 4
      BY <1>6, <2>2, <3>1 DEF Permits, what
    <3> QED
      BY <1>1, <1>4, <2>2, <3>1, <3>2
  <2> QED
    BY <1>4, <2>1, <2>2
<1>23. \A x \in Tasks, c \in Channels :
         (Underway(x, c)' <=> Underway(x, c)) /\ (Once(x, c) => Once(x, c)')
  BY Request
<1>24. Scans'
  <2>0. readings \in [Tasks -> Readings] /\ reported \in [Tasks -> Readings]
    BY DEF TypeOK
  <2>1. ASSUME NEW x \in Tasks, kind'[x] # "energy" PROVE readings[x] = NoReadings /\ reported[x] = NoReadings
    <3>1. kind[x] # "energy"
      BY <1>1, <1>2, <2>1, NoneAssumption DEF Kinds
    <3> QED
      BY <3>1 DEF Scans
  <2>2. ASSUME NEW x \in Tasks, NEW c \in Channels, kind'[x] = "energy"
        PROVE  /\ readings[x][c] <= reported[x][c] /\ reported[x][c] <= Scanned(x)'
               /\ (pc'[x] = "waiting" /\ resp'[x] # "lost") \/ outcome[x] = "ok" =>
                    reported[x][c] = readings[x][c] + IF Underway(x, c) THEN 1 ELSE 0
               /\ \A s \in streams' : s.owner = x /\ c \in s.left =>
                    reported[x][c] < Scanned(x)' /\ ~Underway(x, c)
               /\ Once(x, c)
    <3>1. CASE x # t
      <4>1. kind[x] = "energy" /\ Scanned(x)' = Scanned(x)
        BY <1>2, <2>2, <3>1 DEF Scanned
      <4>2. \A s \in streams' : s.owner = x => s \in streams
        BY <1>7, <3>1
      <4> QED
        BY <1>2, <2>2, <3>1, <4>1, <4>2 DEF Scans
    <3>2. CASE x = t
      <4>0. k = "energy" /\ Scanned(x)' = i /\ reported[x][c] \in Nat /\ readings[x][c] \in Nat
        BY <1>2, <2>0, <2>2, <3>2, CountAssumption DEF Scanned, Readings
      <4>1. ~Underway(x, c) /\ Once(x, c)
        BY <1>1, <3>2, <4>0 DEF Over, Underway, Once, Brings, Streaming
      <4>2. reported[x][c] = readings[x][c] /\ reported[x][c] < i
        <5>1. CASE pc[t] = "idle"
          <6>1. kind[t] # "energy" /\ i >= 1
            BY <1>1, <5>1, NoneAssumption DEF Kinds
          <6> QED
            BY <1>1, <3>2, <6>1 DEF Scans, NoReadings
        <5>2. CASE pc[t] = "waiting" /\ kind[t] = k /\ i = at[t] + 1 /\ at[t] \in Nat
                   /\ (resp[t] = "ok" \/ Asks(t) \in Elsewhere)
          <6>1. resp[t] = "ok"
            BY <4>0, <5>2, Waiting DEF Streaming
          <6>2. Scanned(t) = at[t]
            BY <5>2 DEF Scanned
          <6>3. reported[x][c] <= at[t] /\ reported[x][c] = readings[x][c] + 0
            BY <3>2, <4>0, <4>1, <5>2, <6>1, <6>2 DEF Scans
          <6> QED
            BY <4>0, <5>2, <6>3
        <5> QED
          BY <1>1, <5>1, <5>2
      <4> QED
        BY <1>1, <4>0, <4>1, <4>2
    <3> QED
      BY <3>1, <3>2
  <2> QED
    BY <1>2, <1>23, <2>1, <2>2 DEF Scans
<1>25. OwnEventsOnly' /\ ScanComplete' /\ PermitTruthful'
  <2>1. outcome[t] # "ok"
    BY <1>1 DEF Stations
  <2> QED
    BY <1>2, <1>4, <2>1 DEF OwnEventsOnly, ScanComplete, PermitTruthful
<1> QED
  BY <1>8, <1>9, <1>10, <1>11, <1>15, <1>16, <1>18, <1>19, <1>20, <1>21, <1>22, <1>24, <1>25

-----------------------------------------------------------------------------
(* The specification *)

LEMMA InitInv == Init => Inv
<1> SUFFICES ASSUME Init PROVE Inv
  OBVIOUS
<1>1. /\ session = 0 /\ phase = "down" /\ nextId = 1
      /\ pending = [i \in Ids |-> None] /\ pipe = <<>> /\ Len(pipe) = 0
      /\ kind = [t \in Tasks |-> None] /\ pc = [t \in Tasks |-> "idle"] /\ at = [t \in Tasks |-> 1]
      /\ rid = [t \in Tasks |-> 0] /\ resp = [t \in Tasks |-> "none"]
      /\ readings = [t \in Tasks |-> NoReadings] /\ outcome = [t \in Tasks |-> "none"]
      /\ streams = {} /\ window = Closed /\ keyed = {}
      /\ got = [t \in Tasks |-> {}] /\ reported = [t \in Tasks |-> NoReadings]
      /\ permitted = {} /\ early = {}
  BY DEF Init
<1>2. TypeOK
  <2>1. Count \in Nat /\ MaxSessions \in Nat /\ MaxPipe \in Nat
    BY CountAssumption
  <2>2. NoReadings \in Readings
    BY <2>1 DEF NoReadings, Readings
  <2>3. Closed \in [by : Tasks \cup {None}, direct : BOOLEAN]
    BY DEF Closed
  <2>4. pipe \in Seq(Frame) /\ Len(pipe) <= MaxPipe
    BY <1>1, <2>1
  <2> QED
    BY <1>1, <2>1, <2>2, <2>3, <2>4, IdRange DEF TypeOK
<1>3. Stations /\ Entries /\ Sessions
  BY <1>1 DEF Stations, Entries, Sessions
<1>4. Frames /\ Streams
  BY <1>1 DEF Frames, Streams
<1>5. Endings /\ Labels /\ Granted
  BY <1>1 DEF Endings, Labels, Granted
<1>6. Keys /\ KeyBeforeWindow
  BY <1>1 DEF Keys, KeyBeforeWindow, Closed
<1>7. Scans
  BY <1>1, NoneAssumption DEF Scans, Kinds
<1>8. OwnEventsOnly /\ PermitTruthful /\ ScanComplete
  BY <1>1 DEF OwnEventsOnly, PermitTruthful, ScanComplete
<1> QED
  BY <1>2, <1>3, <1>4, <1>5, <1>6, <1>7, <1>8 DEF Inv

LEMMA StepKeeps ==
  ASSUME Inv, NEW t \in Tasks, Step(t)
  PROVE  Inv'
<1>1. CASE Ends(t)
  BY <1>1, EndsKeeps
<1>2. ASSUME NEW k \in Kinds, NEW i \in 1 .. Len(Script(k)), Sends(t, k, i)
      PROVE  Inv'
  BY <1>2, ElsewhereKeeps, RequestKeeps
<1> QED
  BY <1>1, <1>2, Steps

LEMMA StutterKeeps ==
  ASSUME Inv, UNCHANGED vars
  PROVE  Inv'
<1> USE DEF Inv
<1>1. UNCHANGED <<session, phase, nextId, pending, pipe, kind, pc, at, rid, resp, readings, outcome,
                  streams, window, keyed, got, reported, permitted, early>>
  BY DEF vars, host, task, device, history
<1>2. TypeOK' /\ Stations' /\ Entries' /\ Sessions' /\ Frames'
  BY <1>1 DEF TypeOK, Stations, Entries, Sessions, Frames, Current, Asks, Id, Type
<1>3. Streams' /\ Endings' /\ Labels' /\ Granted' /\ Keys'
  BY <1>1 DEF Streams, Current, Endings, Over, Labels, Granted, Keys, Asks, Id, Type
<1>4. Scans'
  BY <1>1 DEF Scans, Scanned, Underway, Once, Brings, Type
<1>5. OwnEventsOnly' /\ KeyBeforeWindow' /\ PermitTruthful' /\ ScanComplete'
  BY <1>1 DEF OwnEventsOnly, KeyBeforeWindow, PermitTruthful, ScanComplete
<1> QED
  BY <1>2, <1>3, <1>4, <1>5

LEMMA NextInv == Inv /\ [Next]_vars => Inv'
<1> SUFFICES ASSUME Inv, [Next]_vars PROVE Inv'
  OBVIOUS
<1>1. CASE Open \/ Reset
  BY <1>1, OpenKeeps, ResetKeeps
<1>2. CASE Lose \/ Reboot
  BY <1>2, GoneKeeps
<1>3. CASE Handle
  BY <1>3, HandleKeeps
<1>4. CASE WindowCloses
  BY <1>4, WindowClosesKeeps
<1>5. CASE \E t \in Tasks : Step(t)
  BY <1>5, StepKeeps
<1>6. ASSUME NEW s \in streams, NEW e \in s.left, EmitEvent(s, e) PROVE Inv'
  BY <1>6, EmitEventKeeps
<1>7. ASSUME NEW s \in streams, NEW says \in {"ok", "error"}, EndStream(s, says) PROVE Inv'
  BY <1>7, EndStreamKeeps
<1>8. CASE UNCHANGED vars
  BY <1>8, StutterKeeps
<1> QED
  BY <1>1, <1>2, <1>3, <1>4, <1>5, <1>6, <1>7, <1>8 DEF Next

\* What holds of the sessions, the pipe, the tasks and the device together.
THEOREM Invariance == Spec => []Inv
<1> QED
  BY InitInv, NextInv, PTL DEF Spec

\* Every variable keeps its type, however many tasks, channels and scans there are.
THEOREM TypeCorrect == Spec => []TypeOK
<1>1. Inv => TypeOK
  BY DEF Inv
<1> QED
  BY <1>1, Invariance, PTL

\* A task is given the items of its own stream and of no other, in any session.
THEOREM OwnEvents == Spec => []OwnEventsOnly
<1>1. Inv => OwnEventsOnly
  BY DEF Inv
<1> QED
  BY <1>1, Invariance, PTL

\* Once connect() has returned, the device is at no stream that an earlier session asked for.
THEOREM SessionStartsIdle == Spec => []StartsFromIdle
<1>1. Inv => StartsFromIdle
  BY DEF Inv, Streams, StartsFromIdle
<1> QED
  BY <1>1, Invariance, PTL

\* An energy scan that returns has every reading the device took for it, each once.
THEOREM ScanIsComplete == Spec => []ScanComplete
<1>1. Inv => ScanComplete
  BY DEF Inv
<1> QED
  BY <1>1, Invariance, PTL

\* While the window of a permit with a link key is open, the device has that key.
THEOREM KeyComesFirst == Spec => []KeyBeforeWindow
<1>1. Inv => KeyBeforeWindow
  BY DEF Inv
<1> QED
  BY <1>1, Invariance, PTL

\* A permit that returns was accepted, unless it was sent before Reset was answered.
THEOREM PermitIsTruthful == Spec => []PermitTruthful
<1>1. Inv => PermitTruthful
  BY DEF Inv
<1> QED
  BY <1>1, Invariance, PTL

===============================================================================
