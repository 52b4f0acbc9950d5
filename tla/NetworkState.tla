---------------------------- MODULE NetworkState ----------------------------
(***************************************************************************)
(* The network settings of ControllerApplication (zigbee/application.py):  *)
(* load_network_info, write_network_info, start_network, the move to       *)
(* another channel and reset_network_info, against the notifications that  *)
(* change the settings meanwhile.  The device keeps nothing when it        *)
(* reboots: zigpy's backups are its NVRAM.                                 *)
(*                                                                         *)
(* One task runs an operation at a time; an action of it is the code       *)
(* between two awaited requests.  The device acts on a request in the step *)
(* that sends it.  Its answer and its notifications come in by one FIFO    *)
(* pipe, and the task may resume later than its answer is handled.  Of the *)
(* settings the two outgoing frame counters, the unique link keys, the     *)
(* channel and the update id are kept; the rest only changes when the user *)
(* changes it.  The channels are numbered in the order of the moves.       *)
(***************************************************************************)
EXTENDS Integers, Sequences, FiniteSets

CONSTANTS
  Counters,    \* the frame counters: network_key.tx_counter, tc_link_key.tx_counter
  Devices,     \* the devices that may negotiate a unique link key
  BatchSize,   \* KEY_BATCH_SIZE
  Margin,      \* FRAME_COUNTER_RESTORE_MARGIN
  MaxCounter,  \* bound: the highest frame counter
  MaxKey,      \* bound: how often a device negotiates its key
  MaxMoves,    \* bound: the moves to another channel that are begun
  MaxPipe,     \* bound: frames on the way to the host
  None         \* no settings

ASSUME BatchSizeAssumption == BatchSize \in Nat \ {0}
ASSUME DevicesAssumption == IsFiniteSet(Devices)
ASSUME BoundsAssumption == {Margin, MaxCounter, MaxKey, MaxMoves, MaxPipe} \subseteq Nat

VARIABLES
  (* The device *)
  run,         \* "blank", "configured" or "started"
  ctr,         \* the next value of each outgoing frame counter
  keys,        \* the version of the link key of each device, 0 for none
  chan,        \* the channel
  uid,         \* nwk_update_id, which its beacons advertise
  (* The connection *)
  up,          \* it is there
  pipe,        \* what is on the way to the host
  reply,       \* the answer that is on the way, or was handled last
  snap,        \* the settings it answers with
  (* The task *)
  op,          \* the operation it runs
  pc,          \* the request it awaits
  heard,       \* the answer was handled: the task is ready to resume
  todo,        \* entries of write_network_info: the keys not yet loaded
  (* The application *)
  state,       \* self.state.network_info
  backup,      \* self.backups[-1]
  (* Observation: what happened, never read by the code *)
  used,        \* the first value of each counter that was never on air
  unseen,      \* frames sent since the last notification handled, or record
  learned,     \* the key of each device by the last notification handled
  unrecorded,  \* the device was configured with settings not yet in a backup
  ran,         \* ... and started
  overtaken,   \* a notification changed settings that a copy then replaced
  torn,        \* a write was cut short and its remains were built upon
  mixed,       \* a network was formed with those of one that moved still in state, until recorded
  outrun       \* more than Margin frames were unreported when the device rebooted

radio == <<run, ctr, keys, chan, uid>>
conn == <<up, pipe, reply, snap>>
task == <<op, pc, heard, todo>>
app == <<state, backup>>
history == <<used, unseen, learned, unrecorded, ran, overtaken, torn, mixed, outrun>>

vars == <<radio, conn, task, app, history>>

-----------------------------------------------------------------------------
(* Types *)

Readings == [Counters -> 0 .. MaxCounter]
Tables == [Devices -> 0 .. MaxKey]
Moves == 0 .. MaxMoves
Settings == [ctr : Readings, keys : Tables, chan : Moves, uid : Moves]

NoKeys == [d \in Devices |-> 0]
Zero == [c \in Counters |-> 0]
Fresh == [ctr |-> Zero, keys |-> NoKeys, chan |-> 0, uid |-> 0]   \* the settings of a network just formed

ASSUME NoneAssumption == None \notin Settings

Reply == <<"reply">>
Unasked == <<"unasked">>   \* the answer to a request that was given up
Inbound == {Reply, Unasked} \cup ({"counter"} \X Counters \X (0 .. MaxCounter))
                            \cup ({"key"} \X Devices \X (1 .. MaxKey))

Loading == {"info", "keys", "rest"}
Writing == {"configure", "keyTable", "children", "start"}
Other == {"tunable", "updateId", "channel", "shutdown"}

TypeOK ==
  /\ run \in {"blank", "configured", "started"}
  /\ ctr \in Readings /\ keys \in Tables /\ chan \in Moves /\ uid \in Moves
  /\ up \in BOOLEAN
  /\ pipe \in Seq(Inbound) /\ Len(pipe) <= MaxPipe
  /\ reply \in {"none", "ok", "refused", "notConfigured"}
  /\ snap \in Settings
  /\ op \in {"none", "load", "start", "form", "move", "reset"}
  /\ pc \in {"idle", "address"} \cup Loading \cup Writing \cup Other
  /\ heard \in BOOLEAN
  /\ todo \in Tables
  /\ state \in Settings \cup {None} /\ backup \in Settings \cup {None}
  /\ used \in Readings /\ unseen \in Readings /\ learned \in Tables
  /\ {unrecorded, ran, overtaken, torn, mixed, outrun} \subseteq BOOLEAN

-----------------------------------------------------------------------------
(* Requests *)

\* The task sends a request and awaits its answer.
Await(request, answer) ==
  /\ up
  /\ Len(pipe) < MaxPipe
  /\ pc' = request
  /\ heard' = FALSE
  /\ reply' = answer
  /\ pipe' = Append(pipe, Reply)
  /\ UNCHANGED up

\* The operation is over: it returned or raised.  An answer still on its way will find
\* nobody who awaits it.
Finish ==
  /\ op' = "none" /\ pc' = "idle" /\ heard' = FALSE /\ todo' = NoKeys
  /\ pipe' = [i \in DOMAIN pipe |-> IF pipe[i] = Reply THEN Unasked ELSE pipe[i]]
  /\ reply' = "none" /\ snap' = Fresh
  /\ UNCHANGED up

\* The task resumes with an answer to the request.
Resumes(request, answer) == pc = request /\ heard /\ reply = answer

\* What the device answers a request that it may refuse.
Answers == {"ok", "refused"}

-----------------------------------------------------------------------------
(* load_network_info *)

\* GetNetworkInfo.  A device configured and not started answers it too.
GetNetworkInfo(o) ==
  /\ pc = "idle"
  /\ op' = o
  /\ \/ run = "blank" /\ Await("info", "notConfigured") /\ UNCHANGED <<snap, torn>>
     \/ /\ run # "blank"
        /\ Await("info", "ok")
        /\ snap' = [ctr |-> ctr, keys |-> NoKeys, chan |-> chan, uid |-> uid]
        /\ torn' = (torn \/ (run = "configured" /\ unrecorded))
     \/ Await("info", "refused") /\ UNCHANGED <<snap, torn>>
  /\ UNCHANGED <<radio, todo, app, used, unseen, learned, unrecorded, ran, overtaken, mixed, outrun>>

\* Mutant: the counters of the backup are restored as they are.
RestoredExactly == backup

\* Mutant: the margin is added twice.
RestoredTwice ==
  [backup EXCEPT !.ctr = [c \in Counters |-> backup.ctr[c] + 2 * Margin]]

\* Mutant: the channel is the one the network was formed on.
RestoredUnmoved ==
  [backup EXCEPT !.ctr = [c \in Counters |-> backup.ctr[c] + Margin],
                 !.chan = 0, !.uid = 0]

\* The counters of the backup can be restored with their margin, by MaxCounter.
WithinBounds ==
  backup # None => \A c \in Counters : backup.ctr[c] + Margin <= MaxCounter

\* _get_network_settings: the backup, its counters moved past what they may trail.
Restored ==
  [backup EXCEPT !.ctr = [c \in Counters |-> backup.ctr[c] + Margin]]

\* The device takes a Configure: it drops what it had.
Configure(s) ==
  /\ run' = "configured" /\ ctr' = s.ctr /\ keys' = NoKeys
  /\ chan' = s.chan /\ uid' = s.uid
  /\ unrecorded' = TRUE

\* write_network_info, up to its first request, or to its second if it must ask
\* for the hardware address.
SendConfigure(s) ==
  /\ \/ Await("configure", "ok") /\ Configure(s)
     \/ Await("configure", "refused") /\ UNCHANGED <<radio, unrecorded>>
  /\ snap' = Fresh
  /\ UNCHANGED <<todo, op>>

\* load_network_info has the settings; start_network writes them right away.
Loaded(s) ==
  /\ state' = s
  /\ IF op = "load" THEN Finish /\ UNCHANGED <<radio, unrecorded>>
                    ELSE SendConfigure(s)
  /\ UNCHANGED <<backup, used, unseen, learned, ran, overtaken, torn, mixed, outrun>>

\* No network is running: the most recent backup is authoritative.
LoadBackup ==
  /\ Resumes("info", "notConfigured")
  /\ backup # None /\ WithinBounds
  /\ Loaded(Restored)

\* NetworkNotFormed
NoBackup ==
  /\ Resumes("info", "notConfigured")
  /\ backup = None
  /\ Finish
  /\ UNCHANGED <<radio, app, history>>

\* request_stream(ScanKeyTable), as the device is when it gets it
ScanKeyTable ==
  /\ Resumes("info", "ok")
  /\ \/ Await("keys", "ok") /\ snap' = [snap EXCEPT !.keys = keys]
     \/ Await("keys", "refused") /\ UNCHANGED snap
  /\ UNCHANGED <<radio, op, todo, app, history>>

\* The scans of children, addresses and routes
ScanRest ==
  /\ Resumes("keys", "ok")
  /\ \E a \in Answers : Await("rest", a)
  /\ UNCHANGED <<radio, snap, op, todo, app, history>>

LoadScanned == Resumes("rest", "ok") /\ Loaded(snap)

-----------------------------------------------------------------------------
(* write_network_info *)

\* zigpy forms a network where it found none: GetHwAddress comes first.
FormNetwork ==
  /\ pc = "idle" /\ backup = None /\ run = "blank"
  /\ op' = "form"
  /\ \E a \in Answers : Await("address", a)
  /\ UNCHANGED <<radio, snap, todo, app, history>>

\* The network is a new one, with counters and keys of its own.
FormConfigure ==
  /\ Resumes("address", "ok")
  /\ SendConfigure(Fresh)
  /\ IF reply' = "ok"
     THEN used' = Zero /\ unseen' = Zero /\ learned' = NoKeys /\ mixed' = (state # None /\ state.chan > 0)
     ELSE UNCHANGED <<used, unseen, learned, mixed>>
  /\ UNCHANGED <<app, ran, overtaken, torn, outrun>>

\* The argument network_info: start_network passes self.state.network_info itself,
\* so that what notifications change there is written too.
Written == IF op = "form" THEN Fresh ELSE state

\* The batches that may be next of the keys t.
Batches(t) ==
  LET left == {d \in Devices : t[d] # 0} IN
  {b \in SUBSET left : \/ Cardinality(b) = BatchSize
                       \/ b = left /\ b # {} /\ Cardinality(b) < BatchSize}

\* Mutant: the loop ends one batch early.
LoadAllButLast(t) ==
  \/ \E b \in Batches(t) :
       /\ Cardinality({d \in Devices : t[d] # 0}) > BatchSize
       /\ Await("keyTable", "ok")
       /\ keys' = [d \in Devices |-> IF d \in b THEN t[d] ELSE keys[d]]
       /\ todo' = [d \in Devices |-> IF d \in b THEN 0 ELSE t[d]]
  \/ /\ Cardinality({d \in Devices : t[d] # 0}) <= BatchSize
     /\ Await("children", "ok")
     /\ todo' = NoKeys
     /\ UNCHANGED keys

\* LoadKeyTable, for each batch; then the same for the children.
LoadNext(t) ==
  \/ \E b \in Batches(t) :
       \/ /\ Await("keyTable", "ok")
          /\ keys' = [d \in Devices |-> IF d \in b THEN t[d] ELSE keys[d]]
          /\ todo' = [d \in Devices |-> IF d \in b THEN 0 ELSE t[d]]
       \/ Await("keyTable", "refused") /\ UNCHANGED keys /\ todo' = NoKeys
  \/ /\ Batches(t) = {}
     /\ \E a \in Answers : Await("children", a)
     /\ todo' = NoKeys
     /\ UNCHANGED keys

LoadKeyTable ==
  /\ \/ Resumes("configure", "ok") /\ LoadNext(Written.keys)
     \/ Resumes("keyTable", "ok") /\ LoadNext(todo)
  /\ UNCHANGED <<run, ctr, chan, uid, snap, op, app, history>>

StartNetwork ==
  /\ Resumes("children", "ok")
  /\ \/ Await("start", "ok") /\ run' = "started" /\ ran' = TRUE
     \/ Await("start", "refused") /\ UNCHANGED <<run, ran>>
  /\ UNCHANGED <<ctr, keys, chan, uid, snap, op, todo, app>>
  /\ UNCHANGED <<used, unseen, learned, unrecorded, overtaken, torn, mixed, outrun>>

\* The network runs: the settings become the state and the latest backup.
\* start_network goes on with the tunables of its configuration.
Record ==
  /\ Resumes("start", "ok")
  /\ state' = Written /\ backup' = Written
  /\ unrecorded' = FALSE /\ ran' = FALSE /\ mixed' = FALSE
  /\ unseen' = [c \in Counters |-> IF ctr[c] > Written.ctr[c] THEN ctr[c] - Written.ctr[c] ELSE 0]
  /\ \/ Finish
     \/ /\ op = "start"
        /\ \E a \in Answers : Await("tunable", a)
        /\ UNCHANGED <<snap, op, todo>>
  /\ UNCHANGED <<radio, used, learned, overtaken, torn, outrun>>

\* set_tunable, the next one if there is another
SetTunable ==
  /\ Resumes("tunable", "ok")
  /\ Finish \/ \E a \in Answers : Await("tunable", a) /\ UNCHANGED <<snap, op, todo>>
  /\ UNCHANGED <<radio, app, history>>

-----------------------------------------------------------------------------
(* _move_network_to_channel *)

\* The device takes a new channel or update id while its network runs.
Retune(c, u) ==
  /\ chan' = c /\ uid' = u
  /\ UNCHANGED <<run, ctr, keys>>

\* Mutant: the channel goes first, ...
SetChannelFirst ==
  /\ pc = "idle" /\ state # None /\ state.uid < MaxMoves
  /\ op' = "move"
  /\ \/ run = "started" /\ Await("updateId", "ok") /\ Retune(state.chan + 1, uid)
     \/ Await("updateId", "refused") /\ UNCHANGED radio
  /\ UNCHANGED <<snap, todo, app, history>>

\* zigpy moves the network on from the channel it knows, with the update id after
\* the one it knows: SetNwkUpdateId comes first.
SetNwkUpdateId ==
  /\ pc = "idle" /\ state # None /\ state.uid < MaxMoves
  /\ op' = "move"
  /\ \/ run = "started" /\ Await("updateId", "ok") /\ Retune(chan, state.uid + 1)
     \/ Await("updateId", "refused") /\ UNCHANGED radio
  /\ UNCHANGED <<snap, todo, app, history>>

\* Then SetChannel.  zigpy loads the settings again until they show the channel.
SetChannel ==
  /\ Resumes("updateId", "ok")
  /\ \/ run = "started" /\ Await("channel", "ok") /\ Retune(state.chan + 1, uid)
     \/ Await("channel", "refused") /\ UNCHANGED radio
  /\ UNCHANGED <<snap, op, todo, app, history>>

MoveDone ==
  /\ Resumes("channel", "ok")
  /\ Finish
  /\ UNCHANGED <<radio, app, history>>

-----------------------------------------------------------------------------
(* reset_network_info *)

\* The device forgets its network: what it had not reported is lost.
Forget ==
  /\ run # "blank"
  /\ WithinBounds
  /\ run' = "blank" /\ ctr' = Zero /\ keys' = NoKeys /\ chan' = 0 /\ uid' = 0
  /\ outrun' = (outrun \/ \E c \in Counters : unseen[c] > Margin)
  /\ torn' = (torn \/ ran)
  /\ unrecorded' = FALSE /\ ran' = FALSE
  /\ UNCHANGED <<used, unseen, learned, overtaken, mixed>>

Shutdown ==
  /\ pc = "idle"
  /\ op' = "reset"
  /\ \/ Await("shutdown", "ok") /\ Forget
     \/ Await("shutdown", "refused") /\ UNCHANGED <<radio, history>>
  /\ UNCHANGED <<snap, todo, app>>

ShutdownDone ==
  /\ Resumes("shutdown", "ok")
  /\ Finish
  /\ UNCHANGED <<radio, app, history>>

-----------------------------------------------------------------------------
(* Failure *)

\* A refused request raises out of the operation.
Refused ==
  /\ heard /\ reply = "refused"
  /\ Finish
  /\ UNCHANGED <<radio, app, history>>

\* The operation is cancelled at its await.
Cancelled ==
  /\ pc # "idle"
  /\ Finish
  /\ UNCHANGED <<radio, app, history>>

\* The connection is gone, with what was on the way and with the operation; the
\* application object may be gone too.
Drop(restart) ==
  /\ up' = FALSE /\ pipe' = <<>>
  /\ op' = "none" /\ pc' = "idle" /\ heard' = FALSE /\ todo' = NoKeys
  /\ reply' = "none" /\ snap' = Fresh
  /\ state' = IF restart THEN None ELSE state
  /\ UNCHANGED backup

ConnectionLost(restart) ==
  /\ up
  /\ Drop(restart)
  /\ UNCHANGED <<radio, history>>

Reconnect ==
  /\ ~up
  /\ up' = TRUE
  /\ UNCHANGED <<radio, pipe, reply, snap, task, app, history>>

\* The device reboots and has forgotten everything.
Reboot(restart) ==
  /\ Forget
  /\ Drop(restart)

-----------------------------------------------------------------------------
(* The running network *)

\* Copies of settings that will replace the state, or are already the device's.
Copied(what) ==
  \/ what = "counter" /\ pc \in Loading
  \/ what = "key" /\ pc \in {"keys", "rest"}
  \/ op = "form" /\ pc = "start"

Notify(f) == IF up THEN Append(pipe, f) ELSE pipe

\* The device sends frames under a counter, and may report it.
Transmit(c, reports) ==
  /\ run = "started"
  /\ ctr[c] < MaxCounter /\ unseen[c] < MaxCounter
  /\ ctr' = [ctr EXCEPT ![c] = @ + 1]
  /\ used' = [used EXCEPT ![c] = IF ctr[c] >= @ THEN ctr[c] + 1 ELSE @]
  /\ unseen' = [unseen EXCEPT ![c] = @ + 1]
  /\ Len(pipe) < MaxPipe
  /\ pipe' = IF reports THEN Notify(<<"counter", c, ctr[c] + 1>>) ELSE pipe
  /\ overtaken' = (overtaken \/ Copied("counter"))
  /\ UNCHANGED <<run, keys, chan, uid, up, reply, snap, task, app>>
  /\ UNCHANGED <<learned, unrecorded, ran, torn, mixed, outrun>>

\* A device negotiates its link key, again if it has one.
IssueKey(d) ==
  /\ run = "started"
  /\ keys[d] < MaxKey
  /\ keys' = [keys EXCEPT ![d] = @ + 1]
  /\ Len(pipe) < MaxPipe
  /\ pipe' = Notify(<<"key", d, keys[d] + 1>>)
  /\ overtaken' = (overtaken \/ Copied("key"))
  /\ UNCHANGED <<run, ctr, chan, uid, up, reply, snap, task, app>>
  /\ UNCHANGED <<used, unseen, learned, unrecorded, ran, torn, mixed, outrun>>

-----------------------------------------------------------------------------
(* on_notification *)

\* The settings change in place and are recorded; blank ones, of an application
\* that has loaded none, make no complete backup.
Change(s) ==
  IF state = None THEN UNCHANGED app ELSE state' = s /\ backup' = s

\* FrameCounter or ApsFrameCounter
HandleCounter(c, v) ==
  /\ Change([state EXCEPT !.ctr[c] = v])
  /\ unseen' = IF state = None THEN unseen
               ELSE [unseen EXCEPT ![c] = IF ctr[c] > v THEN ctr[c] - v ELSE 0]
  /\ UNCHANGED learned

\* LinkKey: it replaces the entry of its device.
HandleLinkKey(d, v) ==
  /\ Change([state EXCEPT !.keys[d] = v])
  /\ learned' = IF state = None THEN learned ELSE [learned EXCEPT ![d] = v]
  /\ UNCHANGED unseen

\* The host handles the next frame.
Handle ==
  /\ pipe # <<>>
  /\ pipe' = Tail(pipe)
  /\ \/ /\ Head(pipe) = Reply
        /\ heard' = TRUE
        /\ UNCHANGED <<app, unseen, learned>>
     \/ Head(pipe) = Unasked /\ UNCHANGED <<heard, app, unseen, learned>>
     \/ /\ Head(pipe)[1] = "counter"
        /\ HandleCounter(Head(pipe)[2], Head(pipe)[3])
        /\ UNCHANGED heard
     \/ /\ Head(pipe)[1] = "key"
        /\ HandleLinkKey(Head(pipe)[2], Head(pipe)[3])
        /\ UNCHANGED heard
  /\ UNCHANGED <<radio, up, reply, snap, op, pc, todo, used>>
  /\ UNCHANGED <<unrecorded, ran, overtaken, torn, mixed, outrun>>

-----------------------------------------------------------------------------

Init ==
  /\ run = "blank" /\ ctr = Zero /\ keys = NoKeys /\ chan = 0 /\ uid = 0
  /\ up = TRUE /\ pipe = <<>> /\ reply = "none" /\ snap = Fresh
  /\ op = "none" /\ pc = "idle" /\ heard = FALSE /\ todo = NoKeys
  /\ state = None /\ backup = None
  /\ used = Zero /\ unseen = Zero /\ learned = NoKeys
  /\ unrecorded = FALSE /\ ran = FALSE /\ overtaken = FALSE /\ torn = FALSE /\ mixed = FALSE /\ outrun = FALSE

LoadNetworkInfo ==
  \/ \E o \in {"load", "start"} : GetNetworkInfo(o)
  \/ LoadBackup \/ NoBackup \/ ScanKeyTable \/ ScanRest \/ LoadScanned

WriteNetworkInfo ==
  \/ FormNetwork \/ FormConfigure \/ LoadKeyTable \/ StartNetwork \/ Record \/ SetTunable

MoveNetwork == SetNwkUpdateId \/ SetChannel \/ MoveDone

ResetNetworkInfo == Shutdown \/ ShutdownDone

Next ==
  \/ LoadNetworkInfo \/ WriteNetworkInfo \/ MoveNetwork \/ ResetNetworkInfo
  \/ Refused \/ Cancelled \/ Handle \/ Reconnect
  \/ \E restart \in BOOLEAN : ConnectionLost(restart) \/ Reboot(restart)
  \/ \E c \in Counters, reports \in BOOLEAN : Transmit(c, reports)
  \/ \E d \in Devices : IssueKey(d)

Spec == Init /\ [][Next]_vars

-----------------------------------------------------------------------------
(* Properties *)

\* While it runs the network uses no value of an outgoing frame counter twice,
\* however often it is stopped, loaded, restored and started.
\* (_get_network_settings 290-309, write_network_info 479-540, on_notification 714-729.)
CountersFresh ==
  ~overtaken /\ ~torn /\ ~outrun =>
    (run = "started" => \A c \in Counters : ctr[c] >= used[c])

\* A link key the application learned of is in its backup and, when the network
\* runs, in the device: only a newer one replaces it.
\* (load_network_info 211-222, write_network_info 509-527, on_notification 753-770.)
KeysSurvive ==
  ~overtaken /\ ~torn =>
    \A d \in Devices :
      /\ learned[d] # 0 => backup # None /\ backup.keys[d] >= learned[d]
      /\ run = "started" => keys[d] >= learned[d]

\* What beacons on a channel advertise, now or after any restore, is never the
\* network instance of an earlier channel: the update id is never behind.
\* (_move_network_to_channel 329-339: "The update id goes first".)
BeaconsCurrent ==
  /\ run # "blank" => chan <= uid
  /\ \A s \in {state, backup} \ {None} : s.chan <= s.uid

\* A move that a backup recorded is not undone: later backups have it and the
\* network never runs on an earlier channel, whatever is stopped, torn or restored;
\* a network formed with the settings of another still loaded counts once recorded.
\* (load_network_info 254-283, _get_network_settings 290-309, write_network_info 479-545,
\* on_notification 714-770.)
ChannelKept ==
  [][backup # None /\ ~mixed /\ ~mixed' =>
       /\ backup'.chan >= backup.chan
       /\ run' = "started" => chan' >= backup.chan]_vars

\* application.py:296-298 "The backup's counters trail the radio's true counters by
\* however many frames were sent after the last counter notification: jump both
\* past that gap so a restart never rolls back the NWK or APS outgoing frame counter."
RestartNeverRollsBack ==
  ~overtaken /\ ~outrun =>
    (run = "started" => \A c \in Counters : ctr[c] >= used[c])

\* application.py:533-535 "zigpy's backup database is the network's NVRAM": a key the
\* application was notified of stays in it, unless a torn write was built upon.
KeysRecorded ==
  ~torn => \A d \in Devices : learned[d] # 0 => backup.keys[d] >= learned[d]
=============================================================================
