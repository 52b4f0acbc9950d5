-------------------------- MODULE NetworkStateProofs --------------------------
(***************************************************************************)
(* What holds of NetworkState for any counters, devices and bounds.        *)
(***************************************************************************)
EXTENDS NetworkState, FiniteSetTheorems, TLAPS

-----------------------------------------------------------------------------
(* The operation and what it awaits *)

\* The device accepted to be read, or to be written.
Reads == pc \in {"keys", "rest"} \/ (pc = "info" /\ reply = "ok")
Writes == pc \in Writing /\ (pc = "configure" => reply = "ok")

Control ==
  /\ op = "none" <=> pc = "idle"
  /\ pc \in Loading => op \in {"load", "start"}
  /\ pc \in Writing => op \in {"start", "form"}
  /\ pc = "address" => op = "form" /\ run = "blank"
  /\ pc \in {"updateId", "channel"} => op = "move"
  /\ op = "start" /\ pc \in Writing => state # None
  /\ op = "form" /\ backup # None => state = backup

\* What the answer tells of the device.
Answered ==
  /\ pc = "info" /\ reply = "notConfigured" => run = "blank"
  /\ pc \in {"keys", "rest", "address"} => reply \in {"ok", "refused"}
  /\ Reads => run # "blank" /\ (~torn => run = "started")
  /\ Writes /\ pc # "start" => run = "configured"
  /\ pc = "start" => IF reply = "ok" THEN run = "started" ELSE run = "configured"
  /\ run = "configured" => unrecorded
  /\ run = "blank" => ~ran /\ chan = 0 /\ uid = 0 /\ ctr = Zero

-----------------------------------------------------------------------------
(* The channel *)

Channels ==
  /\ BeaconsCurrent
  /\ snap.chan <= snap.uid
  /\ Reads => snap.chan = chan /\ snap.uid = uid
  /\ Writes => chan = Written.chan
  /\ pc = "updateId" /\ reply = "ok" =>
       run = "started" /\ state # None /\ uid = state.uid + 1
  /\ pc = "updateId" => state # None /\ state.uid < MaxMoves
  /\ state # None => chan <= state.uid + 1
  /\ ~mixed =>
       /\ backup # None /\ state # None => state.chan >= backup.chan
       /\ backup # None /\ run # "blank" => chan >= backup.chan
       /\ state # None /\ run # "blank" => chan >= state.chan

-----------------------------------------------------------------------------
(* The pipe *)

Notification == {"counter", "key"}

\* Every notification of the kind is handled before the task resumes.
Settled(kind) ==
  \A i \in 1 .. Len(pipe) : pipe[i][1] = kind =>
    \E j \in i + 1 .. Len(pipe) : pipe[j] = Reply

Silent == \A i \in 1 .. Len(pipe) : pipe[i][1] \notin Notification

Flow ==
  /\ \A i, j \in 1 .. Len(pipe) : pipe[i] = Reply /\ pipe[j] = Reply => i = j
  /\ pc = "idle" \/ heard => \A i \in 1 .. Len(pipe) : pipe[i] # Reply
  /\ pc = "idle" => ~heard
  /\ run = "blank" /\ pc # "idle" => Settled("counter") /\ Settled("key")
  /\ ~overtaken /\ pc \in Loading => Settled("counter")
  /\ ~overtaken /\ pc \in {"keys", "rest"} => Settled("key")
  /\ ~overtaken /\ ~torn /\ (run = "configured" \/ (op = "form" /\ pc = "start")) => Silent

-----------------------------------------------------------------------------
(* The link keys *)

Loads(t) ==
  \A d \in Devices : \/ t[d] = 0 /\ keys[d] = Written.keys[d]
                     \/ t[d] = Written.keys[d] /\ keys[d] = 0

KeysHeld ==
  /\ \A d \in Devices : learned[d] # 0 => backup # None /\ backup.keys[d] >= learned[d]
  /\ run = "started" => \A d \in Devices : keys[d] >= learned[d]
  /\ state # None => \A d \in Devices : state.keys[d] >= learned[d]
  /\ run = "started" => \A i \in 1 .. Len(pipe) :
       pipe[i][1] = "key" => pipe[i][3] <= keys[pipe[i][2]]

KeysCopied ==
  /\ pc = "rest" \/ (pc = "keys" /\ reply = "ok") => snap.keys = keys
  /\ pc = "configure" /\ reply = "ok" => keys = NoKeys
  /\ pc = "keyTable" /\ reply = "ok" => Loads(todo)
  /\ pc = "children" \/ (pc = "start" /\ reply # "ok") => keys = Written.keys
  /\ op = "form" /\ Writes => learned = NoKeys

KeysKept == ~overtaken /\ ~torn => KeysHeld /\ KeysCopied

-----------------------------------------------------------------------------
(* The frame counters *)

Reported(i, c) == pipe[i][1] = "counter" /\ pipe[i][2] = c

\* Adding to v what may be unreported covers what was used.
Covers(v, c) ==
  CASE run = "started"    -> v + unseen[c] >= ctr[c]
    [] run = "configured" -> v + unseen[c] >= used[c] \/ v + Margin >= used[c]
    [] run = "blank"      -> v + Margin >= used[c]

\* The counter is past what was used; a reset lost at most Margin frames.
CounterAhead(c) ==
  /\ run # "blank" => ctr[c] >= used[c]
  /\ run = "blank" => unseen[c] <= Margin
  /\ Reads => snap.ctr[c] = ctr[c]

\* The notifications of a counter are of used values, in their order.
InOrder(c) ==
  /\ \A i \in 1 .. Len(pipe) : Reported(i, c) => pipe[i][3] <= used[c]
  /\ \A i, j \in 1 .. Len(pipe) :
       i < j /\ Reported(i, c) /\ Reported(j, c) => pipe[i][3] <= pipe[j][3]

\* What the application has, or is about to have, covers what was used.
Covered(c) ==
  ~ran =>
    /\ state # None => Covers(state.ctr[c], c)
    /\ backup # None => Covers(backup.ctr[c], c)
    /\ \A i \in 1 .. Len(pipe) : Reported(i, c) => Covers(pipe[i][3], c)

\* The settings that are written do not run ahead of the device.
NotAhead(c) ==
  op = "start" /\ Writes =>
    /\ state.ctr[c] <= ctr[c]
    /\ \A i \in 1 .. Len(pipe) : Reported(i, c) => pipe[i][3] >= state.ctr[c]

CountersKept ==
  ~overtaken /\ ~torn /\ ~outrun =>
    \A c \in Counters : CounterAhead(c) /\ InOrder(c) /\ Covered(c) /\ NotAhead(c)

Inv == TypeOK /\ Control /\ Answered /\ Channels /\ Flow /\ KeysKept /\ CountersKept

-----------------------------------------------------------------------------
(* The operators *)

\* What a frame carries.
LEMMA Frames ==
  ASSUME NEW f \in Inbound
  PROVE  /\ f[1] = "counter" => f[2] \in Counters /\ f[3] \in 0 .. MaxCounter
         /\ f[1] = "key" => f[2] \in Devices /\ f[3] \in 1 .. MaxKey
         /\ f = Reply \/ f = Unasked => f[1] \notin Notification
BY DEF Inbound, Reply, Unasked, Notification

\* An awaited answer comes last.
LEMMA AwaitPipe ==
  ASSUME TypeOK, NEW r, NEW a, Await(r, a)
  PROVE  /\ pipe' \in Seq(Inbound) /\ Len(pipe') <= MaxPipe
         /\ Len(pipe) \in Nat /\ Len(pipe') = Len(pipe) + 1
         /\ \A i \in 1 .. Len(pipe) : pipe'[i] = pipe[i] /\ pipe[i] \in Inbound
         /\ pipe'[Len(pipe) + 1] = Reply
BY BoundsAssumption DEF TypeOK, Await, Inbound

\* When the operation is over only its answer has lost its meaning.
LEMMA FinishPipe ==
  ASSUME TypeOK, Finish
  PROVE  /\ pipe' \in Seq(Inbound) /\ Len(pipe') = Len(pipe) /\ Len(pipe) \in Nat
         /\ \A i \in 1 .. Len(pipe) : /\ pipe'[i] # Reply /\ pipe[i] \in Inbound
                                      /\ pipe'[i] = pipe[i] \/ pipe'[i] = Unasked
                                      /\ pipe'[i][1] \in Notification => pipe'[i] = pipe[i]
<1>1. pipe \in Seq(Inbound) /\ Unasked \in Inbound /\ Reply # Unasked
  BY DEF TypeOK, Inbound, Reply, Unasked
<1>2. pipe' = [i \in 1 .. Len(pipe) |-> IF pipe[i] = Reply THEN Unasked ELSE pipe[i]]
  BY <1>1 DEF Finish
<1>3. Unasked[1] \notin Notification
  BY DEF Unasked, Notification
<1> QED
  BY <1>1, <1>2, <1>3

\* The frame that is handled is the first.
LEMMA TailPipe ==
  ASSUME TypeOK, pipe # <<>>, pipe' = Tail(pipe)
  PROVE  /\ pipe' \in Seq(Inbound) /\ Len(pipe) \in Nat \ {0}
         /\ Len(pipe') = Len(pipe) - 1 /\ Len(pipe') <= MaxPipe
         /\ \A i \in 1 .. Len(pipe') : pipe'[i] = pipe[i + 1] /\ pipe[i + 1] \in Inbound
         /\ Head(pipe) = pipe[1] /\ pipe[1] \in Inbound
BY BoundsAssumption DEF TypeOK

\* A frame the device sends comes last.
LEMMA NotifyPipe ==
  ASSUME TypeOK, NEW f \in Inbound, Len(pipe) < MaxPipe, pipe' = Append(pipe, f)
  PROVE  /\ pipe' \in Seq(Inbound) /\ Len(pipe') <= MaxPipe
         /\ Len(pipe) \in Nat /\ Len(pipe') = Len(pipe) + 1
         /\ \A i \in 1 .. Len(pipe) : pipe'[i] = pipe[i] /\ pipe[i] \in Inbound
         /\ pipe'[Len(pipe) + 1] = f
BY BoundsAssumption DEF TypeOK

\* A notification changes one entry of the settings.
LEMMA CounterChange ==
  ASSUME NEW s \in Settings, NEW c \in Counters, NEW v \in 0 .. MaxCounter
  PROVE  LET t == [s EXCEPT !.ctr[c] = v] IN
         /\ t \in Settings /\ t.keys = s.keys /\ t.chan = s.chan /\ t.uid = s.uid
         /\ t.ctr = [s.ctr EXCEPT ![c] = v]
BY DEF Settings, Readings

LEMMA KeyChange ==
  ASSUME NEW s \in Settings, NEW d \in Devices, NEW v \in 1 .. MaxKey
  PROVE  LET t == [s EXCEPT !.keys[d] = v] IN
         /\ t \in Settings /\ t.ctr = s.ctr /\ t.chan = s.chan /\ t.uid = s.uid
         /\ t.keys = [s.keys EXCEPT ![d] = v]
BY DEF Settings, Tables

\* A restored backup has its counters past the margin; the rest is as it was.
LEMMA RestoredBackup ==
  ASSUME TypeOK, backup # None, WithinBounds
  PROVE  /\ Restored \in Settings /\ backup \in Settings
         /\ Restored.keys = backup.keys /\ Restored.chan = backup.chan /\ Restored.uid = backup.uid
         /\ \A c \in Counters : Restored.ctr[c] = backup.ctr[c] + Margin
<1>1. backup \in Settings /\ backup.ctr \in Readings /\ Margin \in Nat
  BY BoundsAssumption DEF TypeOK, Settings
<1>2. \A c \in Counters : backup.ctr[c] + Margin \in 0 .. MaxCounter
  BY <1>1, BoundsAssumption DEF WithinBounds, Readings
<1> QED
  BY <1>1, <1>2 DEF Restored, Settings, Readings

\* The settings of a new network.
LEMMA FreshSettings ==
  /\ Fresh \in Settings /\ Fresh.ctr = Zero /\ Fresh.keys = NoKeys /\ Fresh.chan = 0 /\ Fresh.uid = 0
  /\ Zero \in Readings /\ NoKeys \in Tables
BY BoundsAssumption DEF Fresh, Settings, Zero, NoKeys, Readings, Tables, Moves

-----------------------------------------------------------------------------
(* The steps *)

\* The operation ends with nothing changed but itself.
Ends == pc # "idle" /\ Finish /\ UNCHANGED <<radio, app, history>>

\* The operation goes on with nothing changed but what it awaits.
Continues ==
  /\ \/ Resumes("keys", "ok") /\ (\E a \in Answers : Await("rest", a))
     \/ Resumes("tunable", "ok") /\ (\E a \in Answers : Await("tunable", a))
  /\ UNCHANGED <<snap, op, todo, radio, app, history>>

Moving == SetNwkUpdateId \/ SetChannel

LEMMA Steps ==
  ASSUME Inv, Next
  PROVE  \/ Ends \/ Continues
         \/ \E o \in {"load", "start"} : GetNetworkInfo(o)
         \/ LoadBackup \/ ScanKeyTable \/ LoadScanned
         \/ FormNetwork \/ FormConfigure \/ LoadKeyTable \/ StartNetwork \/ Record
         \/ Moving \/ Shutdown \/ Handle \/ Reconnect
         \/ \E restart \in BOOLEAN : ConnectionLost(restart)
         \/ \E restart \in BOOLEAN : Reboot(restart)
         \/ \E c \in Counters, reports \in BOOLEAN : Transmit(c, reports)
         \/ \E d \in Devices : IssueKey(d)
<1>1. NoBackup => Ends
  BY DEF NoBackup, Ends, Resumes
<1>2. MoveDone => Ends
  BY DEF MoveDone, Ends, Resumes
<1>3. ShutdownDone => Ends
  BY DEF ShutdownDone, Ends, Resumes
<1>4. Refused => Ends
  BY DEF Refused, Ends, Inv, Flow
<1>5. Cancelled => Ends
  BY DEF Cancelled, Ends
<1>6. SetTunable => Ends \/ Continues
  BY DEF SetTunable, Ends, Continues, Resumes
<1>7. ScanRest => Continues
  BY DEF ScanRest, Continues
<1> QED
  BY <1>1, <1>2, <1>3, <1>4, <1>5, <1>6, <1>7
  DEF Next, LoadNetworkInfo, WriteNetworkInfo, MoveNetwork, ResetNetworkInfo, Moving

LEMMA TypeKept ==
  ASSUME Inv, Next
  PROVE  TypeOK'
<1> USE BoundsAssumption, FreshSettings DEF Answers
<1>0. TypeOK
  BY DEF Inv
<1>1. CASE Ends
  BY <1>0, <1>1, FinishPipe DEF TypeOK, Ends, Finish, radio, app, history
<1>2. CASE Continues
  BY <1>0, <1>2, AwaitPipe DEF TypeOK, Continues, Await, radio, app, history, Loading, Other
<1>3. ASSUME NEW o \in {"load", "start"}, GetNetworkInfo(o) PROVE TypeOK'
  <2>1. [ctr |-> ctr, keys |-> NoKeys, chan |-> chan, uid |-> uid] \in Settings
    BY <1>0 DEF TypeOK, Settings
  <2>2. PICK a \in {"ok", "refused", "notConfigured"} : Await("info", a)
    BY <1>3 DEF GetNetworkInfo
  <2>3. snap' \in Settings /\ torn' \in BOOLEAN
    BY <1>0, <1>3, <2>1 DEF GetNetworkInfo, TypeOK
  <2> QED
    BY <1>0, <1>3, <2>2, <2>3, AwaitPipe DEF GetNetworkInfo, Await, TypeOK, Loading, radio, app
<1>4. ASSUME NEW s \in Settings, Loaded(s) PROVE TypeOK'
  <2>1. CASE op = "load"
    BY <1>0, <1>4, <2>1, FinishPipe DEF Loaded, TypeOK, Finish, radio
  <2>2. CASE op # "load"
    <3>1. PICK a \in Answers : Await("configure", a)
      BY <1>4, <2>2 DEF Loaded, SendConfigure
    <3>2. run' \in {"blank", "configured", "started"} /\ ctr' \in Readings /\ keys' \in Tables
          /\ chan' \in Moves /\ uid' \in Moves /\ unrecorded' \in BOOLEAN
      BY <1>0, <1>4, <2>2 DEF Loaded, SendConfigure, Configure, TypeOK, Settings, radio
    <3> QED
      BY <1>0, <1>4, <2>2, <3>1, <3>2, AwaitPipe DEF Loaded, SendConfigure, Await, TypeOK, Writing
  <2> QED
    BY <2>1, <2>2
<1>5. CASE LoadBackup
  BY <1>0, <1>4, <1>5, RestoredBackup DEF LoadBackup
<1>6. CASE ScanKeyTable
  <2>1. PICK a \in Answers : Await("keys", a)
    BY <1>6 DEF ScanKeyTable
  <2>2. snap' \in Settings
    BY <1>0, <1>6 DEF ScanKeyTable, TypeOK, Settings
  <2> QED
    BY <1>0, <1>6, <2>1, <2>2, AwaitPipe
    DEF ScanKeyTable, Await, TypeOK, radio, app, history, Loading
<1>7. CASE LoadScanned
  BY <1>0, <1>4, <1>7 DEF LoadScanned, TypeOK
<1>8. CASE FormNetwork
  BY <1>0, <1>8, AwaitPipe DEF FormNetwork, Await, TypeOK, radio, app, history
<1>9. CASE FormConfigure
  <2>1. PICK a \in Answers : Await("configure", a)
    BY <1>9 DEF FormConfigure, SendConfigure
  <2>2. run' \in {"blank", "configured", "started"} /\ ctr' \in Readings /\ keys' \in Tables
        /\ chan' \in Moves /\ uid' \in Moves /\ unrecorded' \in BOOLEAN
    BY <1>0, <1>9 DEF FormConfigure, SendConfigure, Configure, TypeOK, Settings, radio
  <2>3. used' \in Readings /\ unseen' \in Readings /\ learned' \in Tables /\ mixed' \in BOOLEAN
    BY <1>0, <1>9 DEF FormConfigure, TypeOK
  <2> QED
    BY <1>0, <1>9, <2>1, <2>2, <2>3, AwaitPipe
    DEF FormConfigure, SendConfigure, Await, TypeOK, Writing, app
<1>10. CASE LoadKeyTable
  <2>1. PICK t \in Tables : LoadNext(t)
    BY <1>0, <1>10 DEF LoadKeyTable, Written, TypeOK, Settings, Control, Resumes, Writing, Inv
  <2>2. PICK r \in Writing, a \in Answers : Await(r, a)
    BY <2>1 DEF LoadNext, Writing
  <2>3. keys' \in Tables /\ todo' \in Tables
    BY <1>0, <2>1 DEF LoadNext, TypeOK, Tables, NoKeys
  <2> QED
    BY <1>0, <1>10, <2>2, <2>3, AwaitPipe DEF LoadKeyTable, Await, TypeOK, app, history
<1>11. CASE StartNetwork
  <2>1. PICK a \in Answers : Await("start", a)
    BY <1>11 DEF StartNetwork
  <2> QED
    BY <1>0, <1>11, <2>1, AwaitPipe DEF StartNetwork, Await, TypeOK, Writing, app
<1>12. CASE Record
  <2>1. Written \in Settings
    BY <1>0, <1>12 DEF Record, Resumes, Written, TypeOK, Control, Writing, Inv
  <2>2. unseen' \in Readings
    BY <1>0, <1>12, <2>1 DEF Record, TypeOK, Settings, Readings
  <2>3. CASE Finish
    BY <1>0, <1>12, <2>1, <2>2, <2>3, FinishPipe DEF Record, Finish, TypeOK, radio
  <2>4. CASE \E a \in Answers : Await("tunable", a) /\ UNCHANGED <<snap, op, todo>>
    BY <1>0, <1>12, <2>1, <2>2, <2>4, AwaitPipe DEF Record, Await, TypeOK, radio, Other
  <2> QED
    BY <1>12, <2>3, <2>4 DEF Record
<1>13. CASE SetNwkUpdateId
  <2>1. PICK a \in Answers : Await("updateId", a)
    BY <1>13 DEF SetNwkUpdateId
  <2>2. run' = run /\ ctr' = ctr /\ keys' = keys /\ chan' \in Moves /\ uid' \in Moves
    BY <1>0, <1>13 DEF SetNwkUpdateId, Retune, TypeOK, Settings, Moves, radio
  <2> QED
    BY <1>0, <1>13, <2>1, <2>2, AwaitPipe DEF SetNwkUpdateId, Await, TypeOK, app, history, Other
<1>14. CASE SetChannel
  <2>1. PICK a \in Answers : Await("channel", a)
    BY <1>14 DEF SetChannel
  <2>2. state \in Settings /\ state.uid < MaxMoves /\ state.chan <= state.uid
    BY <1>0, <1>14 DEF SetChannel, Resumes, Channels, BeaconsCurrent, TypeOK, Inv
  <2>3. run' = run /\ ctr' = ctr /\ keys' = keys /\ chan' \in Moves /\ uid' \in Moves
    BY <1>0, <1>14, <2>2 DEF SetChannel, Retune, TypeOK, Settings, Moves, radio
  <2> QED
    BY <1>0, <1>14, <2>1, <2>3, AwaitPipe DEF SetChannel, Await, TypeOK, app, history, Other
<1>15. ASSUME Forget
       PROVE  /\ run' = "blank" /\ ctr' \in Readings /\ keys' \in Tables /\ chan' \in Moves
              /\ uid' \in Moves /\ used' \in Readings /\ unseen' \in Readings /\ learned' \in Tables
              /\ {unrecorded', ran', overtaken', torn', mixed', outrun'} \subseteq BOOLEAN
  <2>1. 0 \in Moves
    BY DEF Moves
  <2> QED
    BY <1>0, <1>15, <2>1 DEF Forget, TypeOK
<1>16. CASE Shutdown
  <2>1. PICK a \in Answers : Await("shutdown", a)
    BY <1>16 DEF Shutdown
  <2>2. CASE Forget
    BY <1>0, <1>15, <1>16, <2>1, <2>2, AwaitPipe DEF Shutdown, Await, TypeOK, Other, app
  <2>3. CASE UNCHANGED <<radio, history>>
    BY <1>0, <1>16, <2>1, <2>3, AwaitPipe DEF Shutdown, Await, TypeOK, Other, app, radio, history
  <2> QED
    BY <1>16, <2>2, <2>3 DEF Shutdown
<1>17. CASE Handle
  <2>1. pipe' \in Seq(Inbound) /\ Len(pipe') <= MaxPipe /\ Head(pipe) \in Inbound
    BY <1>0, <1>17, TailPipe DEF Handle
  <2>2. state' \in Settings \cup {None} /\ backup' \in Settings \cup {None}
        /\ unseen' \in Readings /\ learned' \in Tables /\ heard' \in BOOLEAN
    <3>1. CASE Head(pipe) \in {Reply, Unasked}
      BY <1>0, <1>17, <2>1, <3>1, Frames DEF Handle, TypeOK, app, Notification
    <3>2. CASE Head(pipe)[1] = "counter"
      <4> DEFINE c == Head(pipe)[2]  v == Head(pipe)[3]
      <4>1. c \in Counters /\ v \in 0 .. MaxCounter /\ HandleCounter(c, v) /\ UNCHANGED heard
        BY <1>17, <2>1, <3>2, Frames DEF Handle, Notification
      <4> HIDE DEF c, v
      <4>2. unseen' \in Readings
        BY <1>0, <4>1 DEF HandleCounter, TypeOK, Readings
      <4> QED
        BY <1>0, <4>1, <4>2, CounterChange DEF HandleCounter, Change, TypeOK, app
    <3>3. CASE Head(pipe)[1] = "key"
      <4> DEFINE d == Head(pipe)[2]  v == Head(pipe)[3]
      <4>1. d \in Devices /\ v \in 1 .. MaxKey /\ HandleLinkKey(d, v) /\ UNCHANGED heard
        BY <1>17, <2>1, <3>3, Frames DEF Handle, Notification
      <4> HIDE DEF d, v
      <4>2. learned' \in Tables
        BY <1>0, <4>1 DEF HandleLinkKey, TypeOK, Tables
      <4> QED
        BY <1>0, <4>1, <4>2, KeyChange DEF HandleLinkKey, Change, TypeOK, app
    <3> QED
      BY <1>17, <3>1, <3>2, <3>3 DEF Handle
  <2> QED
    BY <1>0, <1>17, <2>1, <2>2 DEF Handle, TypeOK, radio
<1>18. CASE Reconnect
  BY <1>0, <1>18 DEF Reconnect, TypeOK, radio, task, app, history
<1>19. ASSUME NEW restart \in BOOLEAN, Drop(restart)
       PROVE  /\ up' \in BOOLEAN /\ pipe' \in Seq(Inbound) /\ Len(pipe') <= MaxPipe
              /\ op' = "none" /\ pc' = "idle" /\ heard' = FALSE /\ todo' \in Tables
              /\ reply' = "none" /\ snap' \in Settings
              /\ state' \in Settings \cup {None} /\ backup' \in Settings \cup {None}
  <2>1. up' \in BOOLEAN /\ heard' = FALSE
    BY <1>19 DEF Drop
  <2>2. pipe' \in Seq(Inbound) /\ Len(pipe') <= MaxPipe
    BY <1>19 DEF Drop
  <2>3. state' \in Settings \cup {None}
    BY <1>0, <1>19 DEF Drop, TypeOK
  <2> QED
    BY <1>0, <1>19, <2>1, <2>2, <2>3 DEF Drop, TypeOK
<1>20. ASSUME NEW restart \in BOOLEAN, ConnectionLost(restart) PROVE TypeOK'
  <2>1. Drop(restart)
    BY <1>20 DEF ConnectionLost
  <2> QED
    BY <1>0, <1>19, <1>20, <2>1 DEF ConnectionLost, TypeOK, radio, history
<1>21. ASSUME NEW restart \in BOOLEAN, Reboot(restart) PROVE TypeOK'
  <2>1. Drop(restart) /\ Forget
    BY <1>21 DEF Reboot
  <2> QED
    BY <1>0, <1>15, <1>19, <2>1 DEF TypeOK
<1>22. ASSUME NEW c \in Counters, NEW reports \in BOOLEAN, Transmit(c, reports) PROVE TypeOK'
  <2>1. ctr' \in Readings /\ used' \in Readings /\ unseen' \in Readings /\ ctr[c] + 1 \in 0 .. MaxCounter
    BY <1>0, <1>22 DEF Transmit, TypeOK, Readings
  <2>2. <<"counter", c, ctr[c] + 1>> \in Inbound
    BY <2>1 DEF Inbound
  <2>3. pipe' \in Seq(Inbound) /\ Len(pipe') <= MaxPipe
    BY <1>0, <1>22, <2>2, NotifyPipe DEF Transmit, Notify, TypeOK
  <2>4. overtaken' \in BOOLEAN
    BY <1>0, <1>22 DEF Transmit, Copied, TypeOK
  <2> QED
    BY <1>0, <1>22, <2>1, <2>3, <2>4 DEF Transmit, TypeOK, task, app
<1>23. ASSUME NEW d \in Devices, IssueKey(d) PROVE TypeOK'
  <2>1. keys' \in Tables /\ keys[d] + 1 \in 1 .. MaxKey
    BY <1>0, <1>23 DEF IssueKey, TypeOK, Tables
  <2>2. <<"key", d, keys[d] + 1>> \in Inbound
    BY <2>1 DEF Inbound
  <2>3. pipe' \in Seq(Inbound) /\ Len(pipe') <= MaxPipe
    BY <1>0, <1>23, <2>2, NotifyPipe DEF IssueKey, Notify, TypeOK
  <2>4. overtaken' \in BOOLEAN
    BY <1>0, <1>23 DEF IssueKey, Copied, TypeOK
  <2> QED
    BY <1>0, <1>23, <2>1, <2>3, <2>4 DEF IssueKey, TypeOK, task, app
<1> QED
  BY <1>1, <1>2, <1>3, <1>5, <1>6, <1>7, <1>8, <1>9, <1>10, <1>11, <1>12, <1>13, <1>14, <1>16,
     <1>17, <1>18, <1>20, <1>21, <1>22, <1>23, Steps DEF Moving

\* A notification changes counters or keys in the state, which it records.
LEMMA HandleChanges ==
  ASSUME TypeOK, Handle
  PROVE  /\ state = None => UNCHANGED app
         /\ state # None =>
              /\ state' \in Settings /\ state'.chan = state.chan /\ state'.uid = state.uid
              /\ UNCHANGED app \/ backup' = state'
<1>1. Head(pipe) \in Inbound
  BY TailPipe DEF Handle
<1>2. CASE UNCHANGED app
  BY <1>2 DEF TypeOK, app
<1>3. CASE Head(pipe)[1] = "counter" /\ HandleCounter(Head(pipe)[2], Head(pipe)[3])
  <2> DEFINE c == Head(pipe)[2]  v == Head(pipe)[3]
  <2>1. c \in Counters /\ v \in 0 .. MaxCounter /\ HandleCounter(c, v)
    BY <1>1, <1>3, Frames
  <2> HIDE DEF c, v
  <2>2. CASE state = None
    BY <2>1, <2>2 DEF HandleCounter, Change, app
  <2>3. CASE state # None
    <3>1. state \in Settings
      BY <2>3 DEF TypeOK
    <3>2. state' = [state EXCEPT !.ctr[c] = v] /\ backup' = state'
      BY <2>1, <2>3 DEF HandleCounter, Change
    <3> QED
      BY <2>1, <2>3, <3>1, <3>2, CounterChange
  <2> QED
    BY <2>2, <2>3
<1>4. CASE Head(pipe)[1] = "key" /\ HandleLinkKey(Head(pipe)[2], Head(pipe)[3])
  <2> DEFINE d == Head(pipe)[2]  v == Head(pipe)[3]
  <2>1. d \in Devices /\ v \in 1 .. MaxKey /\ HandleLinkKey(d, v)
    BY <1>1, <1>4, Frames
  <2> HIDE DEF d, v
  <2>2. CASE state = None
    BY <2>1, <2>2 DEF HandleLinkKey, Change, app
  <2>3. CASE state # None
    <3>1. state \in Settings
      BY <2>3 DEF TypeOK
    <3>2. state' = [state EXCEPT !.keys[d] = v] /\ backup' = state'
      BY <2>1, <2>3 DEF HandleLinkKey, Change
    <3> QED
      BY <2>1, <2>3, <3>1, <3>2, KeyChange
  <2> QED
    BY <2>2, <2>3
<1> QED
  BY <1>2, <1>3, <1>4 DEF Handle

LEMMA ControlKept ==
  ASSUME Inv, Next
  PROVE  Control'
<1> USE DEF Answers, Loading, Writing, Resumes, Await, Finish
<1>0. TypeOK /\ Control
  BY DEF Inv
<1>1. CASE Ends
  BY <1>0, <1>1 DEF Control, Ends
<1>2. CASE Continues
  BY <1>0, <1>2 DEF Control, Continues, radio, app
<1>3. ASSUME NEW o \in {"load", "start"}, GetNetworkInfo(o) PROVE Control'
  BY <1>0, <1>3 DEF Control, GetNetworkInfo
<1>4. ASSUME NEW s \in Settings, s # None, op \in {"load", "start"}, Loaded(s) PROVE Control'
  <2>1. CASE op = "load"
    BY <1>0, <1>4, <2>1 DEF Control, Loaded
  <2>2. CASE op # "load"
    BY <1>0, <1>4, <2>2 DEF Control, Loaded, SendConfigure
  <2> QED
    BY <2>1, <2>2
<1>5. CASE LoadBackup
  <2>1. op \in {"load", "start"} /\ pc = "info"
    BY <1>0, <1>5 DEF LoadBackup, Control
  <2>2. Restored # None
    BY <1>0, <1>5, RestoredBackup, NoneAssumption DEF LoadBackup
  <2> QED
    BY <1>0, <1>4, <1>5, <2>1, <2>2, RestoredBackup DEF LoadBackup
<1>6. CASE ScanKeyTable
  BY <1>0, <1>6 DEF Control, ScanKeyTable, radio, app
<1>7. CASE LoadScanned
  <2>1. op \in {"load", "start"} /\ snap \in Settings /\ snap # None
    BY <1>0, <1>7, NoneAssumption DEF LoadScanned, Control, TypeOK
  <2> QED
    BY <1>4, <1>7, <2>1 DEF LoadScanned
<1>8. CASE FormNetwork
  BY <1>0, <1>8 DEF Control, FormNetwork, radio, app
<1>9. CASE FormConfigure
  BY <1>0, <1>9 DEF Control, FormConfigure, SendConfigure, app
<1>10. CASE LoadKeyTable
  BY <1>0, <1>10 DEF Control, LoadKeyTable, LoadNext, app
<1>11. CASE StartNetwork
  BY <1>0, <1>11 DEF Control, StartNetwork, app
<1>12. CASE Record
  BY <1>0, <1>12 DEF Control, Record, radio
<1>13. CASE Moving
  BY <1>0, <1>13 DEF Control, Moving, SetNwkUpdateId, SetChannel, app
<1>14. CASE Shutdown
  BY <1>0, <1>14 DEF Control, Shutdown, app
<1>15. CASE Handle
  BY <1>0, <1>15, HandleChanges, NoneAssumption DEF Control, Handle, radio, app
<1>16. CASE Reconnect
  BY <1>0, <1>16 DEF Control, Reconnect, radio, task, app
<1>17. ASSUME NEW restart \in BOOLEAN, ConnectionLost(restart) \/ Reboot(restart) PROVE Control'
  BY <1>0, <1>17 DEF Control, ConnectionLost, Reboot, Drop
<1>18. ASSUME NEW c \in Counters, NEW reports \in BOOLEAN, Transmit(c, reports) PROVE Control'
  BY <1>0, <1>18 DEF Control, Transmit, task, app
<1>19. ASSUME NEW d \in Devices, IssueKey(d) PROVE Control'
  BY <1>0, <1>19 DEF Control, IssueKey, task, app
<1> QED
  BY <1>1, <1>2, <1>3, <1>5, <1>6, <1>7, <1>8, <1>9, <1>10, <1>11, <1>12, <1>13, <1>14, <1>15, <1>16,
     <1>17, <1>18, <1>19, Steps

LEMMA AnsweredKept ==
  ASSUME Inv, Next
  PROVE  Answered'
<1> USE DEF Answers, Loading, Writing, Resumes, Await, Finish, Reads, Writes
<1>0. TypeOK /\ Control /\ Answered
  BY DEF Inv
<1>1. CASE Ends
  BY <1>0, <1>1 DEF Answered, Ends, radio, history
<1>2. CASE Continues
  BY <1>0, <1>2 DEF Answered, Continues, radio, app, history
<1>3. ASSUME NEW o \in {"load", "start"}, GetNetworkInfo(o) PROVE Answered'
  BY <1>0, <1>3 DEF Answered, GetNetworkInfo, radio, TypeOK
<1>4. ASSUME NEW s, Loaded(s) PROVE Answered'
  <2>1. CASE op = "load"
    BY <1>0, <1>4, <2>1 DEF Answered, Loaded, radio
  <2>2. CASE op # "load"
    BY <1>0, <1>4, <2>2 DEF Answered, Loaded, SendConfigure, Configure, radio
  <2> QED
    BY <2>1, <2>2
<1>5. CASE LoadBackup
  BY <1>4, <1>5 DEF LoadBackup
<1>6. CASE ScanKeyTable
  BY <1>0, <1>6 DEF Answered, ScanKeyTable, radio, history
<1>7. CASE LoadScanned
  BY <1>4, <1>7 DEF LoadScanned
<1>8. CASE FormNetwork
  BY <1>0, <1>8 DEF Answered, FormNetwork, radio, history
<1>9. CASE FormConfigure
  BY <1>0, <1>9 DEF Answered, FormConfigure, SendConfigure, Configure, radio
<1>10. CASE LoadKeyTable
  BY <1>0, <1>10 DEF Answered, LoadKeyTable, LoadNext, history
<1>11. CASE StartNetwork
  BY <1>0, <1>11 DEF Answered, StartNetwork
<1>12. CASE Record
  BY <1>0, <1>12 DEF Answered, Record, radio
<1>13. CASE Moving
  BY <1>0, <1>13 DEF Answered, Moving, SetNwkUpdateId, SetChannel, Retune, radio, history
<1>14. CASE Shutdown
  BY <1>0, <1>14 DEF Answered, Shutdown, Forget, radio, history
<1>15. CASE Handle
  BY <1>0, <1>15 DEF Answered, Handle, radio
<1>16. CASE Reconnect
  BY <1>0, <1>16 DEF Answered, Reconnect, radio, task, history
<1>17. ASSUME NEW restart \in BOOLEAN, ConnectionLost(restart) PROVE Answered'
  BY <1>0, <1>17 DEF Answered, ConnectionLost, Drop, radio, history
<1>18. ASSUME NEW restart \in BOOLEAN, Reboot(restart) PROVE Answered'
  BY <1>0, <1>18 DEF Answered, Reboot, Forget, Drop
<1>19. ASSUME NEW c \in Counters, NEW reports \in BOOLEAN, Transmit(c, reports) PROVE Answered'
  BY <1>0, <1>19 DEF Answered, Transmit, task, app
<1>20. ASSUME NEW d \in Devices, IssueKey(d) PROVE Answered'
  BY <1>0, <1>20 DEF Answered, IssueKey, task, app
<1> QED
  BY <1>1, <1>2, <1>3, <1>5, <1>6, <1>7, <1>8, <1>9, <1>10, <1>11, <1>12, <1>13, <1>14, <1>15, <1>16,
     <1>17, <1>18, <1>19, <1>20, Steps

\* The channels of the settings of one network, however it was loaded.
LEMMA ChannelTypes ==
  ASSUME TypeOK
  PROVE  /\ chan \in Nat /\ uid \in Nat /\ snap.chan \in Nat /\ snap.uid \in Nat
         /\ \A s \in {state, backup} \ {None} : s \in Settings /\ s.chan \in Nat /\ s.uid \in Nat
BY BoundsAssumption DEF TypeOK, Settings, Moves

LEMMA ChannelsKept ==
  ASSUME Inv, Next
  PROVE  Channels'
<1> USE DEF Answers, Loading, Writing, Resumes, Await, Finish, Reads, Writes
<1>0. TypeOK /\ Control /\ Answered /\ Channels
  BY DEF Inv
<1>a. /\ chan \in Nat /\ uid \in Nat /\ snap.chan \in Nat /\ snap.uid \in Nat
      /\ state # None => state.chan \in Nat /\ state.uid \in Nat
      /\ backup # None => backup.chan \in Nat /\ backup.uid \in Nat
  BY <1>0, ChannelTypes
<1>b. Fresh.chan = 0 /\ Fresh.uid = 0
  BY FreshSettings
<1> USE <1>b
<1>1. CASE Ends
  BY <1>0, <1>1 DEF Channels, BeaconsCurrent, Ends, radio, app, history
<1>2. CASE Continues
  BY <1>0, <1>2 DEF Channels, BeaconsCurrent, Continues, radio, app, history
<1>3. ASSUME NEW o \in {"load", "start"}, GetNetworkInfo(o) PROVE Channels'
  BY <1>0, <1>3 DEF Channels, BeaconsCurrent, GetNetworkInfo, radio, app
<1>4. ASSUME NEW s \in Settings, s # None, s.chan <= s.uid, op \in {"load", "start"}, Loaded(s),
             run # "blank" => s.chan = chan /\ s.uid = uid,
             ~mixed /\ backup # None => s.chan >= backup.chan
      PROVE  Channels'
  <2>0. s.chan \in Nat /\ s.uid \in Nat
    BY BoundsAssumption DEF Settings, Moves
  <2>1. CASE op = "load"
    BY <1>0, <1>a, <1>4, <2>0, <2>1 DEF Channels, BeaconsCurrent, Loaded, Answered, radio, Control
  <2>2. CASE op = "start"
    <3>1. UNCHANGED radio \/ (chan' = s.chan /\ uid' = s.uid)
      BY <1>4, <2>2 DEF Loaded, SendConfigure, Configure
    <3>2. /\ state' = s /\ op' = "start" /\ pc' = "configure" /\ UNCHANGED <<backup, mixed>>
          /\ snap' = Fresh /\ (reply' = "ok" => chan' = s.chan /\ uid' = s.uid)
      BY <1>4, <2>2 DEF Loaded, SendConfigure, Configure
    <3>3. chan' <= uid' \/ (UNCHANGED radio /\ run = "blank")
      BY <1>0, <1>4, <3>1 DEF Channels, BeaconsCurrent, radio
    <3>4. BeaconsCurrent'
      BY <1>0, <1>4, <3>2, <3>3 DEF Channels, BeaconsCurrent, radio
    <3>5. chan' <= s.uid + 1
      BY <1>0, <1>4, <2>0, <3>1 DEF Answered, radio
    <3>6. run' # "blank" => chan' = s.chan
      BY <1>0, <1>4, <3>1, <2>2 DEF radio, Loaded, SendConfigure, Configure
    <3> QED
      BY <1>0, <1>a, <1>4, <2>0, <3>2, <3>4, <3>5, <3>6 DEF Channels, Written
  <2> QED
    BY <1>4, <2>1, <2>2
<1>5. CASE LoadBackup
  <2>1. op \in {"load", "start"} /\ run = "blank"
    BY <1>0, <1>5 DEF LoadBackup, Control, Answered
  <2>2. Restored \in Settings /\ Restored # None /\ Restored.chan = backup.chan /\ Restored.uid = backup.uid
    BY <1>0, <1>5, RestoredBackup, NoneAssumption DEF LoadBackup
  <2>3. backup.chan <= backup.uid
    BY <1>0, <1>5 DEF LoadBackup, Channels, BeaconsCurrent
  <2> QED
    BY <1>0, <1>a, <1>4, <1>5, <2>1, <2>2, <2>3 DEF LoadBackup
<1>6. CASE ScanKeyTable
  <2>1. snap'.chan = snap.chan /\ snap'.uid = snap.uid
    BY <1>0, <1>6 DEF ScanKeyTable, TypeOK, Settings
  <2> QED
    BY <1>0, <1>6, <2>1 DEF Channels, BeaconsCurrent, ScanKeyTable, radio, app, history
<1>7. CASE LoadScanned
  <2>1. op \in {"load", "start"} /\ snap \in Settings /\ snap # None /\ run # "blank"
        /\ snap.chan = chan /\ snap.uid = uid
    BY <1>0, <1>7, NoneAssumption DEF LoadScanned, Control, TypeOK, Answered, Channels
  <2>2. snap.chan <= snap.uid /\ (~mixed /\ backup # None => snap.chan >= backup.chan)
    BY <1>0, <2>1 DEF Channels
  <2> QED
    BY <1>4, <1>7, <2>1, <2>2 DEF LoadScanned
<1>8. CASE FormNetwork
  BY <1>0, <1>8 DEF Channels, BeaconsCurrent, FormNetwork, radio, app, history
<1>9. CASE FormConfigure
  <2>1. op = "form" /\ run = "blank" /\ (backup # None => state = backup) /\ UNCHANGED <<app, op>>
    BY <1>0, <1>9 DEF FormConfigure, SendConfigure, Control
  <2>2. CASE reply' = "ok"
    <3>1. /\ chan' = 0 /\ uid' = 0 /\ run' = "configured" /\ pc' = "configure" /\ snap' = Fresh
          /\ mixed' = (state # None /\ state.chan > 0)
      BY <1>9, <2>2 DEF FormConfigure, SendConfigure, Configure
    <3>2. BeaconsCurrent'
      BY <1>0, <2>1, <3>1 DEF Channels, BeaconsCurrent, app
    <3>3. ASSUME ~mixed', state # None PROVE state.chan = 0
      <4>1. ~(state.chan > 0)
        BY <3>1, <3>3
      <4> QED
        BY <1>a, <3>3, <4>1
    <3>4. state # None => chan' <= state.uid + 1 /\ chan' <= uid'
      BY <1>a, <3>1
    <3>5. ~mixed' /\ backup # None => state # None /\ backup.chan = 0
      BY <2>1, <3>3
    <3> QED
      BY <2>1, <3>1, <3>2, <3>3, <3>4, <3>5 DEF Channels, Written, app
  <2>3. CASE reply' # "ok"
    <3>1. UNCHANGED <<radio, mixed>> /\ pc' = "configure" /\ snap' = Fresh
      BY <1>9, <2>3 DEF FormConfigure, SendConfigure
    <3> QED
      BY <1>0, <2>1, <2>3, <3>1 DEF Channels, BeaconsCurrent, radio, app
  <2> QED
    BY <2>2, <2>3
<1>10. CASE LoadKeyTable
  BY <1>0, <1>10 DEF Channels, BeaconsCurrent, LoadKeyTable, LoadNext, app, history, Written
<1>11. CASE StartNetwork
  BY <1>0, <1>11 DEF Channels, BeaconsCurrent, StartNetwork, app, Written, Answered
<1>12. CASE Record
  BY <1>0, <1>a, <1>12 DEF Channels, BeaconsCurrent, Record, radio, Written, Control, Answered
<1>13. CASE SetNwkUpdateId
  BY <1>0, <1>a, <1>13 DEF Channels, BeaconsCurrent, SetNwkUpdateId, Retune, app, history, radio
<1>14. CASE SetChannel
  BY <1>0, <1>a, <1>14 DEF Channels, BeaconsCurrent, SetChannel, Retune, app, history, radio
<1>15. CASE Shutdown
  BY <1>0, <1>a, <1>15 DEF Channels, BeaconsCurrent, Shutdown, Forget, radio, app, history
<1>16. CASE Handle
  <2>1. UNCHANGED <<radio, reply, snap, op, pc, mixed>>
    BY <1>16 DEF Handle
  <2>2. CASE UNCHANGED app
    BY <1>0, <2>1, <2>2 DEF Channels, BeaconsCurrent, radio, app, Written
  <2>3. CASE state # None /\ state' \in Settings /\ state'.chan = state.chan /\ state'.uid = state.uid
              /\ backup' = state'
    <3>1. state' # None /\ state.chan <= state.uid
      BY <1>0, <2>3, NoneAssumption DEF Channels, BeaconsCurrent
    <3>2. BeaconsCurrent'
      BY <1>0, <2>1, <2>3, <3>1 DEF Channels, BeaconsCurrent, radio
    <3>3. Writes => chan' = Written'.chan
      BY <1>0, <2>1, <2>3 DEF Channels, radio, Written
    <3> QED
      BY <1>0, <1>a, <2>1, <2>3, <3>1, <3>2, <3>3 DEF Channels, radio
  <2> QED
    BY <1>0, <1>16, <2>2, <2>3, HandleChanges
<1>17. CASE Reconnect
  BY <1>0, <1>17 DEF Channels, BeaconsCurrent, Reconnect, radio, task, app, history, Written
<1>18. ASSUME NEW restart \in BOOLEAN, ConnectionLost(restart) PROVE Channels'
  BY <1>0, <1>18 DEF Channels, BeaconsCurrent, ConnectionLost, Drop, radio, history
<1>19. ASSUME NEW restart \in BOOLEAN, Reboot(restart) PROVE Channels'
  BY <1>0, <1>a, <1>19 DEF Channels, BeaconsCurrent, Reboot, Forget, Drop
<1>20. ASSUME NEW c \in Counters, NEW reports \in BOOLEAN, Transmit(c, reports) PROVE Channels'
  BY <1>0, <1>20 DEF Channels, BeaconsCurrent, Transmit, task, app, Written
<1>21. ASSUME NEW d \in Devices, IssueKey(d) PROVE Channels'
  BY <1>0, <1>21 DEF Channels, BeaconsCurrent, IssueKey, task, app, Written
<1> QED
  BY <1>1, <1>2, <1>3, <1>5, <1>6, <1>7, <1>8, <1>9, <1>10, <1>11, <1>12, <1>13, <1>14, <1>15, <1>16,
     <1>17, <1>18, <1>19, <1>20, <1>21, Steps DEF Moving

\* With a request sent, all that was on the way is handled before its answer.
LEMMA AwaitFlow ==
  ASSUME TypeOK, Flow, pc = "idle" \/ heard, NEW r, r # "idle", NEW a, Await(r, a),
         ~overtaken' /\ ~torn' /\ (run' = "configured" \/ (op' = "form" /\ r = "start")) => Silent
  PROVE  Flow' /\ Settled("counter")' /\ Settled("key")'
<1>1. /\ Len(pipe) \in Nat /\ Len(pipe') = Len(pipe) + 1 /\ pipe'[Len(pipe) + 1] = Reply
      /\ \A i \in 1 .. Len(pipe) : pipe'[i] = pipe[i]
  BY AwaitPipe
<1>2. \A i \in 1 .. Len(pipe) : pipe[i] # Reply
  BY DEF Flow
<1>3. pc' = r /\ heard' = FALSE
  BY DEF Await
<1>4. Reply[1] \notin Notification /\ Reply[1] # "counter" /\ Reply[1] # "key"
  BY DEF Reply, Notification
<1>5. ASSUME NEW k, k # Reply[1] PROVE Settled(k)'
  <2> SUFFICES ASSUME NEW i \in 1 .. Len(pipe'), pipe'[i][1] = k
               PROVE  \E j \in i + 1 .. Len(pipe') : pipe'[j] = Reply
    BY DEF Settled
  <2>1. i # Len(pipe) + 1
    BY <1>1, <1>5
  <2> QED
    BY <1>1, <2>1
<1>6. \A i, j \in 1 .. Len(pipe') : pipe'[i] = Reply /\ pipe'[j] = Reply => i = j
  BY <1>1, <1>2
<1>7. ~overtaken' /\ ~torn' /\ (run' = "configured" \/ (op' = "form" /\ pc' = "start")) => Silent'
  BY <1>1, <1>3, <1>4 DEF Silent
<1>8. Settled("counter")' /\ Settled("key")'
  BY <1>4, <1>5
<1> QED
  BY <1>3, <1>6, <1>7, <1>8 DEF Flow

\* An answer that was handled had what came before it handled too.
LEMMA HeardSilent ==
  ASSUME Flow, heard
  PROVE  /\ Settled("counter") => \A i \in 1 .. Len(pipe) : pipe[i][1] # "counter"
         /\ Settled("key") => \A i \in 1 .. Len(pipe) : pipe[i][1] # "key"
         /\ Settled("counter") /\ Settled("key") => Silent
<1>1. \A i \in 1 .. Len(pipe) : \A j \in i + 1 .. Len(pipe) : pipe[j] # Reply
  BY DEF Flow
<1> QED
  BY <1>1 DEF Flow, Settled, Silent, Notification

\* The device is only written to with all it sent before handled.
LEMMA LoadedSilent ==
  ASSUME Inv, LoadBackup \/ LoadScanned \/ FormConfigure, ~overtaken
  PROVE  Silent
<1>1. heard /\ pc # "idle"
  BY DEF LoadBackup, LoadScanned, FormConfigure, Resumes
<1>2. Settled("counter") /\ Settled("key")
  BY <1>1 DEF LoadBackup, LoadScanned, FormConfigure, Resumes, Inv, Flow, Answered, Control, Loading
<1> QED
  BY <1>1, <1>2, HeardSilent DEF Inv

LEMMA FinishFlow ==
  ASSUME TypeOK, Flow, Finish, run' = "configured" => run = "configured",
         UNCHANGED <<overtaken, torn>>
  PROVE  Flow'
<1>0. /\ Len(pipe') = Len(pipe) /\ Len(pipe) \in Nat
      /\ \A i \in 1 .. Len(pipe) : /\ pipe'[i] # Reply /\ pipe[i] \in Inbound
                                   /\ pipe'[i] = pipe[i] \/ pipe'[i] = Unasked
                                   /\ pipe'[i][1] \in Notification => pipe'[i] = pipe[i]
  BY FinishPipe
<1>1. /\ Len(pipe') = Len(pipe) /\ Len(pipe) \in Nat
      /\ \A i \in 1 .. Len(pipe) : /\ pipe'[i] # Reply
                                   /\ pipe'[i][1] \in Notification => pipe'[i] = pipe[i]
  BY <1>0
<1>2. pc' = "idle" /\ heard' = FALSE
  BY DEF Finish
<1>3. ~overtaken' /\ ~torn' /\ run' = "configured" => Silent'
  BY <1>1 DEF Flow, Silent
<1> QED
  BY <1>1, <1>2, <1>3 DEF Flow, Loading

LEMMA FlowKept ==
  ASSUME Inv, Next
  PROVE  Flow'
<1> USE DEF Answers, Resumes
<1>0. TypeOK /\ Control /\ Answered /\ Flow
  BY DEF Inv
<1>1. CASE Ends
  BY <1>0, <1>1, FinishFlow DEF Ends, radio, history
<1>2. CASE Continues
  <2>1. PICK r \in {"rest", "tunable"}, a \in Answers : Await(r, a)
    BY <1>2 DEF Continues
  <2>2. heard /\ UNCHANGED <<run, overtaken, torn>>
    BY <1>2 DEF Continues, radio, history
  <2> QED
    BY <1>0, <2>1, <2>2, AwaitFlow DEF Flow
<1>3. ASSUME NEW o \in {"load", "start"}, GetNetworkInfo(o) PROVE Flow'
  <2>1. PICK a : Await("info", a)
    BY <1>3 DEF GetNetworkInfo
  <2>2. pc = "idle" /\ UNCHANGED <<run, overtaken>>
    BY <1>3 DEF GetNetworkInfo, radio
  <2>3. ~torn' => ~torn
    BY <1>0, <1>3 DEF GetNetworkInfo, TypeOK
  <2> QED
    BY <1>0, <2>1, <2>2, <2>3, AwaitFlow DEF Flow
<1>4. ASSUME NEW s, Loaded(s), LoadBackup \/ LoadScanned PROVE Flow'
  <2>1. CASE op = "load"
    BY <1>0, <1>4, <2>1, FinishFlow DEF Loaded, radio
  <2>2. CASE op # "load"
    <3>1. PICK a : Await("configure", a)
      BY <1>4, <2>2 DEF Loaded, SendConfigure
    <3>2. heard /\ UNCHANGED overtaken
      BY <1>4 DEF LoadBackup, LoadScanned, Loaded
    <3> QED
      BY <1>0, <1>4, <3>1, <3>2, AwaitFlow, LoadedSilent
  <2> QED
    BY <2>1, <2>2
<1>5. CASE LoadBackup
  BY <1>4, <1>5 DEF LoadBackup
<1>6. CASE ScanKeyTable
  <2>1. PICK a : Await("keys", a)
    BY <1>6 DEF ScanKeyTable
  <2>2. heard /\ UNCHANGED <<run, overtaken, torn>>
    BY <1>6 DEF ScanKeyTable, radio, history
  <2> QED
    BY <1>0, <2>1, <2>2, AwaitFlow DEF Flow
<1>7. CASE LoadScanned
  BY <1>4, <1>7 DEF LoadScanned
<1>8. CASE FormNetwork
  <2>1. PICK a : Await("address", a)
    BY <1>8 DEF FormNetwork
  <2>2. pc = "idle" /\ UNCHANGED <<run, overtaken, torn>>
    BY <1>8 DEF FormNetwork, radio, history
  <2> QED
    BY <1>0, <2>1, <2>2, AwaitFlow DEF Flow
<1>9. CASE FormConfigure
  <2>1. PICK a : Await("configure", a)
    BY <1>9 DEF FormConfigure, SendConfigure
  <2>2. heard /\ UNCHANGED overtaken
    BY <1>9 DEF FormConfigure
  <2> QED
    BY <1>0, <1>9, <2>1, <2>2, AwaitFlow, LoadedSilent
<1>10. CASE LoadKeyTable
  <2>1. PICK r \in {"keyTable", "children"}, a \in Answers : Await(r, a)
    BY <1>10 DEF LoadKeyTable, LoadNext
  <2>2. heard /\ UNCHANGED <<run, overtaken, torn>>
    BY <1>10 DEF LoadKeyTable, history
  <2> QED
    BY <1>0, <2>1, <2>2, AwaitFlow DEF Flow
<1>11. CASE StartNetwork
  <2>1. PICK a : Await("start", a)
    BY <1>11 DEF StartNetwork
  <2>2. heard /\ UNCHANGED <<overtaken, torn>>
    BY <1>11 DEF StartNetwork
  <2>3. run = "configured"
    BY <1>0, <1>11 DEF StartNetwork, Answered, Writes, Writing
  <2> QED
    BY <1>0, <2>1, <2>2, <2>3, AwaitFlow DEF Flow
<1>12. CASE Record
  <2>1. heard /\ UNCHANGED <<run, overtaken, torn>>
    BY <1>12 DEF Record, radio
  <2>2. CASE Finish
    BY <1>0, <2>1, <2>2, FinishFlow
  <2>3. CASE \E a \in Answers : Await("tunable", a)
    <3>1. PICK a : Await("tunable", a)
      BY <2>3
    <3> QED
      BY <1>0, <2>1, <3>1, AwaitFlow DEF Flow
  <2> QED
    BY <1>12, <2>2, <2>3 DEF Record
<1>13. CASE Moving
  <2>1. PICK r \in {"updateId", "channel"}, a \in Answers : Await(r, a)
    BY <1>13 DEF Moving, SetNwkUpdateId, SetChannel
  <2>2. (pc = "idle" \/ heard) /\ UNCHANGED <<run, overtaken, torn>>
    BY <1>13 DEF Moving, SetNwkUpdateId, SetChannel, Retune, radio, history
  <2> QED
    BY <1>0, <2>1, <2>2, AwaitFlow DEF Flow
<1>14. CASE Shutdown
  <2>1. PICK a : Await("shutdown", a)
    BY <1>14 DEF Shutdown
  <2>2. pc = "idle" /\ overtaken' = overtaken /\ (run' = "configured" => run = "configured")
        /\ (~torn' => ~torn)
    BY <1>0, <1>14 DEF Shutdown, Forget, radio, history, TypeOK
  <2> QED
    BY <1>0, <2>1, <2>2, AwaitFlow DEF Flow
<1>15. CASE Handle
  <2>1. /\ Len(pipe) \in Nat \ {0} /\ Len(pipe') = Len(pipe) - 1
        /\ \A i \in 1 .. Len(pipe') : pipe'[i] = pipe[i + 1]
        /\ Head(pipe) = pipe[1]
    BY <1>0, <1>15, TailPipe DEF Handle
  <2>2. UNCHANGED <<run, pc, overtaken, torn>>
    BY <1>15 DEF Handle, radio
  <2>a. op' = op
    BY <1>15 DEF Handle
  <2>3. ASSUME NEW k, Settled(k) PROVE Settled(k)'
    <3> SUFFICES ASSUME NEW i \in 1 .. Len(pipe'), pipe'[i][1] = k
                 PROVE  \E j \in i + 1 .. Len(pipe') : pipe'[j] = Reply
      BY DEF Settled
    <3>1. PICK j \in i + 2 .. Len(pipe) : pipe[j] = Reply
      BY <2>1, <2>3 DEF Settled
    <3>2. j - 1 \in i + 1 .. Len(pipe') /\ pipe'[j - 1] = pipe[j]
      BY <2>1, <3>1
    <3> QED
      BY <3>1, <3>2
  <2>4. Silent => Silent'
    BY <2>1 DEF Silent
  <2>5. \A i, j \in 1 .. Len(pipe') : pipe'[i] = Reply /\ pipe'[j] = Reply => i = j
    <3> SUFFICES ASSUME NEW i \in 1 .. Len(pipe'), NEW j \in 1 .. Len(pipe'),
                        pipe'[i] = Reply, pipe'[j] = Reply
                 PROVE  i = j
      OBVIOUS
    <3>1. i + 1 \in 1 .. Len(pipe) /\ j + 1 \in 1 .. Len(pipe)
      BY <2>1
    <3>2. pipe[i + 1] = Reply /\ pipe[j + 1] = Reply
      BY <2>1
    <3>3. i + 1 = j + 1
      BY <1>0, <3>1, <3>2 DEF Flow
    <3> QED
      BY <2>1, <3>3
  <2>6. pc' = "idle" \/ heard' => \A i \in 1 .. Len(pipe') : pipe'[i] # Reply
    <3>1. CASE pc = "idle" \/ heard
      BY <1>0, <2>1, <3>1 DEF Flow
    <3>2. CASE pipe[1] = Reply
      <4> SUFFICES ASSUME NEW i \in 1 .. Len(pipe'), pipe'[i] = Reply PROVE FALSE
        OBVIOUS
      <4>1. i + 1 \in 1 .. Len(pipe) /\ pipe[i + 1] = Reply /\ 1 \in 1 .. Len(pipe)
        BY <2>1
      <4>2. i + 1 = 1
        BY <1>0, <3>2, <4>1 DEF Flow
      <4> QED
        BY <4>2
    <3>3. heard' = heard \/ pipe[1] = Reply
      BY <1>15, <2>1 DEF Handle
    <3> QED
      BY <2>2, <3>1, <3>2, <3>3
  <2>7. pc = "idle" => ~heard'
    <3>1. pc = "idle" => pipe[1] # Reply
      BY <1>0, <2>1 DEF Flow
    <3> QED
      BY <1>0, <1>15, <2>1, <3>1 DEF Flow, Handle
  <2> QED
    BY <1>0, <2>2, <2>a, <2>3, <2>4, <2>5, <2>6, <2>7 DEF Flow
<1>16. CASE Reconnect
  BY <1>0, <1>16 DEF Reconnect, Flow, Settled, Silent, radio, task, history
<1>17. ASSUME NEW restart \in BOOLEAN, ConnectionLost(restart) \/ Reboot(restart) PROVE Flow'
  <2>1. pipe' = <<>> /\ Len(pipe') = 0 /\ pc' = "idle" /\ heard' = FALSE
    BY <1>17 DEF ConnectionLost, Reboot, Drop
  <2> QED
    BY <2>1 DEF Flow, Settled, Silent
<1>18. ASSUME NEW f \in Inbound, run = "started", UNCHANGED <<run, op, pc, heard>>, f # Reply,
              Len(pipe) < MaxPipe, pipe' = pipe \/ pipe' = Append(pipe, f),
              ~overtaken' => ~overtaken,
              ~overtaken' => ~(op = "form" /\ pc = "start"),
              ~overtaken' /\ pc \in Loading => f[1] # "counter",
              ~overtaken' /\ pc \in {"keys", "rest"} => f[1] # "key"
       PROVE  Flow'
  <2>1. CASE pipe' = pipe
    BY <1>0, <1>18, <2>1 DEF Flow, Settled
  <2>2. CASE pipe' = Append(pipe, f)
    <3>1. /\ Len(pipe) \in Nat /\ Len(pipe') = Len(pipe) + 1 /\ pipe'[Len(pipe) + 1] = f
          /\ \A i \in 1 .. Len(pipe) : pipe'[i] = pipe[i]
      BY <1>0, <1>18, <2>2, NotifyPipe
    <3>2. ASSUME NEW k, Settled(k), f[1] # k PROVE Settled(k)'
      <4> SUFFICES ASSUME NEW i \in 1 .. Len(pipe'), pipe'[i][1] = k
                   PROVE  \E j \in i + 1 .. Len(pipe') : pipe'[j] = Reply
        BY DEF Settled
      <4>1. i \in 1 .. Len(pipe) /\ pipe[i][1] = k
        BY <3>1, <3>2
      <4>2. PICK j \in i + 1 .. Len(pipe) : pipe[j] = Reply
        BY <3>2, <4>1 DEF Settled
      <4> QED
        BY <3>1, <4>1, <4>2
    <3>3. \A i, j \in 1 .. Len(pipe') : pipe'[i] = Reply /\ pipe'[j] = Reply => i = j
      BY <1>0, <1>18, <3>1 DEF Flow
    <3>4. pc' = "idle" \/ heard' => \A i \in 1 .. Len(pipe') : pipe'[i] # Reply
      BY <1>0, <1>18, <3>1 DEF Flow
    <3> QED
      BY <1>0, <1>18, <3>2, <3>3, <3>4 DEF Flow
  <2> QED
    BY <1>18, <2>1, <2>2
<1>19. ASSUME NEW c \in Counters, NEW reports \in BOOLEAN, Transmit(c, reports) PROVE Flow'
  <2> DEFINE f == <<"counter", c, ctr[c] + 1>>
  <2>0. ctr[c] + 1 \in 0 .. MaxCounter
    BY <1>0, <1>19, BoundsAssumption DEF Transmit, TypeOK, Readings
  <2>1. f \in Inbound /\ f # Reply /\ f[1] = "counter"
    <3>1. f \in Inbound /\ f[1] = "counter" /\ Reply[1] = "reply"
      BY <2>0 DEF Inbound, Reply
    <3> QED
      BY <3>1
  <2>2. /\ run = "started" /\ UNCHANGED <<run, op, pc, heard>> /\ Len(pipe) < MaxPipe
        /\ pipe' = pipe \/ pipe' = Append(pipe, f)
    BY <1>19 DEF Transmit, Notify, task
  <2>3. (~overtaken' => ~overtaken) /\ (~overtaken' => pc \notin Loading)
        /\ (~overtaken' => ~(op = "form" /\ pc = "start"))
    BY <1>0, <1>19 DEF Transmit, Copied, TypeOK
  <2> HIDE DEF f
  <2> QED
    BY <1>18, <2>1, <2>2, <2>3 DEF Loading
<1>20. ASSUME NEW d \in Devices, IssueKey(d) PROVE Flow'
  <2> DEFINE f == <<"key", d, keys[d] + 1>>
  <2>0. keys[d] + 1 \in 1 .. MaxKey
    BY <1>0, <1>20, BoundsAssumption DEF IssueKey, TypeOK, Tables
  <2>1. f \in Inbound /\ f # Reply /\ f[1] = "key"
    <3>1. f \in Inbound /\ f[1] = "key" /\ Reply[1] = "reply"
      BY <2>0 DEF Inbound, Reply
    <3> QED
      BY <3>1
  <2>2. /\ run = "started" /\ UNCHANGED <<run, op, pc, heard>> /\ Len(pipe) < MaxPipe
        /\ pipe' = pipe \/ pipe' = Append(pipe, f)
    BY <1>20 DEF IssueKey, Notify, task
  <2>3. (~overtaken' => ~overtaken) /\ (~overtaken' => pc \notin {"keys", "rest"})
        /\ (~overtaken' => ~(op = "form" /\ pc = "start"))
    BY <1>0, <1>20 DEF IssueKey, Copied, TypeOK
  <2> HIDE DEF f
  <2> QED
    BY <1>18, <2>1, <2>2, <2>3 DEF Loading
<1> QED
  BY <1>1, <1>2, <1>3, <1>5, <1>6, <1>7, <1>8, <1>9, <1>10, <1>11, <1>12, <1>13, <1>14, <1>15, <1>16,
     <1>17, <1>19, <1>20, Steps

\* What a copy overtook, or was torn, or lost, stays so.
LEMMA Monotone ==
  ASSUME Inv, Next
  PROVE  /\ ~overtaken' => ~overtaken
         /\ ~torn' => ~torn
         /\ ~outrun' => ~outrun
<1> USE DEF history
<1>0. TypeOK
  BY DEF Inv
<1>1. ASSUME Forget
      PROVE  (~overtaken' => ~overtaken) /\ (~torn' => ~torn) /\ (~outrun' => ~outrun)
  BY <1>0, <1>1 DEF Forget, TypeOK
<1>2. ASSUME NEW o \in {"load", "start"}, GetNetworkInfo(o)
      PROVE  (~overtaken' => ~overtaken) /\ (~torn' => ~torn) /\ (~outrun' => ~outrun)
  BY <1>0, <1>2 DEF GetNetworkInfo, TypeOK
<1>3. ASSUME NEW c \in Counters, NEW reports \in BOOLEAN, Transmit(c, reports)
      PROVE  (~overtaken' => ~overtaken) /\ (~torn' => ~torn) /\ (~outrun' => ~outrun)
  BY <1>0, <1>3 DEF Transmit, TypeOK
<1>4. ASSUME NEW d \in Devices, IssueKey(d)
      PROVE  (~overtaken' => ~overtaken) /\ (~torn' => ~torn) /\ (~outrun' => ~outrun)
  BY <1>0, <1>4 DEF IssueKey, TypeOK
<1>5. CASE Shutdown
  BY <1>1, <1>5 DEF Shutdown
<1>6. ASSUME NEW restart \in BOOLEAN, Reboot(restart)
      PROVE  (~overtaken' => ~overtaken) /\ (~torn' => ~torn) /\ (~outrun' => ~outrun)
  BY <1>1, <1>6 DEF Reboot
<1>7. CASE \/ Ends \/ Continues \/ LoadBackup \/ ScanKeyTable \/ LoadScanned
           \/ FormNetwork \/ FormConfigure \/ LoadKeyTable \/ StartNetwork \/ Record
           \/ Moving \/ Handle \/ Reconnect
           \/ \E restart \in BOOLEAN : ConnectionLost(restart)
  <2>1. UNCHANGED <<overtaken, torn, outrun>>
    BY <1>7 DEF Ends, Continues, LoadBackup, Loaded, ScanKeyTable, LoadScanned, FormNetwork,
       FormConfigure, LoadKeyTable, StartNetwork, Record, Moving, SetNwkUpdateId, SetChannel,
       Handle, Reconnect, ConnectionLost
  <2> QED
    BY <2>1
<1> QED
  BY <1>2, <1>3, <1>4, <1>5, <1>6, <1>7, Steps

\* The notifications that were on the way are the ones still on the way, in their places.
SamePlaces ==
  \A i \in 1 .. Len(pipe') :
    pipe'[i][1] \in Notification => i \in 1 .. Len(pipe) /\ pipe'[i] = pipe[i]

LEMMA NoNews ==
  ASSUME TypeOK, \/ \E r, a : Await(r, a)
                 \/ Finish
                 \/ pipe' = <<>>
                 \/ pipe' = pipe
  PROVE  SamePlaces
<1>1. ASSUME NEW r, NEW a, Await(r, a) PROVE SamePlaces
  <2>1. Reply[1] \notin Notification
    BY DEF Reply, Notification
  <2> QED
    BY <1>1, <2>1, AwaitPipe DEF SamePlaces
<1>2. CASE Finish
  <2>1. Len(pipe') = Len(pipe) /\ \A i \in 1 .. Len(pipe) :
                                     pipe'[i][1] \in Notification => pipe'[i] = pipe[i]
    BY <1>2, FinishPipe
  <2> QED
    BY <2>1 DEF SamePlaces
<1>3. CASE pipe' = <<>>
  BY <1>3 DEF SamePlaces
<1>4. CASE pipe' = pipe
  BY <1>4 DEF SamePlaces
<1> QED
  BY <1>1, <1>2, <1>3, <1>4

\* Whatever the task does, and what the connection does to it, brings no notification.
LEMMA QuietSteps ==
  ASSUME Inv, Next
  PROVE  \/ SamePlaces \/ Handle
         \/ \E c \in Counters, reports \in BOOLEAN : Transmit(c, reports)
         \/ \E d \in Devices : IssueKey(d)
<1> SUFFICES ASSUME ~Handle,
                    ~\E c \in Counters, reports \in BOOLEAN : Transmit(c, reports),
                    ~\E d \in Devices : IssueKey(d)
             PROVE  \/ \E r, a : Await(r, a)
                    \/ Finish
                    \/ pipe' = <<>>
                    \/ pipe' = pipe
  BY NoNews DEF Inv
<1>1. Ends \/ Record => Finish \/ \E r, a : Await(r, a)
  BY DEF Ends, Record
<1>2. LoadBackup \/ LoadScanned => Finish \/ \E r, a : Await(r, a)
  BY DEF LoadBackup, LoadScanned, Loaded, SendConfigure
<1>3. Continues \/ ScanKeyTable \/ FormNetwork \/ StartNetwork \/ Shutdown => \E r, a : Await(r, a)
  BY DEF Continues, ScanKeyTable, FormNetwork, StartNetwork, Shutdown
<1>4. (\E o \in {"load", "start"} : GetNetworkInfo(o)) => \E r, a : Await(r, a)
  BY DEF GetNetworkInfo
<1>5. FormConfigure \/ LoadKeyTable \/ Moving => \E r, a : Await(r, a)
  BY DEF FormConfigure, SendConfigure, LoadKeyTable, LoadNext, Moving, SetNwkUpdateId, SetChannel
<1>6. ASSUME NEW restart \in BOOLEAN, ConnectionLost(restart) \/ Reboot(restart) PROVE pipe' = <<>>
  BY <1>6 DEF ConnectionLost, Reboot, Drop
<1>7. Reconnect => pipe' = pipe
  BY DEF Reconnect
<1> QED
  BY <1>1, <1>2, <1>3, <1>4, <1>5, <1>6, <1>7, Steps

\* A finite set has subsets of any smaller size.
LEMMA SubsetOfSize ==
  ASSUME NEW S, IsFiniteSet(S), NEW n \in Nat, n <= Cardinality(S)
  PROVE  \E T \in SUBSET S : Cardinality(T) = n
<1>1. Cardinality(S) \in Nat /\ ExistsBijection(1 .. Cardinality(S), S)
  BY FS_CardinalityType
<1>2. PICK f \in Bijection(1 .. Cardinality(S), S) : TRUE
  BY <1>1 DEF ExistsBijection
<1>3. /\ f \in [1 .. Cardinality(S) -> S]
      /\ \A i, j \in 1 .. Cardinality(S) : f[i] = f[j] => i = j
  BY <1>2 DEF Bijection, Injection, IsInjective
<1> DEFINE T == {f[i] : i \in 1 .. n}  g == [i \in 1 .. n |-> f[i]]
<1>4. T \in SUBSET S /\ 1 .. n \subseteq 1 .. Cardinality(S)
  BY <1>1, <1>3
<1>5. g \in Bijection(1 .. n, T)
  BY <1>3, <1>4 DEF Bijection, Injection, Surjection, IsInjective
<1>6. IsFiniteSet(1 .. n) /\ Cardinality(1 .. n) = n
  BY FS_Interval
<1>7. Cardinality(T) = n
  BY <1>5, <1>6, FS_Bijection DEF ExistsBijection
<1> QED
  BY <1>4, <1>7

\* While keys are left there is a batch to load.
LEMMA NoBatches ==
  ASSUME NEW t \in Tables, Batches(t) = {}
  PROVE  \A d \in Devices : t[d] = 0
<1> DEFINE left == {d \in Devices : t[d] # 0}
<1>1. IsFiniteSet(left) /\ Cardinality(left) \in Nat
  BY DevicesAssumption, FS_Subset, FS_CardinalityType
<1>2. CASE BatchSize <= Cardinality(left)
  <2>1. PICK b \in SUBSET left : Cardinality(b) = BatchSize
    BY <1>1, <1>2, SubsetOfSize, BatchSizeAssumption
  <2>2. b \in Batches(t)
    BY <2>1 DEF Batches
  <2> QED
    BY <2>2
<1>3. CASE Cardinality(left) < BatchSize
  <2>1. left = {}
    BY <1>3 DEF Batches
  <2> QED
    BY <2>1
<1> QED
  BY <1>1, <1>2, <1>3, BatchSizeAssumption

\* What the first frame makes the host do.
LEMMA HandleCases ==
  ASSUME TypeOK, Handle
  PROVE  \/ pipe[1][1] \notin Notification /\ UNCHANGED <<app, unseen, learned>>
         \/ \E c \in Counters, v \in 0 .. MaxCounter :
              pipe[1][1] = "counter" /\ pipe[1][2] = c /\ pipe[1][3] = v /\ HandleCounter(c, v)
         \/ \E d \in Devices, v \in 1 .. MaxKey :
              pipe[1][1] = "key" /\ pipe[1][2] = d /\ pipe[1][3] = v /\ HandleLinkKey(d, v)
<1>1. Head(pipe) = pipe[1] /\ pipe[1] \in Inbound
  BY TailPipe DEF Handle
<1>2. CASE pipe[1] = Reply \/ pipe[1] = Unasked
  <2>1. pipe[1][1] \notin Notification
    BY <1>1, <1>2, Frames
  <2> QED
    BY <1>1, <2>1 DEF Handle, Notification
<1>3. CASE pipe[1][1] = "counter" /\ HandleCounter(pipe[1][2], pipe[1][3])
  BY <1>1, <1>3, Frames
<1>4. CASE pipe[1][1] = "key" /\ HandleLinkKey(pipe[1][2], pipe[1][3])
  BY <1>1, <1>4, Frames
<1> QED
  BY <1>1, <1>2, <1>3, <1>4 DEF Handle

\* When the keys of t are being loaded, a batch of them is loaded or none is left.
LEMMA LoadNextKeeps ==
  ASSUME TypeOK, NEW t \in Tables, Loads(t), LoadNext(t), Written \in Settings,
         UNCHANGED <<op, state>>
  PROVE  /\ pc' \in {"keyTable", "children"}
         /\ pc' = "keyTable" /\ reply' = "ok" => Loads(todo)'
         /\ pc' = "children" => keys' = Written'.keys
<1>0. Written' = Written /\ Written.keys \in Tables /\ keys \in Tables
  BY DEF Written, Settings, TypeOK
<1>1. ASSUME NEW b \in Batches(t), Await("keyTable", "ok"),
             keys' = [d \in Devices |-> IF d \in b THEN t[d] ELSE keys[d]],
             todo' = [d \in Devices |-> IF d \in b THEN 0 ELSE t[d]]
      PROVE  pc' = "keyTable" /\ Loads(todo)'
  <2>1. \A d \in b : t[d] # 0
    BY <1>1 DEF Batches
  <2>2. ASSUME NEW d \in Devices
        PROVE  \/ todo'[d] = 0 /\ keys'[d] = Written.keys[d]
               \/ todo'[d] = Written.keys[d] /\ keys'[d] = 0
    BY <1>1, <2>1 DEF Loads
  <2> QED
    BY <1>0, <1>1, <2>2 DEF Loads, Await
<1>2. ASSUME Batches(t) = {}, NEW a, Await("children", a), UNCHANGED keys
      PROVE  pc' = "children" /\ keys' = Written'.keys
  <2>1. \A d \in Devices : keys[d] = Written.keys[d]
    BY <1>2, NoBatches DEF Loads
  <2>2. keys = Written.keys
    BY <1>0, <2>1 DEF Tables
  <2> QED
    BY <1>0, <1>2, <2>2 DEF Await
<1>3. ASSUME Await("keyTable", "refused") PROVE pc' = "keyTable" /\ reply' = "refused"
  BY <1>3 DEF Await
<1> QED
  BY <1>1, <1>2, <1>3 DEF LoadNext

LEMMA KeysKeptAlways ==
  ASSUME Inv, Next
  PROVE  KeysKept'
<1> SUFFICES ASSUME ~overtaken', ~torn' PROVE KeysHeld' /\ KeysCopied'
  BY DEF KeysKept
<1>0. /\ TypeOK /\ Control /\ Answered /\ Flow
      /\ ~overtaken /\ ~torn /\ KeysHeld /\ KeysCopied
  BY Monotone DEF Inv, KeysKept
<1>a. /\ \A d \in Devices : keys[d] \in Nat /\ learned[d] \in Nat
      /\ \A s \in {state, backup} \ {None} : s \in Settings /\ \A d \in Devices : s.keys[d] \in Nat
  BY <1>0, BoundsAssumption DEF TypeOK, Settings, Tables
<1>b. pc \in Writing => Written \in Settings
  BY <1>0, FreshSettings DEF Written, Control, TypeOK
<1>c. ASSUME SamePlaces, UNCHANGED keys, run' = "started" => run = "started"
      PROVE  run' = "started" => \A i \in 1 .. Len(pipe') :
               pipe'[i][1] = "key" => pipe'[i][3] <= keys'[pipe'[i][2]]
  BY <1>0, <1>c DEF SamePlaces, KeysHeld, Notification
<1>d. ASSUME SamePlaces, UNCHANGED keys, run' = "started" => run = "started", UNCHANGED <<app, learned>>
      PROVE  KeysHeld'
  BY <1>0, <1>c, <1>d DEF KeysHeld, app
<1>1. CASE Ends
  <2>1. SamePlaces
    BY <1>0, <1>1, NoNews DEF Ends
  <2>2. pc' = "idle" /\ op' = "none"
    BY <1>1 DEF Ends, Finish
  <2> QED
    BY <1>1, <1>d, <2>1, <2>2 DEF Ends, radio, history, KeysCopied, Writes, Writing
<1>2. CASE Continues
  <2>1. PICK r \in {"rest", "tunable"}, a \in Answers : Await(r, a)
    BY <1>2 DEF Continues
  <2>2. SamePlaces
    BY <1>0, <2>1, NoNews
  <2>3. KeysHeld'
    BY <1>2, <1>d, <2>2 DEF Continues, radio, history
  <2>4. pc' = "rest" => pc = "keys" /\ reply = "ok"
    BY <1>2, <2>1 DEF Continues, Await, Resumes
  <2> QED
    BY <1>0, <1>2, <2>1, <2>3, <2>4 DEF Continues, Await, KeysCopied, Writes, Writing, radio
<1>3. ASSUME NEW o \in {"load", "start"}, GetNetworkInfo(o) PROVE KeysHeld' /\ KeysCopied'
  <2>1. PICK a : Await("info", a)
    BY <1>3 DEF GetNetworkInfo
  <2>2. SamePlaces
    BY <1>0, <2>1, NoNews
  <2>3. KeysHeld'
    BY <1>3, <1>d, <2>2 DEF GetNetworkInfo, radio
  <2> QED
    BY <2>1, <2>3 DEF Await, KeysCopied, Writes, Writing
<1>4. ASSUME NEW s \in Settings, s # None, \A d \in Devices : s.keys[d] >= learned[d],
             op \in {"load", "start"}, Loaded(s)
      PROVE  KeysHeld' /\ KeysCopied'
  <2>1. SamePlaces
    BY <1>0, <1>4, NoNews DEF Loaded, SendConfigure
  <2>2. state' = s /\ UNCHANGED <<backup, learned>>
    BY <1>4 DEF Loaded
  <2>3. CASE op = "load" \/ reply' = "refused"
    <3>1. UNCHANGED radio /\ pc' \in {"idle", "configure"} /\ reply' # "ok"
      BY <1>4, <2>3 DEF Loaded, SendConfigure, Finish, Await
    <3>2. KeysHeld'
      BY <1>0, <1>4, <1>c, <2>1, <2>2, <3>1 DEF KeysHeld, radio
    <3> QED
      BY <3>1, <3>2 DEF KeysCopied, Writes, Writing
  <2>4. CASE op = "start" /\ reply' # "refused"
    <3>1. run' = "configured" /\ keys' = NoKeys /\ op' = "start" /\ pc' = "configure"
      BY <1>4, <2>4 DEF Loaded, SendConfigure, Configure, Await
    <3>2. KeysHeld'
      BY <1>0, <1>4, <2>2, <3>1 DEF KeysHeld
    <3> QED
      BY <3>1, <3>2 DEF KeysCopied
  <2> QED
    BY <1>4, <2>3, <2>4
<1>5. CASE LoadBackup
  <2>1. Restored \in Settings /\ Restored # None /\ backup # None /\ Restored.keys = backup.keys
    BY <1>0, <1>5, RestoredBackup, NoneAssumption DEF LoadBackup
  <2>2. \A d \in Devices : Restored.keys[d] >= learned[d]
    <3> TAKE d \in Devices
    <3>1. backup.keys[d] \in Nat /\ learned[d] \in Nat
      BY <1>a, <2>1
    <3>2. learned[d] # 0 => backup.keys[d] >= learned[d]
      BY <1>0 DEF KeysHeld
    <3> QED
      BY <2>1, <3>1, <3>2
  <2> QED
    BY <1>0, <1>4, <1>5, <2>1, <2>2 DEF LoadBackup, Resumes, Control, Loading
<1>6. CASE ScanKeyTable
  <2>1. PICK a \in Answers : Await("keys", a)
    BY <1>6 DEF ScanKeyTable, Answers
  <2>2. SamePlaces
    BY <1>0, <2>1, NoNews
  <2>3. KeysHeld'
    BY <1>6, <1>d, <2>2 DEF ScanKeyTable, radio, history
  <2>4. reply' = "ok" => snap'.keys = keys'
    BY <1>0, <1>6 DEF ScanKeyTable, Await, radio, TypeOK, Settings
  <2> QED
    BY <2>1, <2>3, <2>4 DEF Await, KeysCopied, Writes, Writing
<1>7. CASE LoadScanned
  <2>1. pc = "rest" /\ snap \in Settings /\ snap # None /\ run = "started"
    BY <1>0, <1>7, NoneAssumption DEF LoadScanned, Resumes, TypeOK, Answered, Reads
  <2>2. \A d \in Devices : snap.keys[d] >= learned[d]
    BY <1>0, <2>1 DEF KeysHeld, KeysCopied
  <2> QED
    BY <1>0, <1>4, <1>7, <2>1, <2>2 DEF LoadScanned, Control, Loading
<1>8. CASE FormNetwork
  <2>1. PICK a : Await("address", a)
    BY <1>8 DEF FormNetwork
  <2>2. SamePlaces
    BY <1>0, <2>1, NoNews
  <2> QED
    BY <1>8, <1>d, <2>1, <2>2 DEF FormNetwork, radio, history, Await, KeysCopied, Writes, Writing
<1>9. CASE FormConfigure
  <2>1. PICK a \in Answers : Await("configure", a)
    BY <1>9 DEF FormConfigure, SendConfigure, Answers
  <2>2. SamePlaces /\ UNCHANGED app /\ pc' = "configure" /\ reply' = a
    BY <1>0, <1>9, <2>1, NoNews DEF FormConfigure, Await
  <2>3. CASE a = "ok"
    <3>1. run' = "configured" /\ keys' = NoKeys /\ learned' = NoKeys
      BY <1>9, <2>2, <2>3 DEF FormConfigure, SendConfigure, Configure, Await
    <3>2. KeysHeld'
      BY <1>a, <2>2, <3>1 DEF KeysHeld, NoKeys, app
    <3> QED
      BY <2>2, <3>1, <3>2 DEF KeysCopied
  <2>4. CASE a = "refused"
    <3>1. UNCHANGED radio /\ UNCHANGED learned
      BY <1>9, <2>2, <2>4 DEF FormConfigure, SendConfigure, Await
    <3> QED
      BY <1>d, <2>2, <2>4, <3>1 DEF radio, KeysCopied, Writes, Writing
  <2> QED
    BY <2>3, <2>4 DEF Answers
<1>10. CASE LoadKeyTable
  <2>1. PICK t \in Tables : LoadNext(t) /\ Loads(t)
    <3>1. Written \in Settings /\ Written.keys \in Tables /\ todo \in Tables
      BY <1>0, <1>10, <1>b DEF LoadKeyTable, Resumes, Writing, Settings, TypeOK
    <3>2. CASE Resumes("configure", "ok") /\ LoadNext(Written.keys)
      BY <1>0, <3>1, <3>2 DEF Resumes, KeysCopied, Loads, NoKeys
    <3>3. CASE Resumes("keyTable", "ok") /\ LoadNext(todo)
      BY <1>0, <3>1, <3>3 DEF Resumes, KeysCopied
    <3> QED
      BY <1>10, <3>2, <3>3 DEF LoadKeyTable
  <2>2. UNCHANGED <<op, app, run, learned>> /\ pc \in Writing /\ Writes /\ pc # "start"
    BY <1>10 DEF LoadKeyTable, Resumes, Writes, Writing, history
  <2>3. run = "configured"
    BY <1>0, <2>2 DEF Answered
  <2>4. /\ pc' \in {"keyTable", "children"}
        /\ pc' = "keyTable" /\ reply' = "ok" => Loads(todo)'
        /\ pc' = "children" => keys' = Written'.keys
    BY <1>0, <1>b, <2>1, <2>2, LoadNextKeeps DEF app
  <2>5. KeysHeld'
    BY <1>0, <2>2, <2>3 DEF KeysHeld, app
  <2> QED
    BY <1>0, <2>2, <2>4, <2>5 DEF KeysCopied
<1>11. CASE StartNetwork
  <2>1. PICK a \in Answers : Await("start", a)
    BY <1>11 DEF StartNetwork, Answers
  <2>2. /\ pc' = "start" /\ reply' = a /\ UNCHANGED <<op, app, keys, learned>>
        /\ pc = "children" /\ Writes /\ SamePlaces
    BY <1>0, <1>11, <2>1, NoNews DEF StartNetwork, Await, Resumes, Writes, Writing
  <2>3. run = "configured" /\ keys = Written.keys
    BY <1>0, <2>2 DEF Answered, KeysCopied
  <2>4. Silent
    BY <1>0, <2>3 DEF Flow
  <2>5. \A i \in 1 .. Len(pipe') : pipe'[i][1] # "key"
    BY <2>2, <2>4 DEF SamePlaces, Silent, Notification
  <2>6. \A d \in Devices : keys[d] >= learned[d]
    <3>1. CASE op = "form"
      BY <1>0, <1>a, <2>2, <3>1 DEF KeysCopied, NoKeys
    <3>2. CASE op = "start"
      BY <1>0, <2>2, <2>3, <3>2 DEF KeysHeld, Written, Control, Writing
    <3> QED
      BY <1>0, <2>2, <3>1, <3>2 DEF Control, Writing
  <2>7. KeysHeld'
    BY <1>0, <2>2, <2>5, <2>6 DEF KeysHeld, app
  <2>8. Written' = Written
    BY <2>2 DEF Written, app
  <2> QED
    BY <1>0, <2>2, <2>3, <2>7, <2>8 DEF KeysCopied
<1>12. CASE Record
  <2>1. /\ pc = "start" /\ reply = "ok" /\ state' = Written /\ backup' = Written
        /\ UNCHANGED <<run, keys, learned>> /\ Writes
    BY <1>12 DEF Record, Resumes, radio, Writes, Writing
  <2>2. Written \in Settings /\ Written # None
    BY <1>b, <2>1, NoneAssumption DEF Writing
  <2>3. \A d \in Devices : Written.keys[d] >= learned[d]
    <3>1. CASE op = "form"
      BY <1>0, <2>1, <3>1, FreshSettings DEF KeysCopied, NoKeys, Written
    <3>2. CASE op = "start"
      BY <1>0, <2>1, <3>2 DEF KeysHeld, Written, Control, Writing
    <3> QED
      BY <1>0, <2>1, <3>1, <3>2 DEF Control, Writing
  <2>4. SamePlaces /\ pc' \in {"idle", "tunable"}
    BY <1>0, <1>12, NoNews DEF Record, Finish, Await
  <2>5. KeysHeld'
    BY <1>0, <1>c, <2>1, <2>2, <2>3, <2>4 DEF KeysHeld
  <2> QED
    BY <2>4, <2>5 DEF KeysCopied, Writes, Writing
<1>13. CASE Moving
  <2>1. PICK r \in {"updateId", "channel"}, a \in Answers : Await(r, a)
    BY <1>13 DEF Moving, SetNwkUpdateId, SetChannel, Answers
  <2>2. SamePlaces /\ pc' = r
    BY <1>0, <2>1, NoNews DEF Await
  <2>3. UNCHANGED <<run, keys, app, learned>>
    BY <1>13 DEF Moving, SetNwkUpdateId, SetChannel, Retune, radio, history
  <2> QED
    BY <1>d, <2>1, <2>2, <2>3 DEF KeysCopied, Writes, Writing
<1>14. CASE Shutdown
  <2>1. PICK a : Await("shutdown", a)
    BY <1>14 DEF Shutdown
  <2>2. SamePlaces /\ pc' = "shutdown" /\ UNCHANGED <<app, learned>>
    BY <1>0, <1>14, <2>1, NoNews DEF Shutdown, Forget, Await, history
  <2>3. run' = "blank" \/ UNCHANGED <<run, keys>>
    BY <1>14 DEF Shutdown, Forget, radio
  <2>4. KeysHeld'
    BY <1>0, <1>d, <2>2, <2>3 DEF KeysHeld, app
  <2> QED
    BY <2>2, <2>4 DEF KeysCopied, Writes, Writing
<1>15. CASE Reconnect
  BY <1>0, <1>15 DEF Reconnect, radio, task, app, history, KeysHeld, KeysCopied, Writes, Loads, Written
<1>16. ASSUME NEW restart \in BOOLEAN, ConnectionLost(restart) \/ Reboot(restart)
       PROVE  KeysHeld' /\ KeysCopied'
  <2>1. /\ pc' = "idle" /\ op' = "none" /\ pipe' = <<>> /\ UNCHANGED <<backup, learned>>
        /\ state' = state \/ state' = None
    BY <1>16 DEF ConnectionLost, Reboot, Drop, Forget, history
  <2>2. run' = "blank" \/ UNCHANGED <<run, keys>>
    BY <1>16 DEF ConnectionLost, Reboot, Forget, radio
  <2> QED
    BY <1>0, <2>1, <2>2 DEF KeysHeld, KeysCopied, Writes, Writing
<1>17. CASE Handle
  <2>1. /\ Len(pipe) \in Nat \ {0} /\ Len(pipe') = Len(pipe) - 1
        /\ \A i \in 1 .. Len(pipe') : pipe'[i] = pipe[i + 1]
        /\ Head(pipe) = pipe[1] /\ 1 \in 1 .. Len(pipe)
    BY <1>0, <1>17, TailPipe DEF Handle
  <2>2. UNCHANGED <<run, keys, snap, op, pc, todo, reply>>
    BY <1>17 DEF Handle, radio
  <2>3. run' = "started" => \A i \in 1 .. Len(pipe') :
          pipe'[i][1] = "key" => pipe'[i][3] <= keys'[pipe'[i][2]]
    <3> SUFFICES ASSUME run = "started", NEW i \in 1 .. Len(pipe'), pipe'[i][1] = "key"
                 PROVE  pipe'[i][3] <= keys[pipe'[i][2]]
      BY <2>2
    <3>1. i + 1 \in 1 .. Len(pipe) /\ pipe'[i] = pipe[i + 1]
      BY <2>1
    <3> QED
      BY <1>0, <3>1 DEF KeysHeld
  <2>4. CASE UNCHANGED <<app, unseen, learned>>
    <3>1. KeysHeld'
      BY <1>0, <2>2, <2>3, <2>4 DEF KeysHeld, app
    <3> QED
      BY <1>0, <2>2, <2>4, <3>1 DEF KeysCopied, Loads, Written, Writes, app
  <2>5. CASE pipe[1][1] \in Notification
    <3>1. ~Silent
      BY <2>1, <2>5 DEF Silent
    <3>2. run # "configured" /\ ~(op = "form" /\ pc = "start")
      BY <1>0, <3>1 DEF Flow
    <3>3. KeysCopied'
      BY <1>0, <2>2, <3>2 DEF KeysCopied, Answered, Writes, Writing
    <3>4. CASE \E c \in Counters, v \in 0 .. MaxCounter : HandleCounter(c, v)
      <4>1. PICK c \in Counters, v \in 0 .. MaxCounter : HandleCounter(c, v)
        BY <3>4
      <4>2. learned' = learned
        BY <4>1 DEF HandleCounter
      <4>3. CASE state = None
        <5>1. UNCHANGED app
          BY <4>1, <4>3 DEF HandleCounter, Change
        <5>2. KeysHeld'
          BY <1>0, <2>2, <2>3, <4>2, <5>1 DEF KeysHeld, app
        <5> QED
          BY <3>3, <5>2
      <4>4. CASE state # None
        <5>0. state \in Settings
          BY <1>0, <4>4 DEF TypeOK
        <5>a. state' = [state EXCEPT !.ctr[c] = v] /\ backup' = state'
          BY <4>1, <4>4 DEF HandleCounter, Change
        <5>b. state' \in Settings /\ state'.keys = state.keys
          BY <5>0, <5>a, CounterChange
        <5>1. backup' = state' /\ state' # None /\ state'.keys = state.keys
          BY <5>a, <5>b, NoneAssumption
        <5>2. KeysHeld'
          BY <1>0, <2>2, <2>3, <4>2, <4>4, <5>1 DEF KeysHeld
        <5> QED
          BY <3>3, <5>2
      <4> QED
        BY <3>3, <4>3, <4>4
    <3>5. CASE \E d \in Devices, v \in 1 .. MaxKey :
                 pipe[1][1] = "key" /\ pipe[1][2] = d /\ pipe[1][3] = v /\ HandleLinkKey(d, v)
      <4>1. PICK d \in Devices, v \in 1 .. MaxKey :
                 pipe[1][1] = "key" /\ pipe[1][2] = d /\ pipe[1][3] = v /\ HandleLinkKey(d, v)
        BY <3>5
      <4>2. run = "started" => v <= keys[d]
        BY <1>0, <2>1, <4>1 DEF KeysHeld
      <4>3. CASE state = None
        <5>1. UNCHANGED app /\ learned' = learned
          BY <4>1, <4>3 DEF HandleLinkKey, Change
        <5>2. KeysHeld'
          BY <1>0, <2>2, <2>3, <5>1 DEF KeysHeld, app
        <5> QED
          BY <3>3, <5>2
      <4>4. CASE state # None
        <5>1. state \in Settings /\ learned \in Tables /\ state.keys \in Tables /\ v \in Nat
          BY <1>0, <4>4 DEF TypeOK, Settings
        <5>a. /\ state' = [state EXCEPT !.keys[d] = v] /\ backup' = state'
              /\ learned' = [learned EXCEPT ![d] = v]
          BY <4>1, <4>4 DEF HandleLinkKey, Change
        <5>b. state' \in Settings /\ state'.keys = [state.keys EXCEPT ![d] = v]
          BY <5>1, <5>a, KeyChange
        <5>2. /\ backup' = state' /\ state' # None /\ state'.keys = [state.keys EXCEPT ![d] = v]
              /\ learned' = [learned EXCEPT ![d] = v]
          BY <5>a, <5>b, NoneAssumption
        <5>3. ASSUME NEW x \in Devices
              PROVE  /\ state'.keys[x] >= learned'[x]
                     /\ run' = "started" => keys'[x] >= learned'[x]
          BY <1>0, <2>2, <4>2, <4>4, <5>1, <5>2 DEF KeysHeld, Tables
        <5>4. KeysHeld'
          BY <2>3, <5>2, <5>3 DEF KeysHeld
        <5> QED
          BY <3>3, <5>4
      <4> QED
        BY <3>3, <4>3, <4>4
    <3> QED
      BY <1>0, <1>17, <2>5, <3>4, <3>5, HandleCases DEF Notification
  <2> QED
    BY <1>0, <1>17, <2>4, <2>5, HandleCases DEF Notification
<1>18. ASSUME NEW c \in Counters, NEW reports \in BOOLEAN, Transmit(c, reports)
       PROVE  KeysHeld' /\ KeysCopied'
  <2>1. UNCHANGED <<run, keys, snap, op, pc, todo, reply, app, learned>>
    BY <1>18 DEF Transmit, task
  <2>2. \A i \in 1 .. Len(pipe') : pipe'[i][1] = "key" => i \in 1 .. Len(pipe) /\ pipe'[i] = pipe[i]
    <3> DEFINE f == <<"counter", c, ctr[c] + 1>>
    <3>1. f \in Inbound /\ f[1] # "key"
      BY <1>0, <1>18, BoundsAssumption DEF Transmit, Inbound, TypeOK, Readings
    <3>2. Len(pipe) < MaxPipe /\ (pipe' = pipe \/ pipe' = Append(pipe, f))
      BY <1>18 DEF Transmit, Notify
    <3> HIDE DEF f
    <3> QED
      BY <1>0, <3>1, <3>2, NotifyPipe
  <2>3. KeysHeld'
    BY <1>0, <2>1, <2>2 DEF KeysHeld, app
  <2> QED
    BY <1>0, <2>1, <2>3 DEF KeysCopied, Loads, Written, Writes, app
<1>19. ASSUME NEW d \in Devices, IssueKey(d) PROVE KeysHeld' /\ KeysCopied'
  <2>1. /\ run = "started" /\ UNCHANGED <<run, snap, op, pc, todo, reply, app, learned>>
        /\ keys' = [keys EXCEPT ![d] = @ + 1]
    BY <1>19 DEF IssueKey, task
  <2>2. ASSUME NEW x \in Devices PROVE keys'[x] >= keys[x] /\ keys[x] \in Nat /\ learned[x] \in Nat
    BY <1>0, <1>a, <2>1 DEF TypeOK, Tables
  <2>3. ASSUME NEW i \in 1 .. Len(pipe'), pipe'[i][1] = "key"
        PROVE  pipe'[i][3] <= keys'[pipe'[i][2]]
    <3> DEFINE f == <<"key", d, keys[d] + 1>>
    <3>1. keys[d] + 1 \in 1 .. MaxKey
      BY <1>0, <1>19, BoundsAssumption DEF IssueKey, TypeOK, Tables
    <3>2. f \in Inbound /\ f[2] = d /\ f[3] = keys[d] + 1
      BY <3>1 DEF Inbound
    <3>3. Len(pipe) < MaxPipe /\ (pipe' = pipe \/ pipe' = Append(pipe, f))
      BY <1>19 DEF IssueKey, Notify
    <3>4. keys'[d] = keys[d] + 1
      BY <1>0, <2>1 DEF TypeOK, Tables
    <3> HIDE DEF f
    <3>5. CASE i \in 1 .. Len(pipe) /\ pipe'[i] = pipe[i]
      <4>1. pipe[i] \in Inbound /\ pipe[i][1] = "key"
        BY <1>0, <2>3, <3>5 DEF TypeOK
      <4>2. pipe[i][2] \in Devices /\ pipe[i][3] \in 1 .. MaxKey
        BY <4>1, Frames
      <4>3. pipe[i][3] <= keys[pipe[i][2]] /\ keys[pipe[i][2]] \in Nat
        BY <1>0, <1>a, <2>1, <3>5, <4>1, <4>2 DEF KeysHeld
      <4>4. keys'[pipe[i][2]] = keys[pipe[i][2]] \/ keys'[pipe[i][2]] = keys[pipe[i][2]] + 1
        BY <1>0, <2>1, <4>2 DEF TypeOK, Tables
      <4> QED
        BY <3>5, <4>2, <4>3, <4>4
    <3>6. CASE pipe'[i] = f
      BY <2>2, <3>1, <3>2, <3>4, <3>6
    <3> QED
      BY <1>0, <3>2, <3>3, <3>5, <3>6, NotifyPipe
  <2>4. KeysHeld'
    <3>1. ASSUME NEW x \in Devices PROVE keys'[x] >= learned[x]
      <4>1. keys'[x] \in Nat /\ keys[x] >= learned[x]
        BY <1>0, <2>1, <2>2 DEF KeysHeld, TypeOK, Tables
      <4> QED
        BY <2>2, <4>1
    <3> QED
      BY <1>0, <2>1, <2>3, <3>1 DEF KeysHeld, app
  <2>5. pc \notin {"keys", "rest"} /\ ~(op = "form" /\ pc = "start")
    BY <1>0, <1>19 DEF IssueKey, Copied, TypeOK
  <2> QED
    BY <1>0, <2>1, <2>4, <2>5 DEF KeysCopied, Answered, Writes, Writing
<1> QED
  BY <1>1, <1>2, <1>3, <1>5, <1>6, <1>7, <1>8, <1>9, <1>10, <1>11, <1>12, <1>13, <1>14, <1>15,
     <1>16, <1>17, <1>18, <1>19, Steps

-----------------------------------------------------------------------------
(* The frame counters *)

LEMMA CounterTypes ==
  ASSUME TypeOK, NEW c \in Counters
  PROVE  /\ ctr[c] \in Nat /\ used[c] \in Nat /\ unseen[c] \in Nat /\ snap.ctr[c] \in Nat /\ Margin \in Nat
         /\ \A s \in {state, backup} \ {None} : s \in Settings /\ s.ctr[c] \in Nat
         /\ \A i \in 1 .. Len(pipe) : Reported(i, c) => pipe[i][3] \in Nat
<1>1. /\ ctr[c] \in Nat /\ used[c] \in Nat /\ unseen[c] \in Nat /\ snap.ctr[c] \in Nat /\ Margin \in Nat
      /\ \A s \in {state, backup} \ {None} : s \in Settings /\ s.ctr[c] \in Nat
  BY BoundsAssumption DEF TypeOK, Settings, Readings
<1>2. ASSUME NEW i \in 1 .. Len(pipe), Reported(i, c) PROVE pipe[i][3] \in Nat
  <2>1. pipe[i] \in Inbound
    BY DEF TypeOK
  <2>2. pipe[i][3] \in 0 .. MaxCounter
    BY <1>2, <2>1, Frames DEF Reported
  <2> QED
    BY <2>2, BoundsAssumption
<1> QED
  BY <1>1, <1>2

\* The notifications of the counter are those that were on the way, in their places.
SameReports(c) ==
  \A i \in 1 .. Len(pipe') :
    Reported(i, c)' => i \in 1 .. Len(pipe) /\ pipe'[i] = pipe[i] /\ Reported(i, c)

LEMMA SamePlacesReports ==
  ASSUME SamePlaces, NEW c
  PROVE  SameReports(c)
BY DEF SamePlaces, SameReports, Reported, Notification

LEMMA OrderKept ==
  ASSUME NEW c \in Counters, SameReports(c), InOrder(c), used'[c] = used[c]
  PROVE  InOrder(c)'
<1>1. \A i \in 1 .. Len(pipe') : Reported(i, c)' => pipe'[i][3] <= used'[c]
  BY DEF SameReports, InOrder
<1>2. \A i, j \in 1 .. Len(pipe') :
        i < j /\ Reported(i, c)' /\ Reported(j, c)' => pipe'[i][3] <= pipe'[j][3]
  BY DEF SameReports, InOrder
<1> QED
  BY <1>1, <1>2 DEF InOrder

\* What Covers says after the step, of a value that may be one after the step itself.
CoversThen(v, c) ==
  CASE run' = "started"    -> v + unseen'[c] >= ctr'[c]
    [] run' = "configured" -> v + unseen'[c] >= used'[c] \/ v + Margin >= used'[c]
    [] run' = "blank"      -> v + Margin >= used'[c]

LEMMA CoveredThen ==
  ASSUME NEW c,
         ~ran' /\ state' # None => CoversThen(state'.ctr[c], c),
         ~ran' /\ backup' # None => CoversThen(backup'.ctr[c], c),
         ~ran' => \A i \in 1 .. Len(pipe') : Reported(i, c)' => CoversThen(pipe'[i][3], c)
  PROVE  Covered(c)'
BY DEF Covered, Covers, CoversThen

LEMMA CoveredKept ==
  ASSUME NEW c \in Counters, SameReports(c), Covered(c),
         UNCHANGED <<run, backup, ran>>, state' = state \/ state' = None,
         ctr'[c] = ctr[c], used'[c] = used[c], unseen'[c] = unseen[c]
  PROVE  Covered(c)'
<1>1. \A v : Covers(v, c) => CoversThen(v, c)
  BY DEF Covers, CoversThen
<1>2. \A i \in 1 .. Len(pipe') : ~ran' /\ Reported(i, c)' => Covers(pipe[i][3], c) /\ pipe'[i] = pipe[i]
  BY DEF Covered, SameReports
<1>3. ~ran' /\ state' # None => Covers(state'.ctr[c], c)
  BY DEF Covered
<1>4. ~ran' /\ backup' # None => Covers(backup'.ctr[c], c)
  BY DEF Covered
<1> QED
  BY <1>1, <1>2, <1>3, <1>4, CoveredThen

\* What covered the counter on the device covers it within the margin once that forgot it.
LEMMA ForgetCounter ==
  ASSUME TypeOK, ~torn', ~outrun', Forget, NEW c \in Counters,
         CounterAhead(c), InOrder(c), Covered(c), SameReports(c),
         backup' = backup, state' = state \/ state' = None
  PROVE  /\ run' = "blank" /\ unseen'[c] <= Margin
         /\ InOrder(c)' /\ Covered(c)'
<1>1. /\ run \in {"configured", "started"} /\ run' = "blank" /\ UNCHANGED <<used, unseen>>
      /\ unseen[c] <= Margin /\ ~ran
  <2>1. run \in {"configured", "started"} /\ run' = "blank" /\ UNCHANGED <<used, unseen>>
    BY DEF Forget, TypeOK
  <2>2. ~ran
    BY DEF Forget
  <2>3. ~(unseen[c] > Margin)
    BY DEF Forget
  <2> QED
    BY <2>1, <2>2, <2>3, CounterTypes
<1>2. ASSUME NEW v \in Nat, Covers(v, c) PROVE v + Margin >= used[c]
  <2>1. ctr[c] \in Nat /\ used[c] \in Nat /\ unseen[c] \in Nat /\ Margin \in Nat /\ ctr[c] >= used[c]
    BY <1>1, CounterTypes DEF CounterAhead
  <2>2. v + unseen[c] >= used[c] \/ v + Margin >= used[c]
    <3>1. CASE run = "started"
      <4>1. v + unseen[c] >= ctr[c]
        BY <1>2, <3>1 DEF Covers
      <4> QED
        BY <1>2, <2>1, <4>1
    <3>2. CASE run = "configured"
      BY <1>2, <3>2 DEF Covers
    <3> QED
      BY <1>1, <3>1, <3>2
  <2> QED
    BY <1>1, <1>2, <2>1, <2>2
<1>3. state' # None => state.ctr[c] + Margin >= used[c] /\ state' = state
  BY <1>1, <1>2, CounterTypes DEF Covered
<1>4. backup' # None => backup.ctr[c] + Margin >= used[c]
  BY <1>1, <1>2, CounterTypes DEF Covered
<1>5. \A i \in 1 .. Len(pipe') : Reported(i, c)' => pipe'[i][3] + Margin >= used[c]
  <2> SUFFICES ASSUME NEW i \in 1 .. Len(pipe'), Reported(i, c)'
               PROVE  pipe'[i][3] + Margin >= used[c]
    OBVIOUS
  <2>1. i \in 1 .. Len(pipe) /\ pipe'[i] = pipe[i] /\ Reported(i, c)
    BY DEF SameReports
  <2>2. pipe[i][3] \in Nat /\ Covers(pipe[i][3], c)
    BY <1>1, <2>1, CounterTypes DEF Covered
  <2> QED
    BY <1>2, <2>1, <2>2
<1>6. InOrder(c)'
  BY <1>1, OrderKept
<1>7. Covered(c)'
  BY <1>1, <1>3, <1>4, <1>5 DEF Covered, Covers
<1> QED
  BY <1>1, <1>6, <1>7

\* Settings past what was used configure the device.
LEMMA ConfigureCounter ==
  ASSUME TypeOK, NEW c \in Counters, NEW s \in Settings, Configure(s),
         CounterAhead(c), InOrder(c), Covered(c), SameReports(c), Silent,
         s.ctr[c] >= used[c], UNCHANGED <<used, unseen, ran, backup>>, state' = s
  PROVE  /\ run' = "configured" /\ ctr'[c] = s.ctr[c]
         /\ \A i \in 1 .. Len(pipe') : ~Reported(i, c)'
         /\ InOrder(c)' /\ Covered(c)'
<1>1. run' = "configured" /\ ctr'[c] = s.ctr[c] /\ s.ctr[c] \in Nat
  BY BoundsAssumption DEF Configure, Settings, Readings
<1>2. \A i \in 1 .. Len(pipe') : ~Reported(i, c)'
  BY DEF SameReports, Silent, Reported, Notification
<1>3. s.ctr[c] + Margin >= used[c]
  BY <1>1, CounterTypes
<1>4. ASSUME ~ran, backup # None
      PROVE  backup.ctr[c] + unseen[c] >= used[c] \/ backup.ctr[c] + Margin >= used[c]
  <2>1. /\ ctr[c] \in Nat /\ used[c] \in Nat /\ unseen[c] \in Nat /\ Margin \in Nat
        /\ backup.ctr[c] \in Nat
    BY <1>4, CounterTypes
  <2>2. Covers(backup.ctr[c], c)
    BY <1>4 DEF Covered
  <2>3. run \in {"blank", "configured", "started"}
    BY DEF TypeOK
  <2>4. CASE run = "started"
    <3>1. backup.ctr[c] + unseen[c] >= ctr[c] /\ ctr[c] >= used[c]
      BY <2>2, <2>4 DEF Covers, CounterAhead
    <3> QED
      BY <2>1, <3>1
  <2>5. CASE run = "configured"
    BY <2>2, <2>5 DEF Covers
  <2>6. CASE run = "blank"
    BY <2>2, <2>6 DEF Covers
  <2> QED
    BY <2>3, <2>4, <2>5, <2>6
<1>5. InOrder(c)'
  BY OrderKept
<1>6. Covered(c)'
  BY <1>1, <1>2, <1>3, <1>4 DEF Covered, Covers
<1> QED
  BY <1>1, <1>2, <1>5, <1>6

\* What the first frame does to a counter.
LEMMA HandleCounterKept ==
  ASSUME TypeOK, Handle, NEW c \in Counters, Control, Answered,
         CounterAhead(c), InOrder(c), Covered(c), NotAhead(c)
  PROVE  CounterAhead(c)' /\ InOrder(c)' /\ Covered(c)' /\ NotAhead(c)'
<1>1. /\ Len(pipe) \in Nat \ {0} /\ Len(pipe') = Len(pipe) - 1
      /\ \A i \in 1 .. Len(pipe') : pipe'[i] = pipe[i + 1]
      /\ 1 \in 1 .. Len(pipe)
  BY TailPipe DEF Handle
<1>2. UNCHANGED <<run, ctr, snap, op, pc, reply, used, ran>>
  BY DEF Handle, radio
<1>3. /\ ctr[c] \in Nat /\ used[c] \in Nat /\ unseen[c] \in Nat /\ Margin \in Nat
      /\ \A i \in 1 .. Len(pipe) : Reported(i, c) => pipe[i][3] \in Nat
      /\ state # None => state \in Settings /\ state.ctr[c] \in Nat
      /\ backup # None => backup.ctr[c] \in Nat
  BY CounterTypes
<1>4. \A i \in 1 .. Len(pipe') : Reported(i, c)' =>
         i + 1 \in 2 .. Len(pipe) /\ Reported(i + 1, c) /\ pipe'[i] = pipe[i + 1]
  BY <1>1 DEF Reported
<1>5. InOrder(c)'
  <2>1. \A i \in 1 .. Len(pipe') : Reported(i, c)' => pipe'[i][3] <= used'[c]
    BY <1>2, <1>4 DEF InOrder
  <2>2. ASSUME NEW i \in 1 .. Len(pipe'), NEW j \in 1 .. Len(pipe'), i < j,
               Reported(i, c)', Reported(j, c)'
        PROVE  pipe'[i][3] <= pipe'[j][3]
    <3>1. /\ i + 1 \in 1 .. Len(pipe) /\ j + 1 \in 1 .. Len(pipe) /\ i + 1 < j + 1
          /\ Reported(i + 1, c) /\ Reported(j + 1, c)
      BY <1>4, <2>2
    <3> QED
      BY <1>4, <2>2, <3>1 DEF InOrder
  <2> QED
    BY <2>1, <2>2 DEF InOrder
<1>6. CASE \/ UNCHANGED <<app, unseen>>
           \/ unseen'[c] = unseen[c] /\ state # None /\ state' # None /\ backup' = state' /\ state'.ctr[c] = state.ctr[c]
  <2>1. /\ unseen'[c] = unseen[c] /\ (state' # None => state # None /\ state'.ctr[c] = state.ctr[c])
        /\ backup' # None => \/ backup # None /\ backup'.ctr[c] = backup.ctr[c]
                             \/ state # None /\ backup'.ctr[c] = state.ctr[c]
        /\ state # None => state' # None
    BY <1>6 DEF app
  <2>2. \A v : Covers(v, c) => CoversThen(v, c)
    BY <1>2, <2>1 DEF Covers, CoversThen
  <2>3. CounterAhead(c)'
    BY <1>2, <2>1 DEF CounterAhead, Reads
  <2>4. ASSUME ~ran'
        PROVE  /\ state' # None => Covers(state'.ctr[c], c)
               /\ backup' # None => Covers(backup'.ctr[c], c)
               /\ \A i \in 1 .. Len(pipe') : Reported(i, c)' => Covers(pipe'[i][3], c)
    BY <1>2, <1>4, <2>1, <2>4 DEF Covered
  <2>5. Covered(c)'
    BY <2>2, <2>4, CoveredThen
  <2>6. NotAhead(c)'
    BY <1>2, <1>4, <2>1 DEF NotAhead, Writes, Control
  <2> QED
    BY <1>5, <2>3, <2>5, <2>6
<1>7. ASSUME NEW v \in 0 .. MaxCounter, Reported(1, c), pipe[1][3] = v, HandleCounter(c, v), state # None
      PROVE  CounterAhead(c)' /\ Covered(c)' /\ NotAhead(c)'
  <2>1. v \in Nat /\ v <= used[c]
    BY <1>1, <1>3, <1>7 DEF InOrder
  <2>2. /\ state' # None /\ backup' = state' /\ state'.ctr[c] = v
        /\ unseen'[c] = IF ctr[c] > v THEN ctr[c] - v ELSE 0
    <3>1. state' = [state EXCEPT !.ctr[c] = v] /\ backup' = state'
      BY <1>7 DEF HandleCounter, Change
    <3>2. state' \in Settings /\ state'.ctr = [state.ctr EXCEPT ![c] = v]
      BY <1>3, <1>7, <3>1, CounterChange
    <3>3. state'.ctr[c] = v /\ state' # None
      BY <1>3, <1>7, <3>2, NoneAssumption DEF Settings, Readings
    <3>4. unseen' = [unseen EXCEPT ![c] = IF ctr[c] > v THEN ctr[c] - v ELSE 0]
      BY <1>7 DEF HandleCounter
    <3> QED
      BY <3>1, <3>3, <3>4 DEF TypeOK, Readings
  <2>3. unseen'[c] \in Nat /\ v + unseen'[c] >= ctr[c]
    BY <1>3, <2>1, <2>2
  <2>4. \A i \in 1 .. Len(pipe') : Reported(i, c)' => pipe'[i][3] \in Nat /\ pipe'[i][3] >= v
    <3> SUFFICES ASSUME NEW i \in 1 .. Len(pipe'), Reported(i, c)'
                 PROVE  pipe'[i][3] \in Nat /\ pipe'[i][3] >= v
      OBVIOUS
    <3>1. i + 1 \in 1 .. Len(pipe) /\ 1 < i + 1 /\ Reported(i + 1, c) /\ pipe'[i] = pipe[i + 1]
      BY <1>4
    <3>2. pipe[i + 1][3] \in Nat /\ pipe[1][3] <= pipe[i + 1][3]
      BY <1>1, <1>3, <1>7, <3>1 DEF InOrder
    <3> QED
      BY <1>7, <2>1, <3>1, <3>2
  <2>5. CounterAhead(c)'
    <3>1. run = "blank" => unseen'[c] = 0
      BY <1>3, <2>1, <2>2 DEF Answered, Zero
    <3> QED
      BY <1>2, <1>3, <3>1 DEF CounterAhead, Reads
  <2>6. ASSUME NEW w \in Nat, w >= v, ~ran, run = "blank" => Covers(w, c)
        PROVE  CoversThen(w, c)
    <3>1. w + unseen'[c] >= ctr[c]
      BY <1>3, <2>1, <2>3, <2>6
    <3>2. CASE run = "started"
      BY <1>2, <3>1, <3>2 DEF Covers, CoversThen
    <3>3. CASE run = "configured"
      <4>1. ctr[c] >= used[c]
        BY <3>3 DEF CounterAhead
      <4>2. w + unseen'[c] >= used[c]
        BY <1>3, <2>3, <2>6, <3>1, <4>1
      <4> QED
        BY <1>2, <3>3, <4>2 DEF Covers, CoversThen
    <3>4. CASE run = "blank"
      BY <1>2, <2>6, <3>4 DEF Covers, CoversThen
    <3> QED
      BY <3>2, <3>3, <3>4 DEF TypeOK
  <2>7. ASSUME ~ran
        PROVE  /\ state' # None => CoversThen(v, c)
               /\ \A i \in 1 .. Len(pipe') : Reported(i, c)' => CoversThen(pipe'[i][3], c)
    <3>1. Covers(v, c)
      BY <1>1, <1>7, <2>7 DEF Covered
    <3>2. CoversThen(v, c)
      BY <2>1, <2>6, <2>7, <3>1
    <3>3. ASSUME NEW i \in 1 .. Len(pipe'), Reported(i, c)'
          PROVE  pipe'[i][3] \in Nat /\ pipe'[i][3] >= v /\ Covers(pipe'[i][3], c)
      <4>1. i + 1 \in 1 .. Len(pipe) /\ Reported(i + 1, c) /\ pipe'[i] = pipe[i + 1]
        BY <1>4, <3>3
      <4> QED
        BY <2>4, <2>7, <3>3, <4>1 DEF Covered
    <3>4. ASSUME NEW i \in 1 .. Len(pipe'), Reported(i, c)'
          PROVE  CoversThen(pipe'[i][3], c)
      <4> DEFINE w == pipe'[i][3]
      <4>1. w \in Nat /\ w >= v /\ Covers(w, c)
        BY <3>3, <3>4
      <4> HIDE DEF w
      <4>2. CoversThen(w, c)
        BY <2>6, <2>7, <4>1
      <4> QED
        BY <4>2 DEF w
    <3> QED
      BY <3>2, <3>4
  <2>8. Covered(c)'
    BY <1>2, <2>2, <2>7, CoveredThen
  <2>9. NotAhead(c)'
    <3> SUFFICES ASSUME op = "start", Writes PROVE v <= ctr[c]
      BY <1>2, <2>2, <2>4 DEF NotAhead, Writes
    <3>1. run # "blank"
      BY DEF Answered, Writes
    <3> QED
      BY <1>3, <2>1, <3>1 DEF CounterAhead
  <2> QED
    BY <2>5, <2>8, <2>9
<1>8. ASSUME NEW x \in Counters, NEW v \in 0 .. MaxCounter, HandleCounter(x, v), x # c \/ state = None
      PROVE  \/ UNCHANGED <<app, unseen>>
             \/ unseen'[c] = unseen[c] /\ state # None /\ state' # None /\ backup' = state' /\ state'.ctr[c] = state.ctr[c]
  <2>1. CASE state = None
    BY <1>8, <2>1 DEF HandleCounter, Change
  <2>2. CASE state # None
    <3>1. /\ state' = [state EXCEPT !.ctr[x] = v] /\ backup' = state' /\ x # c
          /\ unseen' = [unseen EXCEPT ![x] = IF ctr[x] > v THEN ctr[x] - v ELSE 0]
      BY <1>8, <2>2 DEF HandleCounter, Change
    <3>2. state' \in Settings /\ state'.ctr = [state.ctr EXCEPT ![x] = v]
      BY <1>3, <2>2, <3>1, CounterChange
    <3>3. state'.ctr[c] = state.ctr[c] /\ state' # None
      BY <1>3, <2>2, <3>1, <3>2, NoneAssumption DEF Settings, Readings
    <3> QED
      BY <2>2, <3>1, <3>3 DEF TypeOK, Readings
  <2> QED
    BY <2>1, <2>2
<1>9. ASSUME NEW d \in Devices, NEW v \in 1 .. MaxKey, HandleLinkKey(d, v)
      PROVE  \/ UNCHANGED <<app, unseen>>
             \/ unseen'[c] = unseen[c] /\ state # None /\ state' # None /\ backup' = state' /\ state'.ctr[c] = state.ctr[c]
  <2>1. CASE state = None
    BY <1>9, <2>1 DEF HandleLinkKey, Change
  <2>2. CASE state # None
    <3>1. state' = [state EXCEPT !.keys[d] = v] /\ backup' = state' /\ unseen' = unseen
      BY <1>9, <2>2 DEF HandleLinkKey, Change
    <3>2. state' \in Settings /\ state'.ctr = state.ctr
      BY <1>3, <2>2, <3>1, KeyChange
    <3> QED
      BY <2>2, <3>1, <3>2, NoneAssumption
  <2> QED
    BY <2>1, <2>2
<1>10. CASE \E x \in Counters, v \in 0 .. MaxCounter :
              pipe[1][1] = "counter" /\ pipe[1][2] = x /\ pipe[1][3] = v /\ HandleCounter(x, v)
  <2>1. PICK x \in Counters, v \in 0 .. MaxCounter :
              pipe[1][1] = "counter" /\ pipe[1][2] = x /\ pipe[1][3] = v /\ HandleCounter(x, v)
    BY <1>10
  <2>2. CASE x = c /\ state # None
    BY <1>5, <1>7, <2>1, <2>2 DEF Reported
  <2>3. CASE x # c \/ state = None
    BY <1>6, <1>8, <2>1, <2>3
  <2> QED
    BY <2>2, <2>3
<1> QED
  BY <1>6, <1>9, <1>10, HandleCases

\* A frame sent takes the counter and what it covers one further.
LEMMA TransmitCounterKept ==
  ASSUME TypeOK, ~overtaken', NEW x \in Counters, NEW reports \in BOOLEAN, Transmit(x, reports),
         NEW c \in Counters, Control,
         CounterAhead(c), InOrder(c), Covered(c), NotAhead(c)
  PROVE  CounterAhead(c)' /\ InOrder(c)' /\ Covered(c)' /\ NotAhead(c)'
<1> DEFINE f == <<"counter", x, ctr[x] + 1>>
<1>1. /\ run = "started" /\ UNCHANGED <<run, snap, op, pc, reply, app, ran>>
      /\ Len(pipe) < MaxPipe /\ (pipe' = pipe \/ pipe' = Append(pipe, f))
  BY DEF Transmit, Notify, task
<1>2. pc \notin Loading
  BY DEF Transmit, Copied, TypeOK
<1>3. /\ ctr[c] \in Nat /\ used[c] \in Nat /\ unseen[c] \in Nat /\ Margin \in Nat
      /\ \A i \in 1 .. Len(pipe) : Reported(i, c) => pipe[i][3] \in Nat
      /\ state # None => state \in Settings /\ state.ctr[c] \in Nat
      /\ backup # None => backup.ctr[c] \in Nat
  BY CounterTypes
<1>4. ctr[x] + 1 \in 0 .. MaxCounter
  BY BoundsAssumption DEF Transmit, TypeOK, Readings
<1>5. f \in Inbound /\ f[1] = "counter" /\ f[2] = x /\ f[3] = ctr[x] + 1
  BY <1>4 DEF Inbound
<1> HIDE DEF f
<1>6. ctr[c] >= used[c]
  BY <1>1 DEF CounterAhead
<1>7. CASE x # c
  <2>1. ctr'[c] = ctr[c] /\ used'[c] = used[c] /\ unseen'[c] = unseen[c]
    BY <1>7 DEF Transmit, TypeOK, Readings
  <2>2. SameReports(c)
    BY <1>1, <1>5, <1>7, NotifyPipe DEF SameReports, Reported
  <2>3. InOrder(c)' /\ Covered(c)'
    BY <1>1, <2>1, <2>2, OrderKept, CoveredKept DEF app
  <2>4. CounterAhead(c)' /\ NotAhead(c)'
    BY <1>1, <2>1, <2>2 DEF CounterAhead, NotAhead, SameReports, Reads, Writes, app
  <2> QED
    BY <2>3, <2>4
<1>8. CASE x = c
  <2>1. ctr'[c] = ctr[c] + 1 /\ used'[c] = ctr[c] + 1 /\ unseen'[c] = unseen[c] + 1
    BY <1>6, <1>8 DEF Transmit, TypeOK, Readings
  <2>2. Len(pipe) \in Nat /\ Len(pipe') \in {Len(pipe), Len(pipe) + 1}
    BY <1>1, <1>5, NotifyPipe DEF TypeOK
  <2>3. \A i \in 1 .. Len(pipe') : Reported(i, c)' =>
          \/ i \in 1 .. Len(pipe) /\ pipe'[i] = pipe[i] /\ Reported(i, c)
          \/ i = Len(pipe) + 1 /\ pipe'[i][3] = ctr[c] + 1
    BY <1>1, <1>5, <1>8, NotifyPipe DEF Reported
  <2>4. \A i \in 1 .. Len(pipe) : Reported(i, c) => pipe[i][3] <= ctr[c] /\ pipe[i][3] \in Nat
    BY <1>3, <1>6 DEF InOrder
  <2>5. CounterAhead(c)'
    BY <1>1, <1>2, <1>3, <2>1 DEF CounterAhead, Reads, Loading
  <2>6. InOrder(c)'
    <3>1. \A i \in 1 .. Len(pipe') : Reported(i, c)' => pipe'[i][3] <= used'[c]
      BY <1>3, <2>1, <2>3, <2>4
    <3>2. \A i, j \in 1 .. Len(pipe') :
            i < j /\ Reported(i, c)' /\ Reported(j, c)' => pipe'[i][3] <= pipe'[j][3]
      <4> SUFFICES ASSUME NEW i \in 1 .. Len(pipe'), NEW j \in 1 .. Len(pipe'), i < j,
                          Reported(i, c)', Reported(j, c)'
                   PROVE  pipe'[i][3] <= pipe'[j][3]
        OBVIOUS
      <4>1. i \in 1 .. Len(pipe) /\ pipe'[i] = pipe[i] /\ Reported(i, c)
        BY <2>2, <2>3
      <4>2. CASE j \in 1 .. Len(pipe) /\ pipe'[j] = pipe[j] /\ Reported(j, c)
        BY <4>1, <4>2 DEF InOrder
      <4>3. CASE pipe'[j][3] = ctr[c] + 1
        BY <1>3, <2>4, <4>1, <4>3
      <4> QED
        BY <2>3, <4>2, <4>3
    <3> QED
      BY <3>1, <3>2 DEF InOrder
  <2>7. ASSUME NEW v \in Nat, Covers(v, c) PROVE CoversThen(v, c)
    <3>1. v + unseen[c] >= ctr[c]
      BY <1>1, <2>7 DEF Covers
    <3>2. v + unseen'[c] >= ctr'[c]
      BY <1>3, <2>1, <2>7, <3>1
    <3> QED
      BY <1>1, <3>2 DEF CoversThen
  <2>8. CoversThen(ctr[c] + 1, c)
    BY <1>1, <1>3, <2>1 DEF CoversThen
  <2>9. Covered(c)'
    <3>1. ~ran' /\ state' # None => CoversThen(state'.ctr[c], c)
      BY <1>1, <1>3, <2>7 DEF Covered, app
    <3>2. ~ran' /\ backup' # None => CoversThen(backup'.ctr[c], c)
      BY <1>1, <1>3, <2>7 DEF Covered, app
    <3>3. ~ran' => \A i \in 1 .. Len(pipe') : Reported(i, c)' => CoversThen(pipe'[i][3], c)
      BY <1>1, <2>3, <2>4, <2>7, <2>8 DEF Covered
    <3> QED
      BY <3>1, <3>2, <3>3, CoveredThen
  <2>10. NotAhead(c)'
    <3> SUFFICES ASSUME op = "start", Writes
                 PROVE  /\ state.ctr[c] <= ctr'[c]
                        /\ \A i \in 1 .. Len(pipe') : Reported(i, c)' => pipe'[i][3] >= state.ctr[c]
      BY <1>1 DEF NotAhead, Writes, app
    <3>1. state.ctr[c] \in Nat /\ state.ctr[c] <= ctr[c]
      BY <1>3 DEF NotAhead, Control, Writes
    <3>2. \A i \in 1 .. Len(pipe) : Reported(i, c) => pipe[i][3] >= state.ctr[c]
      BY DEF NotAhead
    <3> QED
      BY <1>3, <2>1, <2>3, <3>1, <3>2
  <2> QED
    BY <2>5, <2>6, <2>9, <2>10
<1> QED
  BY <1>7, <1>8

LEMMA CountersKeptAlways ==
  ASSUME Inv, Next
  PROVE  CountersKept'
<1> DEFINE Good(c) == CounterAhead(c)' /\ InOrder(c)' /\ Covered(c)' /\ NotAhead(c)'
<1> SUFFICES ASSUME ~overtaken', ~torn', ~outrun', NEW c \in Counters PROVE Good(c)
  BY DEF CountersKept
<1>0. /\ TypeOK /\ Control /\ Answered /\ Flow
      /\ ~overtaken /\ ~torn /\ ~outrun
      /\ CounterAhead(c) /\ InOrder(c) /\ Covered(c) /\ NotAhead(c)
  BY Monotone DEF Inv, CountersKept
<1>a. /\ ctr[c] \in Nat /\ used[c] \in Nat /\ unseen[c] \in Nat /\ snap.ctr[c] \in Nat /\ Margin \in Nat
      /\ state # None => state \in Settings /\ state.ctr[c] \in Nat
      /\ backup # None => backup \in Settings /\ backup.ctr[c] \in Nat
  BY <1>0, CounterTypes
<1>b. ASSUME SameReports(c), UNCHANGED <<run, ctr, used, unseen, ran, app>>,
             Reads' => snap'.ctr[c] = ctr[c],
             op' = "start" /\ Writes' => op = "start" /\ Writes
      PROVE  Good(c)
  <2>1. InOrder(c)' /\ Covered(c)'
    BY <1>0, <1>b, OrderKept, CoveredKept DEF app
  <2>2. CounterAhead(c)'
    BY <1>0, <1>b DEF CounterAhead
  <2>3. NotAhead(c)'
    BY <1>0, <1>b DEF NotAhead, SameReports, app
  <2> QED
    BY <2>1, <2>2, <2>3
<1> HIDE DEF Good
<1>1. CASE Ends
  <2>1. SameReports(c)
    BY <1>0, <1>1, NoNews, SamePlacesReports DEF Ends
  <2>2. pc' = "idle"
    BY <1>1 DEF Ends, Finish
  <2> QED
    BY <1>1, <1>b, <2>1, <2>2 DEF Ends, radio, history, Reads, Writes, Writing
<1>2. CASE Continues
  <2>1. PICK r \in {"rest", "tunable"}, a \in Answers : Await(r, a)
    BY <1>2 DEF Continues
  <2>2. SameReports(c) /\ pc' = r
    BY <1>0, <2>1, NoNews, SamePlacesReports DEF Await
  <2>3. r = "rest" => snap'.ctr[c] = ctr[c]
    <3> SUFFICES ASSUME r = "rest" PROVE snap'.ctr[c] = ctr[c]
      OBVIOUS
    <3>1. pc = "keys" /\ snap' = snap
      BY <1>2, <2>2 DEF Continues, Resumes, Await
    <3> QED
      BY <1>0, <3>1 DEF CounterAhead, Reads
  <2> QED
    BY <1>2, <1>b, <2>1, <2>2, <2>3 DEF Continues, radio, history, Reads, Writes, Writing
<1>3. ASSUME NEW o \in {"load", "start"}, GetNetworkInfo(o) PROVE Good(c)
  <2>1. PICK a : Await("info", a)
    BY <1>3 DEF GetNetworkInfo
  <2>2. SameReports(c) /\ pc' = "info"
    BY <1>0, <2>1, NoNews, SamePlacesReports DEF Await
  <2>3. reply' = "ok" => snap'.ctr[c] = ctr[c]
    BY <1>3 DEF GetNetworkInfo, Await
  <2> QED
    BY <1>3, <1>b, <2>2, <2>3 DEF GetNetworkInfo, radio, Reads, Writes, Writing
<1>4. ASSUME NEW s \in Settings, s # None,
             op = "start" => s.ctr[c] >= used[c], Covers(s.ctr[c], c),
             op \in {"load", "start"}, Loaded(s), Silent
      PROVE  Good(c)
  <2>1. SameReports(c)
    BY <1>0, <1>4, NoNews, SamePlacesReports DEF Loaded, SendConfigure
  <2>2. state' = s /\ UNCHANGED <<backup, used, unseen, ran>>
    BY <1>4 DEF Loaded
  <2>3. CASE op = "load" \/ reply' = "refused"
    <3>1. UNCHANGED radio /\ pc' \in {"idle", "configure"} /\ reply' # "ok"
      BY <1>4, <2>3 DEF Loaded, SendConfigure, Finish, Await
    <3>2. ~Reads' /\ ~Writes'
      BY <3>1 DEF Reads, Writes, Writing
    <3>3. \A i \in 1 .. Len(pipe') : ~Reported(i, c)'
      BY <1>4, <2>1 DEF SameReports, Silent, Reported, Notification
    <3>4. \A v : Covers(v, c) => CoversThen(v, c)
      BY <2>2, <3>1 DEF Covers, CoversThen, radio
    <3>5. Covered(c)'
      <4>1. ~ran' /\ state' # None => CoversThen(state'.ctr[c], c)
        BY <1>4, <2>2, <3>4
      <4>2. ~ran' /\ backup' # None => CoversThen(backup'.ctr[c], c)
        BY <1>0, <2>2, <3>4 DEF Covered
      <4> QED
        BY <3>3, <4>1, <4>2, CoveredThen
    <3>6. InOrder(c)'
      BY <1>0, <2>1, <2>2, OrderKept
    <3> QED
      BY <1>0, <2>2, <3>1, <3>2, <3>5, <3>6 DEF Good, CounterAhead, NotAhead, radio
  <2>4. CASE op = "start" /\ reply' # "refused"
    <3>1. Configure(s) /\ op' = "start" /\ pc' = "configure"
      BY <1>4, <2>4 DEF Loaded, SendConfigure, Await
    <3>2. /\ run' = "configured" /\ ctr'[c] = s.ctr[c]
          /\ \A i \in 1 .. Len(pipe') : ~Reported(i, c)'
          /\ InOrder(c)' /\ Covered(c)'
      BY <1>0, <1>4, <2>1, <2>2, <2>4, <3>1, ConfigureCounter
    <3>3. s.ctr[c] \in Nat
      BY BoundsAssumption DEF Settings, Readings
    <3>4. CounterAhead(c)'
      BY <1>4, <2>2, <2>4, <3>1, <3>2 DEF CounterAhead, Reads
    <3>5. NotAhead(c)'
      BY <2>2, <3>2, <3>3 DEF NotAhead
    <3> QED
      BY <3>2, <3>4, <3>5 DEF Good
  <2> QED
    BY <1>4, <2>3, <2>4
<1>5. CASE LoadBackup
  <2>1. /\ Restored \in Settings /\ Restored # None /\ backup # None
        /\ Restored.ctr[c] = backup.ctr[c] + Margin
    BY <1>0, <1>5, RestoredBackup, NoneAssumption DEF LoadBackup
  <2>2. run = "blank" /\ ~ran /\ op \in {"load", "start"}
    BY <1>0, <1>5 DEF LoadBackup, Resumes, Answered, Control, Loading
  <2>3. Restored.ctr[c] >= used[c]
    BY <1>0, <2>1, <2>2 DEF Covered, Covers
  <2>4. Covers(Restored.ctr[c], c)
    BY <1>a, <2>1, <2>2, <2>3 DEF Covers
  <2> QED
    BY <1>0, <1>4, <1>5, <2>1, <2>2, <2>3, <2>4, LoadedSilent DEF LoadBackup
<1>6. CASE ScanKeyTable
  <2>1. PICK a \in Answers : Await("keys", a)
    BY <1>6 DEF ScanKeyTable, Answers
  <2>2. SameReports(c) /\ pc' = "keys"
    BY <1>0, <2>1, NoNews, SamePlacesReports DEF Await
  <2>3. snap'.ctr[c] = ctr[c]
    BY <1>0, <1>6 DEF ScanKeyTable, Resumes, CounterAhead, Reads, TypeOK, Settings
  <2> QED
    BY <1>6, <1>b, <2>2, <2>3 DEF ScanKeyTable, radio, history, Reads, Writes, Writing
<1>7. CASE LoadScanned
  <2>1. /\ pc = "rest" /\ snap \in Settings /\ snap # None /\ run = "started"
        /\ op \in {"load", "start"}
    BY <1>0, <1>7, NoneAssumption DEF LoadScanned, Resumes, TypeOK, Answered, Reads, Control, Loading
  <2>2. snap.ctr[c] = ctr[c] /\ ctr[c] >= used[c]
    BY <1>0, <2>1 DEF CounterAhead, Reads
  <2>3. Covers(snap.ctr[c], c)
    BY <1>a, <2>1, <2>2 DEF Covers
  <2> QED
    BY <1>0, <1>4, <1>7, <2>1, <2>2, <2>3, LoadedSilent DEF LoadScanned
<1>8. CASE FormNetwork
  <2>1. PICK a : Await("address", a)
    BY <1>8 DEF FormNetwork
  <2>2. SameReports(c) /\ pc' = "address"
    BY <1>0, <2>1, NoNews, SamePlacesReports DEF Await
  <2> QED
    BY <1>8, <1>b, <2>2 DEF FormNetwork, radio, history, Reads, Writes, Writing
<1>9. CASE FormConfigure
  <2>1. PICK a \in Answers : Await("configure", a)
    BY <1>9 DEF FormConfigure, SendConfigure, Answers
  <2>2. SameReports(c) /\ pc' = "configure" /\ reply' = a /\ UNCHANGED <<app, ran, op>>
    BY <1>0, <1>9, <2>1, NoNews, SamePlacesReports DEF FormConfigure, SendConfigure, Await
  <2>3. op = "form"
    BY <1>0, <1>9 DEF FormConfigure, Resumes, Control
  <2>4. CASE a = "ok"
    <3>1. run' = "configured" /\ ctr'[c] = 0 /\ used'[c] = 0 /\ unseen'[c] = 0
      BY <1>9, <2>2, <2>4, FreshSettings DEF FormConfigure, SendConfigure, Configure, Await, Zero
    <3>2. \A i \in 1 .. Len(pipe') : ~Reported(i, c)'
      BY <1>0, <1>9, <2>2, LoadedSilent DEF SameReports, Silent, Reported, Notification
    <3>3. Covered(c)'
      <4>1. \A v \in Nat : CoversThen(v, c)
        BY <3>1 DEF CoversThen
      <4> QED
        BY <1>a, <2>2, <3>2, <4>1, CoveredThen DEF app
    <3> QED
      BY <2>2, <2>3, <3>1, <3>2, <3>3 DEF Good, CounterAhead, InOrder, NotAhead, Reads
  <2>5. CASE a = "refused"
    <3>1. UNCHANGED <<radio, used, unseen>>
      BY <1>9, <2>2, <2>5 DEF FormConfigure, SendConfigure, Await
    <3> QED
      BY <1>b, <2>2, <2>3, <3>1 DEF radio, Reads
  <2> QED
    BY <2>4, <2>5 DEF Answers
<1>10. CASE LoadKeyTable
  <2>1. PICK r \in {"keyTable", "children"}, a \in Answers : Await(r, a)
    BY <1>10 DEF LoadKeyTable, LoadNext, Answers
  <2>2. SameReports(c) /\ pc' = r
    BY <1>0, <2>1, NoNews, SamePlacesReports DEF Await
  <2>3. Writes
    BY <1>10 DEF LoadKeyTable, Resumes, Writes, Writing
  <2> QED
    BY <1>10, <1>b, <2>1, <2>2, <2>3 DEF LoadKeyTable, history, Reads
<1>11. CASE StartNetwork
  <2>1. PICK a \in Answers : Await("start", a)
    BY <1>11 DEF StartNetwork, Answers
  <2>2. SameReports(c) /\ pc' = "start" /\ reply' = a
    BY <1>0, <2>1, NoNews, SamePlacesReports DEF Await
  <2>3. Writes /\ pc # "start"
    BY <1>11 DEF StartNetwork, Resumes, Writes, Writing
  <2>4. CASE run' = "started" /\ ran' = TRUE
    <3>1. UNCHANGED <<ctr, app, used, unseen, op>>
      BY <1>11 DEF StartNetwork
    <3>2. run # "blank"
      BY <1>0, <2>3 DEF Answered
    <3>3. CounterAhead(c)'
      BY <1>0, <2>2, <2>4, <3>1, <3>2 DEF CounterAhead, Reads
    <3>4. InOrder(c)'
      BY <1>0, <2>2, <3>1, OrderKept
    <3>5. Covered(c)'
      BY <2>4 DEF Covered
    <3>6. NotAhead(c)'
      BY <1>0, <2>2, <2>3, <3>1 DEF NotAhead, SameReports, app
    <3> QED
      BY <3>3, <3>4, <3>5, <3>6 DEF Good
  <2>5. CASE UNCHANGED <<run, ran>>
    BY <1>11, <1>b, <2>2, <2>3, <2>5 DEF StartNetwork, Reads
  <2> QED
    BY <1>11, <2>4, <2>5 DEF StartNetwork
<1>12. CASE Record
  <2>1. /\ pc = "start" /\ reply = "ok" /\ Writes /\ state' = Written /\ backup' = Written
        /\ UNCHANGED <<run, ctr, used>>
        /\ unseen'[c] = IF ctr[c] > Written.ctr[c] THEN ctr[c] - Written.ctr[c] ELSE 0
    BY <1>12 DEF Record, Resumes, Writes, Writing, radio
  <2>2. run = "started"
    BY <1>0, <2>1 DEF Answered
  <2>3. op \in {"start", "form"} /\ (op = "start" => state # None)
    BY <1>0, <2>1 DEF Control, Writing
  <2>4. Written.ctr[c] \in Nat
    BY <1>a, <2>3, FreshSettings DEF Written, Zero
  <2>5. SameReports(c) /\ pc' \in {"idle", "tunable"}
    BY <1>0, <1>12, NoNews, SamePlacesReports DEF Record, Finish, Await
  <2>6. \A i \in 1 .. Len(pipe) : Reported(i, c) => pipe[i][3] \in Nat /\ pipe[i][3] >= Written.ctr[c]
    <3>1. CASE op = "start"
      BY <1>0, <2>1, <3>1, CounterTypes DEF NotAhead, Written
    <3>2. CASE op = "form"
      <4>1. Written.ctr[c] = 0
        BY <3>2, FreshSettings DEF Written, Zero
      <4> QED
        BY <1>0, <4>1, CounterTypes
    <3> QED
      BY <2>3, <3>1, <3>2
  <2>7. ASSUME NEW v \in Nat, v >= Written.ctr[c] PROVE CoversThen(v, c)
    <3>1. v + unseen'[c] >= ctr[c]
      BY <1>a, <2>1, <2>4, <2>7
    <3> QED
      BY <2>1, <2>2, <3>1 DEF CoversThen
  <2>8. Covered(c)'
    BY <2>1, <2>4, <2>5, <2>6, <2>7, CoveredThen DEF SameReports
  <2>9. InOrder(c)'
    BY <1>0, <2>1, <2>5, OrderKept
  <2>10. CounterAhead(c)' /\ NotAhead(c)'
    BY <1>0, <2>1, <2>2, <2>5 DEF CounterAhead, NotAhead, Reads, Writes, Writing
  <2> QED
    BY <2>8, <2>9, <2>10 DEF Good
<1>13. CASE Moving
  <2>1. PICK r \in {"updateId", "channel"}, a \in Answers : Await(r, a)
    BY <1>13 DEF Moving, SetNwkUpdateId, SetChannel, Answers
  <2>2. SameReports(c) /\ pc' = r
    BY <1>0, <2>1, NoNews, SamePlacesReports DEF Await
  <2>3. UNCHANGED <<run, ctr, used, unseen, ran, app>>
    BY <1>13 DEF Moving, SetNwkUpdateId, SetChannel, Retune, radio, history
  <2> QED
    BY <1>b, <2>1, <2>2, <2>3 DEF Reads, Writes, Writing
<1>14. CASE Shutdown
  <2>1. PICK a : Await("shutdown", a)
    BY <1>14 DEF Shutdown
  <2>2. SameReports(c) /\ pc' = "shutdown" /\ UNCHANGED app
    BY <1>0, <1>14, <2>1, NoNews, SamePlacesReports DEF Shutdown, Await
  <2>3. ~Reads' /\ ~Writes'
    BY <2>2 DEF Reads, Writes, Writing
  <2>4. CASE Forget
    <3>1. /\ run' = "blank" /\ unseen'[c] <= Margin
          /\ InOrder(c)' /\ Covered(c)'
      BY <1>0, <2>2, <2>4, ForgetCounter DEF app
    <3> QED
      BY <2>3, <3>1 DEF Good, CounterAhead, NotAhead
  <2>5. CASE UNCHANGED <<radio, history>>
    BY <1>b, <2>2, <2>3, <2>5 DEF radio, history
  <2> QED
    BY <1>14, <2>4, <2>5 DEF Shutdown
<1>15. CASE Handle
  BY <1>0, <1>15, HandleCounterKept DEF Good
<1>16. CASE Reconnect
  <2>1. SameReports(c)
    BY <1>0, <1>16, NoNews, SamePlacesReports DEF Reconnect
  <2> QED
    BY <1>0, <1>16, <1>b, <2>1 DEF Reconnect, radio, task, history, Reads, Writes, CounterAhead
<1>17. ASSUME NEW restart \in BOOLEAN, ConnectionLost(restart) \/ Reboot(restart) PROVE Good(c)
  <2>1. Drop(restart)
    BY <1>17 DEF ConnectionLost, Reboot
  <2>2. SameReports(c) /\ pc' = "idle" /\ backup' = backup /\ (state' = state \/ state' = None)
    BY <1>0, <2>1, NoNews, SamePlacesReports DEF Drop
  <2>3. ~Reads' /\ ~Writes'
    BY <2>2 DEF Reads, Writes, Writing
  <2>4. CASE Forget
    <3>1. /\ run' = "blank" /\ unseen'[c] <= Margin
          /\ InOrder(c)' /\ Covered(c)'
      BY <1>0, <2>2, <2>4, ForgetCounter
    <3> QED
      BY <2>3, <3>1 DEF Good, CounterAhead, NotAhead
  <2>5. CASE UNCHANGED <<radio, history>>
    <3>1. InOrder(c)' /\ Covered(c)'
      BY <1>0, <2>2, <2>5, OrderKept, CoveredKept DEF radio, history
    <3> QED
      BY <1>0, <2>3, <2>5, <3>1 DEF Good, CounterAhead, NotAhead, radio, history
  <2> QED
    BY <1>17, <2>4, <2>5 DEF ConnectionLost, Reboot
<1>18. ASSUME NEW x \in Counters, NEW reports \in BOOLEAN, Transmit(x, reports) PROVE Good(c)
  BY <1>0, <1>18, TransmitCounterKept DEF Good
<1>19. ASSUME NEW d \in Devices, IssueKey(d) PROVE Good(c)
  <2> DEFINE f == <<"key", d, keys[d] + 1>>
  <2>1. /\ UNCHANGED <<run, ctr, snap, op, pc, reply, app, used, unseen, ran>>
        /\ Len(pipe) < MaxPipe /\ (pipe' = pipe \/ pipe' = Append(pipe, f))
    BY <1>19 DEF IssueKey, Notify, task
  <2>2. keys[d] + 1 \in 1 .. MaxKey
    BY <1>0, <1>19, BoundsAssumption DEF IssueKey, TypeOK, Tables
  <2>3. f \in Inbound /\ f[1] = "key"
    BY <2>2 DEF Inbound
  <2> HIDE DEF f
  <2>4. SameReports(c)
    BY <1>0, <2>1, <2>3, NotifyPipe DEF SameReports, Reported
  <2> QED
    BY <1>0, <1>b, <2>1, <2>4 DEF Reads, Writes, CounterAhead
<1> QED
  BY <1>1, <1>2, <1>3, <1>5, <1>6, <1>7, <1>8, <1>9, <1>10, <1>11, <1>12, <1>13, <1>14, <1>15,
     <1>16, <1>17, <1>18, <1>19, Steps

-----------------------------------------------------------------------------
(* The theorems *)

LEMMA InitInv == Init => Inv
<1> SUFFICES ASSUME Init PROVE Inv
  OBVIOUS
<1> USE DEF Init
<1>1. TypeOK
  <2>1. chan \in Moves /\ uid \in Moves
    BY BoundsAssumption DEF Moves
  <2>2. pipe \in Seq(Inbound) /\ Len(pipe) <= MaxPipe
    BY BoundsAssumption
  <2> QED
    BY <2>1, <2>2, FreshSettings DEF TypeOK
<1>2. Control /\ Answered /\ Channels
  BY FreshSettings DEF Control, Answered, Channels, BeaconsCurrent, Reads, Writes, Loading, Writing
<1>3. Flow
  BY DEF Flow, Settled, Silent, Loading
<1>4. KeysKept
  BY DEF KeysKept, KeysHeld, KeysCopied, Writes, Writing, NoKeys
<1>5. CountersKept
  BY BoundsAssumption DEF CountersKept, CounterAhead, InOrder, Covered, NotAhead, Reads, Writes, Writing, Zero
<1> QED
  BY <1>1, <1>2, <1>3, <1>4, <1>5 DEF Inv

LEMMA NextInv == Inv /\ [Next]_vars => Inv'
<1> SUFFICES ASSUME Inv, [Next]_vars PROVE Inv'
  OBVIOUS
<1>1. CASE Next
  BY <1>1, TypeKept, ControlKept, AnsweredKept, ChannelsKept, FlowKept, KeysKeptAlways,
     CountersKeptAlways DEF Inv
<1>2. CASE UNCHANGED vars
  <2>1. UNCHANGED <<run, ctr, keys, chan, uid, up, pipe, reply, snap, op, pc, heard, todo,
                    state, backup, used, unseen, learned, unrecorded, ran, overtaken, torn, mixed, outrun>>
    BY <1>2 DEF vars, radio, conn, task, app, history
  <2>2. TypeOK' /\ Control' /\ Answered' /\ Channels'
    BY <2>1 DEF Inv, TypeOK, Control, Answered, Channels, BeaconsCurrent, Reads, Writes, Written
  <2>3. Flow' /\ KeysKept'
    BY <2>1 DEF Inv, Flow, Settled, Silent, KeysKept, KeysHeld, KeysCopied, Loads, Writes, Written
  <2>4. CountersKept'
    BY <2>1 DEF Inv, CountersKept, CounterAhead, InOrder, Covered, NotAhead, Covers, Reported, Reads, Writes
  <2> QED
    BY <2>2, <2>3, <2>4 DEF Inv
<1> QED
  BY <1>1, <1>2

\* The whole invariant holds of every reachable state.
THEOREM Invariance == Spec => []Inv
BY InitInv, NextInv, PTL DEF Spec

\* The settings, the pipe and the copies are what the code's types say.
THEOREM TypeCorrect == Spec => []TypeOK
<1>1. Inv => TypeOK
  BY DEF Inv
<1> QED
  BY <1>1, Invariance, PTL

\* However often the network is stopped, loaded, restored and started, the outgoing
\* frame counters of a running one are past every value that was on air, as long as the
\* margin covers what was unreported (_get_network_settings 290-309).
THEOREM CountersAreFresh == Spec => []CountersFresh
<1>1. Inv => CountersFresh
  BY DEF Inv, CountersKept, CounterAhead, CountersFresh
<1> QED
  BY <1>1, Invariance, PTL

\* A link key that was learned of is in the latest backup and in the running device,
\* or a newer one is (write_network_info 509-527, on_notification 753-770).
THEOREM KeysDoSurvive == Spec => []KeysSurvive
<1>1. Inv => KeysSurvive
  BY DEF Inv, KeysKept, KeysHeld, KeysSurvive
<1> QED
  BY <1>1, Invariance, PTL

\* The update id is never behind the channel, on the device or in any copy, torn
\* writes and all (_move_network_to_channel 329-339).
THEOREM BeaconsAreCurrent == Spec => []BeaconsCurrent
<1>1. Inv => BeaconsCurrent
  BY DEF Inv, Channels
<1> QED
  BY <1>1, Invariance, PTL

\* Only a notification or the end of a write makes a backup, of what the state holds.
LEMMA BackupMade ==
  ASSUME Inv, Next
  PROVE  \/ backup' = backup
         \/ Handle /\ state # None /\ state' # None /\ backup' = state' /\ state'.chan = state.chan
         \/ Record /\ Writes /\ run # "blank" /\ backup' = Written
<1>0. TypeOK
  BY DEF Inv
<1>1. CASE Handle
  BY <1>0, <1>1, HandleChanges, NoneAssumption DEF app
<1>2. CASE Record
  <2>1. pc = "start" /\ reply = "ok" /\ backup' = Written
    BY <1>2 DEF Record, Resumes
  <2>2. Writes /\ run # "blank"
    BY <2>1 DEF Inv, Answered, Writes, Writing
  <2> QED
    BY <1>2, <2>1, <2>2
<1>3. CASE \/ Ends \/ Continues \/ LoadBackup \/ ScanKeyTable \/ LoadScanned
           \/ FormNetwork \/ FormConfigure \/ LoadKeyTable \/ StartNetwork
           \/ Moving \/ Shutdown \/ Reconnect
           \/ \E o \in {"load", "start"} : GetNetworkInfo(o)
  <2>1. backup' = backup
    BY <1>3 DEF Ends, Continues, LoadBackup, Loaded, ScanKeyTable, LoadScanned, FormNetwork,
       FormConfigure, LoadKeyTable, StartNetwork, Moving, SetNwkUpdateId, SetChannel,
       Shutdown, Reconnect, GetNetworkInfo, app
  <2> QED
    BY <2>1
<1>4. CASE \/ \E restart \in BOOLEAN : ConnectionLost(restart)
           \/ \E restart \in BOOLEAN : Reboot(restart)
           \/ \E c \in Counters, reports \in BOOLEAN : Transmit(c, reports)
           \/ \E d \in Devices : IssueKey(d)
  <2>1. backup' = backup
    BY <1>4 DEF ConnectionLost, Reboot, Drop, Transmit, IssueKey, app
  <2> QED
    BY <2>1
<1> QED
  BY <1>1, <1>2, <1>3, <1>4, Steps

\* A move to another channel that a backup recorded is not undone by a later backup, nor
\* by the device that is started (load_network_info 254-283, write_network_info 479-545).
THEOREM ChannelIsKept == Spec => ChannelKept
<1>1. ASSUME Inv, Inv', [Next]_vars, backup # None, ~mixed, ~mixed'
      PROVE  /\ backup'.chan >= backup.chan
             /\ run' = "started" => chan' >= backup.chan
  <2>1. CASE UNCHANGED vars
    <3>1. UNCHANGED <<backup, run, chan, mixed>>
      BY <2>1 DEF vars, radio, app, history
    <3>2. backup.chan \in Nat
      BY <1>1, ChannelTypes DEF Inv
    <3> QED
      BY <1>1, <3>1, <3>2 DEF Inv, Channels
  <2>2. CASE Next
    <3>1. /\ backup.chan \in Nat /\ chan \in Nat
          /\ state # None => state.chan \in Nat
      BY <1>1, ChannelTypes DEF Inv
    <3>2. backup' # None /\ backup'.chan >= backup.chan
      <4>1. CASE backup' = backup
        BY <1>1, <3>1, <4>1
      <4>2. CASE Handle /\ state # None /\ state' # None /\ backup' = state' /\ state'.chan = state.chan
        BY <1>1, <4>2 DEF Inv, Channels
      <4>3. CASE Record /\ Writes /\ run # "blank" /\ backup' = Written
        <5>1. chan = Written.chan /\ chan >= backup.chan
          BY <1>1, <4>3 DEF Inv, Channels
        <5>2. Written # None
          BY <1>1, <4>3, FreshSettings, NoneAssumption DEF Written, Writes, Inv, Control
        <5> QED
          BY <4>3, <5>1, <5>2
      <4> QED
        BY <1>1, <2>2, <4>1, <4>2, <4>3, BackupMade
    <3>3. backup'.chan \in Nat /\ chan' \in Nat
      BY <1>1, <3>2, BoundsAssumption DEF Inv, TypeOK, Settings, Moves
    <3>4. run' = "started" => chan' >= backup'.chan
      BY <1>1, <3>2 DEF Inv, Channels
    <3> QED
      BY <3>1, <3>2, <3>3, <3>4
  <2> QED
    BY <1>1, <2>1, <2>2
<1> QED
  BY <1>1, Invariance, PTL DEF Spec, ChannelKept

===============================================================================
