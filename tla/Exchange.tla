------------------------------ MODULE Exchange ------------------------------
(***************************************************************************)
(* What ZigguratApi promises its callers, without ids, tables, futures or  *)
(* timers: each call is between it and the device, however many share the  *)
(* connection.  It ends once, with what the device said of it, or for a    *)
(* reason of the host's; a stream passes on what the device emitted, and   *)
(* nothing after its end.                                                  *)
(***************************************************************************)
EXTENDS Integers, Sequences

CONSTANTS
  Calls,
  Messages,    \* the calls that send a message and end by its confirmation
  Streams      \* the calls that yield events

VARIABLES
  asked,       \* the calls that were made
  answer,      \* the device's answer to each
  verdict,     \* its verdict on the message of each
  emitted,     \* how many events it emitted for each
  seen,        \* the events each caller got
  outcome,     \* how each ended
  gone,        \* the connection was lost, or is being closed
  muddled      \* two calls under way went by one id: nothing is promised any more

vars == <<asked, answer, verdict, emitted, seen, outcome, gone, muddled>>

Init ==
  /\ asked = {} /\ ~gone /\ ~muddled
  /\ answer = [c \in Calls |-> "none"] /\ verdict = [c \in Calls |-> "none"]
  /\ emitted = [c \in Calls |-> 0] /\ seen = [c \in Calls |-> <<>>]
  /\ outcome = [c \in Calls |-> "none"]

Open(c) == c \in asked /\ outcome[c] = "none"

Ask(c) ==
  /\ asked' = asked \cup {c}
  /\ UNCHANGED <<answer, verdict, emitted, seen, outcome, gone, muddled>>

\* The device answers a call, once, ...
Answer(c, v) ==
  /\ Open(c) /\ answer[c] = "none"
  /\ answer' = [answer EXCEPT ![c] = v]
  /\ UNCHANGED <<asked, verdict, emitted, seen, outcome, gone, muddled>>

\* ... learns the fate of its message, once, ...
Judge(c, v) ==
  /\ Open(c) /\ c \in Messages /\ verdict[c] = "none"
  /\ verdict' = [verdict EXCEPT ![c] = v]
  /\ UNCHANGED <<asked, answer, emitted, seen, outcome, gone, muddled>>

\* ... and emits events before its answer.
Emit(c) ==
  /\ c \in asked \cap Streams /\ answer[c] = "none"
  /\ emitted' = [emitted EXCEPT ![c] = @ + 1]
  /\ UNCHANGED <<asked, answer, verdict, seen, outcome, gone, muddled>>

\* The caller gets the next event.
Take(c) ==
  /\ Open(c) /\ Len(seen[c]) < emitted[c]
  /\ seen' = [seen EXCEPT ![c] = Append(@, <<c, Len(@) + 1>>)]
  /\ UNCHANGED <<asked, answer, verdict, emitted, outcome, gone, muddled>>

AllSeen(c) == c \in Streams => Len(seen[c]) = emitted[c]

\* What the outcomes tell of the device and the connection
Justified(c, out) ==
  \/ out = "ok" /\ answer[c] = "ok" /\ AllSeen(c) /\ (c \in Messages => verdict[c] = "success")
  \/ out = "rejected" /\ answer[c] = "error" /\ AllSeen(c)
  \/ out = "failed" /\ answer[c] = "ok" /\ verdict[c] = "failure"
  \/ out = "lost" /\ gone
  \/ out = "timeout" /\ c \in Messages
  \/ out \in {"cancelled", "sendError"}

Close(c, out) ==
  /\ Open(c) /\ Justified(c, out)
  /\ outcome' = [outcome EXCEPT ![c] = out]
  /\ UNCHANGED <<asked, answer, verdict, emitted, seen, gone, muddled>>

\* The cancellation of a message given up on may fail in its turn.
CancelFails(c, out) ==
  /\ c \in Messages /\ outcome[c] \in {"rejected", "lost", "timeout", "cancelled", "sendError"}
  /\ outcome' = [outcome EXCEPT ![c] = out]
  /\ UNCHANGED <<asked, answer, verdict, emitted, seen, gone, muddled>>

Lose ==
  gone' = TRUE /\ UNCHANGED <<asked, answer, verdict, emitted, seen, outcome, muddled>>

Keeps(c) ==
  \/ Ask(c) \/ Emit(c) \/ Take(c)
  \/ \E v \in {"ok", "error"} : Answer(c, v)
  \/ \E v \in {"success", "failure"} : Judge(c, v)
  \/ \E out \in {"ok", "rejected", "failed", "lost", "timeout", "cancelled", "sendError"} : Close(c, out)
  \/ \E out \in {"cancelled", "sendError"} : CancelFails(c, out)

Next == (\E c \in Calls : Keeps(c)) \/ Lose \/ muddled'

Spec == Init /\ [][Next]_vars
=============================================================================
