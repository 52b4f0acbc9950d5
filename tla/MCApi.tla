------------------------------- MODULE MCApi -------------------------------
(* Small instances of Api: each call is named for what it is. *)
EXTENDS Api, TLC

CONSTANTS unicast, ackUnicast, broadcast, request, stream

\* The calls of each run
Sending == {ackUnicast, unicast}
SendAndStream == {ackUnicast, stream}
SendAndRequest == {broadcast, request}
Streaming == {stream}

MCKind ==
  [c \in Calls |->
     (unicast :> "unicast" @@ ackUnicast :> "ackUnicast" @@ broadcast :> "broadcast"
        @@ request :> "request" @@ stream :> "stream")[c]]
=============================================================================
