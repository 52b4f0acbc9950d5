----------------------------- MODULE MCSession ------------------------------
(* A small instance of Session: one attempt over either medium, in either order. *)
EXTENDS Session, TLC

CONSTANTS w1, s1

Sessions == {w1, s1}
MCMedium == w1 :> "websocket" @@ s1 :> "serial"
=============================================================================
