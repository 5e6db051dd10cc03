------------------------------- MODULE MCEcho -------------------------------
(***************************************************************************)
(* SocketsCommand on two clients: one whose payload can stall, and one     *)
(* with nothing to send.                                                   *)
(***************************************************************************)
EXTENDS EchoInvariant, TLC

CONSTANTS c1, c2

MCClients  == {c1, c2}
MCPayloads == {c1 :> 6 @@ c2 :> 0}
=============================================================================
