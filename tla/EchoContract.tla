---------------------------- MODULE EchoContract ----------------------------
(***************************************************************************)
(* What tcp_client_echo() and TcpEchoServer promise each other, seen from  *)
(* the clients' side of the connections.  Nothing comes back but what was  *)
(* sent, and only once a thread serves the connection.  A transfer returns *)
(* when all of it is back, or when the server has cut the connection; and  *)
(* the server cuts a connection only if nobody has served it, if its       *)
(* client is done with it, or if the whole process goes.                   *)
(***************************************************************************)
EXTENDS Naturals

CONSTANT Clients

VARIABLES
  transfer,     \* "none", "open", "returned" or "raised", per client
  size,         \* the bytes that a client has to send
  forth, back,  \* the bytes sent, and those that came back
  served,       \* has a thread of the server taken the connection?
  cut,          \* has the server closed or reset it?
  gone          \* has the server's process ended?

vars == <<transfer, size, forth, back, served, cut, gone>>

Over(c) == transfer[c] \in {"returned", "raised"}
All(x)  == [c \in Clients |-> x]

Init ==
  /\ transfer = All("none") /\ size \in [Clients -> Nat]
  /\ forth = All(0) /\ back = All(0)
  /\ served = All(FALSE) /\ cut = All(FALSE) /\ gone = FALSE

Open(c) ==
  /\ transfer[c] = "none" /\ ~gone
  /\ transfer' = [transfer EXCEPT ![c] = "open"]
  /\ UNCHANGED <<size, forth, back, served, cut, gone>>

Forth(c) ==
  /\ transfer[c] = "open" /\ forth[c] < size[c]
  /\ forth' = [forth EXCEPT ![c] = @ + 1]
  /\ UNCHANGED <<transfer, size, back, served, cut, gone>>

Back(c) ==
  /\ transfer[c] = "open" /\ served[c] /\ back[c] < forth[c]
  /\ back' = [back EXCEPT ![c] = @ + 1]
  /\ UNCHANGED <<transfer, size, forth, served, cut, gone>>

Return(c) ==
  /\ transfer[c] = "open" /\ forth[c] = size[c]
  /\ back[c] = size[c] \/ cut[c]
  /\ transfer' = [transfer EXCEPT ![c] = "returned"]
  /\ UNCHANGED <<size, forth, back, served, cut, gone>>

\* An exception is only raised while something is missing.
GiveUp(c) ==
  /\ transfer[c] = "none" \/ (transfer[c] = "open" /\ back[c] < size[c])
  /\ transfer' = [transfer EXCEPT ![c] = "raised"]
  /\ UNCHANGED <<size, forth, back, served, cut, gone>>

Serve(c) ==
  /\ transfer[c] # "none" /\ ~served[c] /\ ~cut[c] /\ ~gone
  /\ served' = [served EXCEPT ![c] = TRUE]
  /\ UNCHANGED <<transfer, size, forth, back, cut, gone>>

\* More connections are cut, for good, all of them among those of S.
CutAmong(S) ==
  /\ cut' \in [Clients -> BOOLEAN]
  /\ \A c \in Clients : /\ cut[c] => cut'[c]
                        /\ cut'[c] => cut[c] \/ c \in S
  /\ UNCHANGED <<transfer, size, forth, back, served>>

Opened == {c \in Clients : transfer[c] # "none"}

Cut == CutAmong({c \in Opened : ~served[c] \/ Over(c)}) /\ UNCHANGED gone

Go == ~gone /\ gone' = TRUE /\ CutAmong(Opened)

Next ==
  \/ \E c \in Clients : \/ Open(c) \/ Forth(c) \/ Back(c)
                        \/ Return(c) \/ GiveUp(c) \/ Serve(c)
  \/ Cut \/ Go

Spec == Init /\ [][Next]_vars
=============================================================================
