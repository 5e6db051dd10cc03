----------------------------- MODULE EchoServer -----------------------------
(***************************************************************************)
(* What TcpEchoServer and UdpEchoServer have in common                     *)
(* (sockets/tcp_udp.py): start(), stop(), and the thread that runs the     *)
(* loop of _serve(), up to what it waits for.                              *)
(*                                                                         *)
(* The owner calls start(), and stop() once that has returned, as every    *)
(* caller does, and may then do so again on the same object.  A socket and *)
(* a thread are named by the start() that made them.  Closing a socket     *)
(* does not wake a thread that waits on it: the wait ends within half a    *)
(* second, by a timeout or by an error, if it was begun after settimeout() *)
(* and need not end at all if it was begun before.                         *)
(***************************************************************************)
EXTENDS Integers

CONSTANT MaxStarts      \* bound: calls of start()

ASSUME StartsAssumption == MaxStarts \in Nat

Starts == 1..MaxStarts

VARIABLES
  owner,        \* where the caller is: "ready" (in no call), "start", "close",
                \* "join", or "exited" with the whole process
  listening,    \* was the last call a start() that returned?
  sock,         \* self._sock, 0 for None
  socket,       \* the sockets: "bound" (and listening) before they are
                \* "ready", with a timeout
  thread,       \* self._thread, 0 for None
  stop,         \* self._stop
  serve,        \* where each thread is: in a call with a timeout ("wait") or
                \* without ("block"), "left" by the loop's condition, or
                \* "broken" by an exception
  waitsOn       \* the socket that each thread waits on

serverVars == <<owner, listening, sock, socket, thread, stop, serve, waitsOn>>

Ended(t) == serve[t] \in {"none", "left", "broken"}
Waits(t) == serve[t] \in {"wait", "block"}
Bound(s) == socket[s] \in {"bound", "ready"}

ServerInit ==
  /\ owner = "ready" /\ listening = FALSE /\ stop = FALSE
  /\ sock = 0 /\ socket = [s \in Starts |-> "none"]
  /\ thread = 0 /\ serve = [t \in Starts |-> "none"]
  /\ waitsOn = [t \in Starts |-> 0]

-----------------------------------------------------------------------------
\* Variants of Close and Launch, as a careless change would leave them.

CloseForgets ==
  /\ owner = "close" /\ owner' = "join"
  /\ socket' = [socket EXCEPT ![sock] = "closed"] /\ sock' = 0
  /\ UNCHANGED <<listening, thread, stop, serve, waitsOn>>

LaunchNoTimeout ==
  /\ owner = "start" /\ socket[sock] = "bound"
  /\ owner' = "ready" /\ listening' = TRUE
  /\ thread' = sock /\ serve' = [serve EXCEPT ![sock] = "check"]
  /\ UNCHANGED <<sock, socket, stop, waitsOn>>

-----------------------------------------------------------------------------
\* start().  From its first step on the socket is in self._sock, where a thread
\* of an earlier start() finds it.
Start ==
  /\ owner = "ready" /\ ~listening /\ sock < MaxStarts
  /\ owner' = "start" /\ sock' = sock + 1
  /\ socket' = [socket EXCEPT ![sock'] = "new"]
  /\ UNCHANGED <<listening, thread, stop, serve, waitsOn>>

\* bind(), and listen().
Listen ==
  /\ owner = "start" /\ socket[sock] = "new"
  /\ socket' = [socket EXCEPT ![sock] = "bound"]
  /\ UNCHANGED <<owner, listening, sock, thread, stop, serve, waitsOn>>

\* settimeout(), and the thread.
Launch ==
  /\ owner = "start" /\ socket[sock] = "bound"
  /\ owner' = "ready" /\ listening' = TRUE
  /\ socket' = [socket EXCEPT ![sock] = "ready"]
  /\ thread' = sock /\ serve' = [serve EXCEPT ![sock] = "check"]
  /\ UNCHANGED <<sock, stop, waitsOn>>

\* The address is in use.
StartFails ==
  /\ owner = "start" /\ socket[sock] = "new"
  /\ owner' = "ready"
  /\ UNCHANGED <<listening, sock, socket, thread, stop, serve, waitsOn>>

Stop ==
  /\ owner = "ready" /\ listening /\ owner' = "close"
  /\ stop' = TRUE /\ listening' = FALSE
  /\ UNCHANGED <<sock, socket, thread, serve, waitsOn>>

Close ==
  /\ owner = "close" /\ owner' = "join"
  /\ socket' = [socket EXCEPT ![sock] = "closed"]
  /\ UNCHANGED <<listening, sock, thread, stop, serve, waitsOn>>

\* The thread has ended, or two seconds are over.
Join ==
  /\ owner = "join" /\ owner' = "ready"
  /\ UNCHANGED <<listening, sock, socket, thread, stop, serve, waitsOn>>

\* The process ends, at any time, and takes its daemon threads with it.
Exit ==
  /\ owner # "exited" /\ owner' = "exited" /\ listening' = FALSE
  /\ socket' = [s \in Starts |-> IF socket[s] = "none" THEN "none" ELSE "closed"]
  /\ serve' = [t \in Starts |-> IF Ended(t) THEN serve[t] ELSE "broken"]
  /\ UNCHANGED <<sock, thread, stop, waitsOn>>

-----------------------------------------------------------------------------
ServeGoto(t, pc) == serve' = [serve EXCEPT ![t] = pc]

ServeCheck(t) ==
  /\ serve[t] = "check" /\ ServeGoto(t, IF stop THEN "left" ELSE "call")
  /\ UNCHANGED <<owner, listening, sock, socket, thread, stop, waitsOn>>

\* accept() or recvfrom().  self._sock is read here, after the flag: it may be
\* another one by now, and one without a timeout yet.
ServeCall(t) ==
  /\ serve[t] = "call" /\ socket[sock] # "closed"
  /\ ServeGoto(t, IF socket[sock] = "ready" THEN "wait" ELSE "block")
  /\ waitsOn' = [waitsOn EXCEPT ![t] = sock]
  /\ UNCHANGED <<owner, listening, sock, socket, thread, stop>>

ServeTimesOut(t) ==
  /\ serve[t] = "wait" /\ ServeGoto(t, "check")
  /\ UNCHANGED <<owner, listening, sock, socket, thread, stop, waitsOn>>

\* An OSError: the socket is closed or does not listen, or the process is out
\* of descriptors or memory.
ServeFails(t) ==
  /\ Waits(t) \/ (serve[t] = "call" /\ socket[sock] = "closed")
  /\ ServeGoto(t, "broken")
  /\ UNCHANGED <<owner, listening, sock, socket, thread, stop, waitsOn>>

\* Thread t has something to read on a socket that is open, and goes on to pc.
ServeReads(t, pc) ==
  /\ Waits(t) /\ Bound(waitsOn[t]) /\ ServeGoto(t, pc)
  /\ UNCHANGED <<owner, listening, sock, socket, thread, stop, waitsOn>>

OwnerStep   == Start \/ Listen \/ Launch \/ StartFails \/ Stop \/ Join
ServeLoop(t) == ServeCheck(t) \/ ServeCall(t) \/ ServeTimesOut(t) \/ ServeFails(t)

ServerTypeOK ==
  /\ owner \in {"ready", "start", "close", "join", "exited"}
  /\ listening \in BOOLEAN /\ stop \in BOOLEAN
  /\ sock \in 0..MaxStarts /\ thread \in 0..sock
  /\ socket \in [Starts -> {"none", "new", "bound", "ready", "closed"}]
  /\ serve \in [Starts -> {"none", "check", "call", "wait", "block", "echo",
                           "left", "broken"}]
  /\ waitsOn \in [Starts -> 0..MaxStarts]
=============================================================================
