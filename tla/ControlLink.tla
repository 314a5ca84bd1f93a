------------------------------ MODULE ControlLink ------------------------------
(***************************************************************************)
(* The control WebSocket between the CLI and the tunnel server, as the     *)
(* tasks that use it see it: `self.ws' is None or the connection of some   *)
(* session, and that connection is up, lost, or closed in good order.      *)
(* Sessions are numbered; connection n is the one of session n.            *)
(*                                                                         *)
(* RequestStream runs the request handlers on top of this component, and   *)
(* ControlSession, which has the tasks, timers and errors of               *)
(* TunnelClient.run, implements it.                                        *)
(***************************************************************************)
EXTENDS Naturals

CONSTANT MaxSessions    \* bound: control connections opened in one run

ASSUME MaxSessionsAssumption == MaxSessions \in Nat \ {0}

VARIABLES
  phase,    \* where TunnelClient.run is, see Phases
  ws,       \* self.ws: 0 is None, n > 0 the connection of session n
  sessions, \* number of control connections opened so far
  link      \* state of the connection `ws' names

linkVars == <<phase, ws, sessions, link>>

\* "connecting"   sleeping before, or inside, _connect_tunnel
\* "handshake"    auth and register are under way, nothing reads requests
\* "serving"      gather runs the read loop
\* "deaf"         the read loop has returned, gather waits for _wait_stop
\* "reconnecting" the finally block, after ConnectionClosed
\* "leaving"      the finally block, after Ctrl+C or any other exception
\* "ended"        TunnelClient.run has returned or raised
Phases == {"connecting", "handshake", "serving", "deaf",
           "reconnecting", "leaving", "ended"}

LinkStates == {"none", "up", "lost", "closed"}

NoSocket == 0

LinkTypeOK ==
  /\ phase \in Phases
  /\ ws \in 0 .. MaxSessions
  /\ sessions \in 0 .. MaxSessions
  /\ link \in LinkStates

LinkInit ==
  /\ phase = "connecting"
  /\ ws = NoSocket
  /\ sessions = 0
  /\ link = "none"

-----------------------------------------------------------------------------
(* The steps of TunnelClient.run. *)

\* _connect_tunnel returns and the auth message is written in the same step.
Connect ==
  /\ phase = "connecting" /\ sessions < MaxSessions
  /\ phase' = "handshake"
  /\ sessions' = sessions + 1
  /\ ws' = sessions + 1
  /\ link' = "up"

\* Both acks have been read: the saved tunnel is written, the tasks start.
Register ==
  /\ phase = "handshake"
  /\ phase' = "serving"
  /\ UNCHANGED <<ws, sessions, link>>

\* ConnectionClosed from the `send' of register, or an OSError of
\* save_active_tunnel, leaves _connect_and_serve from outside its try block:
\* `run' goes on to the next attempt, and ws is not closed nor reset.
HandshakeAborts ==
  /\ phase = "handshake"
  /\ phase' = "connecting"
  /\ UNCHANGED <<ws, sessions, link>>

\* TunnelError from the connect or the handshake, or Ctrl+C during either.
GiveUp ==
  /\ phase \in {"connecting", "handshake"}
  /\ phase' = "ended"
  /\ UNCHANGED <<ws, sessions, link>>

\* `async for' raises ConnectionClosed.
ReadLoopRaises ==
  /\ phase = "serving" /\ link = "lost"
  /\ phase' = "reconnecting"
  /\ UNCHANGED <<ws, sessions, link>>

\* A relay frame could not be written to its local WebSocket: that
\* connection's ConnectionClosed takes the same way out of the read loop.
RelayRaises ==
  /\ phase = "serving"
  /\ phase' = "reconnecting"
  /\ UNCHANGED <<ws, sessions, link>>

\* `async for' ends without an exception once the server has closed in good
\* order; gather keeps waiting for the other two tasks.
ReadLoopReturns ==
  /\ phase = "serving" /\ link = "closed"
  /\ phase' = "deaf"
  /\ UNCHANGED <<ws, sessions, link>>

\* Ctrl+C, an error frame of the server, or any other exception.
Leave ==
  /\ phase \in {"serving", "deaf"}
  /\ phase' = "leaving"
  /\ UNCHANGED <<ws, sessions, link>>

\* The finally block: ws.close() returns when the connection is gone.
Close ==
  /\ phase \in {"reconnecting", "leaving"} /\ link # "up"
  /\ phase' = IF phase = "reconnecting" THEN "connecting" ELSE "ended"
  /\ ws' = NoSocket
  /\ link' = "none"
  /\ UNCHANGED sessions

\* Ctrl+C interrupts the finally block before ws is reset.
CloseInterrupted ==
  /\ phase \in {"reconnecting", "leaving"}
  /\ phase' = "ended"
  /\ UNCHANGED <<ws, sessions, link>>

\* The network, or the server, ends the connection.
Drop(how) ==
  /\ link = "up"
  /\ link' = how
  /\ UNCHANGED <<phase, ws, sessions>>

LinkStep ==
  \/ Connect \/ Register \/ HandshakeAborts \/ GiveUp
  \/ ReadLoopRaises \/ RelayRaises \/ ReadLoopReturns
  \/ Leave \/ Close \/ CloseInterrupted
  \/ \E how \in {"lost", "closed"} : Drop(how)

LinkSpec == LinkInit /\ [][LinkStep]_linkVars

-----------------------------------------------------------------------------
(* Properties *)

\* Whoever reads self.ws finds the connection of the latest session, or None
\* once that session has closed it; from its handshake to the end of its finally
\* block there is one; and a deaf session was closed in good order (tunnel.py:95-172).
LinkInv ==
  /\ ws \in {NoSocket, sessions}
  /\ ws = NoSocket <=> link = "none"
  /\ phase \in {"handshake", "serving", "deaf", "reconnecting", "leaving"} => ws # NoSocket
  /\ phase = "deaf" => link = "closed"
===============================================================================
