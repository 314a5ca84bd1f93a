---------------------------- MODULE ControlSession -----------------------------
(***************************************************************************)
(* TunnelClient.run: dialling, the two-step handshake, the tasks gathered  *)
(* while a session lasts, its finally block, the backoff, and Ctrl+C.      *)
(*                                                                         *)
(* gather does not cancel its other children when one of them raises: the  *)
(* heartbeat loop of a session outlives it, and writes to whatever         *)
(* connection self.ws names by then.                                       *)
(***************************************************************************)
EXTENDS Naturals

CONSTANTS
  MaxSessions,  \* bound: control connections opened in one run
  FirstBackoff, \* 3 s
  MaxBackoff    \* 30 s

ASSUME SessionAssumption ==
  /\ MaxSessions \in Nat \ {0}
  /\ FirstBackoff \in Nat \ {0} /\ MaxBackoff \in Nat /\ FirstBackoff <= MaxBackoff

VARIABLES
  at,         \* where the main task is, see Places
  exc,        \* the exception it carries, see Excs
  ws,         \* self.ws: 0 is None, n the connection of session n
  sessions,   \* connections opened so far
  link,       \* state of the connection `ws' names
  reader,     \* the read loop of the session, see Readers
  beat,       \* the heartbeat loop of each session, see Beats
  relays,     \* a relay task is still there when close_all runs
  backoff,
  interrupted \* Ctrl+C was pressed (bound: once)

vars == <<at, exc, ws, sessions, link, reader, beat, relays, backoff, interrupted>>

Sessions == 1 .. MaxSessions

\* "dial"        in _connect_tunnel
\* "authAck", "registerAck"  in _wait_for_ack
\* "gather"      the tasks of the session run
\* "closeRelays", "closeWs"  the finally block
\* "sleep"       between two attempts
\* "ended"       asyncio.run is over
Places == {"dial", "authAck", "registerAck", "gather",
           "closeRelays", "closeWs", "sleep", "ended"}

\* "cancelled" is Ctrl+C, "error" any exception `run' does not catch
Excs == {"none", "ConnectionClosed", "TunnelError", "cancelled", "error"}

\* "feeding": the loop waits in handle_data for a local WebSocket to take data,
\* and reads nothing meanwhile
Readers == {"off", "running", "feeding", "returned"}

\* "waiting" for the interval to pass, "locked" waits for _send_lock; the loop
\* "failed", or was "cancelled" with gather
Beats == {"off", "waiting", "locked", "failed", "cancelled"}

Init ==
  /\ at = "dial" /\ exc = "none"
  /\ ws = 0 /\ sessions = 0 /\ link = "none"
  /\ reader = "off"
  /\ beat = [s \in Sessions |-> "off"]
  /\ relays = FALSE
  /\ backoff = FirstBackoff
  /\ interrupted = FALSE

-----------------------------------------------------------------------------
(* Connecting *)

\* The socket is open, self.ws assigned and auth written in one step.
Dial ==
  /\ at = "dial" /\ sessions < MaxSessions
  /\ at' = "authAck"
  /\ sessions' = sessions + 1 /\ ws' = sessions + 1 /\ link' = "up"
  /\ UNCHANGED <<exc, reader, beat, relays, backoff, interrupted>>

\* OSError and WebSocketException of the dial both become TunnelError.
DialFails ==
  /\ at = "dial"
  /\ at' = "ended" /\ exc' = "TunnelError"
  /\ UNCHANGED <<ws, sessions, link, reader, beat, relays, backoff, interrupted>>

\* The server accepts the credentials; register is written.
Authenticated ==
  /\ at = "authAck" /\ link = "up"
  /\ at' = "registerAck"
  /\ UNCHANGED <<exc, ws, sessions, link, reader, beat, relays, backoff, interrupted>>

\* The `send' of auth or register raises ConnectionClosed, outside the try block
\* of _connect_and_serve: ws is neither closed nor reset.
SendRefused ==
  /\ at = "authAck" /\ link # "up"
  /\ at' = "sleep"
  /\ UNCHANGED <<exc, ws, sessions, link, reader, beat, relays, backoff, interrupted>>

\* Timeout, an error ack, the end of the connection or a frame that is no ack;
\* or one that is not JSON.
AckFails ==
  /\ at \in {"authAck", "registerAck"}
  /\ at' = "ended" /\ exc' \in {"TunnelError", "error"}
  /\ UNCHANGED <<ws, sessions, link, reader, beat, relays, backoff, interrupted>>

\* Mutant: the loop of the first session is thought to serve all of them.
Registered_OneLoop ==
  /\ at = "registerAck"
  /\ at' = "gather"
  /\ reader' = "running"
  /\ beat' = IF ws = 1 THEN [beat EXCEPT ![ws] = "waiting"] ELSE beat
  /\ UNCHANGED <<exc, ws, sessions, link, relays, backoff, interrupted>>

\* The services are registered and saved, the tasks are created.
Registered ==
  /\ at = "registerAck"
  /\ at' = "gather"
  /\ reader' = "running"
  /\ beat' = [beat EXCEPT ![ws] = "waiting"]
  /\ UNCHANGED <<exc, ws, sessions, link, relays, backoff, interrupted>>

\* save_active_tunnel raises OSError, which `run' takes for a failed connect.
SaveFails ==
  /\ at = "registerAck"
  /\ at' = "sleep"
  /\ UNCHANGED <<exc, ws, sessions, link, reader, beat, relays, backoff, interrupted>>

-----------------------------------------------------------------------------
(* A session *)

\* gather raises `e'; close_all runs next, with or without relays to close.
GatherRaises(e) ==
  /\ at' = "closeRelays" /\ exc' = e
  /\ reader' = "off"
  /\ relays' \in BOOLEAN

\* A relay's data goes to its local WebSocket, whose buffer is full: `send' waits
\* until the app has read some of it, for as long as that takes.
ReaderBlocks ==
  /\ at = "gather" /\ reader = "running"
  /\ reader' = "feeding"
  /\ UNCHANGED <<at, exc, ws, sessions, link, beat, relays, backoff, interrupted>>

\* The app has read,
ReaderUnblocks ==
  /\ at = "gather" /\ reader = "feeding"
  /\ reader' = "running"
  /\ UNCHANGED <<at, exc, ws, sessions, link, beat, relays, backoff, interrupted>>

\* or has gone: its ConnectionClosed takes the way out of the loop.
FeedRaises ==
  /\ at = "gather" /\ reader = "feeding"
  /\ GatherRaises("ConnectionClosed")
  /\ UNCHANGED <<ws, sessions, link, beat, backoff, interrupted>>

\* The connection has been lost, or the local one of a relay has; the server
\* reports an error; a message does not parse.
ReaderRaises ==
  /\ at = "gather" /\ reader = "running"
  /\ \/ GatherRaises("ConnectionClosed")
     \/ GatherRaises("TunnelError")
     \/ GatherRaises("error")
  /\ UNCHANGED <<ws, sessions, link, beat, backoff, interrupted>>

\* Mutant: the read loop takes ConnectionClosed for its end.
ReaderReturns_OnLoss ==
  /\ at = "gather" /\ reader = "running" /\ link \in {"lost", "closed"}
  /\ reader' = "returned"
  /\ UNCHANGED <<at, exc, ws, sessions, link, beat, relays, backoff, interrupted>>

\* `async for' ends without an exception on a close in good order.
ReaderReturns ==
  /\ at = "gather" /\ reader = "running" /\ link = "closed"
  /\ reader' = "returned"
  /\ UNCHANGED <<at, exc, ws, sessions, link, beat, relays, backoff, interrupted>>

\* The interval has passed: `send' tests self.ws, then waits for the lock.
BeatFires(s) ==
  /\ beat[s] = "waiting" /\ at # "ended"
  /\ ws # 0
  /\ beat' = [beat EXCEPT ![s] = "locked"]
  /\ UNCHANGED <<at, exc, ws, sessions, link, reader, relays, backoff, interrupted>>

\* Mutant: the loop does not catch ConnectionClosed.
BeatSends_Raises(s) ==
  /\ beat[s] = "locked" /\ at # "ended"
  /\ beat' = [beat EXCEPT ![s] = IF ws # 0 /\ link = "up" THEN "waiting" ELSE "failed"]
  /\ IF (ws = 0 \/ link # "up") /\ at = "gather" /\ s = sessions
     THEN GatherRaises("error")
     ELSE UNCHANGED <<at, exc, reader, relays>>
  /\ UNCHANGED <<ws, sessions, link, backoff, interrupted>>

\* ConnectionClosed ends the loop.  So does the AttributeError of None.send;
\* that one goes to gather, which is over unless it is this session's.
BeatSends(s) ==
  /\ beat[s] = "locked" /\ at # "ended"
  /\ beat' = [beat EXCEPT ![s] = IF ws # 0 /\ link = "up" THEN "waiting" ELSE "failed"]
  /\ IF ws = 0 /\ at = "gather" /\ s = sessions
     THEN GatherRaises("error")
     ELSE UNCHANGED <<at, exc, reader, relays>>
  /\ UNCHANGED <<ws, sessions, link, backoff, interrupted>>

\* close_all returns, and ws.close() begins.
CloseRelays ==
  /\ at = "closeRelays"
  /\ at' = "closeWs" /\ relays' = FALSE
  /\ UNCHANGED <<exc, ws, sessions, link, reader, beat, backoff, interrupted>>

\* Mutant: self.ws keeps the closed connection.
CloseWs_KeepsWs ==
  /\ at = "closeWs" /\ link # "up"
  /\ link' = "none"
  /\ IF exc = "ConnectionClosed" THEN at' = "sleep" /\ exc' = "none"
     ELSE at' = "ended" /\ UNCHANGED exc
  /\ UNCHANGED <<ws, sessions, reader, beat, relays, backoff, interrupted>>

\* ws.close() returns, once the connection has ended.
CloseWs ==
  /\ at = "closeWs" /\ link # "up"
  /\ ws' = 0 /\ link' = "none"
  /\ IF exc = "ConnectionClosed" THEN at' = "sleep" /\ exc' = "none"
     ELSE at' = "ended" /\ UNCHANGED exc
  /\ UNCHANGED <<sessions, reader, beat, relays, backoff, interrupted>>

\* Mutant: no upper limit.
Wake_NoCap ==
  /\ at = "sleep"
  /\ at' = "dial"
  /\ backoff' = backoff * 2
  /\ UNCHANGED <<exc, ws, sessions, link, reader, beat, relays, interrupted>>

\* The sleep is over; the next one is twice as long, up to MaxBackoff.
Wake ==
  /\ at = "sleep"
  /\ at' = "dial"
  /\ backoff' = IF backoff * 2 < MaxBackoff THEN backoff * 2 ELSE MaxBackoff
  /\ UNCHANGED <<exc, ws, sessions, link, reader, beat, relays, interrupted>>

\* The network or the server ends the connection, or ws.close() does.
Drop ==
  /\ link = "up"
  /\ link' \in IF at = "closeWs" THEN {"lost"} ELSE {"lost", "closed"}
  /\ UNCHANGED <<at, exc, ws, sessions, reader, beat, relays, backoff, interrupted>>

-----------------------------------------------------------------------------
(* Ctrl+C, pressed once: asyncio.run cancels the main task at its await, and *)
(* with it what gather waits for.                                            *)

\* In WSRelay.close, which awaits the relay task it has just cancelled, the
\* CancelledError of the main task is taken for that task's, and dropped; at its
\* `await local_ws.close()' it is not.  Without relays close_all does not await.
Interrupt ==
  /\ at # "ended" /\ ~ interrupted
  /\ interrupted' = TRUE
  /\ \/ /\ at = "gather" /\ GatherRaises("cancelled")
        /\ beat' = [beat EXCEPT ![ws] = IF @ = "failed" THEN @ ELSE "cancelled"]
     \/ /\ at = "closeRelays" /\ relays
        /\ UNCHANGED <<at, exc, reader, relays, beat>>
     \/ /\ at # "gather" /\ (at = "closeRelays" => relays)
        /\ at' = "ended" /\ exc' = "cancelled" /\ reader' = "off"
        /\ UNCHANGED <<relays, beat>>
  /\ UNCHANGED <<ws, sessions, link, backoff>>

MainStep ==
  \/ Dial \/ DialFails \/ Authenticated \/ SendRefused \/ AckFails \/ Registered \/ SaveFails
  \/ CloseRelays \/ CloseWs \/ Wake
  \/ at = "closeWs" /\ Drop

Next ==
  \/ MainStep \/ ReaderRaises \/ ReaderReturns
  \/ ReaderBlocks \/ ReaderUnblocks \/ FeedRaises \/ Drop \/ Interrupt
  \/ \E s \in Sessions : BeatFires(s) \/ BeatSends(s)

\* Every await of the main task has a timeout, or is for a task that ends: 30 s
\* and the websockets open_timeout for the dial, 10 s for an ack, close_timeout
\* for the close.  The messages received before the end of a connection are few,
\* each may block the read loop, and after the last of them it notices the end; but
\* nothing makes a local app read, and the loop may be blocked for ever.
Fairness ==
  /\ WF_vars(MainStep)
  /\ SF_vars(ReaderReturns) /\ SF_vars(ReaderRaises /\ link = "lost")

Spec == Init /\ [][Next]_vars
FairSpec == Spec /\ Fairness

-----------------------------------------------------------------------------
(* Properties *)

\* Every variable keeps its type: in particular the delay between two attempts
\* stays between 3 s and 30 s (tunnel.py:90, 103).
TypeOK ==
  /\ at \in Places
  /\ exc \in Excs
  /\ ws \in 0 .. MaxSessions
  /\ sessions \in 0 .. MaxSessions
  /\ link \in {"none", "up", "lost", "closed"}
  /\ reader \in Readers
  /\ beat \in [Sessions -> Beats]
  /\ relays \in BOOLEAN
  /\ backoff \in FirstBackoff .. MaxBackoff
  /\ interrupted \in BOOLEAN

\* While a session's connection is up, a heartbeat loop is alive that writes to
\* it, whatever became of the loops of earlier sessions (tunnel.py:161-166,
\* 294-302).
KeptAlive ==
  at = "gather" /\ link = "up" => \E s \in Sessions : beat[s] \in {"waiting", "locked"}

\* No heartbeat that fails, of this session or a left-over one, ends the session
\* or changes how it ends (tunnel.py:299-302).
HeartbeatHarmless ==
  [][(\E s \in Sessions : beat'[s] = "failed" /\ beat[s] # "failed") => UNCHANGED <<at, exc>>]_vars

Link == INSTANCE ControlLink WITH
  phase <- CASE at \in {"dial", "sleep"} -> "connecting"
             [] at \in {"authAck", "registerAck"} -> "handshake"
             [] at = "gather" -> IF reader = "returned" THEN "deaf" ELSE "serving"
             [] at \in {"closeRelays", "closeWs"} ->
                  IF exc = "ConnectionClosed" THEN "reconnecting" ELSE "leaving"
             [] OTHER -> "ended"

\* The tasks and exceptions of lines 86-172 give the control connection that
\* ControlLink describes and the request handlers work with.
ImplementsLink == Link!LinkSpec

\* A session whose connection is lost comes to its end: another connection follows,
\* or the client ends, with the error of the dial or the handshake, or by Ctrl+C; all
\* of this only if no local app keeps the read loop blocked for ever
\* (tunnel.py:95-103, ws_relay.py:73-76).
Recovers ==
  []<>(reader # "feeding") =>
    (at = "gather" /\ link = "lost" ~> link = "up" \/ at = "ended" \/ sessions = MaxSessions)

\* "Maintains the WebSocket control connection" (tunnel.py:70): the same for a
\* connection that ends in any way.
Maintained ==
  []<>(reader # "feeding") =>
    (at = "gather" /\ link # "up" ~> link = "up" \/ at = "ended" \/ sessions = MaxSessions)

\* "Ctrl+C disconnects the tunnel and returns to the menu." (README.md:66)
InterruptEnds == interrupted ~> at = "ended"
===============================================================================
