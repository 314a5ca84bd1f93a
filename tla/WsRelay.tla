-------------------------------- MODULE WsRelay --------------------------------
(***************************************************************************)
(* WSRelay: browser WebSockets relayed to local apps.  The read loop opens, *)
(* feeds and closes relays one message at a time; a task per relay writes   *)
(* what the local app sends to the control connection; the finally block of *)
(* the session closes what is left.  An action is what a task does from one *)
(* await to the next.                                                       *)
(*                                                                          *)
(* A relay is one ws_relay_open of the server and the local connection made *)
(* for it; relays are numbered in that order.  The server does not use the  *)
(* id of a relay again before it has closed the relay or was refused it.    *)
(***************************************************************************)
EXTENDS ControlLink, Sequences

CONSTANTS
  Id,          \* relay ids
  MaxRelays,   \* bound: relays opened in one run
  MaxInbox     \* bound: relay messages in flight to the read loop

ASSUME RelayAssumption == MaxRelays \in Nat /\ MaxInbox \in Nat

VARIABLES
  opened,     \* relays the server takes for open
  inbox,      \* relay messages in flight, or buffered
  opens,      \* number of relays opened so far
  home,       \* the session a relay was opened in
  id,         \* the id it was opened under
  at,         \* where the read loop and the main task are, see Places
  arg,        \* the relay each of the two works on
  relays,     \* _relays of the current WSRelay
  tasks,      \* _tasks of the current WSRelay
  todo,       \* ids close_all has still to close
  sock,       \* local connection: "none", "open", "gone" (the app left), "closed"
  pc,         \* relay task, see TaskPlaces
  cancelled,  \* tasks with a cancel() on its way
  heard,      \* the relay whose ack or frame the connection last carried, by id
  interrupted \* Ctrl+C was pressed (bound: once)

origin == <<opens, home, id>>
dictVars == <<relays, tasks>>
taskVars == <<sock, pc, cancelled>>
relayVars == <<opened, inbox, origin, at, arg, dictVars, todo, taskVars, heard, interrupted>>
vars == <<linkVars, relayVars>>

None == 0
Relay == 1 .. MaxRelays
Callers == {"reader", "main"}

\* The read loop is "off", waits for a message ("idle"), or is at an await of
\* handle_open ("connect", "ack", "refuse") or handle_data ("feed").  The main
\* task is "idle" between two ids of close_all.  Both can be in WSRelay.close, at
\* "await task" ("task") or "await local_ws.close()" ("ws").
Places == {"off", "idle", "connect", "ack", "refuse", "feed", "task", "ws"}

\* Created and not yet started; waits for the app; waits in send_bytes; its
\* finally block closes the local connection.
TaskPlaces == {"none", "created", "reading", "sending", "closing", "done"}

Relaying == {"created", "reading", "sending"}

Message == [op : {"open", "data", "close"}, relay : Relay]

TypeOK ==
  /\ LinkTypeOK
  /\ opened \subseteq 1 .. opens
  /\ inbox \in Seq(Message)
  /\ opens \in 0 .. MaxRelays
  /\ home \in [1 .. opens -> 1 .. MaxSessions]
  /\ id \in [1 .. opens -> Id]
  /\ at \in [Callers -> Places]
  /\ arg \in [Callers -> Relay \cup {None}]
  /\ relays \in [Id -> Relay \cup {None}]
  /\ tasks \in [Id -> Relay \cup {None}]
  /\ todo \subseteq Id
  /\ sock \in [Relay -> {"none", "open", "gone", "closed"}]
  /\ pc \in [Relay -> TaskPlaces]
  /\ cancelled \subseteq Relay
  /\ heard \in [Id -> Relay \cup {None}]
  /\ interrupted \in BOOLEAN

Init ==
  /\ LinkInit
  /\ opened = {} /\ inbox = <<>>
  /\ opens = 0 /\ home = <<>> /\ id = <<>>
  /\ at = [c \in Callers |-> "off"] /\ arg = [c \in Callers |-> None]
  /\ relays = [i \in Id |-> None] /\ tasks = [i \in Id |-> None]
  /\ todo = {}
  /\ sock = [r \in Relay |-> "none"]
  /\ pc = [r \in Relay |-> "none"]
  /\ cancelled = {}
  /\ heard = [i \in Id |-> None]
  /\ interrupted = FALSE

\* A caller goes to a place, with a relay to work on or None.
Goes(c, place, r) ==
  /\ at' = [at EXCEPT ![c] = place]
  /\ arg' = [arg EXCEPT ![c] = r]

\* The task of a relay as a set, empty when it is over.
Live(r) == {q \in {r} : pc[q] # "done"}

Popped(d, i) == [d EXCEPT ![i] = None]

-----------------------------------------------------------------------------
(* The server, the network and the local apps *)

Send(op, r) ==
  /\ link = "up" /\ phase = "serving" /\ Len(inbox) < MaxInbox
  /\ inbox' = Append(inbox, [op |-> op, relay |-> r])
  /\ UNCHANGED <<linkVars, at, arg, dictVars, todo, taskVars, heard, interrupted>>

ServerOpens(i) ==
  /\ opens < MaxRelays /\ \A q \in opened : id[q] # i
  /\ opens' = opens + 1
  /\ home' = Append(home, sessions) /\ id' = Append(id, i)
  /\ opened' = opened \cup {opens + 1}
  /\ Send("open", opens + 1)

ServerSends(r) ==
  /\ r \in opened
  /\ Send("data", r)
  /\ UNCHANGED <<opened, origin>>

ServerCloses(r) ==
  /\ r \in opened
  /\ opened' = opened \ {r}
  /\ Send("close", r)
  /\ UNCHANGED origin

LinkDrops ==
  /\ \E how \in {"lost", "closed"} : Drop(how)
  /\ opened' = {}
  /\ \E n \in 0 .. Len(inbox) : inbox' = SubSeq(inbox, 1, n)
  /\ UNCHANGED <<origin, at, arg, dictVars, todo, taskVars, heard, interrupted>>

AppLeaves(r) ==
  /\ sock[r] = "open"
  /\ sock' = [sock EXCEPT ![r] = "gone"]
  /\ UNCHANGED <<linkVars, opened, inbox, origin, at, arg, dictVars, todo, pc, cancelled,
                 heard, interrupted>>

-----------------------------------------------------------------------------
(* WSRelay.close, called by the read loop and by close_all *)

\* The rest of close, from `_relays.pop' on; `d' is _relays.
CloseRest(c, i) ==
  /\ relays' = Popped(relays, i)
  /\ IF relays[i] = None THEN Goes(c, "idle", None) ELSE Goes(c, "ws", relays[i])

\* Mutant: close forgets the task without cancelling it.
CloseBegins_NoCancel(c, i) ==
  /\ tasks' = Popped(tasks, i)
  /\ CloseRest(c, i)
  /\ UNCHANGED taskVars

CloseBegins(c, i) ==
  /\ tasks' = Popped(tasks, i)
  /\ IF tasks[i] = None
     THEN CloseRest(c, i) /\ UNCHANGED cancelled
     ELSE /\ cancelled' = cancelled \cup {tasks[i]}
          /\ Goes(c, "task", tasks[i])
          /\ UNCHANGED relays
  /\ UNCHANGED <<sock, pc>>

\* The cancelled task is over.
TaskAwaited(c) ==
  /\ at[c] = "task" /\ pc[arg[c]] = "done"
  /\ CloseRest(c, id[arg[c]])
  /\ UNCHANGED <<linkVars, opened, inbox, origin, tasks, todo, taskVars, heard, interrupted>>

\* local_ws.close() returns: the app has answered, or close_timeout is over.
LocalClosed(c) ==
  /\ at[c] = "ws"
  /\ sock' = [sock EXCEPT ![arg[c]] = "closed"]
  /\ Goes(c, "idle", None)
  /\ UNCHANGED <<linkVars, opened, inbox, origin, dictVars, todo, pc, cancelled, heard, interrupted>>

-----------------------------------------------------------------------------
(* The finally block *)

\* Mutant: the session ends without a call of close_all.
CloseAllBegins_None(readerAt) ==
  /\ at' = [at EXCEPT !["reader"] = readerAt, !["main"] = "idle"]
  /\ arg' = IF readerAt = "off" THEN [arg EXCEPT !["reader"] = None] ELSE arg
  /\ todo' = {}

\* close_all takes the keys of _relays and goes through them.
CloseAllBegins(readerAt) ==
  /\ at' = [at EXCEPT !["reader"] = readerAt, !["main"] = "idle"]
  /\ arg' = IF readerAt = "off" THEN [arg EXCEPT !["reader"] = None] ELSE arg
  /\ todo' = {i \in Id : relays[i] # None}

CloseNext ==
  /\ at["main"] = "idle"
  /\ \E i \in todo : todo' = todo \ {i} /\ CloseBegins("main", i)
  /\ UNCHANGED <<linkVars, opened, inbox, origin, heard, interrupted>>

\* close_all has returned, and so does ws.close().
CloseWs ==
  /\ at["main"] = "idle" /\ todo = {}
  /\ Close
  /\ at' = [c \in Callers |-> "off"] /\ arg' = [c \in Callers |-> None]
  /\ inbox' = <<>>
  /\ UNCHANGED <<opened, origin, dictVars, todo, taskVars, heard, interrupted>>

-----------------------------------------------------------------------------
(* The session *)

\* A new WSRelay for each connection.
SessionConnects ==
  /\ Connect
  /\ relays' = [i \in Id |-> None] /\ tasks' = [i \in Id |-> None]
  /\ heard' = [i \in Id |-> None]
  /\ UNCHANGED <<opened, inbox, origin, at, arg, todo, taskVars, interrupted>>

SessionStarts ==
  /\ Register
  /\ Goes("reader", "idle", None)
  /\ UNCHANGED <<opened, inbox, origin, dictVars, todo, taskVars, heard, interrupted>>

HandshakeFails ==
  /\ HandshakeAborts \/ GiveUp
  /\ UNCHANGED relayVars

\* The read loop ends in `step', which raises out of gather; when the main task
\* has left gather before, nobody hears of it.
ReaderLeaves(step) ==
  /\ IF phase = "serving"
     THEN step /\ CloseAllBegins("off")
     ELSE UNCHANGED <<linkVars, todo>> /\ Goes("reader", "off", None)
  /\ UNCHANGED <<opened, inbox, origin, dictVars, taskVars, heard, interrupted>>

\* `async for' raises once the messages before the loss are read; the server
\* reports an error, or a message does not parse.
ReaderRaises ==
  /\ at["reader"] = "idle"
  /\ \/ inbox = <<>> /\ link = "lost" /\ ReaderLeaves(ReadLoopRaises)
     \/ ReaderLeaves(Leave)

ReaderReturns ==
  /\ at["reader"] = "idle" /\ inbox = <<>> /\ ReadLoopReturns
  /\ Goes("reader", "off", None)
  /\ UNCHANGED <<opened, inbox, origin, dictVars, todo, taskVars, heard, interrupted>>

\* Ctrl+C cancels the main task and what it waits for.  In WSRelay.close, at
\* `await task', that is the relay task once more, and `except CancelledError'
\* drops the exception: the read loop goes on after its session, or close_all
\* goes on and the client reconnects.
Interrupt ==
  /\ ~ interrupted /\ interrupted' = TRUE
  /\ \/ /\ phase \in {"serving", "deaf"} /\ Leave
        /\ IF at["reader"] = "task"
           THEN CloseAllBegins("task") /\ cancelled' = cancelled \cup Live(arg["reader"])
           ELSE CloseAllBegins("off") /\ UNCHANGED cancelled
     \/ /\ at["main"] = "task"
        /\ cancelled' = cancelled \cup Live(arg["main"])
        /\ UNCHANGED <<linkVars, at, arg, todo>>
     \/ /\ at["main"] = "ws" \/ (at["main"] = "idle" /\ todo = {})
        /\ CloseInterrupted
        /\ UNCHANGED <<at, arg, todo, cancelled>>
  /\ UNCHANGED <<opened, inbox, origin, dictVars, sock, pc, heard>>

-----------------------------------------------------------------------------
(* The read loop *)

Reads(op, r) ==
  /\ at["reader"] = "idle" /\ inbox # <<>> /\ Head(inbox) = [op |-> op, relay |-> r]
  /\ inbox' = Tail(inbox)

\* A message that lacks a field is refused at once.
RecvOpen(r) ==
  /\ Reads("open", r)
  /\ \E place \in {"connect", "refuse"} : Goes("reader", place, r)
  /\ UNCHANGED <<linkVars, opened, origin, dictVars, todo, taskVars, heard, interrupted>>

LocalRefuses ==
  /\ at["reader"] = "connect"
  /\ Goes("reader", "refuse", arg["reader"])
  /\ UNCHANGED <<linkVars, opened, inbox, origin, dictVars, todo, taskVars, heard, interrupted>>

\* Mutant: the relay is kept as its id, not as its connection.
LocalConnects_Id ==
  LET r == arg["reader"] IN
  /\ at["reader"] = "connect" /\ \A q \in cancelled : id[q] # id[r]
  /\ sock' = [sock EXCEPT ![r] = "open"]
  /\ relays' = [relays EXCEPT ![id[r]] = id[r]]
  /\ Goes("reader", "ack", r)
  /\ UNCHANGED <<linkVars, opened, inbox, origin, tasks, todo, pc, cancelled, heard, interrupted>>

\* The dial takes round trips; a cancel() arrives in the next turn of the event loop,
\* so that none is on its way to an earlier task with this id.
LocalConnects ==
  LET r == arg["reader"] IN
  /\ at["reader"] = "connect" /\ \A q \in cancelled : id[q] # id[r]
  /\ sock' = [sock EXCEPT ![r] = "open"]
  /\ relays' = [relays EXCEPT ![id[r]] = r]
  /\ Goes("reader", "ack", r)
  /\ UNCHANGED <<linkVars, opened, inbox, origin, tasks, todo, pc, cancelled, heard, interrupted>>

\* Mutant: the task is kept under no id.
AckWritten_Untracked ==
  LET r == arg["reader"] IN
  /\ at["reader"] = "ack" /\ link = "up"
  /\ heard' = [heard EXCEPT ![id[r]] = r]
  /\ pc' = [pc EXCEPT ![r] = "created"]
  /\ Goes("reader", "idle", None)
  /\ UNCHANGED <<linkVars, opened, inbox, origin, dictVars, todo, sock, cancelled, interrupted>>

\* The ack is written; only then is the task created.
AckWritten ==
  LET r == arg["reader"] IN
  /\ at["reader"] = "ack" /\ link = "up"
  /\ heard' = [heard EXCEPT ![id[r]] = r]
  /\ tasks' = [tasks EXCEPT ![id[r]] = r]
  /\ pc' = [pc EXCEPT ![r] = "created"]
  /\ Goes("reader", "idle", None)
  /\ UNCHANGED <<linkVars, opened, inbox, origin, relays, todo, sock, cancelled, interrupted>>

RefusalWritten ==
  /\ at["reader"] = "refuse" /\ link = "up"
  /\ opened' = opened \ {arg["reader"]}
  /\ Goes("reader", "idle", None)
  /\ UNCHANGED <<linkVars, inbox, origin, dictVars, todo, taskVars, heard, interrupted>>

AckFails ==
  /\ at["reader"] \in {"ack", "refuse"} /\ link # "up"
  /\ ReaderLeaves(RelayRaises)

\* Mutant: data for a relay that has ended goes to any other one.
RecvData_AnyRelay(r) ==
  /\ Reads("data", r)
  /\ \E i \in Id : IF relays[i] = None THEN Goes("reader", "idle", None)
                   ELSE Goes("reader", "feed", relays[i])
  /\ UNCHANGED <<linkVars, opened, origin, dictVars, todo, taskVars, heard, interrupted>>

\* Data for a relay that has ended is dropped.
RecvData(r) ==
  /\ Reads("data", r)
  /\ IF relays[id[r]] = None THEN Goes("reader", "idle", None)
     ELSE Goes("reader", "feed", relays[id[r]])
  /\ UNCHANGED <<linkVars, opened, origin, dictVars, todo, taskVars, heard, interrupted>>

\* local_ws.send returns; it has no timeout, and a local app that does not read
\* keeps the read loop here.
FeedDone ==
  /\ at["reader"] = "feed" /\ sock[arg["reader"]] = "open"
  /\ Goes("reader", "idle", None)
  /\ UNCHANGED <<linkVars, opened, inbox, origin, dictVars, todo, taskVars, heard, interrupted>>

\* ConnectionClosed of the local connection; or the text is not UTF-8.
FeedFails ==
  /\ at["reader"] = "feed"
  /\ \/ sock[arg["reader"]] # "open" /\ ReaderLeaves(RelayRaises)
     \/ ReaderLeaves(Leave)

RecvClose(r) ==
  /\ Reads("close", r)
  /\ CloseBegins("reader", id[r])
  /\ UNCHANGED <<linkVars, opened, origin, todo, heard, interrupted>>

-----------------------------------------------------------------------------
(* The relay tasks *)

TaskStarts(r) ==
  /\ pc[r] = "created" /\ r \notin cancelled
  /\ pc' = [pc EXCEPT ![r] = "reading"]
  /\ UNCHANGED <<linkVars, opened, inbox, origin, at, arg, dictVars, todo, sock, cancelled,
                 heard, interrupted>>

\* A message of the app; send_bytes finds a connection and waits for the lock.
TaskReads(r) ==
  /\ pc[r] = "reading" /\ r \notin cancelled /\ sock[r] = "open" /\ ws # NoSocket
  /\ pc' = [pc EXCEPT ![r] = "sending"]
  /\ UNCHANGED <<linkVars, opened, inbox, origin, at, arg, dictVars, todo, sock, cancelled,
                 heard, interrupted>>

TaskSends(r) ==
  /\ pc[r] = "sending" /\ r \notin cancelled /\ ws # NoSocket /\ link = "up"
  /\ heard' = [heard EXCEPT ![id[r]] = r]
  /\ pc' = [pc EXCEPT ![r] = "reading"]
  /\ UNCHANGED <<linkVars, opened, inbox, origin, at, arg, dictVars, todo, sock, cancelled,
                 interrupted>>

\* Mutant: the finally block leaves the local connection to someone else.
Finally_NoClose(r) ==
  /\ pc' = [pc EXCEPT ![r] = "done"]
  /\ IF home[r] = sessions
     THEN relays' = Popped(relays, id[r]) /\ tasks' = Popped(tasks, id[r])
     ELSE UNCHANGED dictVars

\* The finally block of a task: its entries go, under the id they have.
Finally(r) ==
  /\ pc' = [pc EXCEPT ![r] = "closing"]
  /\ IF home[r] = sessions
     THEN relays' = Popped(relays, id[r]) /\ tasks' = Popped(tasks, id[r])
     ELSE UNCHANGED dictVars

\* The app has left; or send raises, ConnectionClosed or of None.
TaskEnds(r) ==
  /\ r \notin cancelled
  /\ \/ pc[r] = "reading" /\ sock[r] # "open"
     \/ pc[r] = "sending" /\ (ws = NoSocket \/ link # "up")
  /\ Finally(r)
  /\ UNCHANGED <<linkVars, opened, inbox, origin, at, arg, todo, sock, cancelled, heard, interrupted>>

\* Mutant: the task takes CancelledError for an error of one message.
Unwinds_GoesOn(r) ==
  /\ r \in cancelled /\ cancelled' = cancelled \ {r}
  /\ pc' = [pc EXCEPT ![r] = IF @ \in {"reading", "sending"} THEN "reading" ELSE "done"]
  /\ UNCHANGED <<linkVars, opened, inbox, origin, at, arg, dictVars, todo, sock, heard, interrupted>>

\* CancelledError arrives.  A task that has not started ends without its finally
\* block, one that closes its local connection leaves it as it is.
Unwinds(r) ==
  /\ r \in cancelled /\ cancelled' = cancelled \ {r}
  /\ IF pc[r] \in {"reading", "sending"} THEN Finally(r)
     ELSE pc' = [pc EXCEPT ![r] = "done"] /\ UNCHANGED dictVars
  /\ UNCHANGED <<linkVars, opened, inbox, origin, at, arg, todo, sock, heard, interrupted>>

TaskCloses(r) ==
  /\ pc[r] = "closing" /\ r \notin cancelled
  /\ pc' = [pc EXCEPT ![r] = "done"]
  /\ sock' = [sock EXCEPT ![r] = "closed"]
  /\ UNCHANGED <<linkVars, opened, inbox, origin, at, arg, dictVars, todo, cancelled, heard,
                 interrupted>>

TaskStep(r) ==
  TaskStarts(r) \/ TaskReads(r) \/ TaskSends(r) \/ TaskEnds(r) \/ Unwinds(r) \/ TaskCloses(r)

ReaderStep ==
  \/ ReaderRaises \/ ReaderReturns
  \/ \E r \in Relay : RecvOpen(r) \/ RecvData(r) \/ RecvClose(r)
  \/ LocalRefuses \/ LocalConnects \/ AckWritten \/ RefusalWritten \/ AckFails
  \/ FeedDone \/ FeedFails

MainStep ==
  CloseNext \/ TaskAwaited("main") \/ LocalClosed("main") \/ CloseWs

\* close_all goes from one id to the next without an await.
BetweenIds == at["main"] = "idle" /\ todo # {}

\* asyncio.run has returned in "ended"; what is left is cancelled with it.
Next ==
  /\ phase # "ended"
  /\ \/ CloseNext
     \/ /\ ~ BetweenIds
        /\ \/ \E i \in Id : ServerOpens(i)
           \/ \E r \in Relay :
                ServerSends(r) \/ ServerCloses(r) \/ AppLeaves(r) \/ TaskStep(r)
           \/ LinkDrops \/ SessionConnects \/ SessionStarts \/ HandshakeFails
           \/ ReaderStep \/ TaskAwaited("reader") \/ LocalClosed("reader")
           \/ MainStep \/ Interrupt

Spec == Init /\ [][Next]_vars

\* The event loop runs every ready task, and a connection that is up drains; closing
\* a local connection has a timeout (close_timeout), as has the end of ws.close().
\* Nothing is assumed of local_ws.send, which has none, nor of a local app.
Fairness ==
  /\ \A r \in Relay :
       WF_vars(phase # "ended" /\ ~ BetweenIds
               /\ (TaskStarts(r) \/ TaskSends(r) \/ TaskEnds(r) \/ Unwinds(r) \/ TaskCloses(r)))
  /\ WF_vars(phase # "ended" /\ MainStep)
  /\ WF_vars(phase \in {"reconnecting", "leaving"} /\ ~ BetweenIds /\ LinkDrops)
  /\ WF_vars(phase # "ended" /\ ~ BetweenIds
             /\ (AckWritten \/ AckFails \/ TaskAwaited("reader") \/ LocalClosed("reader")))

LiveSpec == Spec /\ Fairness

-----------------------------------------------------------------------------
(* Safety *)

\* A task that relays, or is about to, is in both dictionaries of the current
\* WSRelay under its own id, so that a close of the server and close_all reach
\* it; and the dictionaries hold no task that is over.  After a Ctrl+C the read
\* loop may go on beside close_all, whose step between the registration of a
\* relay and that of its task then parts the two.
Tracked ==
  ~ (phase \in {"leaving", "ended"} /\ interrupted) =>
    /\ \A r \in Relay : pc[r] \in Relaying /\ r \notin cancelled =>
         home[r] = sessions /\ relays[id[r]] = r /\ tasks[id[r]] = r
    /\ \A i \in Id : tasks[i] # None => pc[tasks[i]] \in Relaying /\ tasks[i] \notin cancelled

\* Once a session is over, each of its local connections is closed, or its task
\* is closing it; no task of it goes on.  Ctrl+C may leave one half closed.
NothingLeft ==
  \A r \in 1 .. opens : (home[r] < sessions \/ phase = "connecting") =>
    /\ pc[r] \in {"none", "closing", "done"}
    /\ sock[r] \in {"open", "gone"} => pc[r] = "closing" \/ interrupted

\* What the server hears under an id comes from the relay whose ack it read
\* last, on that same connection: frames of a relay never follow the ack of the
\* next relay with its id, nor go to a later connection.
OwnFrames ==
  [][ws' = ws => \A i \in Id : heard'[i] # heard[i] =>
       at["reader"] = "ack" /\ heard'[i] = arg["reader"]]_vars

\* What the browser of a relay sends goes to the local connection of that relay,
\* and to none once it has been closed.
FeedsOwn ==
  [][at'["reader"] = "feed" /\ at["reader"] # "feed" =>
       arg'["reader"] = Head(inbox).relay /\ sock[arg'["reader"]] # "closed"]_vars

\* A task that needs no one else to come to its end.
Ending(r) == pc[r] \in {"closing", "done"} \/ r \in cancelled

\* Whoever waits in WSRelay.close, the read loop, the finally block or both,
\* waits for a task that ends; and a session that is over is in its finally
\* block, which therefore goes on, whatever Ctrl+C did to it
\* (ws_relay.py:76-110, tunnel.py:168-172).
CloseNeverStuck ==
  /\ \A c \in Callers : at[c] = "task" => Ending(arg[c])
  /\ phase \in {"reconnecting", "leaving"} => at["main"] # "off"

-----------------------------------------------------------------------------
(* Liveness *)

\* When the local app leaves, the relay's connection is closed on this side too.
AppEndIsSeen ==
  \A r \in Relay : sock[r] = "gone" ~> (sock[r] = "closed" \/ phase = "ended" \/ interrupted)

\* The finally block comes to its end, whatever the relays are at.
SessionGoes ==
  /\ phase = "reconnecting" ~> phase # "reconnecting"
  /\ phase = "leaving" ~> phase = "ended"
===============================================================================
