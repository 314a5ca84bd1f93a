----------------------------- MODULE RequestStream -----------------------------
(***************************************************************************)
(* HTTP requests over the control connection: TunnelClient._read_loop      *)
(* reassembles the server's HEAD / BODY / END frames, starts one           *)
(* _handle_request task per request, and the tasks stream the local app's  *)
(* response back through send_bytes, which they share.                     *)
(*                                                                         *)
(* Tasks switch only where the code awaits, so an action runs from one     *)
(* await to the next.  Handlers are not children of the session: they      *)
(* survive its end, and send on whatever connection self.ws names by then. *)
(***************************************************************************)
EXTENDS ControlLink, Sequences, FiniteSets

CONSTANTS
  Req,            \* request ids; the server uses each for one request
  MaxConcurrent,  \* MAX_CONCURRENT_REQUESTS
  MinParts,       \* bound: HEAD and BODY frames of a request, at least ...
  MaxParts,       \*   ... and at most
  MaxChunks,      \* bound: body chunks of a response
  MaxInbox        \* bound: frames on their way from the server

ASSUME RequestAssumption ==
  /\ MaxConcurrent \in Nat \ {0}
  /\ MinParts \in Nat
  /\ MaxParts \in Nat \ {0}
  /\ MaxChunks \in Nat
  /\ MaxInbox \in Nat

VARIABLES
  upload,  \* [Req -> Seq(opcode)], what the server has sent of each request
  inbox,   \* the server's frames, in flight or buffered, oldest first
  pending, \* `pending' of the read loop: [Req -> Seq(part numbers)]; <<>> is no entry
  raw,     \* raw_request of the handler: the part numbers it was started with
  home,    \* the session whose read loop started the handler
  pc,      \* where the handler is, see Steps
  op,      \* opcode of the frame the handler is sending
  got,     \* chunks it has read from the local app
  conn,    \* its local connection, see ConnStates
  free,    \* _request_semaphore: its value ...
  semQ,    \*   ... and its waiters
  lockQ,   \* _send_lock: the owner, then the waiters
  wire     \* [session -> [Req -> Seq(frame)]], what was written to each connection

streamVars == <<upload, inbox, pending, raw, home>>
handlerVars == <<pc, op, got, conn, free, semQ, lockQ, wire>>
vars == <<linkVars, streamVars, handlerVars>>

RequestOps == {"HEAD", "BODY", "END"}
ResponseOps == {"HEAD", "BODY", "END", "ERROR"}

\* "idle"     not started
\* "sem"      waits for _request_semaphore
\* "request" .. "drained"  a job of EXECUTOR runs: HTTPProxy.request,
\*            response_head, the first read, a read, a read after an empty first
\* "lock"     waits for _send_lock
\* "writing"  owns the lock, its frame is written, ws.send drains
\* "refused"  owns the lock, ws.send waits to raise ConnectionClosed
\* "done", "dangling", "cancelled"  the task ended: normally, by an
\*            exception nobody awaits, by the end of asyncio.run
Calls == {"request", "head", "first", "read", "drained"}
Sending == {"lock", "writing", "refused"}
Finished == {"done", "dangling", "cancelled"}
Steps == {"idle", "sem"} \cup Calls \cup Sending \cup Finished

\* "orphaned": HTTPProxy.request goes on in its thread, its result is dropped.
ConnStates == {"none", "held", "pooled", "closed", "orphaned"}

Sessions == 1 .. MaxSessions
Parts == 1 .. MaxParts
ServerFrames == [req : Req, op : RequestOps, part : 1 .. MaxParts + 1]
ResponseFrames == [op : ResponseOps, n : 0 .. MaxChunks]

\* Handlers inside `async with self._request_semaphore'.
Admitted == {r \in Req : pc[r] \in Calls \cup Sending}

Init ==
  /\ LinkInit
  /\ upload = [r \in Req |-> <<>>]
  /\ inbox = <<>>
  /\ pending = [r \in Req |-> <<>>]
  /\ raw = [r \in Req |-> <<>>]
  /\ home = [r \in Req |-> NoSocket]
  /\ pc = [r \in Req |-> "idle"]
  /\ op = [r \in Req |-> "HEAD"]
  /\ got = [r \in Req |-> 0]
  /\ conn = [r \in Req |-> "none"]
  /\ free = MaxConcurrent
  /\ semQ = <<>>
  /\ lockQ = <<>>
  /\ wire = [s \in Sessions |-> [r \in Req |-> <<>>]]

-----------------------------------------------------------------------------
(* The tunnel server, and the connection. *)

Ended(r) == upload[r] # <<>> /\ upload[r][Len(upload[r])] = "END"

\* A request goes out part by part.  Nothing keeps the server from going on
\* with it on a later connection than the one that carried its HEAD.
ServerSends(r) ==
  /\ phase = "serving" /\ link = "up" /\ Len(inbox) < MaxInbox /\ ~ Ended(r)
  /\ \E o \in RequestOps :
       /\ (o = "HEAD") <=> (upload[r] = <<>>)
       /\ o = "BODY" => Len(upload[r]) < MaxParts
       /\ o = "END" => Len(upload[r]) >= MinParts
       /\ upload' = [upload EXCEPT ![r] = Append(@, o)]
       /\ inbox' = Append(inbox, [req |-> r, op |-> o, part |-> Len(upload[r]) + 1])
  /\ UNCHANGED <<linkVars, pending, raw, home, handlerVars>>

\* What was in flight is lost from some point on; what had arrived before the
\* end of the connection is still read.
LinkDrops ==
  /\ \E how \in {"lost", "closed"} : Drop(how)
  /\ \E k \in 0 .. Len(inbox) : inbox' = SubSeq(inbox, 1, k)
  /\ UNCHANGED <<upload, pending, raw, home, handlerVars>>

\* Mutant: `pending' is an attribute of the client and outlives the session.
SessionEnds_KeepsPending ==
  /\ \/ ReadLoopRaises /\ inbox = <<>>
     \/ ReadLoopReturns /\ inbox = <<>>
     \/ RelayRaises \/ Leave
  /\ inbox' = <<>>
  /\ UNCHANGED <<upload, pending, raw, home, handlerVars>>

\* `pending' is a local variable of the read loop, and so are the frames the
\* loop has not read; handlers in flight are left alone.
SessionEnds ==
  /\ \/ ReadLoopRaises /\ inbox = <<>>
     \/ ReadLoopReturns /\ inbox = <<>>
     \/ RelayRaises \/ Leave
  /\ inbox' = <<>>
  /\ pending' = [r \in Req |-> <<>>]
  /\ UNCHANGED <<upload, raw, home, handlerVars>>

\* A new connection is opened after a sleep of at least 3 s; by then what was
\* being sent is sent, or its sender was woken by the end of the old
\* connection, so that the lock is free.
SessionStarts ==
  /\ Connect /\ lockQ = <<>>
  /\ UNCHANGED <<streamVars, handlerVars>>

OtherLinkStep ==
  /\ Register \/ HandshakeAborts \/ GiveUp \/ Close \/ CloseInterrupted
  /\ UNCHANGED <<streamVars, handlerVars>>

-----------------------------------------------------------------------------
(* TunnelClient._handle_request_frame *)

\* FRAME_REQUEST_HEAD starts the request over.
RecvHead(f) ==
  /\ f.op = "HEAD"
  /\ pending' = [pending EXCEPT ![f.req] = <<f.part>>]
  /\ UNCHANGED <<raw, home, pc, semQ>>

\* FRAME_REQUEST_BODY without a HEAD is ignored.
RecvBody(f) ==
  /\ f.op = "BODY"
  /\ pending' = IF pending[f.req] = <<>> THEN pending
                ELSE [pending EXCEPT ![f.req] = Append(@, f.part)]
  /\ UNCHANGED <<raw, home, pc, semQ>>

\* FRAME_REQUEST_END pops the entry and creates the task, whose first await
\* is the semaphore; without an entry it is ignored.
RecvEnd(f) ==
  /\ f.op = "END"
  /\ pending' = [pending EXCEPT ![f.req] = <<>>]
  /\ IF pending[f.req] = <<>> THEN UNCHANGED <<raw, home, pc, semQ>>
     ELSE /\ raw' = [raw EXCEPT ![f.req] = pending[f.req]]
          /\ home' = [home EXCEPT ![f.req] = ws]
          /\ pc' = [pc EXCEPT ![f.req] = "sem"]
          /\ semQ' = Append(semQ, f.req)

ReadLoop ==
  /\ phase = "serving" /\ inbox # <<>>
  /\ inbox' = Tail(inbox)
  /\ LET f == Head(inbox) IN RecvHead(f) \/ RecvBody(f) \/ RecvEnd(f)
  /\ UNCHANGED <<linkVars, upload, op, got, conn, free, lockQ, wire>>

-----------------------------------------------------------------------------
(* TunnelClient.send_bytes *)

\* What the handler does once its frame is sent, or dropped.
Continue(r, o) ==
  CASE o = "HEAD" -> pc' = [pc EXCEPT ![r] = "first"] /\ UNCHANGED free
    [] o = "BODY" -> pc' = [pc EXCEPT ![r] = "read"] /\ UNCHANGED free
    [] OTHER      -> pc' = [pc EXCEPT ![r] = "done"] /\ free' = free + 1

\* `await self.ws.send(data)' by the owner of the lock: an open connection
\* takes the frame at once, then the call waits for the buffer to drain.
Transmit(r, o) ==
  IF link = "up"
  THEN /\ pc' = [pc EXCEPT ![r] = "writing"]
       /\ wire' = [wire EXCEPT ![ws][r] = Append(@, [op |-> o, n |-> got'[r]])]
  ELSE /\ pc' = [pc EXCEPT ![r] = "refused"]
       /\ UNCHANGED wire

\* Without a connection the frame is dropped and the handler goes on.  The
\* test of self.ws comes before the wait for the lock, whose queue is `q'.
SendBytes(r, o, q) ==
  IF ws = NoSocket
  THEN Continue(r, o) /\ lockQ' = q /\ UNCHANGED <<op, wire>>
  ELSE /\ lockQ' = Append(q, r)
       /\ op' = [op EXCEPT ![r] = o]
       /\ UNCHANGED free
       /\ IF q = <<>> THEN Transmit(r, o)
          ELSE pc' = [pc EXCEPT ![r] = "lock"] /\ UNCHANGED wire

SetConn(r, state) == conn' = [conn EXCEPT ![r] = state]

\* HTTPProxy.release(reusable=True) follows the END frame.
ConnAfter(r, o) == IF o = "END" THEN SetConn(r, "pooled") ELSE UNCHANGED conn

\* Mutants: a failed ERROR frame frees the slot twice, not at all, or leaves
\* the lock taken.
SendRaises_FreesTwice(r, closed) ==
  IF op[r] = "ERROR"
  THEN /\ pc' = [pc EXCEPT ![r] = IF closed THEN "done" ELSE "dangling"]
       /\ free' = free + 2 /\ lockQ' = Tail(lockQ)
       /\ UNCHANGED <<conn, op, wire>>
  ELSE SetConn(r, "closed") /\ SendBytes(r, "ERROR", Tail(lockQ))

SendRaises_KeepsSlot(r, closed) ==
  IF op[r] = "ERROR"
  THEN /\ pc' = [pc EXCEPT ![r] = IF closed THEN "done" ELSE "dangling"]
       /\ lockQ' = Tail(lockQ)
       /\ UNCHANGED <<conn, op, wire, free>>
  ELSE SetConn(r, "closed") /\ SendBytes(r, "ERROR", Tail(lockQ))

SendRaises_KeepsLock(r, closed) ==
  IF op[r] = "ERROR"
  THEN /\ pc' = [pc EXCEPT ![r] = IF closed THEN "done" ELSE "dangling"]
       /\ free' = free + 1
       /\ UNCHANGED <<conn, op, wire, lockQ>>
  ELSE SetConn(r, "closed") /\ SendBytes(r, "ERROR", Tail(lockQ))

\* Mutant: a head that could not be sent is left for the next connection.
SendRaises_StartsOver(r, closed) ==
  IF op[r] = "HEAD"
  THEN /\ pc' = [pc EXCEPT ![r] = "head"]
       /\ lockQ' = Tail(lockQ)
       /\ UNCHANGED <<conn, op, wire, free>>
  ELSE IF op[r] = "ERROR"
  THEN /\ pc' = [pc EXCEPT ![r] = IF closed THEN "done" ELSE "dangling"]
       /\ free' = free + 1 /\ lockQ' = Tail(lockQ)
       /\ UNCHANGED <<conn, op, wire>>
  ELSE SetConn(r, "closed") /\ SendBytes(r, "ERROR", Tail(lockQ))

\* send_bytes raised.  Before the ERROR frame, any exception releases the
\* connection and is reported as one; on the ERROR frame itself only
\* ConnectionClosed is caught.
SendRaises(r, closed) ==
  IF op[r] = "ERROR"
  THEN /\ pc' = [pc EXCEPT ![r] = IF closed THEN "done" ELSE "dangling"]
       /\ free' = free + 1 /\ lockQ' = Tail(lockQ)
       /\ UNCHANGED <<conn, op, wire>>
  ELSE SetConn(r, "closed") /\ SendBytes(r, "ERROR", Tail(lockQ))

-----------------------------------------------------------------------------
(* TunnelClient._handle_request *)

\* Mutant: no semaphore.
Admit_Unbounded(r) ==
  /\ pc[r] = "sem"
  /\ semQ' = SelectSeq(semQ, LAMBDA q : q # r)
  /\ pc' = [pc EXCEPT ![r] = "request"]
  /\ UNCHANGED <<linkVars, streamVars, op, got, conn, free, lockQ, wire>>

\* The semaphore wakes its first waiter; the handler submits the request.
Admit(r) ==
  /\ pc[r] = "sem" /\ Head(semQ) = r /\ free > 0
  /\ semQ' = Tail(semQ)
  /\ free' = free - 1
  /\ pc' = [pc EXCEPT ![r] = "request"]
  /\ UNCHANGED <<linkVars, streamVars, op, got, conn, lockQ, wire>>

\* HTTPProxy.request returns (resp, conn), or raises.
RequestDone(r) ==
  /\ pc[r] = "request"
  /\ \/ /\ SetConn(r, "held")
        /\ pc' = [pc EXCEPT ![r] = "head"]
        /\ UNCHANGED <<op, free, lockQ, got, wire>>
     \/ UNCHANGED <<got, conn>> /\ SendBytes(r, "ERROR", lockQ)
  /\ UNCHANGED <<linkVars, streamVars, semQ>>

\* Mutant: the END frame is sent however the reads went.
CallRaises_SendsEnd(r) ==
  /\ pc[r] \in {"head", "first", "read"}
  /\ UNCHANGED got /\ SetConn(r, "closed") /\ SendBytes(r, "END", lockQ)
  /\ UNCHANGED <<linkVars, streamVars, semQ>>

\* A job on the response raises: OSError, HTTPException, a header that does
\* not encode.
CallRaises(r) ==
  /\ pc[r] \in {"head", "first", "read"}
  /\ UNCHANGED got /\ SetConn(r, "closed") /\ SendBytes(r, "ERROR", lockQ)
  /\ UNCHANGED <<linkVars, streamVars, semQ>>

HeadDone(r) ==
  /\ pc[r] = "head"
  /\ UNCHANGED <<got, conn>> /\ SendBytes(r, "HEAD", lockQ)
  /\ UNCHANGED <<linkVars, streamVars, semQ>>

\* resp.read returns the next chunk.
ReadChunk(r) ==
  /\ pc[r] \in {"first", "read"} /\ got[r] < MaxChunks
  /\ got' = [got EXCEPT ![r] = @ + 1]
  /\ UNCHANGED conn /\ SendBytes(r, "BODY", lockQ)
  /\ UNCHANGED <<linkVars, streamVars, semQ>>

\* An empty first read sends nothing and is followed by another empty one.
FirstEmpty(r) ==
  /\ pc[r] = "first"
  /\ pc' = [pc EXCEPT ![r] = "drained"]
  /\ UNCHANGED <<linkVars, streamVars, op, got, conn, free, semQ, lockQ, wire>>

\* An empty read ends the loop: END frame, and the connection to the pool
\* once it is sent.
ReadEmpty(r) ==
  /\ pc[r] \in {"read", "drained"}
  /\ UNCHANGED got /\ SendBytes(r, "END", lockQ)
  /\ IF ws = NoSocket THEN ConnAfter(r, "END") ELSE UNCHANGED conn
  /\ UNCHANGED <<linkVars, streamVars, semQ>>

\* The first waiter of the lock wakes up as its owner.  self.ws may have
\* become None since it was tested: None.send is an AttributeError.
LockGranted(r) ==
  /\ pc[r] = "lock" /\ Head(lockQ) = r
  /\ UNCHANGED got
  /\ IF ws = NoSocket THEN SendRaises(r, FALSE)
     ELSE Transmit(r, op[r]) /\ UNCHANGED <<lockQ, op, conn, free>>
  /\ UNCHANGED <<linkVars, streamVars, semQ>>

\* ws.send returns: the buffer has drained.
SendDone(r) ==
  /\ pc[r] = "writing"
  /\ lockQ' = Tail(lockQ)
  /\ Continue(r, op[r]) /\ ConnAfter(r, op[r])
  /\ UNCHANGED <<linkVars, streamVars, op, got, semQ, wire>>

\* ws.send raises ConnectionClosed: at the end of the connection it was
\* refused by, or that ended while it drained.
SendClosed(r) ==
  /\ \/ pc[r] = "refused"
     \/ pc[r] = "writing" /\ (ws = NoSocket \/ link # "up")
  /\ UNCHANGED got /\ SendRaises(r, TRUE)
  /\ UNCHANGED <<linkVars, streamVars, semQ>>

\* Mutant: no `except asyncio.CancelledError' around the streaming part.
CancelAll_KeepsConn ==
  /\ phase = "ended"
  /\ \E r \in Req : pc[r] \notin {"idle"} \cup Finished
  /\ pc' = [r \in Req |-> IF pc[r] \in {"idle"} \cup Finished THEN pc[r] ELSE "cancelled"]
  /\ free' = free + Cardinality(Admitted)
  /\ semQ' = <<>> /\ lockQ' = <<>>
  /\ UNCHANGED <<linkVars, streamVars, op, got, conn, wire>>

\* The end of asyncio.run cancels every task that is left: the next step of
\* each is the CancelledError, which leaves through both `async with' blocks
\* and, once there is a response, through release(reusable=False).
CancelAll ==
  /\ phase = "ended"
  /\ \E r \in Req : pc[r] \notin {"idle"} \cup Finished
  /\ pc' = [r \in Req |-> IF pc[r] \in {"idle"} \cup Finished THEN pc[r] ELSE "cancelled"]
  /\ conn' = [r \in Req |-> IF conn[r] = "held" THEN "closed"
                            ELSE IF pc[r] = "request" THEN "orphaned" ELSE conn[r]]
  /\ free' = free + Cardinality(Admitted)
  /\ semQ' = <<>> /\ lockQ' = <<>>
  /\ UNCHANGED <<linkVars, streamVars, op, got, wire>>

\* The steps of the handler itself, an answer of the local app included.
HandlerStep(r) ==
  \/ Admit(r) \/ RequestDone(r) \/ CallRaises(r) \/ HeadDone(r) \/ ReadChunk(r)
  \/ FirstEmpty(r) \/ ReadEmpty(r) \/ LockGranted(r) \/ SendDone(r) \/ SendClosed(r)

Next ==
  \/ \E r \in Req : ServerSends(r) \/ HandlerStep(r)
  \/ LinkDrops \/ SessionStarts \/ SessionEnds \/ OtherLinkStep
  \/ ReadLoop \/ CancelAll

\* The event loop runs a task that can run, the jobs of EXECUTOR end (the local
\* connection has a timeout), and a connection drains or ends.  Of the read loop
\* nothing is assumed: a local WebSocket that takes no data may block it for ever.
Fairness ==
  /\ \A r \in Req : WF_vars(HandlerStep(r))
  /\ WF_vars(CancelAll)

Spec == Init /\ [][Next]_vars
FairSpec == Spec /\ Fairness
-----------------------------------------------------------------------------
(* Properties *)

\* Every variable keeps its type: in particular the semaphore's value stays
\* between 0 and MAX_CONCURRENT_REQUESTS (async with, tunnel.py:247).
TypeOK ==
  /\ LinkTypeOK
  /\ upload \in [Req -> Seq(RequestOps)]
  /\ inbox \in Seq(ServerFrames)
  /\ pending \in [Req -> Seq(Parts)]
  /\ raw \in [Req -> Seq(Parts)]
  /\ home \in [Req -> 0 .. MaxSessions]
  /\ pc \in [Req -> Steps]
  /\ op \in [Req -> ResponseOps]
  /\ got \in [Req -> 0 .. MaxChunks]
  /\ conn \in [Req -> ConnStates]
  /\ free \in 0 .. MaxConcurrent
  /\ semQ \in Seq(Req)
  /\ lockQ \in Seq(Req)
  /\ wire \in [Sessions -> [Req -> Seq(ResponseFrames)]]

\* A handler is only ever started with the whole request: all parts the server
\* sent, in order, although connections are lost in the middle of a request
\* and the server goes on with it on the next one (tunnel.py:203, 230-241).
RequestWhole ==
  \A r \in Req : pc[r] # "idle" =>
    /\ Ended(r)
    /\ raw[r] = [i \in 1 .. Len(upload[r]) - 1 |-> i]

\* What was written for the request to the connection it came from.
Reply(r) == IF home[r] = NoSocket THEN <<>> ELSE wire[home[r]][r]

InOrder(s) ==
  \A i \in DOMAIN s :
    /\ s[i].op = "HEAD" => i = 1
    /\ s[i].op = "BODY" => i > 1 /\ s[i].n = i - 1
    /\ s[i].op = "END" => i > 1 /\ i = Len(s) /\ s[i].n = i - 2
    /\ s[i].op = "ERROR" => i = Len(s)

\* Frame f of a reply comes before frame g.
Precedes(f, g) ==
  \/ f.op = "HEAD" /\ g.op # "HEAD"
  \/ f.op = "BODY" /\ ((g.op = "BODY" /\ f.n < g.n) \/ g.op \in {"END", "ERROR"})
  \/ f.op = "END" /\ g.op = "ERROR"

\* Over all connections that a handler lives to see, and whatever is lost,
\* dropped or refused on the way, it writes no frame of its reply twice and none
\* out of its turn; and none to a connection older than its request
\* (tunnel.py:174-182, 265-292).
WrittenOnce ==
  \A r \in Req, s, t \in Sessions : \A i \in DOMAIN wire[s][r] :
    /\ home[r] # NoSocket /\ home[r] <= s
    /\ \A k \in DOMAIN wire[t][r] :
         s < t \/ (s = t /\ i < k) => Precedes(wire[s][r][i], wire[t][r][k])

\* On the connection a request came from, the head is first, the chunks follow
\* in the order they were read, END comes only after all of them, and nothing
\* comes after END or ERROR (tunnel.py:265-292), whichever sends were dropped,
\* refused or failed half way; and what goes to later connections is new.
ReplyInOrder == (\A r \in Req : InOrder(Reply(r))) /\ WrittenOnce

\* The semaphore's value and the handlers inside its block account for every
\* slot: no path out of the block, error or cancellation, loses or adds one
\* (tunnel.py:247-292).
SlotsAccounted == free + Cardinality(Admitted) = MaxConcurrent

InQueue(q, r) == \E i \in DOMAIN q : q[i] = r

\* A connection a handler was given it does not hold when it is over, and it is in
\* neither queue then; a handler that waits is in its queue.
Tidy ==
  \A r \in Req :
    /\ pc[r] \in Finished => conn[r] # "held"
    /\ InQueue(lockQ, r) <=> pc[r] \in Sending
    /\ InQueue(semQ, r) <=> pc[r] = "sem"

\* A connection that a handler was never given, because it was cancelled while
\* HTTPProxy.request ran in its thread.
OrphansLast ==
  \A r \in Req : conn[r] = "orphaned" => pc[r] = "cancelled" /\ phase = "ended"

\* A handler that is over keeps neither a connection nor a place in a queue: what
\* HTTPProxy.request returned is pooled or closed, whether the handler ended by a
\* reply, an error, a refused send or a cancellation.  Not so if it is cancelled
\* inside HTTPProxy.request: nobody gets the response, and nobody releases its
\* connection.  That is the only way to lose one, and it is only met at the end of
\* asyncio.run (tunnel.py:176-182, 247-253, 281-286).
NothingKept == Tidy /\ OrphansLast

\* Whoever is inside ws.send is the owner of the lock, so no two handlers are
\* (tunnel.py:179-182).
OneSender ==
  \A r \in Req : pc[r] \in {"writing", "refused"} => lockQ # <<>> /\ Head(lockQ) = r

\* A handler that can go on: its job in EXECUTOR ends, its connection drains or
\* ends, or it is the first of a queue that it may leave.
CanGoOn(r) ==
  \/ pc[r] \in Calls \cup {"writing", "refused"}
  \/ pc[r] = "lock" /\ Head(lockQ) = r
  \/ pc[r] = "sem" /\ Head(semQ) = r /\ free > 0

\* Handlers never wait for each other in a circle, nor for a slot or a lock that
\* no one has: whatever a handler waits for, someone can go on
\* (tunnel.py:176-182, 247).
NeverStuck ==
  (\E r \in Req : pc[r] \notin {"idle"} \cup Finished) => \E r \in Req : CanGoOn(r)

\* Every request whose handler was started is finished with, through lost
\* connections, a queue for the lock and for the semaphore (tunnel.py:243-292).
EveryRequestFinishes == \A r \in Req : pc[r] = "sem" ~> pc[r] \in Finished

\* The tasks implement the exchange the server sees, with Reply(r) for the reply.
StateOf(step) ==
  CASE step = "idle" -> "none"
    [] step = "sem" -> "waiting"
    [] step \in Finished -> "over"
    [] OTHER -> "open"

States == [r \in Req |-> StateOf(pc[r])]
Replies == [r \in Req |-> Reply(r)]

Exchange == INSTANCE HttpExchange WITH state <- States, reply <- Replies

\* What the code of lines 223-292 does is what HttpExchange promises.
ImplementsExchange == Exchange!Spec

\* "Local app failure must surface as a 502, never as a dangling task
\* exception" (tunnel.py:255-256).
NoDanglingTask == \A r \in Req : pc[r] # "dangling"

\* "Head goes first so the browser gets status+headers as soon as the tunnel
\* round trip completes; the body streams behind it" (tunnel.py:267-268): on
\* every connection, a reply starts with its head, or is an error.
HeadFirst ==
  \A s \in Sessions, r \in Req :
    wire[s][r] # <<>> => wire[s][r][1].op \in {"HEAD", "ERROR"}
===============================================================================
