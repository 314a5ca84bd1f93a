------------------------------- MODULE HttpPool --------------------------------
(***************************************************************************)
(* HTTPProxy: the keep-alive pools of connections to the local apps.       *)
(* HTTPProxy.request runs in the threads of EXECUTOR, release on the event *)
(* loop, close_pools on the main thread once the loop is gone; they share  *)
(* the deques without a lock.  An action of a thread is what one operation *)
(* on shared state does, so that threads switch between any two of them.   *)
(***************************************************************************)
EXTENDS Naturals, Sequences

CONSTANTS
  Job,        \* requests handed to EXECUTOR
  Port,       \* ports of the local apps
  Conn,       \* bound: the HTTPConnection objects that are ever made
  PoolLimit,  \* _POOL_LIMIT
  PoolTTL,    \* _POOL_TTL_SECONDS
  MaxTime,    \* bound on time.monotonic()
  NoConn

ASSUME PoolAssumption ==
  /\ PoolLimit \in Nat /\ PoolTTL \in Nat /\ MaxTime \in Nat
  /\ NoConn \notin Conn

VARIABLES
  clock,   \* time.monotonic()
  known,   \* the keys of _pools
  pools,   \* the deques: [Port -> Seq([conn, at])]; <<>> for a port not known
  pc,      \* where the job is, see JobSteps
  port,    \* its port
  now,     \* `now' in _get_conn
  held,    \* the connection it works with, or was the last one to have
  reused,  \* the jobs with from_pool
  runs,    \* how many times the local app has carried the request out
  sock,    \* of each connection, see SockStates
  gone,    \* the connections the local app has closed on its side
  closer,  \* where close_pools is, see CloserSteps
  todo,    \* ports its iteration has not reached
  current, \* the port it is at
  keys     \* the keys of the dict when the iteration began

jobVars == <<pc, port, now, held, reused, runs>>
closeVars == <<closer, todo, current, keys>>
vars == <<clock, known, pools, jobVars, sock, gone, closeVars>>

\* "called"    submitted to EXECUTOR by the handler
\* "check"     at `while pool'
\* "pop"       the deque was not empty, popleft is next
\* "send"      in _send, "retry" in the second _send
\* "streaming" request has returned, the handler reads the response
\* "done"      released
\* "failed"    request raised HTTPException or OSError
\* "index"     request raised IndexError: popleft on an empty deque
\* "unencoded" request raised an exception it does not catch, see Unencodable
\* "orphaned"  request returned after the handler was cancelled
JobSteps == {"idle", "called", "check", "pop", "send", "retry", "streaming",
             "done", "failed", "index", "unencoded", "orphaned"}

\* Nobody has the connection of the job any more, and nobody has closed it.
Forgotten == {"unencoded", "orphaned"}

\* sock is None in "unused" (no such object yet), "fresh" and "closed".
SockStates == {"unused", "fresh", "open", "closed"}

CloserSteps == {"off", "next", "check", "pop", "done", "raised"}

Entries == [conn : Conn, at : 0 .. MaxTime]

Init ==
  /\ clock = 0
  /\ known = {}
  /\ pools = [p \in Port |-> <<>>]
  /\ pc = [j \in Job |-> "idle"]
  /\ port \in [Job -> Port]
  /\ now = [j \in Job |-> 0]
  /\ held = [j \in Job |-> NoConn]
  /\ reused = {}
  /\ runs = [j \in Job |-> 0]
  /\ sock = [c \in Conn |-> "unused"]
  /\ gone = {}
  /\ closer = "off"
  /\ todo = {}
  /\ current \in Port
  /\ keys = {}

Goto(j, step) == pc' = [pc EXCEPT ![j] = step]

-----------------------------------------------------------------------------
(* Outside the proxy: time, the local apps, the handler that submits. *)

Tick ==
  /\ clock < MaxTime
  /\ clock' = clock + 1
  /\ UNCHANGED <<known, pools, jobVars, sock, gone, closeVars>>

\* The local app closes a connection: its keep-alive timeout, or its exit.
AppCloses(c) ==
  /\ sock[c] = "open" /\ c \notin gone
  /\ gone' = gone \cup {c}
  /\ UNCHANGED <<clock, known, pools, jobVars, sock, closeVars>>

Submit(j) ==
  /\ pc[j] = "idle" /\ closer = "off"
  /\ Goto(j, "called")
  /\ UNCHANGED <<clock, known, pools, port, now, held, reused, runs, sock, gone, closeVars>>

-----------------------------------------------------------------------------
(* HTTPProxy._get_conn, in a thread of EXECUTOR *)

\* setdefault, and the one reading of the clock.
Begin(j) ==
  /\ pc[j] = "called"
  /\ known' = known \cup {port[j]}
  /\ now' = [now EXCEPT ![j] = clock]
  /\ Goto(j, "check")
  /\ UNCHANGED <<clock, pools, port, held, reused, runs, sock, gone, closeVars>>

\* `while pool' is true.
FindSome(j) ==
  /\ pc[j] = "check" /\ pools[port[j]] # <<>>
  /\ Goto(j, "pop")
  /\ UNCHANGED <<clock, known, pools, port, now, held, reused, runs, sock, gone, closeVars>>

\* The deque is empty: _new_conn.
FindNone(j) ==
  /\ pc[j] = "check" /\ pools[port[j]] = <<>>
  /\ \E c \in Conn :
       /\ sock[c] = "unused"
       /\ sock' = [sock EXCEPT ![c] = "fresh"]
       /\ held' = [held EXCEPT ![j] = c]
  /\ Goto(j, "send")
  /\ UNCHANGED <<clock, known, pools, port, now, reused, runs, gone, closeVars>>

Usable(j, e) == now[j] <= e.at + PoolTTL /\ sock[e.conn] = "open"

\* Mutant: the entry is looked at and left in the deque.
PopFresh_Peeks(j) ==
  /\ pc[j] = "pop" /\ pools[port[j]] # <<>>
  /\ LET e == Head(pools[port[j]])
     IN  /\ Usable(j, e)
         /\ held' = [held EXCEPT ![j] = e.conn]
  /\ reused' = reused \cup {j}
  /\ Goto(j, "send")
  /\ UNCHANGED <<clock, known, pools, port, now, runs, sock, gone, closeVars>>

PopFresh(j) ==
  /\ pc[j] = "pop" /\ pools[port[j]] # <<>>
  /\ LET e == Head(pools[port[j]])
     IN  /\ Usable(j, e)
         /\ held' = [held EXCEPT ![j] = e.conn]
  /\ pools' = [pools EXCEPT ![port[j]] = Tail(@)]
  /\ reused' = reused \cup {j}
  /\ Goto(j, "send")
  /\ UNCHANGED <<clock, known, port, now, runs, sock, gone, closeVars>>

\* A connection past its time is closed, and the loop goes on.
PopStale(j) ==
  /\ pc[j] = "pop" /\ pools[port[j]] # <<>>
  /\ LET e == Head(pools[port[j]])
     IN  /\ ~ Usable(j, e)
         /\ sock' = [sock EXCEPT ![e.conn] = "closed"]
  /\ pools' = [pools EXCEPT ![port[j]] = Tail(@)]
  /\ Goto(j, "check")
  /\ UNCHANGED <<clock, known, port, now, held, reused, runs, gone, closeVars>>

\* Another thread has taken the last entry since the test: IndexError.
PopEmpty(j) ==
  /\ pc[j] = "pop" /\ pools[port[j]] = <<>>
  /\ Goto(j, "index")
  /\ UNCHANGED <<clock, known, pools, port, now, held, reused, runs, sock, gone, closeVars>>

-----------------------------------------------------------------------------
(* HTTPProxy.request, after _get_conn *)

\* The local app answers; without a handler to take it, the result is dropped.
Respond(j) ==
  /\ pc[j] \in {"send", "retry"} /\ held[j] \notin gone
  /\ sock' = [sock EXCEPT ![held[j]] = "open"]
  /\ runs' = [runs EXCEPT ![j] = @ + 1]
  /\ Goto(j, IF closer = "off" THEN "streaming" ELSE "orphaned")
  /\ UNCHANGED <<clock, known, pools, port, now, held, reused, gone, closeVars>>

\* The local app has, or has not, carried the request out when the error of a
\* _send comes; on a connection that it had closed it has not.
Attempted(j) ==
  \/ UNCHANGED runs
  \/ held[j] \notin gone /\ runs' = [runs EXCEPT ![j] = @ + 1]

\* Mutants: a fresh connection is retried too; the retry is not the last one.
Retry_Fresh(j) ==
  /\ pc[j] = "send"
  /\ \E c \in Conn :
       /\ sock[c] = "unused"
       /\ sock' = [sock EXCEPT ![held[j]] = "closed", ![c] = "fresh"]
       /\ held' = [held EXCEPT ![j] = c]
  /\ Attempted(j)
  /\ Goto(j, "retry")
  /\ UNCHANGED <<clock, known, pools, port, now, reused, gone, closeVars>>

Retry_Again(j) ==
  /\ pc[j] \in {"send", "retry"} /\ j \in reused
  /\ \E c \in Conn :
       /\ sock[c] = "unused"
       /\ sock' = [sock EXCEPT ![held[j]] = "closed", ![c] = "fresh"]
       /\ held' = [held EXCEPT ![j] = c]
  /\ Attempted(j)
  /\ Goto(j, "retry")
  /\ UNCHANGED <<clock, known, pools, port, now, reused, gone, closeVars>>

\* _is_stale_error, on a pooled connection: once more on a fresh one.
Retry(j) ==
  /\ pc[j] = "send" /\ j \in reused
  /\ \E c \in Conn :
       /\ sock[c] = "unused"
       /\ sock' = [sock EXCEPT ![held[j]] = "closed", ![c] = "fresh"]
       /\ held' = [held EXCEPT ![j] = c]
  /\ Attempted(j)
  /\ Goto(j, "retry")
  /\ UNCHANGED <<clock, known, pools, port, now, reused, gone, closeVars>>

\* Mutant: no close() before the exception is raised again.
Fail_KeepsSocket(j) ==
  /\ pc[j] \in {"send", "retry"}
  /\ held' = [held EXCEPT ![j] = NoConn]
  /\ Attempted(j)
  /\ Goto(j, "failed")
  /\ UNCHANGED <<clock, known, pools, port, now, reused, sock, gone, closeVars>>

\* HTTPException or OSError: connection refused, an error that is not stale,
\* any error of a fresh connection.  It is closed and the exception goes to the
\* handler.
Fail(j) ==
  /\ pc[j] \in {"send", "retry"}
  /\ sock' = [sock EXCEPT ![held[j]] = "closed"]
  /\ held' = [held EXCEPT ![j] = NoConn]
  /\ Attempted(j)
  /\ Goto(j, "failed")
  /\ UNCHANGED <<clock, known, pools, port, now, reused, gone, closeVars>>

\* conn.request cannot encode the path or a header and raises ValueError, which
\* request does not catch: nothing has been sent, and the pooled connection
\* stays open.  (A fresh one has no socket yet: there this is Fail.)
Unencodable(j) ==
  /\ pc[j] = "send" /\ j \in reused
  /\ Goto(j, "unencoded")
  /\ UNCHANGED <<clock, known, pools, port, now, held, reused, runs, sock, gone, closeVars>>

-----------------------------------------------------------------------------
(* HTTPProxy.release, on the event loop *)

\* Mutant: no limit.
ReleaseToPool_NoLimit(j) ==
  /\ pc[j] = "streaming" /\ closer = "off"
  /\ pools' = [pools EXCEPT ![port[j]] = Append(@, [conn |-> held[j], at |-> clock])]
  /\ known' = known \cup {port[j]}
  /\ held' = [held EXCEPT ![j] = NoConn]
  /\ Goto(j, "done")
  /\ UNCHANGED <<clock, port, now, reused, runs, sock, gone, closeVars>>

\* reusable, and the response does not close its connection.
ReleaseToPool(j) ==
  /\ pc[j] = "streaming" /\ closer = "off"
  /\ Len(pools[port[j]]) < PoolLimit
  /\ pools' = [pools EXCEPT ![port[j]] = Append(@, [conn |-> held[j], at |-> clock])]
  /\ known' = known \cup {port[j]}
  /\ held' = [held EXCEPT ![j] = NoConn]
  /\ Goto(j, "done")
  /\ UNCHANGED <<clock, port, now, reused, runs, sock, gone, closeVars>>

\* will_close, a full pool, or an error while the response was streamed.
ReleaseAndClose(j) ==
  /\ pc[j] = "streaming" /\ closer = "off"
  /\ sock' = [sock EXCEPT ![held[j]] = "closed"]
  /\ held' = [held EXCEPT ![j] = NoConn]
  /\ Goto(j, "done")
  /\ UNCHANGED <<clock, known, pools, port, now, reused, runs, gone, closeVars>>

-----------------------------------------------------------------------------
(* TunnelClient.stop: close_pools, on the main thread *)

\* asyncio.run has ended: the streaming handlers were cancelled and released
\* their connections, the jobs of the others run on.
Stop ==
  /\ closer = "off"
  /\ LET streaming == {j \in Job : pc[j] = "streaming"}
     IN  /\ pc' = [j \in Job |-> IF j \in streaming THEN "done" ELSE pc[j]]
         /\ held' = [j \in Job |-> IF j \in streaming THEN NoConn ELSE held[j]]
         /\ sock' = [c \in Conn |-> IF \E j \in streaming : held[j] = c
                                    THEN "closed" ELSE sock[c]]
  /\ closer' = "next"
  /\ todo' = known
  /\ keys' = known
  /\ UNCHANGED <<clock, known, pools, port, now, reused, runs, gone, current>>

\* The next key of the dict, which only grows; RuntimeError if it has grown.
CloserNext ==
  /\ closer = "next"
  /\ \/ /\ known # keys
        /\ closer' = "raised"
        /\ UNCHANGED <<todo, current, known>>
     \/ /\ known = keys
        /\ \E p \in todo : current' = p /\ todo' = todo \ {p}
        /\ closer' = "check"
        /\ UNCHANGED known
     \/ /\ known = keys /\ todo = {}
        /\ known' = {}
        /\ closer' = "done"
        /\ UNCHANGED <<todo, current>>
  /\ UNCHANGED <<clock, pools, jobVars, sock, gone, keys>>

CloserCheck ==
  /\ closer = "check"
  /\ closer' = IF pools[current] = <<>> THEN "next" ELSE "pop"
  /\ UNCHANGED <<clock, known, pools, jobVars, sock, gone, todo, current, keys>>

\* Mutant: one entry of each deque.
CloserPop_One ==
  /\ closer = "pop"
  /\ IF pools[current] = <<>>
     THEN closer' = "raised" /\ UNCHANGED <<pools, sock>>
     ELSE /\ sock' = [sock EXCEPT ![Head(pools[current]).conn] = "closed"]
          /\ pools' = [pools EXCEPT ![current] = Tail(@)]
          /\ closer' = "next"
  /\ UNCHANGED <<clock, known, jobVars, gone, todo, current, keys>>

\* popleft of the deque that was not empty, close; IndexError if a thread of
\* EXECUTOR has emptied it in between.
CloserPop ==
  /\ closer = "pop"
  /\ IF pools[current] = <<>>
     THEN closer' = "raised" /\ UNCHANGED <<pools, sock>>
     ELSE /\ sock' = [sock EXCEPT ![Head(pools[current]).conn] = "closed"]
          /\ pools' = [pools EXCEPT ![current] = Tail(@)]
          /\ closer' = "check"
  /\ UNCHANGED <<clock, known, jobVars, gone, todo, current, keys>>

ThreadStep(j) ==
  \/ Begin(j) \/ FindSome(j) \/ FindNone(j) \/ PopFresh(j) \/ PopStale(j) \/ PopEmpty(j)
  \/ Respond(j) \/ Retry(j) \/ Fail(j) \/ Unencodable(j)

Next ==
  \/ Tick
  \/ \E c \in Conn : AppCloses(c)
  \/ \E j \in Job : Submit(j) \/ ThreadStep(j) \/ ReleaseToPool(j) \/ ReleaseAndClose(j)
  \/ Stop \/ CloserNext \/ CloserCheck \/ CloserPop

Spec == Init /\ [][Next]_vars

-----------------------------------------------------------------------------
(* Properties *)

\* Every variable keeps its type: in particular a request is carried out at
\* most twice, as there is one retry (http_proxy.py:105-109).
TypeOK ==
  /\ clock \in 0 .. MaxTime
  /\ known \subseteq Port
  /\ pools \in [Port -> Seq(Entries)]
  /\ pc \in [Job -> JobSteps]
  /\ port \in [Job -> Port]
  /\ now \in [Job -> 0 .. MaxTime]
  /\ held \in [Job -> Conn \cup {NoConn}]
  /\ reused \subseteq Job
  /\ runs \in [Job -> 0 .. 2]
  /\ sock \in [Conn -> SockStates]
  /\ gone \subseteq Conn
  /\ closer \in CloserSteps
  /\ todo \subseteq Port
  /\ current \in Port
  /\ keys \subseteq Port

HeldOnce == \A j, k \in Job : held[j] = held[k] /\ held[j] # NoConn => j = k

PooledOnce ==
  \A p, q \in Port : \A i \in DOMAIN pools[p], k \in DOMAIN pools[q] :
    pools[p][i].conn = pools[q][k].conn => p = q /\ i = k

PooledNotHeld ==
  \A j \in Job, p \in Port : \A i \in DOMAIN pools[p] : pools[p][i].conn # held[j]

\* A connection is in one place: two requests never write to the same one, it
\* is not in the pools twice, and not in a pool while a request uses it
\* (http_proxy.py:133-139, 163-171).
Exclusive == HeldOnce /\ PooledOnce /\ PooledNotHeld

\* However many responses end together, a pool keeps at most _POOL_LIMIT
\* connections, while threads take some out (http_proxy.py:136-137).
PoolBounded == \A p \in Port : Len(pools[p]) <= PoolLimit

\* The open sockets that nobody can close any more are those of the responses
\* that come after the handlers are gone, and those of the pooled connections
\* whose request could not be encoded.  Any other open socket is in a pool, or
\* with a request that still works with it, whatever else fails
\* (http_proxy.py:101-115, 139, 170).
NoLostSocket ==
  \A c \in Conn : sock[c] = "open" =>
    \/ \E p \in Port : \E i \in DOMAIN pools[p] : pools[p][i].conn = c
    \/ \E j \in Job : /\ held[j] = c
                      /\ \/ pc[j] \in {"send", "retry", "streaming"}
                         \/ pc[j] = "unencoded" /\ j \in reused
                         \/ pc[j] = "orphaned" /\ closer # "off"

\* The local app carries a request out once, unless the request went out on a
\* pooled connection first (http_proxy.py:105-109).
TwiceOnlyAfterReuse == \A j \in Job : runs[j] <= (IF j \in reused THEN 2 ELSE 1)

\* When close_pools returns, no idle connection is left in a pool, whatever the
\* threads still did meanwhile (http_proxy.py:149-158).
ClosedOnReturn == closer = "done" => \A p \in Port : pools[p] = <<>>

\* "Send the request to the local app and return (resp, conn).  A pooled
\* connection may have been closed by the local app's keep-alive timeout; in
\* that case retry once on a fresh connection" (http_proxy.py:91-95): a request
\* never fails only because the pool has run empty.
NoIndexError == \A j \in Job : pc[j] # "index"

-----------------------------------------------------------------------------
(* What the local apps can rely on *)

StageOf(j) ==
  CASE pc[j] \in {"idle", "called", "check", "pop"} -> "none"
    [] pc[j] = "send" -> IF j \in reused THEN "pooled" ELSE "fresh"
    [] pc[j] = "retry" -> "fresh"
    [] pc[j] = "streaming" -> "answered"
    [] pc[j] \in {"done", "failed", "index"} \cup Forgotten -> "over"

Stage == [j \in Job |-> StageOf(j)]

Busy == [j \in Job |-> IF pc[j] \in Forgotten THEN NoConn ELSE held[j]]

Idle == [p \in Port |-> {pools[p][i].conn : i \in DOMAIN pools[p]}]

Dead == {c \in Conn : sock[c] = "closed"}

Lost == {held[j] : j \in {k \in Job : pc[k] \in Forgotten}}

Phase == CASE closer = "off" -> "open" [] closer = "done" -> "shut" [] OTHER -> "closing"

Apps == INSTANCE KeepAlive WITH
  stage <- Stage, busy <- Busy, idle <- Idle, dead <- Dead, lost <- Lost, phase <- Phase

\* Between the threads, the loop and close_pools every connection goes the one
\* way KeepAlive lets it: from its maker to the pool of its port, at most
\* _POOL_LIMIT of them, to the next request of that port, and to its close()
\* (http_proxy.py:91-171).  Out of that way fall only a pooled connection whose
\* request cannot be encoded and what answers after the loop has ended; they
\* are never used again.
ImplementsKeepAlive == Apps!Spec
===============================================================================
