# Verification of jtunnel-cli

TLA+ specifications of the JT Tunnel client, model-checked with TLC on small
instances, and theorems about them checked by TLAPS for every value of the
constants. File names without a directory are under `src/jtunnel/`.

## 1. The system

`jtunnel expose` opens one WebSocket to the tunnel server (the *control
connection*), registers services on public ports of the user's block, and
serves the requests the server sends over it from apps on the local machine.
Around it are the commands that sign in, keep what has been exposed in four
files, and check the machine.

| Component | Source | State | Operations | Talks to |
|---|---|---|---|---|
| Control session | `tunnel.py` 72-221, 294-346 | `ws`, the tasks under `gather`, heartbeat loops, backoff | dial, auth, register, serve, heartbeat, close, reconnect, Ctrl+C | server; owns the connection everything else writes to |
| Request stream | `tunnel.py` 201-292, `protocol.py` | `pending`, one task per request, semaphore, send lock | HEAD/BODY/END frames in, HEAD/BODY/END/ERROR frames out | control connection, HTTP pools |
| HTTP connection pools | `http_proxy.py` 48-50, 90-171 | `_pools`, the connections and their sockets | request (with one retry), release, close_pools | local apps; runs in threads |
| WebSocket relay | `ws_relay.py` | `_relays`, `_tasks` | open, data, close, close_all, relay task | read loop, control connection, local apps |
| Port slots | `slots.py` | none (pure) | resolve_public_port, resolve_services | saved state |
| Saved state | `config.py` 98-258 | `tunnels.json`, `preferences.json`, `tunnel.json`, `device.jwt` | load, save, delete, clear, default service | every command, every process |
| Commands and menu | `cli.py` | what the user has chosen | expose (five forms), delete, set default, login, logout | saved state, port slots, control session |
| Device login | `auth.py`, `cli.py` 168-203 | device code, elapsed time, the two files it writes | start, poll, save | authorization server |
| Windows firewall | `windows.py`, `scripts/windows-firewall.ps1` | the rule, the script in the temp directory | status, add, remove | PowerShell, netsh, UAC |
| Doctor | `doctor.py` | verdicts of its checks | fix, probe, report | firewall, server, local app |
| HTTP rewriting, frame bytes, output, scripts | `http_proxy.py` 1-88, `protocol.py`, `ui.py`, `install*`, ... | none of their own | | |

### What is hard here, and what makes each part correct

* **Control session.** Tasks that outlive their session (`gather` does not
  cancel its other children when one raises), several ways out of a session
  (loss, orderly close, server error, Ctrl+C, failure of a local relay), partial
  handshakes. Correct when a session is kept alive, a lost one is replaced,
  left-over tasks do no harm, and Ctrl+C ends the client.
* **Request stream.** Handler tasks are not children of the session either. They
  share a semaphore and a lock, wait in threads for the local app, and write to
  whatever connection `self.ws` names when they get to it. Correct when requests
  are reassembled whole, replies are in order, and no path (error, refused send,
  cancellation) keeps a slot, the lock or a local connection.
* **Pools.** 128 threads, the event loop and the main thread share deques without
  a lock. Correct when a connection has one owner, pools are bounded, an open socket
  is lost only on the two ways section 4 names, and a request runs twice only where
  the code means it to.
* **Relay.** The same interleavings per WebSocket: a read loop that opens, feeds
  and closes, a task per relay that ends by itself, by a cancel or with the
  session, and ids that the server uses again. Correct when each task can be
  found under its id as long as it runs, frames stay with their relay, and
  nothing of a session outlives it.
* **Saved state.** Four files, read and rewritten by several processes without a
  lock; a write empties the file before it fills it; a session saves again at each
  reconnect; ports are sticky while blocks may change. Correct when ports are
  distinct and inside the block, what runs is what is saved, the default and the
  block fit the rest, and, where that needs commands not to overlap or die, when
  nothing else is needed.
* **Login.** Two time limits that look at different answers, transient answers,
  two files, Ctrl+C. Correct when it ends, within its limits, and says what it did.
* **Firewall and doctor.** An elevated script that outlives the process that
  waits for it, replaces the rule in two steps, and comes from a file two doctors
  share; an exit code 0 that says nothing of the script; queries that fail in silence.
  Correct when a script that was run means a rule, and a verdict was so at some
  time during the check or rests on a query that failed in silence.

## 2. Modules

    HttpExchange            what the server may rely on, per request
       ^  ImplementsExchange
    RequestStream           read loop + handlers + send lock
       |  EXTENDS
    ControlLink             the control connection, abstractly
       ^  ImplementsLink
    ControlSession          run(): tasks, exceptions, timers, Ctrl+C

    KeepAlive               what the local apps may rely on, per connection
       ^  ImplementsKeepAlive
    HttpPool                HTTPProxy, at the grain of one deque operation

    WsRelay                 read loop + relay tasks + close_all
       |  EXTENDS
    ControlLink

    SavedTunnels            the files, and the commands of several processes

    Doctor                  run_doctor
       |  EXTENDS
    DeviceLogin, FirewallRule

`RequestStream` is composed with `ControlLink` (it EXTENDS it, and its steps
`SessionStarts`, `SessionEnds`, `OtherLinkStep` and `LinkDrops` are steps of the
link). `ControlSession` implements `ControlLink`, so that what is shown about
the handlers is shown for a connection that the session code does provide. That
the composition only takes steps of the link is itself proved (`StreamOnLink`,
`RelayOnLink`), and what holds of every link (`LinkInv`) is proved once, in
`ControlLink_proofs`, and carried over to the three. The
join between the two is the phase, `ws`, the session number and the state of
the connection; no other variable is shared in the code.

`HttpPool` stands apart: `RequestStream` abstracts it to "a request returns with a
connection held, or raises", and `HttpPool` abstracts the handler to
"release is called once, on the event loop". Its own abstraction is `KeepAlive`: requests,
idle, dead and lost connections, without deques, clocks, threads or sockets. `idle[p]`
is the connections in the deque of p, `dead` those whose socket is closed, `busy` is `held`
but for the jobs that have forgotten their connection (`Forgotten`), which is `lost` then,
and `phase` is how far `close_pools` is. `Stage` tells a request with a reused connection,
which has one more try, from one with a new connection, which has none.

`WsRelay` is composed with `ControlLink` in the same way as `RequestStream`; the two share
nothing but the link and the send lock. `SavedTunnels` abstracts the session to
its places (`register`, `live`, `reconnect`) and the login to the files it writes, in the order
`DeviceLogin` shows. `Doctor` composes a login and doctors: a doctor starts when no
login is under way, since all it reads of one is which files there are, and no login
starts later. What the login remembers goes with its process (`LoginGone`).

### ControlLink

`ws` numbers connections: 0 is `None`, n the connection of session n. `phase` is
where `TunnelClient.run` is. The phase `deaf` is real: the read loop has
returned and `gather` waits on. `link` is what the peers did to the connection
(`lost`: `ConnectionClosedError`; `closed`: code 1000/1001, which `async for`
turns into a normal end).

### ControlSession

| Action | Code |
|---|---|
| `Dial`, `DialFails` | lines 120-136, `_connect_tunnel`; every dial error becomes `TunnelError` |
| `Authenticated`, `SendRefused`, `AckFails`, `Registered`, `SaveFails` | the handshake, 136-166. Its exceptions leave from outside the `try`, so `ws` is neither closed nor reset |
| `ReaderRaises`, `ReaderReturns` | the ways `_read_loop` ends |
| `ReaderBlocks`, `ReaderUnblocks`, `FeedRaises` | the read loop waits in `local_ws.send` (`ws_relay.py:76`, no timeout) and reads nothing meanwhile: until the app takes data, or has gone |
| `BeatFires`, `BeatSends` | one heartbeat loop *per session started*: `send` tests `self.ws`, waits for the lock, and sends or raises |
| `CloseRelays`, `CloseWs` | the `finally` block |
| `Wake` | the end of the sleep, and the doubling of the backoff |
| `Interrupt` | Ctrl+C: `asyncio.run` cancels the main task at its await (Python >= 3.11, which `pyproject.toml` requires) |

`_stop` is only set after `asyncio.run` has ended, so that the tests of it are
constant while the loop runs, and `_wait_stop` never returns.

### RequestStream

A task switches only at an await, so an action is what a task does from one
await to the next. `inbox` holds frames in flight *and* frames the websockets
library has buffered; a drop keeps any beginning of it. A payload is abstracted
to its number: part i of a request, chunk i of a response.

| Action | Code |
|---|---|
| `RecvHead`, `RecvBody`, `RecvEnd` | `_handle_request_frame`, 223-241; END pops the entry and starts the task |
| `Admit` | `async with self._request_semaphore`, `run_in_executor` |
| `RequestDone` | `HTTPProxy.request` returned or raised |
| `HeadDone`, `ReadChunk`, `FirstEmpty`, `ReadEmpty`, `CallRaises` | the executor jobs of lines 266-280 |
| `SendBytes`, `LockGranted`, `Transmit`, `SendDone`, `SendClosed` | `send_bytes`: the test of `self.ws`, the lock's queue, `ws.send`, its return or `ConnectionClosed` |
| `SendRaises` | the `except` clauses of 254-263 and 285-292 |
| `CancelAll` | the end of `asyncio.run` cancels what is left |

The lock and the semaphore of asyncio are FIFO; both queues are modelled. The
other users of the lock (heartbeat, relay frames, acks) are left out: they hold
it for one `ws.send`, and only delay. A request id is used once. A frame is
"written" when `ws.send` is called on an open connection, which is when the
library puts it in the transport; the call then waits for the buffer to drain.
`SessionStarts` requires an idle lock: a reconnect sleeps at least 3 s after the
end of the previous connection, and that end has woken whoever was draining.

### HttpPool

The grain is one operation on shared state: the test `while pool`, `popleft`,
`append`, one step of the dict iteration. `sock` is the `sock` attribute of a
connection object, `gone` what the local app has done on its side. `Attempted`
leaves open whether the local app carried the request out before the error. `request`
catches `HTTPException` and `OSError` only: `Unencodable` is the ValueError of
`conn.request` for a path or a header that cannot be encoded, which leaves a pooled
connection with its socket open and in nobody's hands (a fresh one has no socket yet). A
job is `orphaned` when its response comes after its handler was cancelled. That the
garbage collector may close such a connection some time later is not modelled: the
code does not rely on it, and neither do the properties.
Job and port counts are constants. `Stop` is `asyncio.run` ending: it cancels
the handlers that stream, while the threads go on under `close_pools`.

### WsRelay

A relay is one `ws_relay_open` and the local connection made for it; relays are
numbered, and `id` gives the id each was opened under. `relays` and `tasks` are the two
dictionaries of the current `WSRelay` object; an older object is reachable only from tasks
whose `home` is an earlier session. `at` says at which await the read loop and the
main task are, `pc` where a relay task is; `cancelled` holds the tasks whose
`CancelledError` has not arrived yet.

| Action | Code (`ws_relay.py`) |
|---|---|
| `RecvOpen`, `LocalConnects`, `LocalRefuses`, `AckWritten`, `RefusalWritten`, `AckFails` | `handle_open`: the relay is registered before the ack is written and its task after it |
| `RecvData`, `FeedDone`, `FeedFails` | `handle_data`; `local_ws.send` has no timeout |
| `RecvClose`, `TaskAwaited`, `LocalClosed` | `close`: pops and cancels the task, awaits it, pops and closes the connection |
| `CloseAllBegins`, `CloseNext`, `CloseWs` | the session's `finally` block |
| `TaskStarts`, `TaskReads`, `TaskSends`, `TaskEnds`, `Unwinds`, `TaskCloses` | `_relay_from_local` and its `finally` block, which pops both entries of its id |
| `ReaderRaises`, `ReaderReturns`, `Interrupt` | the ends of the read loop and Ctrl+C, as in ControlSession |

`BetweenIds`: `close_all` takes no await between two ids of which nothing is left, so
nothing else runs there. `heard` is history: the relay whose ack or frame a
connection last carried under an id. The server is modelled as one that does not
use an id again before it has closed the relay or was refused it. `LocalConnects` waits
until no `cancel()` is on its way to a task with the same id: the dial takes round trips,
a cancel arrives in the next turn of the event loop. At the bounds of the run the two
never meet; the proofs need it for more relays.

### SavedTunnels

`token`, `config`, `saved`, `default` are `device.jwt`, `tunnel.json`, `tunnels.json` and
`preferences.json`; a service is its name and its public port. `job[p]` is what process `p`
is at, with the local variables its command carries from one file operation to
the next (`batch`, `left`, `copy`, `services`, `issued`). Each step reads or writes one
file; `cut` marks the moment at which `write_text` has emptied it.

| Action | Code |
|---|---|
| `ExposeNamed`, `ExposeQuick`, `ExposeMulti`, `ExposeWizard`, `ExposeListed` | the commands and menu entries that expose, `cli.py` |
| `Resolve` | `resolve_services` and `resolve_public_port`, `slots.py`; `Resolves` states what the loop computes, as a condition on its result |
| `Connects`, `ExposeFails`, `Registered`, `Disconnects` | `tunnel.run` as far as it touches the files |
| `SaveLoads`, `CutSaved`, `FillSaved`, `CutDefault`, `FillDefault`, `WriteFails` | `save_active_tunnel` and `set_default_service`, per service |
| `DeleteBegins`, `DeleteChecks`, `DeleteClears`, `SetDefaultBegins` | `delete_active_tunnel`, set default |
| `LoginBegins`, `LoginWritesBlock`, `LoginWritesToken` | `_do_login` once it has a token |
| `LogoutBegins`, `LogoutStep` | `_do_logout`, its four files in order |
| `Crash` | the process dies, or its command ends in an OSError |

`mishaps` records what has gone wrong so far. It is history, read by the properties
only, and named in them: where a property says "unless commands overlapped", the run
holds a behaviour in which they did and it broke. `raced` is the model's notion of an
overlap: two processes between their load, or their choice of ports, and their
last write.

### DeviceLogin, FirewallRule, Doctor

`DeviceLogin`: `elapsed` is `time.time() - start`. `NextPoll` is the decision of
`poll_device_token`: `expired` counts only after the grace, the time limit only for other
answers. `PollLost` is an exception that `_do_login` does not catch.
`FirewallRule`: a *fixer* is one call of `add_firewall_rule`; `script[f]` the elevated PowerShell
it started, which goes on after a timeout; `file` the script in the temp directory,
one for all; `rules` counts the rules of the name per program. `add_firewall_rule` looks at
the exit code only, and `FixOutcome` is what that code stands for: `added` after a script that was run
as a whole, `believed` when 0 comes of a declined prompt (`$proc` is null) or of a script
`cut` short because another doctor has emptied or half filled the file; the code returns
True for both. `Unlinks` is the `finally` block, which raises while another doctor writes
the file. The cmdlets run with `-ErrorAction SilentlyContinue`, in the script and in the status
query: `ScriptLooks` may miss a rule and `PowerShellSays` may answer MISSING or
MISMATCH whatever is there. `mishap` is the worst that has happened to the rules: a query of
a script was `blind`, or they were `disturbed` by a second script or a removal.
`PowerShellSays`, `NetshSays`, `AsksNetsh`, `Merged`, `Verdict` are the status logic of `windows.py`.
`Doctor`: `Fixing`, `Connects`, `AsksPowerShell`, `AsksNetshToo`, `Reports` are `run_doctor` in its order.
`had`, `misled` and `netsh` are history: what a doctor could have seen of the rule since its check
began, whether PowerShell has missed a rule that was there, and what netsh said.

## 3. Runs

| Run | Bounds | Shows |
|---|---|---|
| `request_stream` | 2 requests, 2 sessions, 2 slots, HEAD, 1 BODY, END, 2 chunks, 2 frames in flight; 1.26 M states | TypeOK, RequestWhole, ReplyInOrder, SlotsAccounted, NothingKept, NeverStuck |
| `request_stream_live` | 3 requests for 2 slots, HEAD, END, no chunks, 1 session; 335 k states | EveryRequestFinishes, ImplementsExchange |
| `http_pool` | 3 jobs, 2 ports, 4 connections, limit 2, TTL 0, clock 0..1; 276 k states | TypeOK, Exclusive, NoLostSocket, TwiceOnlyAfterReuse, ClosedOnReturn, ImplementsKeepAlive |
| `control_session` | 3 sessions, backoff 3, 6, 10; 5.8 k states | TypeOK, KeptAlive, HeartbeatHarmless, ImplementsLink, Recovers |
| `ws_relay` | 2 relays, 2 ids, 2 sessions, 1 message in flight, one Ctrl+C; 276 k states | TypeOK, Tracked, NothingLeft, OwnFrames, FeedsOwn, AppEndIsSeen, SessionGoes |
| `saved_tunnels` | 2 processes, 2 names, blocks {1, 2} and {3}, batches of 1 or 2, 4 commands, 1 kind of mishap; 747 k states | TypeOK, SavedWasRegistered, DistinctPorts, LiveIsSaved, InBlock, SameAccount, DefaultIsSaved, StickyKept |
| `setup` | interval 1, grace 2, timeout 4, requests up to 2; 2 doctors, 2 programs, 2 rules each; 192 k states | TypeOK, LoginKeepsItsWord, RuleAdded, VerdictWasTrue, FixedIsFound, CommandsEnd |
| `dangling_task`, `head_first`, `pool_index_error`, `maintained`, `interrupt_ends` | as above or smaller | violations, section 5 |

Why the bounds are enough. Two sessions give a connection, its loss with
requests half received and half answered, and a second connection on which the
server goes on with either; a third adds no new relation between a handler's
own connection and the current one. Two handlers fill the lock and its queue;
three are needed for the semaphore's queue, hence the second configuration. Two
frames in flight let a drop lose the second of two, two chunks distinguish the
first read from the loop. A request has a body in the first run, so that one of its parts
can be missing, and none in the second. In the pools, two threads race for one entry and a
third releases; four connections allow each a fresh one and one retry; a TTL
of 0 with two clock values makes entries stale and usable. Two ports make
`close_pools` iterate while the dict grows. Three sessions have two left-over
heartbeat loops. The backoff cap of 10 stands for 30: 3, 6, 10 passes the
doubling, the cap, and staying at the cap.

Two relays can be under one id, one after the other, or under two beside each
other; a second session meets tasks of the first. One message in flight is enough
for the read loop to be late, since a message it is working on is out of the queue.
In `saved_tunnels` four commands are enough for an expose by each process and a
delete and a login around them; blocks of two ports and of one give a batch that
fits, one that does not, and a move to a disjoint block. One kind of mishap at a time
shows which properties survive which kind, and each kind a property names is
necessary: without it in the exception, TLC finds the property violated. In `setup` the
limits are in the order of the real ones (interval < grace < timeout, a request
longer than an interval), and two rules are one more than the script should add.

All bounds are constants: `MaxSessions`, `MinParts`, `MaxParts`, `MaxChunks`, `MaxInbox`,
`MaxTime`, `Conn`, `MaxRelays`, `MaxMishaps`, `MaxCommands`, `MaxRules`. They bound what is enumerated; the theorems of section 6 hold
for every value. Deadlock checking is off because the program may stop: `run`
returns, handlers end, and the bounds run out.

Symmetry is used where only safety is checked, on sets whose members nothing
tells apart.

### Fairness

* `RequestStream`: weak fairness per handler and of the final cancellation. The event loop runs every ready task; a job of `EXECUTOR` ends,
  as the local connection has a timeout (300 s) and `HTTPConnection` no other
  wait; asyncio's lock and semaphore are FIFO; `ws.send` returns when the buffer
  drains and raises when the connection ends. That a connection which is up
  drains is the one assumption about the peer. Nothing is assumed of the
  server's frames, the drops, or new sessions, nor of the read loop, which a local
  WebSocket that takes no data may block for ever.
* `ControlSession`: weak fairness of the main task. Each await of it has a timeout
  (dial 30 s and websockets' open timeout, acks 10 s, close timeout) or is for a
  task that ends. Strong fairness of the read loop's noticing that the connection has
  ended: the messages that came before the end are finitely many, but each of them may make
  the loop wait in `local_ws.send`. Nothing makes a local app read (`ReaderUnblocks` and
  `FeedRaises` have no fairness), so `Recovers` and `Maintained` are conditional on the loop being
  out of that call again and again. No fairness for heartbeats, for Ctrl+C or for a drop,
  except the one that `ws.close()` itself brings about.
* `WsRelay`: weak fairness of the steps of relay tasks, of the main task and of the read
  loop where it waits for an ack or in `close`. The event loop runs every ready
  task, closing a local connection has a timeout, as has `ws.close()`. Nothing is
  assumed of `local_ws.send`, which has none, of the apps or of the server.
* `Doctor` (run `setup`): weak fairness of the login's own steps and of each doctor's. Requests,
  sleeps, probes, the two queries (15 s) and the wait for the elevated script (120 s) all
  have limits. `urlretrieve` has none: a doctor has no fairness while it downloads, and
  `CommandsEnd` promises its end only if it is out of downloads again and again. Nothing is
  assumed of the user, in the browser or at the UAC prompt, nor of the elevated
  script.

## 4. Properties

Each is stated in a comment where it is defined. The ones that took thought:

* `RequestWhole`: a request may be started only with every part the server sent.
  It would fail if `pending` outlived the read loop: a drop that loses a BODY,
  then the END on the next connection.
* `ImplementsExchange` and the first half of `ReplyInOrder` look at the connection the
  request came from, whatever the handler later writes elsewhere. The other half,
  `WrittenOnce`, is about all connections together: a handler that survives its session
  (finding 2) writes to later ones, but never a frame twice and never an earlier
  frame after a later one. Parts may be missing; none is repeated.
* `NeverStuck`: a handler that waits for a slot or for the lock waits for one that can
  go on. It is the safety side of `EveryRequestFinishes`, and unlike that one it is
  proved. Both would fail if an error path kept the lock.
* `ImplementsKeepAlive` says in one formula what happens to a connection: made new, used
  by one request, then closed for good or put back for its own port while there
  is room, and so on. It would fail if an entry were looked at and not taken, if a
  failed retry were tried again, or if two responses that end together
  overfilled a pool. What the code does lose is in the abstract module, as an action with
  its own guard (`Lose`): a connection that had been idle, at any time, and any
  connection once the proxy is closing. A request that has been answered never loses its.
* `SlotsAccounted`, `NothingKept`, `EveryRequestFinishes`: the three ways an error
  path can go wrong (a slot, a local connection or queue place, the lock).
  `NothingKept` has an exemption, and says when it is met: a handler cancelled inside
  `HTTPProxy.request` is never given the response, and its connection is lost; but handlers
  are cancelled by the end of `asyncio.run` only (`OrphansLast`), so this costs a client
  that runs nothing.
* `Exclusive`, `NoLostSocket`: where each connection is, across threads. The open sockets that
  nobody can close any more are those of two kinds: a *reused* connection whose request
  cannot be encoded, and the response of a thread that comes in after the event loop has
  ended. All others are in a pool or with a request that still works with them.
* `Recovers`: a lost connection is followed by another one or by the end of the client,
  by an error or Ctrl+C. It does not promise another one: a failed dial on the reconnect ends
  the client (finding 9). It is conditional on no local app blocking the read loop for ever.
* `ClosedOnReturn`: the threads of EXECUTOR may still take from, but not put into,
  the pools; a normal return of `close_pools` leaves nothing behind.
* `KeptAlive` and `HeartbeatHarmless`: left-over heartbeat loops neither replace nor
  disturb the one of the current session.

* `Tracked`, `NothingLeft`: a relay task can be found and cancelled as long as it runs, although
  it is registered after the ack, pops its own entries whatever they are, and may
  be cancelled before it has started. `OwnFrames` and `FeedsOwn` are about ids that are used
  again: neither direction reaches the previous owner of an id.
* `SessionGoes`: the `finally` block ends whatever the relays are at, although it awaits
  tasks that may have ended, be closing, or have been cancelled before.
* `SavedWasRegistered` and `InBlock` hold through crashes and failed writes; `DistinctPorts`,
  `LiveIsSaved`, `StickyKept`, `SameAccount`, `DefaultIsSaved` name the mishaps they do not survive. These are
  the lost updates of `config.py`, which has no lock and no atomic rename.
* `LoginKeepsItsWord`: the answers may alternate between `expired`, which has its own limit,
  and others; still no poll is sent late, and a failure has written nothing.
* `RuleAdded`: a script that was run as a whole and exits 0 leaves a rule, unless another script or a
  removal came between, and even if one of its queries failed in silence; without such a
  query, no program ever gets a second rule.
* `VerdictWasTrue`: whatever the scripts do, `yes` was so at some time during the check. `no` was
  so too, or PowerShell had missed the rule and netsh, which the code asks for that
  reason when PowerShell says MISSING, did not answer or was not asked (`Misinformed`).
* `FixedIsFound`: a doctor that has had a script run as a whole does not call the rule
  missing in the same breath, with the same exception. Of a doctor that only believes in
  its rule it says nothing: the code tells it "added", and then "missing" (finding 8).

## 5. Where the code and its words differ

1. `NoDanglingTask`. `tunnel.py:255-256` promises that no handler ends with an
   exception nobody awaits. `send_bytes` tests `self.ws` before it waits for the
   lock and uses it after; when the session's `finally` block resets it in
   between, the ERROR frame raises `AttributeError`, and only `ConnectionClosed`
   is caught there.
2. `HeadFirst`. `tunnel.py:267-268`: the head goes first. A handler of a lost
   session goes on to send on the next connection, which then sees a BODY or an
   END of an id without a HEAD.
3. `NoIndexError`. `http_proxy.py:91-95`: a request falls back to a fresh connection.
   Two threads that both find the last pooled entry make one of them raise
   `IndexError` instead.
4. `Maintained`. `tunnel.py:70`: the client maintains the connection. After a close
   in good order (a server restart) the read loop returns, `gather` waits for
   `_wait_stop`, and the client stays up, connected to nothing.
5. `InterruptEnds`. `README.md:66`: Ctrl+C disconnects. Pressed while the relays of a
   lost session are being closed, it is taken for the cancellation of the relay's
   own task and dropped, and the client reconnects.
6. `slots.py:17` maps a service to a port "in the user's allocated block"; line 29
   returns a saved port whatever the block is. After a login that brought another
   block, expose registers and saves ports outside it. `InBlock` therefore excepts a
   block that moved (`"moved"`), and is violated without that exception.
7. `cli.py:187` catches `RuntimeError`, `TimeoutError` and `OSError` around the polling; `httpx.HTTPError`,
   which line 171 names for the first request, is none of them, nor is the error of an
   answer that is not JSON. `auth.py:39` promises to poll until the user approves; one
   lost poll ends the command with a traceback (`PollLost`).

8. `windows.py:279` says "UAC declined or script failed" where the exit code is not 0. A
   declined prompt does not get there: `Start-Process` fails, `$proc` is null,
   `exit $proc.ExitCode` exits 0 (lines 248-253), and line 276 returns "Firewall rule added". So does a
   script file that another doctor has just emptied. `FixOutcome` has both.
9. `tunnel.py:114-116` says "Retrying in" of a server that cannot be reached. A dial that
   fails raises `TunnelError` (line 126), which `run` does not catch: one failed dial on a
   reconnect ends the client (`DialFails`).

Findings 6 to 9 are read off the code; no run of their own shows them.

## 6. Proofs

Seven modules hold theorems, each EXTENDing the specification it is about.
Assumptions are only those of the specifications: the limits are natural numbers,
positive where the code needs it (`MaxSessionsAssumption`, `RequestAssumption`,
`PoolAssumption`, `RelayAssumption`, `SessionAssumption`, `SavedAssumption`, `LoginAssumption`, `FirewallAssumption`). `Req`, `Job`, `Port`, `Conn`, `Id`,
`Fixer` and `Program` are any sets, `Proc` is finite.

**ControlLink_proofs**: `LinkInv`, for whatever uses the link: `self.ws` is None or the
connection of the latest session, and it is not None from a handshake to the end of
its `finally` block. `SessionLinkConsistent` of ControlSession_proofs has it for the
client by the refinement; RequestStream_proofs and WsRelay_proofs show that their steps
are steps of the link, or leave it alone.

**RequestStream_proofs**: TypeOK, RequestWhole, ReplyInOrder, SlotsAccounted,
NothingKept, NeverStuck, OneSender, and the refinement of HttpExchange. None of these is
inductive alone. `IInv` adds three groups:

* `StreamOK`: the frames in flight of a request have no gap and go on where `pending`
  ends (`Gapless`, `Reaching`, `PendingOK`), and when nothing reads there are neither
  (`Reading`). With that, an END that finds an entry finds all of it, and after a
  drop the missing tail makes the END unreachable, not the middle. `StartedOnce`
  is what makes `raw` stable.
* `HandlersOK`: the queues hold each handler once, in the place its `pc` says; with
  that, popping the head of a queue removes exactly its owner, and the cardinality of
  `Admitted` moves with `free`.
* `RepliesOK`: as long as a handler's own connection is up, `WrittenBy` ties the length
  of its reply to its `pc`, `op` and `got`. Once it is not up, nothing is written to it
  again, as `ws` has moved on or the send is refused, and the reply stays a beginning
  of a good one. That split is why a chunk that was dropped (`ws` None) can never be
  followed by a later chunk on the same connection.

`NextIInv` has a lemma per action; the sends, which many actions end with, are
done once (`SendBytesStep`, `SendRaisesStep`). The refinement repeats that structure
with the abstract step each one is (`SendBytesExchange`, `OwnerExchange`, ...).

`NeverStuck` needs no invariant of its own: if nobody is in a call or a send, the head
of the lock's queue can go on; if that queue is empty too, everyone waits for a
slot, `Admitted` is empty, and by `SlotsAccounted` all slots are free. `WrittenOnce` needs
`WireInv`: sessions are numbered upwards and `ws` is the latest (`LinkInv`), so that what
is written now comes after all that was; and every frame already written fits the
place of its handler (`Fits`), so that the next one it turns to comes later in the
reply (`TurnPrecedes`).

**HttpPool_proofs**: all six properties of its run, and PoolBounded. The invariant adds who holds a connection (`HoldersOK`), that a
connection in use has been made, so that a fresh one is in no other place
(`MadeOK`), how often a request has run by the step it is at (`RunsOK`), which
pools `close_pools` has still to visit (`ToVisitOK`), and when a connection may be forgotten at
all (`ForgottenOK`). With that, `NoneAdrift`, that every open socket is in a pool or the
latest connection of some request, is inductive (`NextNoneAdrift`): whatever takes an open connection out of a
deque or out of a request's hands has closed it or puts it in the other. By `HoldersOK` and
`ForgottenOK` that request still works with it, or has forgotten it on one of the two ways
NoLostSocket names. The refinement of KeepAlive
needs two facts more: nobody works with a connection that has been closed (`LiveOK`), and a
request that is still looking for one is not among `reused` (`LookingOK`). The rest is
what the deque operations do to the sets that KeepAlive sees: `popleft` removes exactly
one connection, as none is in the pools twice (`IdleAfterPop`), and a deque with room is
a set with room (`IdleSize`).

**ControlSession_proofs**: TypeOK, KeptAlive, HeartbeatHarmless and the refinement
of ControlLink. The invariant adds that `ws` names the current connection during
handshake and session, and that this session's own heartbeat loop lives while its
connection is up.

**WsRelay_proofs**: the five safety properties of its run, for any ids and any number of
relays, sessions and messages in flight. What makes them hold is the order of the
messages, so the invariant speaks of what is in flight:

* `StreamInv`: behind a relay that an id stands for (`Active`: an entry of a dictionary, or
  the relay `handle_open` is at), and behind each open in flight, comes data or the close
  of that relay, and only after its close anything of a later relay with its id
  (`Behind`); a relay that the server no longer takes for open has its close in flight as long
  as the connection is up (`Told`). So two relays never share an id (`FeedsOwn`), and an
  open is read only when the earlier relay is out of both dictionaries. A relay that ends by
  itself is the hard case: its entries go although its close may still be to come.
* `DictInv`, `TaskInv`, `PairInv`: what an entry stands for, that of the tasks with one id one
  at most relays and the id is heard from no other (`OwnFrames`), and that the two dictionaries agree and
  a cancelled task is waited for, except after a Ctrl+C that the read loop has survived
  (`Late`; `Tracked` makes the same exception).
* `TodoInv`, `SockInv`: `close_all` still has to come to every entry there is, and an open local
  connection is in `_relays`, or is being closed (`NothingLeft`).
* `PlaceInv`, `FreshInv`: where the read loop and the main task are in each phase, and that
  a relay that has not been opened has neither task nor connection.

On the same invariant rests `CloseNeverStuck`, the safety side of SessionGoes: whoever
waits in `WSRelay.close`, the read loop, the `finally` block or both, waits for a task that
has been cancelled or is at its end, and no step takes such a task back to its loop.

**SavedTunnels_proofs**: all eight properties of its run. A lemma per action first
says what the step does (`ConnectsFacts`, `FillSavedFacts`, ...); the invariants then use those.
`BaseInv` holds whatever happens: the shape of a job by its place, that every port in a
file, in a loaded copy or about to be saved has been acknowledged, and that processes
are at their read-change-write one at a time unless that is recorded. On it rest

* `CalmInv`, for DistinctPorts, LiveIsSaved and StickyKept: the file, the copy that a command is about
  to write and the services of all processes agree pairwise (`Agree`: never two names
  for one port, nor two ports for one name). The copy matters more than the file,
  which is empty in between; `Done` says how much of a batch has been saved.
* `AccountInv` (SameAccount), `BlockInv` (InBlock: the saved ports, the exposed ones and a loaded
  copy are of the block in force, and of the one a login is about to write), `DefaultInv`
  (DefaultIsSaved: by place, what the default may name that is not saved yet or not
  any more).

**Doctor_proofs**: TypeOK, LoginKeepsItsWord, RuleAdded, VerdictWasTrue, FixedIsFound. `FwInv`: one script at most relies
on what it has seen of the rules, unless they have been disturbed; `HeardInv`: the last answer, of
PowerShell or netsh, is one of those in `had`, or PowerShell was misled; `AddedInv`: what a
script run as a whole has added for a doctor has not been missing since.

Only model-checked: the liveness properties (EveryRequestFinishes, Recovers, AppEndIsSeen, SessionGoes,
CommandsEnd), which are outside the prover's reach together with ENABLED. No theorem depends on what a recursive definition computes, and
no module declares a RECURSIVE operator.

## 7. Not modelled, and the plan

Left out, and staying so:

* HTTP text rewriting (`_parse_request`, `resolve_port`, `response_head`), the byte layout of frames, URL
  and token parsing, `status` and `list`, terminal output and prompts, the install
  and build scripts. They are sequential, keep no state that others read, and
  ordinary tests reach them.
* The DNS cache (`tunnel.py:49`): a dial may succeed or fail in every model, which covers
  an old address; that the address is never looked up again is visible in the code and
  needs no model.
* What `http.client` does with a response that is cut off: the model gives a response
  a number of chunks. The backoff that is never reset is in `ControlSession`, which has it
  as the code does; no document promises otherwise.

* What the garbage collector does with a connection that nobody has, in `HttpPool`.
* `Resolve` of `SavedTunnels` reads the block and `tunnels.json` in one step: what another command
  writes between the two reads is not seen. An OSError while `tunnels.json` is read is left
  out, too; the failures of writing it are in.
* A read loop that has survived a Ctrl+C (finding 5, at the close of one relay) is in
  `WsRelay` only. To `ControlSession` and `RequestStream` it is a read loop that goes on.

Every property of a passing run that is not a liveness property is proved. What could
be proved beyond: that the handler of `RequestStream` and the caller of `HttpPool` keep one
contract, as both keep that of the link.

## 8. Running it

    tlc -workers 2 -config MCRequestStream.cfg MCRequestStream.tla
    tlapm RequestStream_proofs.tla

The longest run takes about two minutes, all proofs together about ten.
