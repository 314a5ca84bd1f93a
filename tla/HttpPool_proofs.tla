---------------------------- MODULE HttpPool_proofs ----------------------------
(***************************************************************************)
(* Proofs about HttpPool for any jobs, ports, connections, limit and TTL.  *)
(* The inductive invariant adds to the properties which job has a          *)
(* connection, that a connection in use has been made, how often each step *)
(* can follow a run of the request, when a connection can be forgotten,    *)
(* and which pools close_pools has still to visit.                         *)
(***************************************************************************)
EXTENDS HttpPool, FiniteSetTheorems, TLAPS

Holding == {"send", "retry", "streaming"} \cup Forgotten

HoldersOK == \A j \in Job : held[j] # NoConn <=> pc[j] \in Holding

MadeOK ==
  /\ \A j \in Job : held[j] # NoConn => sock[held[j]] # "unused"
  /\ \A p \in Port : \A i \in DOMAIN pools[p] : sock[pools[p][i].conn] # "unused"

RunsOK ==
  \A j \in Job :
    /\ pc[j] \in {"idle", "called", "check", "pop", "send"} => runs[j] = 0
    /\ pc[j] = "retry" => runs[j] <= 1 /\ j \in reused

ToVisitOK ==
  \A p \in Port : pools[p] # <<>> =>
    \/ closer = "off" /\ p \in known
    \/ closer \in {"next", "check", "pop"} /\ p \in todo
    \/ closer \in {"check", "pop"} /\ p = current
    \/ closer = "raised"

ForgottenOK ==
  \A j \in Job :
    /\ pc[j] = "unencoded" => j \in reused
    /\ pc[j] = "orphaned" => closer # "off"

IInv ==
  /\ TypeOK /\ HoldersOK /\ MadeOK /\ RunsOK /\ ToVisitOK /\ ForgottenOK
  /\ Exclusive /\ PoolBounded /\ TwiceOnlyAfterReuse

-----------------------------------------------------------------------------
(* Sequences *)

\* popleft.
LEMMA TailFacts ==
  ASSUME NEW S, NEW s \in Seq(S), s # <<>>
  PROVE  /\ Head(s) \in S /\ Head(s) = s[1] /\ 1 \in DOMAIN s
         /\ Tail(s) \in Seq(S)
         /\ Len(Tail(s)) <= Len(s)
         /\ \A i \in DOMAIN Tail(s) : i \in Nat /\ i + 1 \in DOMAIN s /\ i + 1 # 1 /\ Tail(s)[i] = s[i + 1]
  OBVIOUS

\* append.
LEMMA AppendFacts ==
  ASSUME NEW S, NEW s \in Seq(S), NEW e \in S
  PROVE  /\ Append(s, e) \in Seq(S)
         /\ Append(s, e) # <<>>
         /\ Len(Append(s, e)) = Len(s) + 1
         /\ \A i \in DOMAIN Append(s, e) :
              \/ i \in DOMAIN s /\ Append(s, e)[i] = s[i]
              \/ i = Len(s) + 1 /\ Append(s, e)[i] = e
         /\ Len(s) + 1 \notin DOMAIN s
  OBVIOUS

\* What a deque holds are connections.
LEMMA PooledConn ==
  ASSUME TypeOK, NEW p \in Port, NEW i \in DOMAIN pools[p]
  PROVE  pools[p][i].conn \in Conn /\ pools[p][i].conn # NoConn
<1>1. pools[p][i] \in Entries
  BY DEF TypeOK
<1> QED
  BY <1>1, PoolAssumption DEF PoolAssumption, Entries

-----------------------------------------------------------------------------
(* Steps that leave the deques alone: what Exclusive needs of them *)

\* No connection changes hands, or some holder lets go of one.
LEMMA ExclusiveKept ==
  ASSUME IInv, pools' = pools,
         held' \in [Job -> Conn \cup {NoConn}],
         \A j \in Job : held'[j] = held[j] \/ held'[j] = NoConn
  PROVE  Exclusive'
<1>1. HeldOnce' /\ PooledOnce'
  BY DEF IInv, TypeOK, Exclusive, HeldOnce, PooledOnce
<1>2. PooledNotHeld'
  BY PooledConn DEF IInv, Exclusive, PooledNotHeld
<1> QED
  BY <1>1, <1>2 DEF Exclusive

\* A job takes a connection that was not made before.
LEMMA ExclusiveFresh ==
  ASSUME IInv, pools' = pools, NEW j \in Job, NEW c \in Conn, sock[c] = "unused",
         held' = [held EXCEPT ![j] = c]
  PROVE  Exclusive'
<1>1. \A k \in Job : held[k] # c
  BY PoolAssumption DEF PoolAssumption, IInv, TypeOK, MadeOK
<1>2. \A p \in Port : \A i \in DOMAIN pools[p] : pools[p][i].conn # c
  BY DEF IInv, MadeOK
<1> QED
  BY <1>1, <1>2 DEF IInv, TypeOK, Exclusive, HeldOnce, PooledOnce, PooledNotHeld

\* The first entry of a deque goes, possibly into the hands of a job that had none.
LEMMA ExclusivePop ==
  ASSUME IInv, NEW p \in Port, pools[p] # <<>>,
         pools' = [pools EXCEPT ![p] = Tail(@)],
         \/ UNCHANGED held
         \/ \E j \in Job : held[j] = NoConn /\ held' = [held EXCEPT ![j] = Head(pools[p]).conn]
  PROVE  Exclusive'
<1> DEFINE Shift(q, i) == IF q = p THEN i + 1 ELSE i
<1>1. \A q \in Port : \A i \in DOMAIN pools'[q] :
         /\ i \in Nat
         /\ Shift(q, i) \in DOMAIN pools[q]
         /\ pools'[q][i] = pools[q][Shift(q, i)]
         /\ q = p => Shift(q, i) # 1
  BY TailFacts DEF IInv, TypeOK
<1>2. Head(pools[p]) = pools[p][1] /\ 1 \in DOMAIN pools[p]
  BY TailFacts DEF IInv, TypeOK
<1>3. Head(pools[p]).conn # NoConn
  BY <1>2, PooledConn DEF IInv
<1>4. ASSUME NEW q \in Port, NEW r \in Port,
             NEW i \in DOMAIN pools'[q], NEW k \in DOMAIN pools'[r],
             pools'[q][i].conn = pools'[r][k].conn
      PROVE  q = r /\ i = k
  <2> DEFINE m == Shift(q, i)
             n == Shift(r, k)
  <2>a. m \in DOMAIN pools[q] /\ pools'[q][i] = pools[q][m]
    BY <1>1
  <2>b. n \in DOMAIN pools[r] /\ pools'[r][k] = pools[r][n]
    BY <1>1
  <2>0. pools[q][m].conn = pools[r][n].conn
    BY <1>4, <2>a, <2>b
  <2> HIDE DEF m, n
  <2>1. q = r /\ m = n
    BY <2>a, <2>b, <2>0 DEF IInv, Exclusive, PooledOnce
  <2> USE DEF m, n
  <2> QED
    BY <2>1, <1>1
<1>5. \A q \in Port : \A i \in DOMAIN pools'[q] : pools'[q][i].conn # Head(pools[p]).conn
  <2> SUFFICES ASSUME NEW q \in Port, NEW i \in DOMAIN pools'[q],
                      pools'[q][i].conn = Head(pools[p]).conn
               PROVE  FALSE
    OBVIOUS
  <2> DEFINE m == Shift(q, i)
  <2>a. m \in DOMAIN pools[q] /\ pools'[q][i] = pools[q][m]
    BY <1>1
  <2>0. pools[q][m].conn = pools[p][1].conn
    BY <1>2, <2>a
  <2> HIDE DEF m
  <2>1. q = p /\ m = 1
    BY <1>2, <2>a, <2>0 DEF IInv, Exclusive, PooledOnce
  <2> USE DEF m
  <2> QED
    BY <2>1, <1>1
<1>6. \A j \in Job : held[j] # Head(pools[p]).conn
  BY <1>2 DEF IInv, Exclusive, PooledNotHeld
<1>7. \A j \in Job, q \in Port : \A i \in DOMAIN pools'[q] : pools'[q][i].conn # held[j]
  BY <1>1 DEF IInv, Exclusive, PooledNotHeld
<1>8. ASSUME UNCHANGED held PROVE Exclusive'
  BY <1>4, <1>7, <1>8 DEF IInv, Exclusive, HeldOnce, PooledOnce, PooledNotHeld
<1>9. ASSUME NEW j \in Job, held[j] = NoConn, held' = [held EXCEPT ![j] = Head(pools[p]).conn]
      PROVE  Exclusive'
  <2>1. \A k, l \in Job : held'[k] = held'[l] /\ held'[k] # NoConn => k = l
    BY <1>6, <1>9 DEF IInv, TypeOK, Exclusive, HeldOnce
  <2>2. \A k \in Job, q \in Port : \A i \in DOMAIN pools'[q] : pools'[q][i].conn # held'[k]
    BY <1>5, <1>7, <1>9 DEF IInv, TypeOK
  <2> QED
    BY <1>4, <2>1, <2>2 DEF Exclusive, HeldOnce, PooledOnce, PooledNotHeld
<1> QED
  BY <1>8, <1>9

\* A job puts its connection at the end of a deque.
LEMMA ExclusiveRelease ==
  ASSUME IInv, NEW j \in Job, NEW p \in Port, NEW t \in 0 .. MaxTime, held[j] # NoConn,
         pools' = [pools EXCEPT ![p] = Append(@, [conn |-> held[j], at |-> t])],
         held' = [held EXCEPT ![j] = NoConn]
  PROVE  Exclusive'
<1> DEFINE e == [conn |-> held[j], at |-> t]
<1>0. e \in Entries
  BY DEF IInv, TypeOK, Entries
<1>1. \A q \in Port : \A i \in DOMAIN pools'[q] :
         \/ i \in DOMAIN pools[q] /\ pools'[q][i] = pools[q][i]
         \/ q = p /\ i = Len(pools[p]) + 1 /\ pools'[q][i].conn = held[j]
  BY <1>0, AppendFacts DEF IInv, TypeOK
<1>2. \A q \in Port : \A i \in DOMAIN pools[q] : pools[q][i].conn # held[j]
  BY DEF IInv, Exclusive, PooledNotHeld
<1>3. ASSUME NEW q \in Port, NEW r \in Port,
             NEW i \in DOMAIN pools'[q], NEW k \in DOMAIN pools'[r],
             pools'[q][i].conn = pools'[r][k].conn
      PROVE  q = r /\ i = k
  BY <1>1, <1>2, <1>3 DEF IInv, Exclusive, PooledOnce
<1>4. \A k \in Job : held'[k] # NoConn => held'[k] = held[k] /\ k # j
  BY DEF IInv, TypeOK
<1>5. \A k, l \in Job : held'[k] = held'[l] /\ held'[k] # NoConn => k = l
  BY <1>4 DEF IInv, Exclusive, HeldOnce
<1>6. \A k \in Job, q \in Port : \A i \in DOMAIN pools'[q] : pools'[q][i].conn # held'[k]
  <2> SUFFICES ASSUME NEW k \in Job, NEW q \in Port, NEW i \in DOMAIN pools'[q],
                      pools'[q][i].conn = held'[k]
               PROVE  FALSE
    OBVIOUS
  <2>1. pools'[q][i].conn # NoConn
    <3>1. CASE i \in DOMAIN pools[q] /\ pools'[q][i] = pools[q][i]
      BY <3>1, PooledConn DEF IInv
    <3>2. CASE pools'[q][i].conn = held[j]
      BY <3>2
    <3> QED
      BY <1>1, <3>1, <3>2
  <2>2. held'[k] = held[k] /\ k # j
    BY <2>1, <1>4
  <2> QED
    BY <1>1, <2>1, <2>2 DEF IInv, Exclusive, HeldOnce, PooledNotHeld
<1> QED
  BY <1>3, <1>5, <1>6 DEF Exclusive, HeldOnce, PooledOnce, PooledNotHeld

\* A request forgets its connection in two places, and never goes on from there.
LEMMA ForgottenStep ==
  ASSUME TypeOK, ForgottenOK, [Next]_vars
  PROVE  ForgottenOK'
<1> USE DEF TypeOK, ForgottenOK
<1>1. ASSUME NEW j \in Job, ThreadStep(j) PROVE ForgottenOK'
  BY <1>1 DEF ThreadStep, Begin, FindSome, FindNone, PopFresh, PopStale, PopEmpty, Respond, Retry,
     Fail, Unencodable, Goto, closeVars
<1>2. ASSUME NEW j \in Job, Submit(j) \/ ReleaseToPool(j) \/ ReleaseAndClose(j) PROVE ForgottenOK'
  BY <1>2 DEF Submit, ReleaseToPool, ReleaseAndClose, Goto, closeVars
<1>3. CASE Stop \/ CloserNext \/ CloserCheck \/ CloserPop
  BY <1>3 DEF Stop, CloserNext, CloserCheck, CloserPop, jobVars
<1>4. CASE Tick \/ (\E c \in Conn : AppCloses(c)) \/ UNCHANGED vars
  BY <1>4 DEF Tick, AppCloses, vars, jobVars, closeVars
<1> QED
  BY <1>1, <1>2, <1>3, <1>4 DEF Next

-----------------------------------------------------------------------------
(* The inductive invariant *)

\* No request, no connection.
LEMMA InitIInv == Init => IInv
<1> SUFFICES ASSUME Init PROVE IInv
  OBVIOUS
<1> USE PoolAssumption DEF PoolAssumption, Init
<1>1. TypeOK
  BY DEF TypeOK, JobSteps, SockStates, CloserSteps
<1>2. HoldersOK /\ MadeOK /\ RunsOK /\ ToVisitOK
  BY DEF HoldersOK, Holding, Forgotten, MadeOK, RunsOK, ToVisitOK
<1>3. ForgottenOK
  BY DEF ForgottenOK
<1>4. Exclusive /\ PoolBounded /\ TwiceOnlyAfterReuse
  BY DEF Exclusive, HeldOnce, PooledOnce, PooledNotHeld, PoolBounded, TwiceOnlyAfterReuse
<1> QED
  BY <1>1, <1>2, <1>3, <1>4 DEF IInv

\* Steps that touch neither a deque nor a connection in use.
LEMMA QuietStep ==
  ASSUME IInv, ForgottenOK',
         \/ Tick \/ (\E c \in Conn : AppCloses(c)) \/ UNCHANGED vars
         \/ \E j \in Job : Submit(j) \/ Begin(j) \/ FindSome(j) \/ PopEmpty(j) \/ Unencodable(j)
  PROVE  IInv'
<1> USE DEF IInv, Tick, AppCloses, Submit, Begin, FindSome, PopEmpty, Unencodable,
            vars, jobVars, closeVars, Goto
<1>1. TypeOK'
  <2> USE DEF TypeOK, JobSteps
  <2>1. CASE Tick
    BY <2>1, PoolAssumption DEF PoolAssumption
  <2>2. ASSUME NEW c \in Conn, AppCloses(c) PROVE TypeOK'
    BY <2>2
  <2>3. ASSUME NEW j \in Job, Submit(j) \/ FindSome(j) \/ PopEmpty(j) \/ Unencodable(j) PROVE TypeOK'
    BY <2>3
  <2>4. ASSUME NEW j \in Job, Begin(j) PROVE TypeOK'
    <3>1. port[j] \in Port /\ now' = [now EXCEPT ![j] = clock]
      BY <2>4
    <3>2. known' \subseteq Port /\ pc' \in [Job -> JobSteps]
      BY <2>4, <3>1
    <3>3. clock \in 0 .. MaxTime /\ now \in [Job -> 0 .. MaxTime]
      OBVIOUS
    <3>4. now' \in [Job -> 0 .. MaxTime]
      BY <3>1, <3>3
    <3> QED
      BY <2>4, <3>2, <3>4
  <2>5. CASE UNCHANGED vars
    BY <2>5
  <2> QED
    BY <2>1, <2>2, <2>3, <2>4, <2>5
<1>2. HoldersOK'
  <2> USE DEF TypeOK, HoldersOK, Holding, Forgotten
  <2>1. CASE Tick \/ (\E c \in Conn : AppCloses(c)) \/ UNCHANGED vars
    BY <2>1
  <2>2. ASSUME NEW j \in Job, Submit(j) PROVE HoldersOK'
    BY <2>2
  <2>3. ASSUME NEW j \in Job, Begin(j) PROVE HoldersOK'
    BY <2>3
  <2>4. ASSUME NEW j \in Job, FindSome(j) PROVE HoldersOK'
    BY <2>4
  <2>5. ASSUME NEW j \in Job, PopEmpty(j) \/ Unencodable(j) PROVE HoldersOK'
    BY <2>5
  <2> QED
    BY <2>1, <2>2, <2>3, <2>4, <2>5
<1>3. MadeOK'
  BY DEF MadeOK
<1>4. RunsOK'
  BY DEF TypeOK, RunsOK
<1>5. UNCHANGED <<held, pools, runs, reused, closeVars>> /\ known \subseteq known'
  OBVIOUS
<1>6. ToVisitOK'
  BY <1>5 DEF ToVisitOK
<1>7. Exclusive'
  BY <1>5, ExclusiveKept DEF TypeOK
<1>8. PoolBounded' /\ TwiceOnlyAfterReuse'
  BY <1>5 DEF PoolBounded, TwiceOnlyAfterReuse
<1> QED
  BY <1>1, <1>2, <1>3, <1>4, <1>6, <1>7, <1>8

\* close_pools between two deques, and at the test of one.
LEMMA CloserMoves ==
  ASSUME IInv, ForgottenOK', CloserNext \/ CloserCheck PROVE IInv'
<1> USE DEF IInv, CloserNext, CloserCheck, jobVars
<1>1. TypeOK'
  BY DEF TypeOK, CloserSteps
<1>2. HoldersOK' /\ MadeOK' /\ RunsOK'
  BY DEF HoldersOK, MadeOK, RunsOK
<1>3. ASSUME CloserNext PROVE ToVisitOK'
  <2>1. CASE closer' = "raised"
    BY <1>3, <2>1 DEF ToVisitOK
  <2>2. CASE closer' = "check"
    BY <1>3, <2>2 DEF ToVisitOK
  <2>3. CASE closer' = "done"
    BY <1>3, <2>3 DEF ToVisitOK
  <2> QED
    BY <1>3, <2>1, <2>2, <2>3
<1>4. ASSUME CloserCheck PROVE ToVisitOK'
  BY <1>4 DEF ToVisitOK
<1>5. Exclusive'
  BY ExclusiveKept DEF TypeOK
<1>6. PoolBounded' /\ TwiceOnlyAfterReuse'
  BY DEF PoolBounded, TwiceOnlyAfterReuse
<1> QED
  BY <1>1, <1>2, <1>3, <1>4, <1>5, <1>6

\* A connection is made: by _get_conn, or for the retry.
LEMMA FindNoneStep ==
  ASSUME IInv, ForgottenOK', NEW j \in Job, FindNone(j) PROVE IInv'
<1> USE DEF IInv, FindNone, Goto, closeVars
<1>1. TypeOK'
  BY DEF TypeOK, JobSteps, SockStates
<1>2. PICK c \in Conn : /\ sock[c] = "unused" /\ sock' = [sock EXCEPT ![c] = "fresh"]
                        /\ held' = [held EXCEPT ![j] = c]
  OBVIOUS
<1>3. HoldersOK'
  BY <1>2, PoolAssumption DEF PoolAssumption, TypeOK, HoldersOK, Holding, Forgotten
<1>4. RunsOK' /\ ToVisitOK'
  BY DEF TypeOK, RunsOK, ToVisitOK
<1>5. MadeOK'
  BY <1>2, PooledConn DEF TypeOK, MadeOK
<1>6. Exclusive'
  BY <1>2, ExclusiveFresh
<1>7. PoolBounded' /\ TwiceOnlyAfterReuse'
  BY DEF PoolBounded, TwiceOnlyAfterReuse
<1> QED
  BY <1>1, <1>3, <1>4, <1>5, <1>6, <1>7

\* The stale connection is closed and a new one takes its place.
LEMMA RetryStep ==
  ASSUME IInv, ForgottenOK', NEW j \in Job, Retry(j) PROVE IInv'
<1>1. PICK c \in Conn : /\ sock[c] = "unused"
                        /\ sock' = [sock EXCEPT ![held[j]] = "closed", ![c] = "fresh"]
                        /\ held' = [held EXCEPT ![j] = c]
  BY DEF Retry
<1>2. /\ pc[j] = "send" /\ j \in reused /\ pc' = [pc EXCEPT ![j] = "retry"]
      /\ UNCHANGED <<clock, known, pools, port, now, reused, gone, closeVars>>
  BY DEF Retry, Goto
<1>3. TypeOK /\ runs[j] = 0
  BY <1>2 DEF IInv, RunsOK
<1>4. runs' = runs \/ runs' = [runs EXCEPT ![j] = 1]
  BY <1>3 DEF Retry, Attempted
<1>a. runs \in [Job -> 0 .. 2]
  BY <1>3 DEF TypeOK
<1>5. runs' \in [Job -> 0 .. 2] /\ runs'[j] <= 1 /\ \A k \in Job \ {j} : runs'[k] = runs[k]
  BY <1>3, <1>4, <1>a
<1>6. TypeOK'
  BY <1>1, <1>2, <1>3, <1>5 DEF TypeOK, JobSteps, SockStates, closeVars
<1>7. HoldersOK'
  BY <1>1, <1>2, <1>3, PoolAssumption DEF PoolAssumption, IInv, TypeOK, HoldersOK, Holding, Forgotten
<1>8. RunsOK'
  BY <1>2, <1>3, <1>5 DEF TypeOK, RunsOK, IInv
<1>9. TwiceOnlyAfterReuse'
  <2>1. ASSUME NEW k \in Job PROVE runs'[k] <= IF k \in reused' THEN 2 ELSE 1
    BY <1>2, <1>5, <1>a DEF TwiceOnlyAfterReuse, IInv
  <2> QED
    BY <2>1 DEF TwiceOnlyAfterReuse
<1>10. MadeOK'
  BY <1>1, <1>2, <1>3, PooledConn DEF TypeOK, MadeOK, IInv
<1>11. Exclusive'
  BY <1>1, <1>2, ExclusiveFresh
<1>12. ToVisitOK' /\ PoolBounded'
  BY <1>2 DEF ToVisitOK, PoolBounded, closeVars, IInv
<1> QED
  BY <1>6, <1>7, <1>8, <1>9, <1>10, <1>11, <1>12 DEF IInv

\* A connection leaves a deque: into the hands of a job, or closed.
LEMMA PopStep ==
  ASSUME IInv, ForgottenOK', NEW j \in Job, PopFresh(j) \/ PopStale(j) PROVE IInv'
<1> USE DEF IInv, PopFresh, PopStale, Goto, closeVars
<1> DEFINE p == port[j]
           e == Head(pools[p])
<1>1. p \in Port /\ pools[p] # <<>> /\ pools' = [pools EXCEPT ![p] = Tail(@)]
  BY DEF TypeOK
<1>2. e \in Entries /\ e = pools[p][1] /\ 1 \in DOMAIN pools[p] /\ Tail(pools[p]) \in Seq(Entries)
  BY <1>1, TailFacts DEF TypeOK
<1>3. e.conn \in Conn /\ e.conn # NoConn /\ sock[e.conn] # "unused"
  BY <1>1, <1>2, PooledConn DEF MadeOK
<1>4. held[j] = NoConn
  BY DEF HoldersOK, Holding, Forgotten, TypeOK
<1>5. \A q \in Port : \A i \in DOMAIN pools'[q] :
        \E k \in DOMAIN pools[q] : pools'[q][i] = pools[q][k]
  BY <1>1, TailFacts DEF TypeOK
<1>6. TypeOK'
  BY <1>1, <1>2, <1>3 DEF TypeOK, JobSteps, SockStates
<1>7. HoldersOK'
  BY <1>3, <1>4 DEF TypeOK, HoldersOK, Holding, Forgotten
<1>8. \A c \in Conn : sock[c] # "unused" => sock'[c] # "unused"
  BY DEF TypeOK
<1>9. \A k \in Job : held'[k] # NoConn => held'[k] = held[k] \/ held'[k] = e.conn
  BY DEF TypeOK
<1>10. MadeOK'
  <2>1. \A k \in Job : held'[k] # NoConn => sock'[held'[k]] # "unused"
    BY <1>3, <1>8, <1>9 DEF TypeOK, MadeOK
  <2>2. \A q \in Port : \A i \in DOMAIN pools'[q] : sock'[pools'[q][i].conn] # "unused"
    BY <1>5, <1>8, PooledConn DEF MadeOK
  <2> QED
    BY <2>1, <2>2 DEF MadeOK
<1>11. RunsOK' /\ TwiceOnlyAfterReuse'
  <2>r. runs \in [Job -> 0 .. 2]
    BY DEF TypeOK
  <2>1. UNCHANGED runs /\ reused \subseteq reused'
    BY DEF TypeOK
  <2>2. RunsOK'
    BY <2>1 DEF TypeOK, RunsOK
  <2>3. ASSUME NEW k \in Job PROVE runs'[k] <= IF k \in reused' THEN 2 ELSE 1
    BY <2>1, <2>r DEF TwiceOnlyAfterReuse
  <2> QED
    BY <2>2, <2>3 DEF TwiceOnlyAfterReuse
<1>12. \A q \in Port : pools'[q] # <<>> => pools[q] # <<>>
  BY <1>1 DEF TypeOK
<1>13. ToVisitOK'
  BY <1>12 DEF ToVisitOK, closeVars
<1>14. PoolBounded'
  <2>1. \A q \in Port : Len(pools'[q]) <= Len(pools[q])
    BY <1>1, TailFacts DEF TypeOK
  <2>2. \A q \in Port : Len(pools'[q]) \in Nat /\ Len(pools[q]) \in Nat
    BY <1>6 DEF TypeOK
  <2> QED
    BY <2>1, <2>2, PoolAssumption DEF PoolAssumption, PoolBounded
<1>15. Exclusive'
  BY <1>1, <1>4, ExclusivePop
<1> QED
  BY <1>6, <1>7, <1>10, <1>11, <1>13, <1>14, <1>15

\* Steps after which a job has no connection any more, or keeps the one it has.
LEMMA RespondStep ==
  ASSUME IInv, ForgottenOK', NEW j \in Job, Respond(j) PROVE IInv'
<1>1. /\ pc[j] \in {"send", "retry"} /\ held[j] # NoConn
      /\ sock' = [sock EXCEPT ![held[j]] = "open"]
      /\ pc' = [pc EXCEPT ![j] = "streaming"] \/ pc' = [pc EXCEPT ![j] = "orphaned"]
      /\ UNCHANGED <<clock, known, pools, port, now, held, reused, gone, closeVars>>
  BY DEF Respond, Goto, IInv, HoldersOK, Holding, Forgotten
<1>2. TypeOK /\ runs \in [Job -> 0 .. 2]
  BY DEF IInv, TypeOK
<1>3. runs[j] = 0 \/ (runs[j] = 1 /\ j \in reused)
  BY <1>1, <1>2 DEF IInv, RunsOK
<1>4. runs' = [runs EXCEPT ![j] = runs[j] + 1]
  BY DEF Respond
<1>5. /\ runs' \in [Job -> 0 .. 2]
      /\ runs'[j] <= IF j \in reused THEN 2 ELSE 1
      /\ \A k \in Job \ {j} : runs'[k] = runs[k]
  BY <1>2, <1>3, <1>4
<1>6. TypeOK'
  BY <1>1, <1>2, <1>5 DEF TypeOK, JobSteps, SockStates, closeVars
<1>7. HoldersOK'
  BY <1>1, <1>2 DEF IInv, TypeOK, HoldersOK, Holding, Forgotten
<1>8. RunsOK'
  BY <1>1, <1>2, <1>5 DEF TypeOK, RunsOK, IInv
<1>9. TwiceOnlyAfterReuse'
  <2>1. ASSUME NEW k \in Job PROVE runs'[k] <= IF k \in reused' THEN 2 ELSE 1
    BY <1>1, <1>2, <1>5 DEF TwiceOnlyAfterReuse, IInv
  <2> QED
    BY <2>1 DEF TwiceOnlyAfterReuse
<1>10. MadeOK'
  BY <1>1, <1>2, PooledConn DEF TypeOK, MadeOK, IInv
<1>11. Exclusive'
  BY <1>1, <1>2, ExclusiveKept DEF TypeOK
<1>12. ToVisitOK' /\ PoolBounded'
  BY <1>1 DEF ToVisitOK, PoolBounded, closeVars, IInv
<1> QED
  BY <1>6, <1>7, <1>8, <1>9, <1>10, <1>11, <1>12 DEF IInv

\* The exception of a _send, after the close.
LEMMA FailStep ==
  ASSUME IInv, ForgottenOK', NEW j \in Job, Fail(j) PROVE IInv'
<1>1. /\ pc[j] \in {"send", "retry"}
      /\ sock' = [sock EXCEPT ![held[j]] = "closed"]
      /\ held' = [held EXCEPT ![j] = NoConn]
      /\ pc' = [pc EXCEPT ![j] = "failed"]
      /\ UNCHANGED <<clock, known, pools, port, now, reused, gone, closeVars>>
  BY DEF Fail, Goto
<1>2. TypeOK /\ runs \in [Job -> 0 .. 2]
  BY DEF IInv, TypeOK
<1>3. runs[j] = 0 \/ (runs[j] = 1 /\ j \in reused)
  BY <1>1, <1>2 DEF IInv, RunsOK
<1>4. runs' = runs \/ runs' = [runs EXCEPT ![j] = runs[j] + 1]
  BY DEF Fail, Attempted
<1>5. /\ runs' \in [Job -> 0 .. 2]
      /\ runs'[j] <= IF j \in reused THEN 2 ELSE 1
      /\ \A k \in Job \ {j} : runs'[k] = runs[k]
  BY <1>2, <1>3, <1>4
<1>6. TypeOK'
  BY <1>1, <1>2, <1>5 DEF TypeOK, JobSteps, SockStates, closeVars
<1>7. HoldersOK'
  BY <1>1, <1>2 DEF IInv, TypeOK, HoldersOK, Holding, Forgotten
<1>8. RunsOK'
  BY <1>1, <1>2, <1>5 DEF TypeOK, RunsOK, IInv
<1>9. TwiceOnlyAfterReuse'
  <2>1. ASSUME NEW k \in Job PROVE runs'[k] <= IF k \in reused' THEN 2 ELSE 1
    BY <1>1, <1>2, <1>5 DEF TwiceOnlyAfterReuse, IInv
  <2> QED
    BY <2>1 DEF TwiceOnlyAfterReuse
<1>10. MadeOK'
  BY <1>1, <1>2, PooledConn DEF TypeOK, MadeOK, IInv
<1>11. Exclusive'
  BY <1>1, <1>2, ExclusiveKept DEF TypeOK
<1>12. ToVisitOK' /\ PoolBounded'
  BY <1>1 DEF ToVisitOK, PoolBounded, closeVars, IInv
<1> QED
  BY <1>6, <1>7, <1>8, <1>9, <1>10, <1>11, <1>12 DEF IInv

\* release, of a connection that is not kept.
LEMMA ReleaseAndCloseStep ==
  ASSUME IInv, ForgottenOK', NEW j \in Job, ReleaseAndClose(j) PROVE IInv'
<1>1. /\ sock' = [sock EXCEPT ![held[j]] = "closed"]
      /\ held' = [held EXCEPT ![j] = NoConn]
      /\ pc' = [pc EXCEPT ![j] = "done"]
      /\ UNCHANGED <<clock, known, pools, port, now, reused, runs, gone, closeVars>>
  BY DEF ReleaseAndClose, Goto
<1>2. TypeOK
  BY DEF IInv
<1>3. TypeOK'
  BY <1>1, <1>2 DEF TypeOK, JobSteps, SockStates, closeVars
<1>4. HoldersOK'
  BY <1>1, <1>2 DEF IInv, TypeOK, HoldersOK, Holding, Forgotten
<1>5. RunsOK' /\ TwiceOnlyAfterReuse'
  BY <1>1, <1>2 DEF TypeOK, RunsOK, TwiceOnlyAfterReuse, IInv
<1>6. MadeOK'
  BY <1>1, <1>2, PooledConn DEF TypeOK, MadeOK, IInv
<1>7. Exclusive'
  BY <1>1, <1>2, ExclusiveKept DEF TypeOK
<1>8. ToVisitOK' /\ PoolBounded'
  BY <1>1 DEF ToVisitOK, PoolBounded, closeVars, IInv
<1> QED
  BY <1>3, <1>4, <1>5, <1>6, <1>7, <1>8 DEF IInv

\* Every handler that was streaming releases its connection.
LEMMA StopStep ==
  ASSUME IInv, ForgottenOK', Stop PROVE IInv'
<1> DEFINE streaming == {j \in Job : pc[j] = "streaming"}
<1>1. /\ pc' = [j \in Job |-> IF j \in streaming THEN "done" ELSE pc[j]]
      /\ held' = [j \in Job |-> IF j \in streaming THEN NoConn ELSE held[j]]
      /\ sock' = [c \in Conn |-> IF \E j \in streaming : held[j] = c THEN "closed" ELSE sock[c]]
      /\ closer = "off" /\ closer' = "next" /\ todo' = known
      /\ UNCHANGED <<clock, known, pools, port, now, reused, runs, gone, current>>
  BY DEF Stop
<1>2. TypeOK
  BY DEF IInv
<1>3. keys' \subseteq Port
  BY <1>2 DEF Stop, TypeOK
<1>4. TypeOK'
  BY <1>1, <1>2, <1>3 DEF TypeOK, JobSteps, SockStates, CloserSteps
<1>5. HoldersOK'
  BY <1>1, <1>2, PoolAssumption DEF PoolAssumption, IInv, TypeOK, HoldersOK, Holding, Forgotten
<1>6. RunsOK' /\ TwiceOnlyAfterReuse'
  BY <1>1, <1>2 DEF TypeOK, RunsOK, TwiceOnlyAfterReuse, IInv
<1>7. MadeOK'
  <2>1. \A c \in Conn : sock[c] # "unused" => sock'[c] # "unused"
    BY <1>1
  <2>2. \A k \in Job : held'[k] # NoConn => sock'[held'[k]] # "unused"
    BY <1>1, <1>2, <2>1 DEF IInv, TypeOK, MadeOK
  <2>3. \A p \in Port : \A i \in DOMAIN pools'[p] : sock'[pools'[p][i].conn] # "unused"
    BY <1>1, <1>2, <2>1, PooledConn DEF IInv, MadeOK
  <2> QED
    BY <2>2, <2>3 DEF MadeOK
<1>8. Exclusive'
  <2>1. held' \in [Job -> Conn \cup {NoConn}]
    BY <1>1, <1>2 DEF TypeOK
  <2>2. \A j \in Job : held'[j] = held[j] \/ held'[j] = NoConn
    BY <1>1
  <2> QED
    BY <1>1, <2>1, <2>2, ExclusiveKept
<1>9. ToVisitOK' /\ PoolBounded'
  BY <1>1 DEF ToVisitOK, PoolBounded, IInv
<1> QED
  BY <1>4, <1>5, <1>6, <1>7, <1>8, <1>9 DEF IInv

\* close_pools takes a connection out, or finds that a thread was faster.
LEMMA CloserPopStep ==
  ASSUME IInv, ForgottenOK', CloserPop PROVE IInv'
<1>1. TypeOK /\ UNCHANGED <<clock, known, jobVars, gone, todo, current, keys>>
  BY DEF CloserPop, IInv
<1>2. CASE pools[current] = <<>>
  <2>1. closer' = "raised" /\ UNCHANGED <<pools, sock>>
    BY <1>2 DEF CloserPop
  <2>2. TypeOK'
    BY <1>1, <2>1 DEF TypeOK, CloserSteps, jobVars
  <2>3. HoldersOK' /\ MadeOK' /\ RunsOK' /\ ToVisitOK'
    BY <1>1, <2>1 DEF IInv, HoldersOK, MadeOK, RunsOK, ToVisitOK, jobVars
  <2>4. Exclusive' /\ PoolBounded' /\ TwiceOnlyAfterReuse'
    BY <1>1, <2>1 DEF IInv, Exclusive, HeldOnce, PooledOnce, PooledNotHeld, PoolBounded,
       TwiceOnlyAfterReuse, jobVars
  <2> QED
    BY <2>2, <2>3, <2>4 DEF IInv
<1>3. CASE pools[current] # <<>>
  <2> DEFINE e == Head(pools[current])
  <2>1. /\ current \in Port
        /\ sock' = [sock EXCEPT ![e.conn] = "closed"]
        /\ pools' = [pools EXCEPT ![current] = Tail(@)]
        /\ closer = "pop" /\ closer' = "check"
    BY <1>1, <1>3 DEF CloserPop, TypeOK
  <2>2. \A q \in Port : \A i \in DOMAIN pools'[q] :
          \E k \in DOMAIN pools[q] : pools'[q][i] = pools[q][k]
    BY <1>1, <1>3, <2>1, TailFacts DEF TypeOK
  <2>3. e = pools[current][1] /\ 1 \in DOMAIN pools[current] /\ Tail(pools[current]) \in Seq(Entries)
    BY <1>1, <1>3, <2>1, TailFacts DEF TypeOK
  <2>4. e.conn \in Conn
    BY <1>1, <2>1, <2>3, PooledConn
  <2>5. TypeOK'
    BY <1>1, <2>1, <2>3, <2>4 DEF TypeOK, CloserSteps, SockStates, jobVars
  <2>6. HoldersOK' /\ RunsOK' /\ TwiceOnlyAfterReuse'
    BY <1>1 DEF IInv, HoldersOK, RunsOK, TwiceOnlyAfterReuse, jobVars
  <2>7. MadeOK'
    <3>1. \A c \in Conn : sock[c] # "unused" => sock'[c] # "unused"
      BY <1>1, <2>1 DEF TypeOK
    <3>2. \A k \in Job : held'[k] # NoConn => sock'[held'[k]] # "unused"
      BY <1>1, <3>1 DEF IInv, TypeOK, MadeOK, jobVars
    <3>3. \A p \in Port : \A i \in DOMAIN pools'[p] : sock'[pools'[p][i].conn] # "unused"
      BY <1>1, <2>2, <3>1, PooledConn DEF IInv, MadeOK
    <3> QED
      BY <3>2, <3>3 DEF MadeOK
  <2>8. ToVisitOK'
    BY <1>1, <2>1 DEF TypeOK, IInv, ToVisitOK
  <2>9. PoolBounded'
    <3>1. \A q \in Port : Len(pools'[q]) <= Len(pools[q])
      BY <1>1, <1>3, <2>1, TailFacts DEF TypeOK
    <3>2. \A q \in Port : Len(pools'[q]) \in Nat /\ Len(pools[q]) \in Nat
      BY <1>1, <2>5 DEF TypeOK
    <3> QED
      BY <3>1, <3>2, PoolAssumption DEF IInv, PoolAssumption, PoolBounded
  <2>10. Exclusive'
    BY <1>1, <1>3, <2>1, ExclusivePop DEF jobVars
  <2> QED
    BY <2>5, <2>6, <2>7, <2>8, <2>9, <2>10 DEF IInv
<1> QED
  BY <1>2, <1>3

\* release, of a connection that is kept.
LEMMA ReleaseToPoolStep ==
  ASSUME IInv, ForgottenOK', NEW j \in Job, ReleaseToPool(j) PROVE IInv'
<1> DEFINE p == port[j]
           e == [conn |-> held[j], at |-> clock]
<1>1. /\ pc[j] = "streaming" /\ closer = "off" /\ Len(pools[p]) < PoolLimit
      /\ pools' = [pools EXCEPT ![p] = Append(@, e)]
      /\ known' = known \cup {p}
      /\ held' = [held EXCEPT ![j] = NoConn]
      /\ pc' = [pc EXCEPT ![j] = "done"]
      /\ UNCHANGED <<clock, port, now, reused, runs, sock, gone, closeVars>>
  BY DEF ReleaseToPool, Goto
<1>2. TypeOK /\ p \in Port /\ clock \in 0 .. MaxTime /\ pools[p] \in Seq(Entries)
  BY DEF IInv, TypeOK
<1>3. held[j] # NoConn /\ held[j] \in Conn
  BY <1>1, <1>2 DEF IInv, HoldersOK, Holding, Forgotten, TypeOK
<1>4. e \in Entries
  BY <1>2, <1>3 DEF Entries
<1>5. /\ Append(pools[p], e) \in Seq(Entries) /\ Append(pools[p], e) # <<>>
      /\ Len(Append(pools[p], e)) = Len(pools[p]) + 1
      /\ \A i \in DOMAIN Append(pools[p], e) :
           \/ i \in DOMAIN pools[p] /\ Append(pools[p], e)[i] = pools[p][i]
           \/ Append(pools[p], e)[i] = e
  BY <1>2, <1>4, AppendFacts
<1>6. TypeOK'
  BY <1>1, <1>2, <1>5 DEF TypeOK, JobSteps, closeVars
<1>7. HoldersOK'
  BY <1>1, <1>2 DEF IInv, TypeOK, HoldersOK, Holding, Forgotten
<1>8. RunsOK' /\ TwiceOnlyAfterReuse'
  BY <1>1, <1>2 DEF TypeOK, RunsOK, TwiceOnlyAfterReuse, IInv
<1>9. MadeOK'
  <2>1. \A k \in Job : held'[k] # NoConn => sock'[held'[k]] # "unused"
    BY <1>1, <1>2 DEF IInv, TypeOK, MadeOK
  <2>2. sock[held[j]] # "unused"
    BY <1>3 DEF IInv, MadeOK
  <2>3. \A q \in Port : \A i \in DOMAIN pools'[q] :
          (i \in DOMAIN pools[q] /\ pools'[q][i] = pools[q][i]) \/ pools'[q][i].conn = held[j]
    BY <1>1, <1>2, <1>5 DEF TypeOK
  <2>4. \A q \in Port : \A i \in DOMAIN pools'[q] : sock'[pools'[q][i].conn] # "unused"
    BY <1>1, <2>2, <2>3 DEF IInv, MadeOK
  <2> QED
    BY <2>1, <2>4 DEF MadeOK
<1>10. ToVisitOK'
  BY <1>1, <1>2 DEF TypeOK, ToVisitOK, IInv, closeVars
<1>11. PoolBounded'
  <2>1. \A q \in Port : q # p => pools'[q] = pools[q]
    BY <1>1, <1>2 DEF TypeOK
  <2>2. Len(pools'[p]) <= PoolLimit
    BY <1>1, <1>2, <1>5, PoolAssumption DEF TypeOK, PoolAssumption
  <2> QED
    BY <2>1, <2>2 DEF IInv, PoolBounded
<1>12. Exclusive'
  BY <1>1, <1>2, <1>3, ExclusiveRelease
<1> QED
  BY <1>6, <1>7, <1>8, <1>9, <1>10, <1>11, <1>12 DEF IInv

\* Each step of the threads, the loop, the local apps and close_pools.
LEMMA NextIInv == IInv /\ [Next]_vars => IInv'
<1> SUFFICES ASSUME IInv, [Next]_vars PROVE IInv'
  OBVIOUS
<1>0. ForgottenOK'
  BY ForgottenStep DEF IInv
<1>1. ASSUME NEW j \in Job, ThreadStep(j) PROVE IInv'
  BY <1>0, <1>1, QuietStep, FindNoneStep, PopStep, RespondStep, RetryStep, FailStep DEF ThreadStep
<1>2. ASSUME NEW j \in Job, Submit(j) \/ ReleaseToPool(j) \/ ReleaseAndClose(j) PROVE IInv'
  BY <1>0, <1>2, QuietStep, ReleaseToPoolStep, ReleaseAndCloseStep
<1>3. CASE Tick \/ (\E c \in Conn : AppCloses(c)) \/ UNCHANGED vars
  BY <1>0, <1>3, QuietStep
<1>4. CASE Stop \/ CloserNext \/ CloserCheck \/ CloserPop
  BY <1>0, <1>4, StopStep, CloserMoves, CloserPopStep
<1> QED
  BY <1>1, <1>2, <1>3, <1>4 DEF Next

\* What the proofs below start from.
LEMMA AlwaysIInv == Spec => []IInv
  BY InitIInv, NextIInv, PTL DEF Spec

-----------------------------------------------------------------------------
(* Open sockets *)

Pooled(c) == \E p \in Port : \E i \in DOMAIN pools[p] : pools[p][i].conn = c

\* Every open socket is in a pool, or a request has it or was the last to have it.
NoneAdrift == \A c \in Conn : sock[c] = "open" => (\E j \in Job : held[j] = c) \/ Pooled(c)

\* What leaves the deque of a port is its first entry.
LEMMA PooledAfterPop ==
  ASSUME TypeOK, NEW p \in Port, pools[p] # <<>>,
         pools' = [pools EXCEPT ![p] = Tail(@)],
         NEW c, Pooled(c), c # Head(pools[p]).conn
  PROVE  Pooled(c)'
<1>1. PICK q \in Port : \E i \in DOMAIN pools[q] : pools[q][i].conn = c
  BY DEF Pooled
<1>2. PICK i \in DOMAIN pools[q] : pools[q][i].conn = c
  BY <1>1
<1>3. CASE q # p
  BY <1>2, <1>3 DEF TypeOK, Pooled
<1>4. CASE q = p
  <2>1. pools[p] \in Seq(Entries) /\ pools'[p] = Tail(pools[p])
    BY DEF TypeOK
  <2>2. i \in 1 .. Len(pools[p]) /\ i # 1
    BY <1>2, <1>4, <2>1
  <2>3. i - 1 \in DOMAIN Tail(pools[p]) /\ Tail(pools[p])[i - 1] = pools[p][i]
    BY <2>1, <2>2
  <2> QED
    BY <1>2, <1>4, <2>1, <2>3 DEF Pooled
<1> QED
  BY <1>3, <1>4

\* What a deque gets is there, and all that it had.
LEMMA PooledAfterRelease ==
  ASSUME TypeOK, NEW p \in Port, NEW e \in Entries,
         pools' = [pools EXCEPT ![p] = Append(@, e)],
         NEW c, Pooled(c) \/ c = e.conn
  PROVE  Pooled(c)'
<1>1. pools[p] \in Seq(Entries) /\ pools'[p] = Append(pools[p], e)
  BY DEF TypeOK
<1>2. CASE c = e.conn
  <2>1. Len(pools[p]) + 1 \in DOMAIN pools'[p] /\ pools'[p][Len(pools[p]) + 1] = e
    BY <1>1
  <2> QED
    BY <1>2, <2>1 DEF Pooled
<1>3. CASE Pooled(c)
  <2>1. PICK q \in Port : \E i \in DOMAIN pools[q] : pools[q][i].conn = c
    BY <1>3 DEF Pooled
  <2>2. PICK i \in DOMAIN pools[q] : pools[q][i].conn = c
    BY <2>1
  <2>3. i \in DOMAIN pools'[q] /\ pools'[q][i] = pools[q][i]
    <3>1. CASE q = p
      BY <1>1, <2>2, <3>1
    <3>2. CASE q # p
      BY <2>2, <3>2 DEF TypeOK
    <3> QED
      BY <3>1, <3>2
  <2> QED
    BY <2>2, <2>3 DEF Pooled
<1> QED
  BY <1>2, <1>3

\* A thread leaves no open socket behind.
LEMMA NoneAdriftByThread ==
  ASSUME IInv, NoneAdrift, NEW j \in Job, ThreadStep(j) PROVE NoneAdrift'
<1> SUFFICES ASSUME NEW c \in Conn, sock'[c] = "open"
             PROVE  (\E k \in Job : held'[k] = c) \/ Pooled(c)'
  BY DEF NoneAdrift, Pooled
<1> USE DEF closeVars, jobVars
<1>0. /\ TypeOK
      /\ sock[c] = "open" => (\E k \in Job : held[k] = c) \/ Pooled(c)
  BY DEF IInv, NoneAdrift, Pooled
<1>1. CASE Begin(j) \/ FindSome(j) \/ PopEmpty(j) \/ Unencodable(j)
  BY <1>0, <1>1 DEF Begin, FindSome, PopEmpty, Unencodable, Pooled
<1>2. CASE FindNone(j)
  <2>1. held[j] = NoConn
    BY <1>2 DEF FindNone, IInv, HoldersOK, Holding, Forgotten
  <2>2. PICK d \in Conn : /\ sock[d] = "unused" /\ sock' = [sock EXCEPT ![d] = "fresh"]
                          /\ held' = [held EXCEPT ![j] = d] /\ pools' = pools
    BY <1>2 DEF FindNone
  <2>3. sock[c] = "open"
    BY <1>0, <2>2 DEF TypeOK
  <2>4. \A k \in Job : held[k] = c => held'[k] = c
    BY <1>0, <2>1, <2>2, PoolAssumption DEF PoolAssumption, TypeOK
  <2> QED
    BY <1>0, <2>2, <2>3, <2>4 DEF Pooled
<1>3. CASE PopFresh(j)
  <2>1. held[j] = NoConn
    BY <1>3 DEF PopFresh, IInv, HoldersOK, Holding, Forgotten
  <2>2. /\ pools[port[j]] # <<>> /\ port[j] \in Port /\ sock' = sock
        /\ held' = [held EXCEPT ![j] = Head(pools[port[j]]).conn]
        /\ pools' = [pools EXCEPT ![port[j]] = Tail(@)]
    BY <1>0, <1>3 DEF PopFresh, TypeOK
  <2>3. CASE c = Head(pools[port[j]]).conn
    BY <1>0, <2>2, <2>3 DEF TypeOK
  <2>4. CASE c # Head(pools[port[j]]).conn
    <3>1. \A k \in Job : held[k] = c => held'[k] = c
      BY <1>0, <2>1, <2>2, PoolAssumption DEF PoolAssumption, TypeOK
    <3> QED
      BY <1>0, <2>2, <2>4, <3>1, PooledAfterPop
  <2> QED
    BY <2>3, <2>4
<1>4. CASE PopStale(j)
  <2>1. /\ pools[port[j]] # <<>> /\ port[j] \in Port /\ held' = held
        /\ sock' = [sock EXCEPT ![Head(pools[port[j]]).conn] = "closed"]
        /\ pools' = [pools EXCEPT ![port[j]] = Tail(@)]
    BY <1>0, <1>4 DEF PopStale, TypeOK
  <2>2. c # Head(pools[port[j]]).conn /\ sock[c] = "open"
    BY <1>0, <2>1 DEF TypeOK
  <2> QED
    BY <1>0, <2>1, <2>2, PooledAfterPop
<1>5. CASE Respond(j)
  <2>1. held' = held /\ pools' = pools /\ sock' = [sock EXCEPT ![held[j]] = "open"]
    BY <1>5 DEF Respond
  <2> QED
    BY <1>0, <2>1 DEF TypeOK, Pooled
<1>6. CASE Retry(j) \/ Fail(j)
  <2>1. /\ pools' = pools
        /\ held[j] # NoConn
        /\ \E d \in Conn \cup {NoConn} :
             /\ held' = [held EXCEPT ![j] = d]
             /\ \/ sock' = [sock EXCEPT ![held[j]] = "closed", ![d] = "fresh"]
                \/ sock' = [sock EXCEPT ![held[j]] = "closed"]
    BY <1>6 DEF Retry, Fail, IInv, HoldersOK, Holding, Forgotten
  <2>2. sock[c] = "open" /\ c # held[j]
    BY <1>0, <2>1 DEF TypeOK
  <2>3. \A k \in Job : held[k] = c => held'[k] = c
    BY <1>0, <2>1, <2>2 DEF TypeOK
  <2> QED
    BY <1>0, <2>1, <2>2, <2>3 DEF Pooled
<1> QED
  BY <1>1, <1>2, <1>3, <1>4, <1>5, <1>6 DEF ThreadStep

\* Nor does release.
LEMMA NoneAdriftByLoop ==
  ASSUME IInv, NoneAdrift, NEW j \in Job, ReleaseToPool(j) \/ ReleaseAndClose(j)
  PROVE  NoneAdrift'
<1> SUFFICES ASSUME NEW c \in Conn, sock'[c] = "open"
             PROVE  (\E k \in Job : held'[k] = c) \/ Pooled(c)'
  BY DEF NoneAdrift, Pooled
<1>0. /\ TypeOK /\ held[j] \in Conn
      /\ sock[c] = "open" => (\E k \in Job : held[k] = c) \/ Pooled(c)
  BY DEF IInv, NoneAdrift, Pooled, TypeOK, HoldersOK, Holding, Forgotten, ReleaseToPool, ReleaseAndClose
<1>1. \A k \in Job : held[k] = c => held'[k] = c \/ c = held[j]
  BY <1>0 DEF TypeOK, ReleaseToPool, ReleaseAndClose
<1>2. CASE ReleaseToPool(j)
  <2> DEFINE e == [conn |-> held[j], at |-> clock]
  <2>1. /\ pools' = [pools EXCEPT ![port[j]] = Append(@, e)] /\ sock' = sock
        /\ port[j] \in Port /\ e \in Entries /\ e.conn = held[j]
    BY <1>0, <1>2 DEF ReleaseToPool, TypeOK, Entries
  <2> HIDE DEF e
  <2> QED
    BY <1>0, <1>1, <2>1, PooledAfterRelease
<1>3. CASE ReleaseAndClose(j)
  <2>1. pools' = pools /\ sock' = [sock EXCEPT ![held[j]] = "closed"]
    BY <1>3 DEF ReleaseAndClose
  <2> QED
    BY <1>0, <1>1, <2>1 DEF TypeOK, Pooled
<1> QED
  BY <1>2, <1>3

\* Nor does close_pools.
LEMMA NoneAdriftByCloser ==
  ASSUME IInv, NoneAdrift, Stop \/ CloserNext \/ CloserCheck \/ CloserPop
  PROVE  NoneAdrift'
<1> SUFFICES ASSUME NEW c \in Conn, sock'[c] = "open"
             PROVE  (\E k \in Job : held'[k] = c) \/ Pooled(c)'
  BY DEF NoneAdrift, Pooled
<1>0. /\ TypeOK
      /\ sock[c] = "open" => (\E k \in Job : held[k] = c) \/ Pooled(c)
  BY DEF IInv, NoneAdrift, Pooled
<1>1. CASE Stop
  <2>1. pools' = pools /\ sock[c] = "open"
    BY <1>0, <1>1 DEF Stop, TypeOK
  <2>2. \A k \in Job : held[k] = c => held'[k] = c
    BY <1>0, <1>1 DEF Stop, TypeOK
  <2> QED
    BY <1>0, <2>1, <2>2 DEF Pooled
<1>2. CASE CloserNext \/ CloserCheck
  BY <1>0, <1>2 DEF CloserNext, CloserCheck, jobVars, Pooled
<1>3. CASE CloserPop
  <2>1. CASE pools[current] = <<>>
    BY <1>0, <1>3, <2>1 DEF CloserPop, jobVars, Pooled
  <2>2. CASE pools[current] # <<>>
    <3>1. /\ current \in Port /\ held' = held
          /\ sock' = [sock EXCEPT ![Head(pools[current]).conn] = "closed"]
          /\ pools' = [pools EXCEPT ![current] = Tail(@)]
      BY <1>0, <1>3, <2>2 DEF CloserPop, TypeOK, jobVars
    <3>2. c # Head(pools[current]).conn /\ sock[c] = "open"
      BY <1>0, <3>1 DEF TypeOK
    <3> QED
      BY <1>0, <2>2, <3>1, <3>2, PooledAfterPop
  <2> QED
    BY <2>1, <2>2
<1> QED
  BY <1>1, <1>2, <1>3

\* Nor does anything else.
LEMMA NextNoneAdrift == IInv /\ NoneAdrift /\ [Next]_vars => NoneAdrift'
<1> SUFFICES ASSUME IInv, NoneAdrift, [Next]_vars PROVE NoneAdrift'
  OBVIOUS
<1>1. CASE Tick \/ (\E c \in Conn : AppCloses(c)) \/ (\E j \in Job : Submit(j)) \/ UNCHANGED vars
  BY <1>1 DEF NoneAdrift, Pooled, Tick, AppCloses, Submit, vars, jobVars
<1> QED
  BY <1>1, NoneAdriftByThread, NoneAdriftByLoop, NoneAdriftByCloser DEF Next

-----------------------------------------------------------------------------
(* The theorems *)

\* TypeOK is an invariant: in particular no request is carried out three times.
THEOREM TypeCorrect == Spec => []TypeOK
<1>1. IInv => TypeOK
  BY DEF IInv
<1> QED
  BY <1>1, AlwaysIInv, PTL

\* A connection is used by one request at a time, or is once in a pool.
THEOREM ConnectionsExclusive == Spec => []Exclusive
<1>1. IInv => Exclusive
  BY DEF IInv
<1> QED
  BY <1>1, AlwaysIInv, PTL

\* No pool grows beyond its limit.
THEOREM PoolsBounded == Spec => []PoolBounded
<1>1. IInv => PoolBounded
  BY DEF IInv
<1> QED
  BY <1>1, AlwaysIInv, PTL

\* Only a request that first went out on a pooled connection can be carried
\* out twice.
THEOREM RunsTwiceOnlyAfterReuse == Spec => []TwiceOnlyAfterReuse
<1>1. IInv => TwiceOnlyAfterReuse
  BY DEF IInv
<1> QED
  BY <1>1, AlwaysIInv, PTL

\* close_pools leaves no idle connection behind, unless it raises.
THEOREM PoolsClosedOnReturn == Spec => []ClosedOnReturn
<1>1. IInv => ClosedOnReturn
  BY DEF IInv, TypeOK, ToVisitOK, ClosedOnReturn
<1> QED
  BY <1>1, AlwaysIInv, PTL

\* The open sockets that nobody can close any more are those of the responses
\* that come after the handlers are gone, and those of the pooled connections
\* whose request could not be encoded; every other one is in a pool or with a
\* request that works with it (http_proxy.py:101-115, 139, 170).
THEOREM NoSocketLost == Spec => []NoLostSocket
<1>1. Init => NoneAdrift
  BY DEF Init, NoneAdrift
<1>2. IInv /\ NoneAdrift => NoLostSocket
  <2> SUFFICES ASSUME IInv, NoneAdrift, NEW c \in Conn, sock[c] = "open", ~ Pooled(c)
               PROVE  \E j \in Job : /\ held[j] = c
                                    /\ \/ pc[j] \in {"send", "retry", "streaming"}
                                       \/ pc[j] = "unencoded" /\ j \in reused
                                       \/ pc[j] = "orphaned" /\ closer # "off"
    BY DEF NoLostSocket, Pooled
  <2>1. PICK j \in Job : held[j] = c
    BY DEF NoneAdrift
  <2>2. pc[j] \in Holding
    BY <2>1, PoolAssumption DEF IInv, HoldersOK, PoolAssumption
  <2>3. ForgottenOK
    BY DEF IInv
  <2>4. CASE pc[j] \in {"send", "retry", "streaming"}
    BY <2>1, <2>4
  <2>5. CASE pc[j] = "unencoded"
    <3>1. j \in reused
      BY <2>3, <2>5 DEF ForgottenOK
    <3> QED
      BY <2>1, <2>5, <3>1, Zenon
  <2>6. CASE pc[j] = "orphaned"
    BY <2>1, <2>3, <2>6 DEF ForgottenOK
  <2> QED
    BY <2>2, <2>4, <2>5, <2>6 DEF Holding, Forgotten
<1> QED
  BY <1>1, <1>2, NextNoneAdrift, AlwaysIInv, PTL DEF Spec

-----------------------------------------------------------------------------
(* What KeepAlive sees of a step *)

\* Nobody works with a connection that has been closed.
LiveOK == \A j \in Job : held[j] # NoConn => sock[held[j]] # "closed"

\* _get_conn has not found a connection yet.
Looking == {"idle", "called", "check", "pop"}

LookingOK == \A j \in Job : pc[j] \in Looking => j \notin reused

\* One request moves on.
LEMMA StageMoves ==
  ASSUME NEW j \in Job, \A k \in Job \ {j} : pc'[k] = pc[k] /\ (k \in reused' <=> k \in reused)
  PROVE  Stage' = [Stage EXCEPT ![j] = Stage'[j]]
<1>1. Stage = [k \in Job |-> Stage[k]] /\ Stage' = [k \in Job |-> Stage'[k]]
  BY DEF Stage
<1>2. \A k \in Job \ {j} : StageOf(k)' = StageOf(k)
  BY DEF StageOf, Forgotten
<1>3. \A k \in Job \ {j} : Stage'[k] = Stage[k]
  BY <1>2 DEF Stage
<1> QED
  BY <1>1, <1>3

\* A request that is still looking for a connection has none, wherever it looks.
LEMMA StageStays ==
  ASSUME UNCHANGED reused, \A j \in Job : pc'[j] = pc[j] \/ {pc[j], pc'[j]} \subseteq {"idle", "called", "check", "pop"}
  PROVE  UNCHANGED Stage
<1>1. Stage = [j \in Job |-> Stage[j]] /\ Stage' = [j \in Job |-> Stage'[j]]
  BY DEF Stage
<1>2. \A j \in Job : StageOf(j)' = StageOf(j)
  BY DEF StageOf, Forgotten
<1>3. \A j \in Job : Stage'[j] = Stage[j]
  BY <1>2 DEF Stage
<1> QED
  BY <1>1, <1>3

\* One request moves on, and does not forget its connection.
LEMMA RequestMoves ==
  ASSUME TypeOK, NEW j \in Job, NEW step \in JobSteps \ Forgotten, NEW c \in Conn \cup {NoConn},
         pc[j] \notin Forgotten,
         pc' = [pc EXCEPT ![j] = step], held' = [held EXCEPT ![j] = c],
         \A k \in Job \ {j} : k \in reused' <=> k \in reused
  PROVE  Apps!Moves(j, Stage'[j], c) /\ Busy[j] = held[j] /\ UNCHANGED Lost
<1>1. pc'[j] = step /\ held'[j] = c /\ \A k \in Job \ {j} : pc'[k] = pc[k] /\ held'[k] = held[k]
  BY DEF TypeOK
<1>2. Stage' = [Stage EXCEPT ![j] = Stage'[j]]
  BY <1>1, StageMoves
<1>3. Busy' = [Busy EXCEPT ![j] = c]
  BY <1>1 DEF Busy
<1>4. UNCHANGED Lost
  BY <1>1 DEF Lost
<1> QED
  BY <1>2, <1>3, <1>4 DEF Apps!Moves, Busy

\* A step in which nobody gets, gives up or forgets a connection.
LEMMA NobodyMoves ==
  ASSUME UNCHANGED held, \A j \in Job : pc'[j] \in Forgotten <=> pc[j] \in Forgotten
  PROVE  UNCHANGED <<Busy, Lost>>
BY DEF Busy, Lost

\* close() of one connection.
LEMMA DeadAfterClose ==
  ASSUME sock \in [Conn -> SockStates], NEW c \in Conn, sock' = [sock EXCEPT ![c] = "closed"]
  PROVE  Dead' = Dead \cup {c}
  BY DEF Dead

\* A deque loses its first entry, and with it that connection.
LEMMA IdleAfterPop ==
  ASSUME IInv, NEW p \in Port, pools[p] # <<>>, pools' = [pools EXCEPT ![p] = Tail(@)]
  PROVE  /\ Head(pools[p]).conn \in Idle[p]
         /\ Idle' = [Idle EXCEPT ![p] = @ \ {Head(pools[p]).conn}]
<1> DEFINE c == Head(pools[p]).conn
<1>0. TypeOK /\ PooledOnce /\ pools[p] \in Seq(Entries)
  BY DEF IInv, Exclusive, TypeOK
<1>1. Head(pools[p]) = pools[p][1] /\ 1 \in DOMAIN pools[p]
  BY <1>0, TailFacts
<1>2. c \in Idle[p]
  BY <1>1 DEF Idle
<1>3. \A i \in DOMAIN pools[p] : i # 1 => pools[p][i].conn # c
  BY <1>0, <1>1 DEF PooledOnce
<1>4. \A i \in DOMAIN pools'[p] : pools'[p][i].conn \in Idle[p] \ {c}
  <2> SUFFICES ASSUME NEW i \in DOMAIN pools'[p] PROVE pools'[p][i].conn \in Idle[p] \ {c}
    OBVIOUS
  <2>1. pools'[p] = Tail(pools[p])
    BY <1>0 DEF TypeOK
  <2>2. i + 1 \in DOMAIN pools[p] /\ i + 1 # 1 /\ pools'[p][i] = pools[p][i + 1]
    <3>1. i \in DOMAIN Tail(pools[p])
      BY <2>1
    <3>2. /\ i + 1 \in DOMAIN pools[p] /\ i + 1 # 1
          /\ Tail(pools[p])[i] = pools[p][i + 1]
      BY <1>0, <3>1, TailFacts
    <3> QED
      BY <2>1, <3>2
  <2> QED
    BY <1>3, <2>2 DEF Idle
<1>5. \A d \in Idle[p] \ {c} : \E i \in DOMAIN pools'[p] : pools'[p][i].conn = d
  <2> SUFFICES ASSUME NEW d \in Idle[p], d # c PROVE \E i \in DOMAIN pools'[p] : pools'[p][i].conn = d
    OBVIOUS
  <2>1. PICK i \in DOMAIN pools[p] : pools[p][i].conn = d
    BY DEF Idle
  <2>2. pools'[p] = Tail(pools[p]) /\ i \in 1 .. Len(pools[p]) /\ i # 1
    BY <1>0, <1>1, <2>1 DEF TypeOK
  <2>3. i - 1 \in DOMAIN Tail(pools[p]) /\ Tail(pools[p])[i - 1] = pools[p][i]
    BY <1>0, <2>2
  <2> QED
    BY <2>1, <2>2, <2>3
<1>6. {pools'[p][i].conn : i \in DOMAIN pools'[p]} = Idle[p] \ {c}
  BY <1>4, <1>5
<1>7. \A q \in Port : q # p => pools'[q] = pools[q]
  BY <1>0 DEF TypeOK
<1>8. Idle = [q \in Port |-> Idle[q]] /\ Idle' = [q \in Port |-> Idle'[q]]
  BY DEF Idle
<1>9. \A q \in Port : q # p => Idle'[q] = Idle[q]
  BY <1>7 DEF Idle
<1>10. Idle'[p] = Idle[p] \ {c}
  <2>1. Idle'[p] = {pools'[p][i].conn : i \in DOMAIN pools'[p]}
    BY DEF Idle
  <2> QED
    BY <1>6, <2>1
<1> QED
  BY <1>2, <1>8, <1>9, <1>10

\* A deque gets one entry more.
LEMMA IdleAfterRelease ==
  ASSUME TypeOK, NEW p \in Port, NEW e \in Entries, pools' = [pools EXCEPT ![p] = Append(@, e)]
  PROVE  Idle' = [Idle EXCEPT ![p] = @ \cup {e.conn}]
<1>0. pools[p] \in Seq(Entries) /\ pools'[p] = Append(pools[p], e)
  BY DEF TypeOK
<1>1. \A i \in DOMAIN pools'[p] : pools'[p][i].conn \in Idle[p] \cup {e.conn}
  BY <1>0, AppendFacts DEF Idle
<1>2. \A d \in Idle[p] \cup {e.conn} : \E i \in DOMAIN pools'[p] : pools'[p][i].conn = d
  <2>1. Len(pools[p]) + 1 \in DOMAIN pools'[p] /\ pools'[p][Len(pools[p]) + 1] = e
    BY <1>0
  <2>2. ASSUME NEW i \in DOMAIN pools[p] PROVE i \in DOMAIN pools'[p] /\ pools'[p][i] = pools[p][i]
    BY <1>0
  <2> QED
    BY <2>1, <2>2 DEF Idle
<1>3. {pools'[p][i].conn : i \in DOMAIN pools'[p]} = Idle[p] \cup {e.conn}
  BY <1>1, <1>2
<1>4. \A q \in Port : q # p => pools'[q] = pools[q]
  BY DEF TypeOK
<1>5. Idle = [q \in Port |-> Idle[q]] /\ Idle' = [q \in Port |-> Idle'[q]]
  BY DEF Idle
<1>6. Idle'[p] = Idle[p] \cup {e.conn} /\ \A q \in Port : q # p => Idle'[q] = Idle[q]
  BY <1>3, <1>4 DEF Idle
<1> QED
  BY <1>5, <1>6

\* A set of connections is no larger than the deque they are in.
LEMMA IdleSize ==
  ASSUME TypeOK, NEW p \in Port
  PROVE  Cardinality(Idle[p]) \in Nat /\ Cardinality(Idle[p]) <= Len(pools[p])
<1> DEFINE D == 1 .. Len(pools[p])
           f == [i \in D |-> pools[p][i].conn]
<1>0. pools[p] \in Seq(Entries) /\ Len(pools[p]) \in Nat /\ DOMAIN pools[p] = D
  BY DEF TypeOK
<1>1. Idle[p] = {f[i] : i \in D}
  BY <1>0 DEF Idle
<1>2. f \in Surjection(D, Idle[p])
  BY <1>1 DEF Surjection
<1>3. IsFiniteSet(D) /\ Cardinality(D) = Len(pools[p])
  BY <1>0, FS_Interval
<1>4. IsFiniteSet(Idle[p]) /\ Cardinality(Idle[p]) <= Cardinality(D)
  BY <1>2, <1>3, FS_Surjection
<1> QED
  BY <1>3, <1>4, FS_CardinalityType

\* What KeepAlive sees of each step of a job.
LEMMA StageFacts ==
  \A j \in Job :
    /\ pc[j] \in {"idle", "called", "check", "pop"} => Stage[j] = "none"
    /\ pc[j] = "send" => Stage[j] = IF j \in reused THEN "pooled" ELSE "fresh"
    /\ pc[j] = "retry" => Stage[j] = "fresh"
    /\ pc[j] = "streaming" => Stage[j] = "answered"
    /\ pc[j] \in {"done", "failed", "index", "unencoded", "orphaned"} => Stage[j] = "over"
  BY DEF Stage, StageOf, Forgotten

\* The same of the state after a step.
LEMMA StageFactsAfter ==
  \A j \in Job :
    /\ pc'[j] \in {"idle", "called", "check", "pop"} => Stage'[j] = "none"
    /\ pc'[j] = "send" => Stage'[j] = IF j \in reused' THEN "pooled" ELSE "fresh"
    /\ pc'[j] = "retry" => Stage'[j] = "fresh"
    /\ pc'[j] = "streaming" => Stage'[j] = "answered"
    /\ pc'[j] \in {"done", "failed", "index", "unencoded", "orphaned"} => Stage'[j] = "over"
  BY DEF Stage, StageOf, Forgotten

\* A connection that has not been made yet is nowhere.
LEMMA UnusedIsNew ==
  ASSUME IInv, NEW c \in Conn, sock[c] = "unused"
  PROVE  Apps!New(c)
<1>1. \A j \in Job : held[j] # c
  BY PoolAssumption DEF PoolAssumption, IInv, TypeOK, MadeOK
<1>2. \A p \in Port : c \notin Idle[p]
  BY DEF IInv, MadeOK, Idle
<1>3. c \notin Dead /\ c \notin Lost
  BY <1>1 DEF Dead, Lost
<1>4. \A j \in Job : Busy[j] # c
  BY <1>1, PoolAssumption DEF Busy, PoolAssumption
<1> QED
  BY <1>2, <1>3, <1>4 DEF Apps!New

-----------------------------------------------------------------------------
(* LiveOK is invariant *)

\* close() is called by whoever has the connection, and by no one else.
LEMMA LiveStep ==
  ASSUME IInv, LiveOK, [Next]_vars
  PROVE  LiveOK'
<1>0. TypeOK /\ HeldOnce /\ HoldersOK
  BY DEF IInv, Exclusive
<1> USE DEF LiveOK
<1>1. ASSUME \A j \in Job : held'[j] = held[j] \/ held'[j] = NoConn,
             \A c \in Conn : sock'[c] = "closed" => sock[c] = "closed" \/ \A j \in Job : held'[j] # c
      PROVE  LiveOK'
  BY <1>0, <1>1 DEF TypeOK
<1>2. ASSUME NEW j \in Job, ThreadStep(j) PROVE LiveOK'
  <2>1. CASE Begin(j) \/ FindSome(j) \/ PopEmpty(j) \/ Unencodable(j)
    BY <1>1, <2>1 DEF Begin, FindSome, PopEmpty, Unencodable
  <2>2. CASE FindNone(j)
    <3>1. PICK c \in Conn : /\ sock[c] = "unused" /\ sock' = [sock EXCEPT ![c] = "fresh"]
                            /\ held' = [held EXCEPT ![j] = c]
      BY <2>2 DEF FindNone
    <3> QED
      BY <1>0, <3>1 DEF TypeOK
  <2>3. CASE PopFresh(j)
    <3>1. /\ held' = [held EXCEPT ![j] = Head(pools[port[j]]).conn] /\ sock' = sock
          /\ sock[Head(pools[port[j]]).conn] = "open"
      BY <2>3 DEF PopFresh, Usable
    <3> QED
      BY <1>0, <3>1 DEF TypeOK
  <2>4. CASE PopStale(j)
    <3>1. /\ held' = held /\ port[j] \in Port /\ pools[port[j]] # <<>>
          /\ sock' = [sock EXCEPT ![Head(pools[port[j]]).conn] = "closed"]
      BY <1>0, <2>4 DEF PopStale, TypeOK
    <3>2. Head(pools[port[j]]) = pools[port[j]][1] /\ 1 \in DOMAIN pools[port[j]]
      BY <1>0, <3>1, TailFacts DEF TypeOK
    <3>3. \A k \in Job : held[k] # Head(pools[port[j]]).conn
      BY <3>1, <3>2 DEF IInv, Exclusive, PooledNotHeld
    <3> QED
      BY <1>0, <1>1, <3>1, <3>3 DEF TypeOK
  <2>5. CASE Respond(j)
    BY <1>0, <1>1, <2>5 DEF Respond, TypeOK
  <2>6. CASE Retry(j)
    <3>1. PICK c \in Conn : /\ sock[c] = "unused"
                            /\ sock' = [sock EXCEPT ![held[j]] = "closed", ![c] = "fresh"]
                            /\ held' = [held EXCEPT ![j] = c]
      BY <2>6 DEF Retry
    <3>2. sock'[c] = "fresh" /\ \A d \in Conn : d \notin {c, held[j]} => sock'[d] = sock[d]
      BY <1>0, <3>1 DEF TypeOK
    <3>3. held[j] # NoConn /\ held'[j] = c /\ \A k \in Job : k # j => held'[k] = held[k] /\ (held[k] # held[j])
      BY <1>0, <2>6, <3>1 DEF Retry, HoldersOK, Holding, Forgotten, HeldOnce, TypeOK
    <3>4. \A k \in Job : held[k] # c
      BY <3>1, PoolAssumption DEF PoolAssumption, IInv, TypeOK, MadeOK
    <3>5. ASSUME NEW k \in Job, k # j, held'[k] # NoConn PROVE sock'[held'[k]] # "closed"
      <4>1. held'[k] = held[k] /\ held[k] \in Conn /\ held[k] \notin {c, held[j]}
        BY <1>0, <3>3, <3>4, <3>5 DEF TypeOK
      <4> QED
        BY <3>2, <3>5, <4>1
    <3> QED
      BY <3>2, <3>3, <3>5
  <2>7. CASE Fail(j)
    <3>1. sock' = [sock EXCEPT ![held[j]] = "closed"] /\ held' = [held EXCEPT ![j] = NoConn]
      BY <2>7 DEF Fail
    <3> QED
      BY <1>0, <3>1, PoolAssumption DEF PoolAssumption, TypeOK, HeldOnce
  <2> QED
    BY <1>2, <2>1, <2>2, <2>3, <2>4, <2>5, <2>6, <2>7 DEF ThreadStep
<1>3. ASSUME NEW j \in Job, Submit(j) PROVE LiveOK'
  BY <1>1, <1>3 DEF Submit
<1>4. ASSUME NEW j \in Job, ReleaseToPool(j) PROVE LiveOK'
  BY <1>0, <1>1, <1>4 DEF ReleaseToPool, TypeOK
<1>5. ASSUME NEW j \in Job, ReleaseAndClose(j) PROVE LiveOK'
  <2>1. sock' = [sock EXCEPT ![held[j]] = "closed"] /\ held' = [held EXCEPT ![j] = NoConn]
    BY <1>5 DEF ReleaseAndClose
  <2> QED
    BY <1>0, <2>1, PoolAssumption DEF PoolAssumption, TypeOK, HeldOnce
<1>6. CASE Stop
  <2> DEFINE streaming == {j \in Job : pc[j] = "streaming"}
  <2>1. /\ held' = [j \in Job |-> IF j \in streaming THEN NoConn ELSE held[j]]
        /\ sock' = [c \in Conn |-> IF \E j \in streaming : held[j] = c THEN "closed" ELSE sock[c]]
    BY <1>6 DEF Stop
  <2>2. \A k \in Job : held'[k] # NoConn => /\ held'[k] = held[k] /\ held[k] \in Conn
                                            /\ \A j \in streaming : held[j] # held[k]
    BY <1>0, <2>1 DEF TypeOK, HeldOnce
  <2> QED
    BY <2>1, <2>2
<1>7. CASE CloserPop
  <2>1. CASE pools[current] = <<>>
    BY <1>1, <1>7, <2>1 DEF CloserPop, jobVars
  <2>2. CASE pools[current] # <<>>
    <3>1. /\ held' = held /\ current \in Port
          /\ sock' = [sock EXCEPT ![Head(pools[current]).conn] = "closed"]
      BY <1>0, <1>7, <2>2 DEF CloserPop, jobVars, TypeOK
    <3>2. Head(pools[current]) = pools[current][1] /\ 1 \in DOMAIN pools[current]
      BY <1>0, <2>2, <3>1, TailFacts DEF TypeOK
    <3>3. \A k \in Job : held[k] # Head(pools[current]).conn
      BY <3>1, <3>2 DEF IInv, Exclusive, PooledNotHeld
    <3> QED
      BY <1>0, <1>1, <3>1, <3>3 DEF TypeOK
  <2> QED
    BY <2>1, <2>2
<1>8. CASE Tick \/ (\E c \in Conn : AppCloses(c)) \/ CloserNext \/ CloserCheck \/ UNCHANGED vars
  BY <1>1, <1>8 DEF Tick, AppCloses, CloserNext, CloserCheck, vars, jobVars
<1> QED
  BY <1>2, <1>3, <1>4, <1>5, <1>6, <1>7, <1>8 DEF Next

\* Only popleft puts a request among those with a pooled connection.
LEMMA LookingStep ==
  ASSUME TypeOK, LookingOK, [Next]_vars
  PROVE  LookingOK'
<1> USE DEF TypeOK, LookingOK, Looking
<1>1. ASSUME NEW j \in Job, ThreadStep(j) PROVE LookingOK'
  BY <1>1 DEF ThreadStep, Begin, FindSome, FindNone, PopFresh, PopStale, PopEmpty, Respond, Retry, Fail,
     Unencodable, Goto
<1>2. ASSUME NEW j \in Job, Submit(j) \/ ReleaseToPool(j) \/ ReleaseAndClose(j) PROVE LookingOK'
  BY <1>2 DEF Submit, ReleaseToPool, ReleaseAndClose, Goto
<1>3. CASE Stop
  BY <1>3 DEF Stop
<1>4. CASE Tick \/ (\E c \in Conn : AppCloses(c)) \/ CloserNext \/ CloserCheck \/ CloserPop \/ UNCHANGED vars
  BY <1>4 DEF Tick, AppCloses, CloserNext, CloserCheck, CloserPop, vars, jobVars
<1> QED
  BY <1>1, <1>2, <1>3, <1>4 DEF Next

-----------------------------------------------------------------------------
(* Each step is one of KeepAlive, or is not seen *)

\* _new_conn, as no pooled connection was found.
LEMMA AppsMake ==
  ASSUME IInv, LookingOK, NEW j \in Job, FindNone(j)
  PROVE  Apps!Make(j)
<1>0. TypeOK
  BY DEF IInv
<1>1. PICK c \in Conn : /\ sock[c] = "unused" /\ sock' = [sock EXCEPT ![c] = "fresh"]
                        /\ held' = [held EXCEPT ![j] = c]
  BY DEF FindNone
<1>2. /\ pc[j] = "check" /\ pc' = [pc EXCEPT ![j] = "send"] /\ j \notin reused
      /\ UNCHANGED <<pools, port, reused, closer>>
  BY DEF FindNone, Goto, closeVars, LookingOK, Looking
<1>3. Stage[j] = "none" /\ Stage'[j] = "fresh"
  BY <1>0, <1>2, StageFacts, StageFactsAfter DEF TypeOK
<1>4. Apps!Moves(j, "fresh", c) /\ UNCHANGED Lost
  BY <1>0, <1>1, <1>2, <1>3, RequestMoves DEF JobSteps, Forgotten
<1>5. Dead' = Dead
  BY <1>0, <1>1 DEF TypeOK, Dead
<1>6. UNCHANGED <<Idle, Phase>>
  BY <1>2 DEF Idle, Phase
<1> QED
  BY <1>1, <1>2, <1>3, <1>4, <1>5, <1>6, UnusedIsNew DEF Apps!Make

\* A pooled connection that is still good.
LEMMA AppsReuse ==
  ASSUME IInv, NEW j \in Job, PopFresh(j)
  PROVE  Apps!Reuse(j)
<1> DEFINE c == Head(pools[port[j]]).conn
<1>0. TypeOK /\ port[j] \in Port
  BY DEF IInv, TypeOK
<1>1. /\ pc[j] = "pop" /\ pc' = [pc EXCEPT ![j] = "send"] /\ pools[port[j]] # <<>>
      /\ reused' = reused \cup {j} /\ held' = [held EXCEPT ![j] = c]
      /\ pools' = [pools EXCEPT ![port[j]] = Tail(@)]
      /\ UNCHANGED <<port, sock, closer>>
  BY DEF PopFresh, Goto, closeVars
<1>2. c \in Idle[port[j]] /\ Idle' = [Idle EXCEPT ![port[j]] = @ \ {c}]
  BY <1>0, <1>1, IdleAfterPop
<1>3. Stage[j] = "none" /\ Stage'[j] = "pooled"
  BY <1>0, <1>1, StageFacts, StageFactsAfter DEF TypeOK
<1>4. Apps!Moves(j, "pooled", c) /\ UNCHANGED Lost
  <2>1. c \in Conn
    BY <1>0, <1>1, TailFacts, PooledConn DEF TypeOK
  <2> HIDE DEF c
  <2> QED
    BY <1>0, <1>1, <1>3, <2>1, RequestMoves DEF JobSteps, Forgotten
<1>5. UNCHANGED <<Dead, Phase>>
  BY <1>1 DEF Dead, Phase
<1> QED
  BY <1>1, <1>2, <1>3, <1>4, <1>5 DEF Apps!Reuse

\* A connection past its time, found by a thread or by close_pools.
LEMMA AppsExpire ==
  ASSUME IInv, NEW p \in Port, pools[p] # <<>>,
         pools' = [pools EXCEPT ![p] = Tail(@)],
         sock' = [sock EXCEPT ![Head(pools[p]).conn] = "closed"],
         UNCHANGED <<port, Busy, Lost, Stage, Phase>>
  PROVE  Apps!Expire(p)
<1> DEFINE c == Head(pools[p]).conn
<1>0. TypeOK
  BY DEF IInv
<1>1. c \in Idle[p] /\ Idle' = [Idle EXCEPT ![p] = @ \ {c}]
  BY IdleAfterPop
<1>2. c \in Conn
  BY <1>0, TailFacts, PooledConn DEF TypeOK
<1>3. Dead' = Dead \cup {c}
  BY <1>0, <1>2, DeadAfterClose DEF TypeOK
<1> QED
  BY <1>1, <1>3 DEF Apps!Expire

\* popleft of a deque that another thread has emptied.
LEMMA AppsGiveUp ==
  ASSUME IInv, NEW j \in Job, PopEmpty(j)
  PROVE  Apps!GiveUp(j)
<1>0. TypeOK /\ HoldersOK
  BY DEF IInv
<1>1. /\ pc[j] = "pop" /\ pc' = [pc EXCEPT ![j] = "index"]
      /\ UNCHANGED <<pools, port, held, reused, sock, closer>>
  BY DEF PopEmpty, Goto, closeVars
<1>2. Stage[j] = "none" /\ Stage'[j] = "over" /\ held' = [held EXCEPT ![j] = NoConn]
  BY <1>0, <1>1, StageFacts, StageFactsAfter DEF TypeOK, HoldersOK, Holding, Forgotten
<1>3. Apps!Moves(j, "over", NoConn) /\ UNCHANGED Lost
  BY <1>0, <1>1, <1>2, RequestMoves DEF JobSteps, Forgotten
<1> QED
  BY <1>1, <1>2, <1>3 DEF Apps!GiveUp, Dead, Idle, Phase

\* The response has come, and there is a handler to take it.
LEMMA AppsAnswer ==
  ASSUME IInv, LiveOK, NEW j \in Job, Respond(j), closer = "off"
  PROVE  Apps!Answer(j)
<1>0. TypeOK /\ held[j] # NoConn /\ held[j] \in Conn
  BY DEF IInv, TypeOK, HoldersOK, Holding, Forgotten, Respond
<1>1. /\ pc[j] \in {"send", "retry"} /\ sock' = [sock EXCEPT ![held[j]] = "open"]
      /\ pc' = [pc EXCEPT ![j] = "streaming"]
      /\ UNCHANGED <<pools, port, held, reused, closer>>
  BY DEF Respond, Goto, closeVars
<1>2. Stage[j] \in {"pooled", "fresh"} /\ Stage'[j] = "answered" /\ held' = [held EXCEPT ![j] = held[j]]
  BY <1>0, <1>1, StageFacts, StageFactsAfter DEF TypeOK
<1>3. Apps!Moves(j, "answered", Busy[j]) /\ UNCHANGED Lost
  BY <1>0, <1>1, <1>2, RequestMoves DEF JobSteps, Forgotten
<1>4. Dead' = Dead
  BY <1>0, <1>1 DEF Dead, LiveOK, TypeOK
<1>5. Phase = "open"
  BY DEF Phase
<1> QED
  BY <1>1, <1>2, <1>3, <1>4, <1>5 DEF Apps!Answer, Idle, Phase

\* A request forgets its connection: it cannot be encoded, or its handler is gone.
LEMMA AppsLose ==
  ASSUME IInv, LiveOK, NEW j \in Job, Unencodable(j) \/ (Respond(j) /\ closer # "off")
  PROVE  Apps!Lose(j)
<1>0. TypeOK /\ held[j] # NoConn /\ held[j] \in Conn
  BY DEF IInv, TypeOK, HoldersOK, Holding, Forgotten, Respond, Unencodable
<1>1. /\ pc[j] \in {"send", "retry"}
      /\ \E step \in Forgotten : pc' = [pc EXCEPT ![j] = step]
      /\ sock' = sock \/ sock' = [sock EXCEPT ![held[j]] = "open"]
      /\ UNCHANGED <<pools, port, held, reused, closer>>
  BY DEF Respond, Unencodable, Goto, closeVars, Forgotten
<1>2. /\ pc'[j] \in Forgotten /\ pc[j] \notin Forgotten
      /\ \A k \in Job \ {j} : pc'[k] = pc[k]
  BY <1>0, <1>1 DEF TypeOK, Forgotten
<1>3. Stage'[j] = "over" /\ Stage' = [Stage EXCEPT ![j] = "over"]
  BY <1>1, <1>2, StageFactsAfter, StageMoves DEF Forgotten
<1>4. Stage[j] = "pooled" \/ (Stage[j] = "fresh" /\ Phase # "open")
  <2>1. CASE Unencodable(j)
    BY <2>1, StageFacts DEF Unencodable
  <2>2. CASE Respond(j) /\ closer # "off"
    <3>1. Phase # "open"
      BY <2>2 DEF Phase
    <3> QED
      BY <1>1, <3>1, StageFacts
  <2> QED
    BY <2>1, <2>2
<1>5. Busy' = [Busy EXCEPT ![j] = NoConn] /\ Busy[j] = held[j]
  BY <1>1, <1>2 DEF Busy
<1>6. Lost' = Lost \cup {held[j]}
  BY <1>1, <1>2 DEF Lost
<1>7. Dead' = Dead
  BY <1>0, <1>1 DEF Dead, LiveOK, TypeOK
<1>8. UNCHANGED <<port, Idle, Phase>>
  BY <1>1 DEF Idle, Phase
<1> QED
  BY <1>3, <1>4, <1>5, <1>6, <1>7, <1>8 DEF Apps!Lose, Apps!Moves

\* The one retry.
LEMMA AppsReplace ==
  ASSUME IInv, NEW j \in Job, Retry(j)
  PROVE  Apps!Replace(j)
<1>0. TypeOK /\ held[j] # NoConn /\ held[j] \in Conn
  BY DEF IInv, TypeOK, HoldersOK, Holding, Forgotten, Retry
<1>1. PICK c \in Conn : /\ sock[c] = "unused"
                        /\ sock' = [sock EXCEPT ![held[j]] = "closed", ![c] = "fresh"]
                        /\ held' = [held EXCEPT ![j] = c]
  BY DEF Retry
<1>2. /\ pc[j] = "send" /\ j \in reused /\ pc' = [pc EXCEPT ![j] = "retry"]
      /\ UNCHANGED <<pools, port, reused, closer>>
  BY DEF Retry, Goto, closeVars
<1>3. Stage[j] = "pooled" /\ Stage'[j] = "fresh"
  BY <1>0, <1>2, StageFacts, StageFactsAfter DEF TypeOK
<1>4. Apps!Moves(j, "fresh", c) /\ Busy[j] = held[j] /\ UNCHANGED Lost
  BY <1>0, <1>1, <1>2, <1>3, RequestMoves DEF JobSteps, Forgotten
<1>5. Dead' = Dead \cup {held[j]}
  <2>1. c # held[j]
    BY <1>0, <1>1 DEF IInv, MadeOK
  <2>2. sock'[c] = "fresh" /\ sock'[held[j]] = "closed" /\ \A d \in Conn \ {c, held[j]} : sock'[d] = sock[d]
    BY <1>0, <1>1, <2>1 DEF TypeOK
  <2> QED
    BY <1>0, <1>1, <2>2 DEF Dead
<1> QED
  BY <1>1, <1>2, <1>3, <1>4, <1>5, UnusedIsNew DEF Apps!Replace, Idle, Phase

\* The request of one job ends, and its connection with it.
LEMMA AppsDrop ==
  ASSUME IInv, NEW j \in Job, Fail(j) \/ ReleaseAndClose(j)
  PROVE  Apps!Drop(j)
<1>0. TypeOK /\ held[j] # NoConn /\ held[j] \in Conn
  BY DEF IInv, TypeOK, HoldersOK, Holding, Forgotten, Fail, ReleaseAndClose
<1>1. /\ pc[j] \in {"send", "retry", "streaming"}
      /\ \E step \in {"failed", "done"} : pc' = [pc EXCEPT ![j] = step]
      /\ sock' = [sock EXCEPT ![held[j]] = "closed"] /\ held' = [held EXCEPT ![j] = NoConn]
      /\ UNCHANGED <<pools, port, reused, closer>>
  BY DEF Fail, ReleaseAndClose, Goto, closeVars
<1>2. Stage[j] \in {"pooled", "fresh", "answered"} /\ Stage'[j] = "over"
  BY <1>0, <1>1, StageFacts, StageFactsAfter DEF TypeOK
<1>3. Apps!Moves(j, "over", NoConn) /\ Busy[j] = held[j] /\ UNCHANGED Lost
  <2>1. PICK step \in {"failed", "done"} : pc' = [pc EXCEPT ![j] = step]
    BY <1>1
  <2>2. step \in JobSteps \ Forgotten /\ pc[j] \notin Forgotten
    BY <1>1, <2>1 DEF JobSteps, Forgotten
  <2> QED
    BY <1>0, <1>1, <1>2, <2>1, <2>2, RequestMoves
<1>4. Dead' = Dead \cup {held[j]}
  BY <1>0, <1>1, DeadAfterClose DEF TypeOK
<1> QED
  BY <1>1, <1>2, <1>3, <1>4 DEF Apps!Drop, Idle, Phase

\* The loop has ended, with the handlers that were streaming.
LEMMA AppsClose ==
  ASSUME IInv, Stop
  PROVE  Apps!Close
<1> DEFINE S == {j \in Job : pc[j] = "streaming"}
<1>0. TypeOK
  BY DEF IInv
<1>1. /\ pc' = [j \in Job |-> IF j \in S THEN "done" ELSE pc[j]]
      /\ held' = [j \in Job |-> IF j \in S THEN NoConn ELSE held[j]]
      /\ sock' = [c \in Conn |-> IF \E j \in S : held[j] = c THEN "closed" ELSE sock[c]]
      /\ closer = "off" /\ closer' = "next"
      /\ UNCHANGED <<pools, port, reused>>
  BY DEF Stop
<1>2. \A j \in S : held[j] \in Conn /\ Stage[j] = "answered" /\ Stage'[j] = "over" /\ Busy[j] = held[j]
  BY <1>0, <1>1, StageFacts, StageFactsAfter DEF IInv, HoldersOK, Holding, Forgotten, TypeOK, Busy
<1>3. S = {j \in Job : Stage[j] = "answered"}
  BY <1>0, <1>2, StageFacts DEF Stage, StageOf, Forgotten, TypeOK, JobSteps
<1>4. Stage' = [j \in Job |-> IF j \in S THEN "over" ELSE Stage[j]]
  <2>1. \A j \in Job \ S : StageOf(j)' = StageOf(j)
    BY <1>1 DEF StageOf, Forgotten
  <2>2. \A j \in Job \ S : Stage'[j] = Stage[j]
    BY <2>1 DEF Stage
  <2>3. Stage' = [j \in Job |-> Stage'[j]]
    BY DEF Stage
  <2> QED
    BY <1>2, <2>2, <2>3
<1>5. \A j \in Job : pc'[j] \in Forgotten <=> pc[j] \in Forgotten
  BY <1>1 DEF Forgotten
<1>6. Busy' = [j \in Job |-> IF j \in S THEN NoConn ELSE Busy[j]]
  BY <1>1, <1>5 DEF Busy
<1>7. Lost' = Lost
  BY <1>1, <1>5 DEF Lost, Forgotten
<1>8. Dead' = Dead \cup {Busy[j] : j \in S}
  BY <1>1, <1>2 DEF Dead
<1>9. Phase = "open" /\ Phase' = "closing" /\ UNCHANGED <<port, Idle>>
  BY <1>1 DEF Idle, Phase
<1> HIDE DEF S
<1> QED
  BY <1>3, <1>4, <1>6, <1>7, <1>8, <1>9 DEF Apps!Close

\* The connection returns to the pool of its port, which has room for it.
LEMMA AppsPark ==
  ASSUME IInv, NEW j \in Job, ReleaseToPool(j)
  PROVE  Apps!Park(j)
<1> DEFINE e == [conn |-> held[j], at |-> clock]
<1>0. TypeOK /\ held[j] # NoConn /\ held[j] \in Conn /\ port[j] \in Port /\ e \in Entries
  BY DEF IInv, TypeOK, HoldersOK, Holding, Forgotten, ReleaseToPool, Entries
<1>1. /\ pc[j] = "streaming" /\ pc' = [pc EXCEPT ![j] = "done"]
      /\ closer = "off" /\ closer' = closer
      /\ Len(pools[port[j]]) < PoolLimit
      /\ held' = [held EXCEPT ![j] = NoConn]
      /\ pools' = [pools EXCEPT ![port[j]] = Append(@, e)]
      /\ UNCHANGED <<port, reused, sock>>
  BY DEF ReleaseToPool, Goto, closeVars
<1>2. Stage[j] = "answered" /\ Stage'[j] = "over"
  BY <1>0, <1>1, StageFacts, StageFactsAfter DEF TypeOK
<1>3. Apps!Moves(j, "over", NoConn) /\ Busy[j] = held[j] /\ UNCHANGED Lost
  BY <1>0, <1>1, <1>2, RequestMoves DEF JobSteps, Forgotten
<1>4. Idle' = [Idle EXCEPT ![port[j]] = @ \cup {held[j]}]
  <2>1. e.conn = held[j]
    OBVIOUS
  <2> HIDE DEF e
  <2> QED
    BY <1>0, <1>1, <2>1, IdleAfterRelease
<1>5. Apps!Cardinality(Idle[port[j]]) < PoolLimit
  <2>1. Apps!Cardinality(Idle[port[j]]) = Cardinality(Idle[port[j]])
    BY DEF Apps!Cardinality, Cardinality
  <2>2. Len(pools[port[j]]) \in Nat
    BY <1>0 DEF TypeOK
  <2> QED
    BY <1>0, <1>1, <2>1, <2>2, IdleSize, PoolAssumption DEF PoolAssumption
<1>6. Dead' = Dead /\ Phase = "open" /\ Phase' = Phase
  BY <1>1 DEF Dead, Phase
<1> QED
  BY <1>1, <1>2, <1>3, <1>4, <1>5, <1>6 DEF Apps!Park

\* close_pools goes on to the next port, or returns with every pool empty.
LEMMA AppsCloserNext ==
  ASSUME IInv, CloserNext
  PROVE  Apps!Shut \/ UNCHANGED Apps!vars
<1>0. TypeOK /\ ToVisitOK /\ UNCHANGED <<pools, pc, port, held, reused, sock>> /\ closer = "next"
  BY DEF CloserNext, jobVars, IInv
<1>1. UNCHANGED <<port, Stage, Busy, Lost, Idle, Dead>>
  BY <1>0, StageStays, NobodyMoves DEF Idle, Dead
<1>2. CASE closer' # "done"
  <2>1. closer' # "off"
    BY <1>2 DEF CloserNext
  <2> QED
    BY <1>0, <1>1, <1>2, <2>1 DEF Apps!vars, Phase
<1>3. CASE closer' = "done"
  <2>1. todo = {}
    BY <1>3 DEF CloserNext
  <2>2. \A p \in Port : pools[p] = <<>>
    BY <1>0, <2>1 DEF ToVisitOK
  <2>3. \A p \in Port : Idle[p] = {}
    BY <2>2 DEF Idle
  <2> QED
    BY <1>0, <1>1, <1>3, <2>3 DEF Apps!Shut, Phase
<1> QED
  BY <1>2, <1>3

\* Steps of which the local apps see nothing.
LEMMA AppsQuiet ==
  ASSUME IInv,
         \/ Tick \/ (\E c \in Conn : AppCloses(c)) \/ CloserCheck \/ UNCHANGED vars
         \/ \E j \in Job : Submit(j) \/ Begin(j) \/ FindSome(j)
  PROVE  UNCHANGED Apps!vars
<1>1. TypeOK
  BY DEF IInv
<1>2. /\ UNCHANGED <<pools, port, held, reused, sock>>
      /\ closer' = closer \/ {closer, closer'} \subseteq {"next", "check", "pop"}
      /\ \A j \in Job : pc'[j] = pc[j] \/ {pc[j], pc'[j]} \subseteq {"idle", "called", "check", "pop"}
  BY <1>1 DEF Tick, AppCloses, CloserCheck, Submit, Begin, FindSome, Goto, vars, jobVars, closeVars, TypeOK
<1>3. UNCHANGED Stage
  BY <1>2, StageStays
<1>4. UNCHANGED <<Busy, Lost>>
  BY <1>2, NobodyMoves DEF Forgotten
<1>5. UNCHANGED Phase
  BY <1>2 DEF Phase
<1> QED
  BY <1>2, <1>3, <1>4, <1>5 DEF Apps!vars, Idle, Dead

\* Each step of HttpPool is one of KeepAlive, or leaves all that KeepAlive sees as it is.
LEMMA NextApps ==
  ASSUME IInv, LiveOK, LookingOK, [Next]_vars
  PROVE  [Apps!Next]_Apps!vars
<1> SUFFICES Apps!Next \/ UNCHANGED Apps!vars
  BY DEF Apps!vars
<1>0. TypeOK
  BY DEF IInv
<1> USE DEF Apps!Next
<1>1. ASSUME NEW j \in Job, ThreadStep(j) PROVE Apps!Next \/ UNCHANGED Apps!vars
  <2>1. CASE PopStale(j)
    <3>1. /\ port[j] \in Port /\ pools[port[j]] # <<>> /\ pc[j] = "pop" /\ pc' = [pc EXCEPT ![j] = "check"]
          /\ pools' = [pools EXCEPT ![port[j]] = Tail(@)]
          /\ sock' = [sock EXCEPT ![Head(pools[port[j]]).conn] = "closed"]
          /\ UNCHANGED <<port, held, reused, closer>>
      BY <1>0, <2>1 DEF PopStale, TypeOK, Goto, closeVars
    <3>2. UNCHANGED <<Stage, Busy, Lost, Phase>>
      BY <1>0, <3>1, StageStays, NobodyMoves DEF TypeOK, Forgotten, Phase
    <3>3. Apps!Expire(port[j])
      BY <3>1, <3>2, AppsExpire
    <3> QED
      BY <3>1, <3>3
  <2>2. CASE Respond(j) \/ Unencodable(j)
    BY <2>2, AppsAnswer, AppsLose
  <2>3. CASE Retry(j) \/ Fail(j)
    BY <2>3, AppsReplace, AppsDrop
  <2> QED
    BY <1>1, <2>1, <2>2, <2>3, AppsQuiet, AppsMake, AppsReuse, AppsGiveUp DEF ThreadStep
<1>2. ASSUME NEW j \in Job, Submit(j) \/ ReleaseToPool(j) \/ ReleaseAndClose(j)
      PROVE  Apps!Next \/ UNCHANGED Apps!vars
  BY <1>2, AppsQuiet, AppsPark, AppsDrop
<1>3. CASE CloserPop
  <2>1. /\ TypeOK /\ closer = "pop" /\ closer' \in {"check", "raised"}
        /\ UNCHANGED <<pc, port, held, reused>> /\ current \in Port
    BY <1>0, <1>3 DEF CloserPop, jobVars, TypeOK
  <2>2. UNCHANGED <<port, Busy, Lost, Stage, Phase>>
    BY <2>1, StageStays, NobodyMoves DEF Phase
  <2>3. CASE pools[current] = <<>>
    BY <1>3, <2>2, <2>3 DEF CloserPop, Apps!vars, Idle, Dead
  <2>4. CASE pools[current] # <<>>
    <3>1. /\ pools' = [pools EXCEPT ![current] = Tail(@)]
          /\ sock' = [sock EXCEPT ![Head(pools[current]).conn] = "closed"]
      BY <1>3, <2>4 DEF CloserPop
    <3>2. Apps!Expire(current)
      BY <2>1, <2>2, <2>4, <3>1, AppsExpire
    <3> QED
      BY <2>1, <3>2
  <2> QED
    BY <2>3, <2>4
<1>4. CASE Stop \/ CloserNext
  BY <1>4, AppsClose, AppsCloserNext
<1>5. CASE Tick \/ (\E c \in Conn : AppCloses(c)) \/ CloserCheck \/ UNCHANGED vars
  BY <1>5, AppsQuiet
<1> QED
  BY <1>1, <1>2, <1>3, <1>4, <1>5 DEF Next

\* Before the first request nothing is idle, in use, closed or lost.
LEMMA InitApps == Init => Apps!Init /\ LiveOK /\ LookingOK
<1> SUFFICES ASSUME Init PROVE Apps!Init /\ LiveOK /\ LookingOK
  OBVIOUS
<1> USE DEF Init
<1>1. LiveOK /\ LookingOK
  BY DEF LiveOK, LookingOK
<1>2. Stage = [j \in Job |-> "none"]
  BY DEF Stage, StageOf, Forgotten
<1>3. Idle = [p \in Port |-> {}] /\ Dead = {}
  BY DEF Idle, Dead
<1>4. Busy = [j \in Job |-> NoConn] /\ Lost = {} /\ Phase = "open"
  BY DEF Busy, Lost, Phase, Forgotten
<1> QED
  BY <1>1, <1>2, <1>3, <1>4 DEF Apps!Init

\* Between the threads, the loop and close_pools every connection goes the one
\* way KeepAlive lets it (http_proxy.py:91-171), for any number of requests,
\* ports and connections, any limit and any time to live; a connection leaves
\* that way only where KeepAlive says so, and is never used again.
THEOREM KeepsAlive == Spec => ImplementsKeepAlive
<1>1. IInv /\ LiveOK /\ LookingOK /\ [Next]_vars => LiveOK' /\ LookingOK'
  BY LiveStep, LookingStep DEF IInv
<1>2. Spec => [](IInv /\ LiveOK /\ LookingOK)
  BY <1>1, InitApps, AlwaysIInv, PTL DEF Spec
<1> QED
  BY <1>2, InitApps, NextApps, PTL DEF Spec, ImplementsKeepAlive, Apps!Spec
===============================================================================
