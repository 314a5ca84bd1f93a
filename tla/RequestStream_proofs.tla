-------------------------- MODULE RequestStream_proofs -------------------------
(***************************************************************************)
(* Proofs about RequestStream for any requests, sessions and limits.       *)
(*                                                                         *)
(* The inductive invariant relates what the server has sent of a request   *)
(* (upload) to the frames in flight and to what the read loop keeps, so    *)
(* that the END of a request is only ever met with all of it, once; what   *)
(* the two queues hold to where the handlers are; and, as long as a        *)
(* handler's own connection is up, where it is to what it has written.     *)
(* WireOK adds, for all connections together, what a handler that has      *)
(* written some frame can still write.                                     *)
(***************************************************************************)
EXTENDS RequestStream, ControlLink_proofs, FiniteSetTheorems, TLAPS

-----------------------------------------------------------------------------
(* The inductive invariant, part 1: the server's frames *)

InFlight(r, p) == \E i \in DOMAIN inbox : inbox[i].req = r /\ inbox[i].part = p

\* HEAD, some BODY, END.
UploadOK ==
  \A r \in Req :
    /\ Len(upload[r]) <= MaxParts + 1
    /\ ~ Ended(r) => Len(upload[r]) <= MaxParts
    /\ \A i \in DOMAIN upload[r] :
         /\ upload[r][i] = "HEAD" <=> i = 1
         /\ upload[r][i] = "END" => i = Len(upload[r])

FramesOK ==
  \A i \in DOMAIN inbox :
    LET f == inbox[i]
    IN  f.part \in DOMAIN upload[f.req] /\ f.op = upload[f.req][f.part]

Ordered ==
  \A i, j \in DOMAIN inbox :
    i < j /\ inbox[i].req = inbox[j].req => inbox[i].part < inbox[j].part

\* The frames of a request come without a gap ...
Gapless ==
  \A r \in Req : \A p, q, n \in Nat :
    InFlight(r, p) /\ InFlight(r, q) /\ p < n /\ n < q => InFlight(r, n)

\* ... up to the last that was sent, unless the connection has dropped.
Reaching ==
  link = "up" =>
    \A r \in Req : \A p, n \in Nat :
      InFlight(r, p) /\ p < n /\ n <= Len(upload[r]) => InFlight(r, n)

\* What the read loop keeps is the beginning of the request, and the frames in
\* flight go on where it ends.
PendingOK ==
  \A r \in Req : pending[r] # <<>> =>
    LET k == Len(pending[r])
    IN  /\ \A i \in 1 .. k : pending[r][i] = i
        /\ k <= Len(upload[r]) /\ upload[r][k] # "END"
        /\ \A p \in Nat : InFlight(r, p) =>
             k < p /\ \A n \in Nat : k < n /\ n < p => InFlight(r, n)
        /\ link = "up" => \A n \in Nat : k < n /\ n <= Len(upload[r]) => InFlight(r, n)

\* Between two read loops there is neither.
Reading ==
  phase # "serving" => inbox = <<>> /\ \A r \in Req : pending[r] = <<>>

\* A request is started once.
StartedOnce ==
  \A r \in Req : pc[r] # "idle" => pending[r] = <<>> /\ \A p \in Nat : ~ InFlight(r, p)

StreamOK ==
  /\ UploadOK /\ FramesOK /\ Ordered /\ Gapless /\ Reaching /\ PendingOK /\ Reading
  /\ StartedOnce /\ RequestWhole

-----------------------------------------------------------------------------
(* Part 2: the handlers *)

Unique(q) == \A i, j \in DOMAIN q : q[i] = q[j] => i = j

QueuesOK == Unique(semQ) /\ Unique(lockQ)

SlotsOK == IsFiniteSet(Admitted) /\ SlotsAccounted

\* There is no local connection yet, or none that is in use any more.
ConnOK ==
  \A r \in Req :
    /\ pc[r] \in {"idle", "sem", "request"} => conn[r] # "held"
    /\ pc[r] \in Sending /\ op[r] = "ERROR" => conn[r] # "held"

HandlersOK == QueuesOK /\ SlotsOK /\ ConnOK /\ Tidy /\ OneSender

-----------------------------------------------------------------------------
(* Part 3: the replies *)

Over(s) == s # <<>> /\ s[Len(s)].op \in {"END", "ERROR"}

\* What the handler has written to its own connection, by the place it is at,
\* as long as that connection is up.
WrittenBy(r) ==
  LET s == Reply(r)
  IN  /\ pc[r] \in {"sem", "request", "head"} => s = <<>>
      /\ pc[r] \in {"sem", "request", "head", "first", "drained"} => got[r] = 0
      /\ pc[r] \in {"first", "read", "drained"} => Len(s) = got[r] + 1 /\ ~ Over(s)
      /\ pc[r] = "lock" =>
           /\ ~ Over(s)
           /\ op[r] = "HEAD" => s = <<>> /\ got[r] = 0
           /\ op[r] = "BODY" => s # <<>> /\ Len(s) = got[r]
           /\ op[r] = "END" => Len(s) = got[r] + 1
      /\ pc[r] = "writing" =>
           /\ op[r] = "HEAD" => got[r] = 0
           /\ op[r] \in {"HEAD", "BODY"} => Len(s) = got[r] + 1 /\ ~ Over(s)

RepliesOK ==
  /\ link = "up" => ws # NoSocket
  /\ phase \in {"handshake", "serving"} => ws # NoSocket
  /\ ws <= sessions
  /\ \A r \in Req :
       /\ home[r] <= sessions
       /\ pc[r] = "idle" => got[r] = 0 /\ \A s \in Sessions : wire[s][r] = <<>>
       /\ pc[r] # "idle" => home[r] # NoSocket
       /\ pc[r] = "refused" => link # "up"
       /\ pc[r] # "idle" /\ home[r] = ws /\ link = "up" => WrittenBy(r)
       /\ InOrder(Reply(r))

IInv == TypeOK /\ StreamOK /\ HandlersOK /\ RepliesOK

-----------------------------------------------------------------------------
(* Sequences and queues *)

\* append.
LEMMA AppendFacts ==
  ASSUME NEW S, NEW s \in Seq(S), NEW e \in S
  PROVE  /\ Append(s, e) \in Seq(S) /\ Append(s, e) # <<>>
         /\ Len(Append(s, e)) = Len(s) + 1
         /\ Append(s, e)[Len(s) + 1] = e
         /\ \A i \in DOMAIN s : i \in DOMAIN Append(s, e) /\ Append(s, e)[i] = s[i]
         /\ \A i \in DOMAIN Append(s, e) : i \in DOMAIN s \/ i = Len(s) + 1
         /\ Len(s) + 1 \in DOMAIN Append(s, e)
         /\ Len(s) + 1 \notin DOMAIN s
<1>1. /\ Append(s, e) \in Seq(S) /\ Append(s, e) # <<>>
      /\ Len(Append(s, e)) = Len(s) + 1
      /\ Append(s, e)[Len(s) + 1] = e
      /\ \A i \in 1 .. Len(s) : Append(s, e)[i] = s[i]
  OBVIOUS
<1>2. DOMAIN s = 1 .. Len(s) /\ DOMAIN Append(s, e) = 1 .. Len(s) + 1
  BY <1>1
<1> QED
  BY <1>1, <1>2

\* popleft, and the rest of a queue.
LEMMA TailFacts ==
  ASSUME NEW S, NEW s \in Seq(S), s # <<>>
  PROVE  /\ Tail(s) \in Seq(S)
         /\ Head(s) = s[1] /\ s[1] \in S /\ 1 \in DOMAIN s
         /\ \A i \in DOMAIN Tail(s) : i + 1 \in DOMAIN s /\ i + 1 # 1 /\ Tail(s)[i] = s[i + 1]
         /\ \A i \in DOMAIN s : i # 1 => i - 1 \in DOMAIN Tail(s) /\ Tail(s)[i - 1] = s[i]
  OBVIOUS

\* A queue after one more has joined it.
LEMMA QueueAppend ==
  ASSUME NEW q \in Seq(Req), NEW r \in Req, Unique(q), ~ InQueue(q, r)
  PROVE  /\ Append(q, r) \in Seq(Req) /\ Append(q, r) # <<>>
         /\ Unique(Append(q, r))
         /\ \A x \in Req : InQueue(Append(q, r), x) <=> InQueue(q, x) \/ x = r
         /\ Head(Append(q, r)) = IF q = <<>> THEN r ELSE Head(q)
<1>1. Unique(Append(q, r))
  BY AppendFacts DEF Unique, InQueue
<1>2. \A x \in Req : InQueue(Append(q, r), x) <=> InQueue(q, x) \/ x = r
  BY AppendFacts DEF InQueue
<1>3. Head(Append(q, r)) = IF q = <<>> THEN r ELSE Head(q)
  OBVIOUS
<1> QED
  BY <1>1, <1>2, <1>3, AppendFacts

\* A queue after the first has left it.
LEMMA QueueTail ==
  ASSUME NEW q \in Seq(Req), Unique(q), q # <<>>
  PROVE  /\ Tail(q) \in Seq(Req) /\ Head(q) \in Req
         /\ Unique(Tail(q))
         /\ \A x \in Req : InQueue(Tail(q), x) <=> InQueue(q, x) /\ x # Head(q)
<1>1. Unique(Tail(q))
  BY TailFacts DEF Unique
<1>2. \A x \in Req : InQueue(Tail(q), x) => InQueue(q, x) /\ x # Head(q)
  BY TailFacts DEF Unique, InQueue
<1>3. ASSUME NEW x \in Req, InQueue(q, x), x # Head(q) PROVE InQueue(Tail(q), x)
  <2>1. PICK i \in DOMAIN q : q[i] = x
    BY <1>3 DEF InQueue
  <2>2. i - 1 \in DOMAIN Tail(q) /\ Tail(q)[i - 1] = x
    BY <1>3, <2>1, TailFacts
  <2> QED
    BY <2>2 DEF InQueue
<1> QED
  BY <1>1, <1>2, <1>3, TailFacts

-----------------------------------------------------------------------------
(* The initial states, and what steps leave alone *)

\* Before the first session.
LEMMA InitIInv == Init => IInv
<1> SUFFICES ASSUME Init PROVE IInv
  OBVIOUS
<1>1. \A r \in Req : pc[r] = "idle" /\ upload[r] = <<>> /\ pending[r] = <<>>
                     /\ conn[r] = "none" /\ home[r] = NoSocket
  BY DEF Init
<1>2. inbox = <<>> /\ semQ = <<>> /\ lockQ = <<>> /\ free = MaxConcurrent
  BY DEF Init
<1>3. DOMAIN <<>> = {} /\ Len(<<>>) = 0 /\ \A S : <<>> \in Seq(S)
  OBVIOUS
<1>4. LinkTypeOK /\ link = "none" /\ phase = "connecting" /\ ws = 0 /\ sessions = 0
  BY MaxSessionsAssumption DEF Init, LinkInit, LinkTypeOK, Phases, LinkStates, NoSocket
<1>5. TypeOK
  <2>1. MaxConcurrent \in 0 .. MaxConcurrent /\ 0 \in 0 .. MaxChunks /\ 0 \in 0 .. MaxSessions
    BY RequestAssumption, MaxSessionsAssumption
  <2>2. wire \in [Sessions -> [Req -> Seq(ResponseFrames)]]
    BY <1>3 DEF Init
  <2>3. upload \in [Req -> Seq(RequestOps)] /\ pending \in [Req -> Seq(Parts)] /\ raw \in [Req -> Seq(Parts)]
    BY <1>3 DEF Init
  <2> QED
    BY <1>2, <1>3, <1>4, <2>1, <2>2, <2>3
    DEF Init, TypeOK, NoSocket, Steps, ResponseOps, ConnStates
<1>6. StreamOK
  BY <1>1, <1>2, <1>3, RequestAssumption
  DEF StreamOK, UploadOK, FramesOK, Ordered, Gapless, Reaching, PendingOK, Reading,
      StartedOnce, RequestWhole, InFlight
<1>7. HandlersOK
  <2>1. Admitted = {}
    BY <1>1 DEF Admitted, Calls, Sending
  <2>2. SlotsOK
    BY <1>2, <2>1, FS_EmptySet, RequestAssumption DEF SlotsOK, SlotsAccounted
  <2> QED
    BY <1>1, <1>2, <1>3, <2>2
    DEF HandlersOK, QueuesOK, Unique, ConnOK, Tidy, InQueue, OneSender, Finished, Sending
<1>8. RepliesOK
  BY <1>1, <1>3, <1>4 DEF Init, RepliesOK, NoSocket, Reply, InOrder
<1> QED
  BY <1>5, <1>6, <1>7, <1>8 DEF IInv

\* Steps that touch no handler, no slot and no lock.
LEMMA HandlersUnchanged ==
  ASSUME HandlersOK, UNCHANGED handlerVars
  PROVE  HandlersOK'
  BY DEF handlerVars, HandlersOK, QueuesOK, SlotsOK, SlotsAccounted, Admitted, ConnOK,
         Tidy, OneSender

\* Steps that write nothing.
LEMMA RepliesUnchanged ==
  ASSUME RepliesOK, UNCHANGED <<linkVars, home, handlerVars>>
  PROVE  RepliesOK'
<1>1. \A r \in Req : UNCHANGED Reply(r)
  BY DEF Reply, handlerVars
<1> QED
  BY <1>1 DEF RepliesOK, linkVars, handlerVars, WrittenBy

\* A handler's own step leaves what the read loop knows.
LEMMA StreamUnchanged ==
  ASSUME StreamOK, UNCHANGED <<linkVars, streamVars>>,
         \A r \in Req : pc'[r] # "idle" => pc[r] # "idle"
  PROVE  StreamOK'
<1>1. \A r, p : InFlight(r, p)' <=> InFlight(r, p)
  BY DEF InFlight, streamVars
<1>2. (UploadOK /\ FramesOK /\ Ordered)'
  BY DEF StreamOK, streamVars, UploadOK, FramesOK, Ordered, Ended
<1>3. (Gapless /\ Reaching)'
  BY <1>1 DEF StreamOK, streamVars, linkVars, Gapless, Reaching
<1>4. (PendingOK /\ Reading)'
  BY <1>1 DEF StreamOK, streamVars, linkVars, PendingOK, Reading
<1>5. (StartedOnce /\ RequestWhole)'
  BY <1>1 DEF StreamOK, streamVars, StartedOnce, RequestWhole, Ended
<1> QED
  BY <1>2, <1>3, <1>4, <1>5 DEF StreamOK

-----------------------------------------------------------------------------
(* The server, and the connection *)

\* Its part is within the bound.
LEMMA FramePart ==
  ASSUME TypeOK, NEW r \in Req, NEW p, InFlight(r, p)
  PROVE  p \in 1 .. MaxParts + 1
<1>1. PICK i \in DOMAIN inbox : inbox[i].req = r /\ inbox[i].part = p
  BY DEF InFlight
<1>2. inbox[i] \in ServerFrames
  BY DEF TypeOK
<1> QED
  BY <1>1, <1>2 DEF ServerFrames

\* A frame in flight is one that the server has sent.
LEMMA FlightBounded ==
  ASSUME TypeOK, FramesOK, NEW r \in Req, NEW p, InFlight(r, p)
  PROVE  p \in 1 .. Len(upload[r])
<1>1. PICK i \in DOMAIN inbox : inbox[i].req = r /\ inbox[i].part = p
  BY DEF InFlight
<1>2. upload[r] \in Seq(RequestOps)
  BY DEF TypeOK
<1> QED
  BY <1>1, <1>2 DEF FramesOK

\* A frame of the server.
LEMMA ServerSendsStep ==
  ASSUME IInv, NEW r \in Req, ServerSends(r)
  PROVE  IInv'
<1> DEFINE n == Len(upload[r]) + 1
<1>0. TypeOK /\ StreamOK
  BY DEF IInv
<1>1. PICK o \in RequestOps :
        /\ (o = "HEAD") <=> (upload[r] = <<>>)
        /\ o = "BODY" => Len(upload[r]) < MaxParts
        /\ upload' = [upload EXCEPT ![r] = Append(@, o)]
        /\ inbox' = Append(inbox, [req |-> r, op |-> o, part |-> n])
  BY DEF ServerSends
<1>2. ~ Ended(r) /\ phase = "serving" /\ link = "up"
  BY DEF ServerSends
<1>3. UNCHANGED <<linkVars, pending, raw, home, handlerVars>>
  BY DEF ServerSends
<1>4. upload[r] \in Seq(RequestOps) /\ inbox \in Seq(ServerFrames)
  BY <1>0 DEF TypeOK
<1>5. n \in 1 .. MaxParts + 1 /\ Len(upload[r]) <= MaxParts
  BY <1>0, <1>2, <1>4, RequestAssumption DEF StreamOK, UploadOK
<1>6. [req |-> r, op |-> o, part |-> n] \in ServerFrames
  BY <1>5 DEF ServerFrames
<1> DEFINE f == [req |-> r, op |-> o, part |-> n]
<1>7. /\ inbox' \in Seq(ServerFrames) /\ Len(inbox') = Len(inbox) + 1
      /\ \A i \in DOMAIN inbox : i \in DOMAIN inbox' /\ inbox'[i] = inbox[i]
      /\ \A i \in DOMAIN inbox' : i \in DOMAIN inbox \/ i = Len(inbox) + 1
      /\ Len(inbox) + 1 \in DOMAIN inbox' /\ inbox'[Len(inbox) + 1] = f
      /\ DOMAIN inbox = 1 .. Len(inbox)
  BY <1>1, <1>4, <1>6, AppendFacts
<1>8. /\ upload'[r] \in Seq(RequestOps) /\ Len(upload'[r]) = n
      /\ \A i \in DOMAIN upload[r] : i \in DOMAIN upload'[r] /\ upload'[r][i] = upload[r][i]
      /\ \A i \in DOMAIN upload'[r] : i \in DOMAIN upload[r] \/ i = n
      /\ upload'[r][n] = o /\ n \in DOMAIN upload'[r] /\ upload'[r] # <<>>
      /\ DOMAIN upload[r] = 1 .. Len(upload[r])
      /\ \A x \in Req : x # r => upload'[x] = upload[x]
      /\ upload' \in [Req -> Seq(RequestOps)]
  <2>1. upload \in [Req -> Seq(RequestOps)]
    BY <1>0 DEF TypeOK
  <2>2. upload'[r] = Append(upload[r], o) /\ \A x \in Req : x # r => upload'[x] = upload[x]
    BY <1>1, <2>1
  <2>3. DOMAIN upload[r] = 1 .. Len(upload[r]) /\ Append(upload[r], o) \in Seq(RequestOps)
    BY <1>4
  <2> QED
    BY <1>1, <1>4, <2>1, <2>2, <2>3, AppendFacts
<1>9. \A x \in Req : \A p : InFlight(x, p)' <=> InFlight(x, p) \/ (x = r /\ p = n)
  <2>1. f.req = r /\ f.part = n
    OBVIOUS
  <2> HIDE DEF f, n
  <2> QED
    BY <2>1, <1>7 DEF InFlight
<1>10. TypeOK'
  BY <1>0, <1>3, <1>7, <1>8, <1>1 DEF TypeOK, LinkTypeOK, linkVars, handlerVars
<1>11. UploadOK'
  <2>1. \A i \in DOMAIN upload[r] : upload[r][i] # "END"
    BY <1>0, <1>2, <1>4 DEF StreamOK, UploadOK, Ended
  <2>2. upload[r] = <<>> <=> n = 1
    BY <1>4
  <2>3. ~ Ended(r)' => n <= MaxParts
    BY <1>1, <1>4, <1>8, <2>2, RequestAssumption DEF Ended, RequestOps
  <2>4. \A i \in DOMAIN upload'[r] :
          /\ upload'[r][i] = "HEAD" <=> i = 1
          /\ upload'[r][i] = "END" => i = Len(upload'[r])
    <3>1. \A i \in DOMAIN upload[r] : i # n
      BY <1>8
    <3> QED
      BY <1>0, <1>1, <1>8, <2>1, <2>2, <3>1 DEF StreamOK, UploadOK
  <2>5. \A x \in Req : x # r => (Ended(x)' <=> Ended(x))
    BY <1>8 DEF Ended
  <2> QED
    BY <1>0, <1>5, <1>8, <2>3, <2>4, <2>5 DEF StreamOK, UploadOK
<1>12. FramesOK'
  <2>1. \A i \in DOMAIN inbox : inbox'[i].part \in DOMAIN upload'[inbox'[i].req]
          /\ inbox'[i].op = upload'[inbox'[i].req][inbox'[i].part]
    <3> SUFFICES ASSUME NEW i \in DOMAIN inbox
                 PROVE  /\ inbox[i].part \in DOMAIN upload'[inbox[i].req]
                        /\ inbox[i].op = upload'[inbox[i].req][inbox[i].part]
      BY <1>7
    <3>0. inbox[i] \in ServerFrames
      BY <1>4
    <3>1. inbox[i].req \in Req
      BY <3>0 DEF ServerFrames
    <3>2. inbox[i].part \in DOMAIN upload[inbox[i].req]
          /\ inbox[i].op = upload[inbox[i].req][inbox[i].part]
      BY <1>0 DEF StreamOK, FramesOK
    <3>3. CASE inbox[i].req = r
      BY <1>8, <3>2, <3>3
    <3>4. CASE inbox[i].req # r
      BY <1>8, <3>1, <3>2, <3>4
    <3> QED
      BY <3>3, <3>4
  <2>2. f.part \in DOMAIN upload'[f.req] /\ f.op = upload'[f.req][f.part]
    BY <1>8
  <2> HIDE DEF f, n
  <2> QED
    BY <1>7, <2>1, <2>2 DEF FramesOK
<1>13. Ordered'
  <2>1. \A i \in DOMAIN inbox : inbox[i].req = r => inbox[i].part < n
    BY <1>0, <1>4, <1>8 DEF StreamOK, FramesOK
  <2> QED
    BY <1>0, <1>7, <2>1 DEF StreamOK, Ordered
<1>14. Gapless'
  BY <1>0, <1>2, <1>9, FlightBounded, <1>4 DEF StreamOK, Gapless, Reaching
<1>15. Reaching'
  <2> SUFFICES ASSUME NEW x \in Req, NEW p \in Nat, NEW m \in Nat,
                      InFlight(x, p)', p < m, m <= Len(upload'[x])
               PROVE  InFlight(x, m)'
    BY DEF Reaching
  <2>1. CASE x # r
    BY <1>0, <1>2, <1>8, <1>9, <2>1 DEF StreamOK, Reaching
  <2>2. CASE x = r /\ m = n
    BY <1>9, <2>2
  <2>3. CASE x = r /\ m # n
    <3>1. m <= Len(upload[r]) /\ p # n
      BY <1>4, <1>8, <2>3
    <3>2. InFlight(r, p)
      BY <1>9, <2>3, <3>1
    <3> QED
      BY <1>0, <1>2, <1>9, <2>3, <3>1, <3>2 DEF StreamOK, Reaching
  <2> QED
    BY <2>1, <2>2, <2>3
<1>16. PendingOK'
  <2> SUFFICES ASSUME NEW x \in Req, pending'[x] # <<>>
               PROVE  LET k == Len(pending[x])
                      IN  /\ \A i \in 1 .. k : pending[x][i] = i
                          /\ k <= Len(upload'[x]) /\ upload'[x][k] # "END"
                          /\ \A p \in Nat : InFlight(x, p)' =>
                               k < p /\ \A m \in Nat : k < m /\ m < p => InFlight(x, m)'
                          /\ \A m \in Nat : k < m /\ m <= Len(upload'[x]) => InFlight(x, m)'
    BY <1>3 DEF PendingOK
  <2> DEFINE k == Len(pending[x])
  <2>1. pending[x] # <<>> /\ pending[x] \in Seq(Parts) /\ k \in Nat /\ k >= 1
    BY <1>0, <1>3 DEF TypeOK
  <2>2. /\ \A i \in 1 .. k : pending[x][i] = i
        /\ k <= Len(upload[x]) /\ upload[x][k] # "END"
        /\ \A p \in Nat : InFlight(x, p) =>
             k < p /\ \A m \in Nat : k < m /\ m < p => InFlight(x, m)
        /\ \A m \in Nat : k < m /\ m <= Len(upload[x]) => InFlight(x, m)
    BY <1>0, <1>2, <2>1 DEF StreamOK, PendingOK
  <2> HIDE DEF k
  <2>3. CASE x # r
    BY <1>8, <1>9, <2>2, <2>3 DEF k
  <2>4. CASE x = r
    <3>1. k <= Len(upload'[r]) /\ upload'[r][k] # "END"
      BY <1>4, <1>8, <2>1, <2>2, <2>4
    <3>2. \A m \in Nat : k < m /\ m < n => InFlight(r, m)
      BY <1>4, <2>2, <2>4
    <3>3. k < n
      BY <1>4, <2>1, <2>2, <2>4
    <3> HIDE DEF n
    <3>4. \A p \in Nat : InFlight(r, p)' =>
            k < p /\ \A m \in Nat : k < m /\ m < p => InFlight(r, m)'
      BY <1>9, <2>2, <2>4, <3>2, <3>3
    <3>5. \A m \in Nat : k < m /\ m <= n => InFlight(r, m)'
      <4>1. n \in Nat
        BY <1>5
      <4> QED
        BY <1>9, <3>2, <4>1
    <3> QED
      BY <1>8, <2>2, <2>4, <3>1, <3>4, <3>5 DEF k
  <2> QED
    BY <2>3, <2>4
<1>17. (Reading /\ StartedOnce /\ RequestWhole)'
  <2>1. Reading'
    BY <1>2, <1>3 DEF Reading, linkVars
  <2>2. pc[r] = "idle"
    BY <1>0, <1>2 DEF StreamOK, RequestWhole
  <2>3. StartedOnce'
    BY <1>0, <1>3, <1>9, <2>2 DEF StreamOK, StartedOnce, handlerVars
  <2>4. \A x \in Req : x # r => (Ended(x)' <=> Ended(x))
    BY <1>8 DEF Ended
  <2>5. RequestWhole'
    BY <1>0, <1>3, <1>8, <2>2, <2>4 DEF StreamOK, RequestWhole, handlerVars
  <2> QED
    BY <2>1, <2>3, <2>5
<1>18. HandlersOK' /\ RepliesOK'
  BY <1>3, HandlersUnchanged, RepliesUnchanged DEF IInv
<1> QED
  BY <1>10, <1>11, <1>12, <1>13, <1>14, <1>15, <1>16, <1>17, <1>18 DEF IInv, StreamOK

\* Steps of the link keep the types.
LEMMA LinkTypes == LinkTypeOK /\ LinkStep => LinkTypeOK'
  BY MaxSessionsAssumption
  DEF LinkTypeOK, LinkStep, Phases, LinkStates, NoSocket, Connect, Register, HandshakeAborts,
      GiveUp, ReadLoopRaises, RelayRaises, ReadLoopReturns, Leave, Close, CloseInterrupted, Drop

\* What a step of the connection may be, as far as the replies are concerned.
Steady ==
  /\ ws' = ws /\ sessions' = sessions
  /\ link' = link \/ link' # "up"
  /\ phase' \in {"handshake", "serving"} => phase \in {"handshake", "serving"}

\* A step of the connection writes nothing of a reply.
LEMMA RepliesOnLink ==
  ASSUME IInv, LinkTypeOK', UNCHANGED <<home, handlerVars>>,
         \/ Steady
         \/ Close
         \/ Connect /\ lockQ = <<>>
  PROVE  RepliesOK'
<1>1. \A r \in Req : UNCHANGED <<Reply(r), pc[r], op[r], got[r], home[r], wire>>
  BY DEF Reply, handlerVars
<1>2. \A r \in Req : WrittenBy(r)' <=> WrittenBy(r)
  BY <1>1 DEF WrittenBy
<1>3. \A r \in Req : InOrder(Reply(r))'
  BY <1>1 DEF IInv, RepliesOK
<1>4. CASE Steady
  BY <1>1, <1>2, <1>3, <1>4 DEF IInv, RepliesOK, Steady
<1>5. CASE Close
  BY <1>1, <1>2, <1>3, <1>5 DEF IInv, RepliesOK, Close, NoSocket, TypeOK, LinkTypeOK
<1>6. CASE Connect /\ lockQ = <<>>
  <2>1. \A r \in Req : pc[r] # "refused"
    BY <1>6 DEF IInv, HandlersOK, OneSender
  <2>2. \A r \in Req : home[r] # ws'
    BY <1>6 DEF IInv, RepliesOK, Connect, TypeOK, LinkTypeOK
  <2> QED
    BY <1>1, <1>3, <1>6, <2>1, <2>2 DEF IInv, RepliesOK, Connect, NoSocket, TypeOK, LinkTypeOK
<1> QED
  BY <1>4, <1>5, <1>6

\* The connection is lost.
LEMMA LinkDropsStep == IInv /\ LinkDrops => IInv'
<1> SUFFICES ASSUME IInv, LinkDrops PROVE IInv'
  OBVIOUS
<1>0. TypeOK /\ StreamOK
  BY DEF IInv
<1>1. PICK k \in 0 .. Len(inbox) : inbox' = SubSeq(inbox, 1, k)
  BY DEF LinkDrops
<1>2. UNCHANGED <<upload, pending, raw, home, handlerVars, phase, ws, sessions>>
  BY DEF LinkDrops, Drop
<1>3. link = "up" /\ link' # "up"
  BY DEF LinkDrops, Drop
<1>4. inbox \in Seq(ServerFrames)
  BY <1>0 DEF TypeOK
<1>5. inbox' \in Seq(ServerFrames) /\ DOMAIN inbox' = 1 .. k /\ DOMAIN inbox = 1 .. Len(inbox)
      /\ \A i \in DOMAIN inbox' : i \in DOMAIN inbox /\ inbox'[i] = inbox[i]
  BY <1>1, <1>4
<1>6. LinkTypeOK'
  BY <1>0, LinkTypes DEF LinkDrops, LinkStep, TypeOK
<1>7. TypeOK'
  BY <1>0, <1>2, <1>5, <1>6 DEF TypeOK, handlerVars
<1>8. \A r \in Req : \A p : InFlight(r, p)' => InFlight(r, p)
  BY <1>5 DEF InFlight
\* A frame of the request that is older than one that is left is left too.
<1>9. ASSUME NEW r \in Req, NEW p \in Nat, NEW n \in Nat,
             InFlight(r, p)', InFlight(r, n), n < p
      PROVE  InFlight(r, n)'
  <2>1. PICK i \in DOMAIN inbox' : inbox'[i].req = r /\ inbox'[i].part = p
    BY <1>9 DEF InFlight
  <2>2. PICK j \in DOMAIN inbox : inbox[j].req = r /\ inbox[j].part = n
    BY <1>9 DEF InFlight
  <2>3. j < i
    BY <1>0, <1>5, <1>9, <2>1, <2>2 DEF StreamOK, Ordered
  <2> QED
    BY <1>5, <2>2, <2>3 DEF InFlight
<1>10. UploadOK' /\ FramesOK' /\ Ordered'
  <2>1. UploadOK'
    BY <1>0, <1>2 DEF StreamOK, UploadOK, Ended
  <2>2. FramesOK' /\ Ordered'
    BY <1>0, <1>2, <1>5 DEF StreamOK, FramesOK, Ordered
  <2> QED
    BY <2>1, <2>2
<1>11. Gapless' /\ Reaching'
  <2>1. Gapless'
    BY <1>0, <1>8, <1>9 DEF StreamOK, Gapless
  <2> QED
    BY <1>3, <2>1 DEF Reaching
<1>12. PendingOK'
  <2> SUFFICES ASSUME NEW r \in Req, pending'[r] # <<>>
               PROVE  LET k0 == Len(pending[r])
                      IN  /\ \A i \in 1 .. k0 : pending[r][i] = i
                          /\ k0 <= Len(upload[r]) /\ upload[r][k0] # "END"
                          /\ \A p \in Nat : InFlight(r, p)' =>
                               k0 < p /\ \A n \in Nat : k0 < n /\ n < p => InFlight(r, n)'
    BY <1>2, <1>3 DEF PendingOK
  <2>1. PendingOK /\ pending[r] # <<>>
    BY <1>0, <1>2 DEF StreamOK
  <2> QED
    BY <1>8, <1>9, <2>1 DEF PendingOK
<1>13. Reading' /\ StartedOnce' /\ RequestWhole'
  <2>1. Reading'
    <3>1. phase # "serving" => inbox = <<>>
      BY <1>0 DEF StreamOK, Reading
    <3>2. inbox = <<>> => inbox' = <<>>
      BY <1>1, <1>4
    <3> QED
      BY <1>0, <1>2, <3>1, <3>2 DEF StreamOK, Reading
  <2>2. StartedOnce'
    BY <1>0, <1>2, <1>8 DEF StreamOK, StartedOnce, handlerVars
  <2>3. RequestWhole'
    BY <1>0, <1>2 DEF StreamOK, RequestWhole, Ended, handlerVars
  <2> QED
    BY <2>1, <2>2, <2>3
<1>14. HandlersOK' /\ RepliesOK'
  <2>1. Steady
    BY <1>2, <1>3 DEF Steady
  <2> QED
    BY <1>2, <1>6, <2>1, HandlersUnchanged, RepliesOnLink DEF IInv
<1> QED
  BY <1>7, <1>10, <1>11, <1>12, <1>13, <1>14 DEF IInv, StreamOK

\* The read loop is over: nothing is left of its requests.
LEMMA SessionEndsStep == IInv /\ SessionEnds => IInv'
<1> SUFFICES ASSUME IInv, SessionEnds PROVE IInv'
  OBVIOUS
<1>0. TypeOK /\ StreamOK
  BY DEF IInv
<1>1. inbox' = <<>> /\ pending' = [r \in Req |-> <<>>]
      /\ UNCHANGED <<upload, raw, home, handlerVars>>
  BY DEF SessionEnds
<1>2. LinkTypeOK'
  BY <1>0, LinkTypes DEF SessionEnds, LinkStep, TypeOK
<1>3. TypeOK'
  <2>1. inbox' \in Seq(ServerFrames) /\ pending' \in [Req -> Seq(Parts)]
    BY <1>1
  <2> QED
    BY <1>0, <1>1, <1>2, <2>1 DEF TypeOK, handlerVars
<1>4. DOMAIN inbox' = {} /\ \A r, p : ~ InFlight(r, p)'
  BY <1>1 DEF InFlight
<1>5. UploadOK'
  BY <1>0, <1>1 DEF StreamOK, UploadOK, Ended
<1>6. FramesOK' /\ Ordered' /\ Gapless' /\ Reaching' /\ PendingOK' /\ Reading' /\ StartedOnce'
  BY <1>1, <1>4 DEF FramesOK, Ordered, Gapless, Reaching, PendingOK, Reading, StartedOnce
<1>7. RequestWhole'
  BY <1>0, <1>1 DEF StreamOK, RequestWhole, Ended, handlerVars
<1>8. HandlersOK' /\ RepliesOK'
  <2>1. Steady
    BY DEF SessionEnds, Steady, ReadLoopRaises, ReadLoopReturns, RelayRaises, Leave
  <2> QED
    BY <1>1, <1>2, <2>1, HandlersUnchanged, RepliesOnLink DEF IInv
<1> QED
  BY <1>3, <1>5, <1>6, <1>7, <1>8 DEF IInv, StreamOK

\* The other steps of the connection happen between two read loops, or turn
\* into the next one.
LEMMA LinkStepKeeps == IInv /\ (SessionStarts \/ OtherLinkStep) => IInv'
<1> SUFFICES ASSUME IInv, SessionStarts \/ OtherLinkStep PROVE IInv'
  OBVIOUS
<1>0. TypeOK /\ StreamOK
  BY DEF IInv
<1>1. UNCHANGED <<streamVars, handlerVars>>
  BY DEF SessionStarts, OtherLinkStep
<1>2. phase # "serving"
  BY DEF SessionStarts, OtherLinkStep, Connect, Register, HandshakeAborts, GiveUp, Close,
         CloseInterrupted
<1>3. LinkTypeOK'
  BY <1>0, LinkTypes DEF SessionStarts, OtherLinkStep, LinkStep, TypeOK
<1>4. TypeOK'
  BY <1>0, <1>1, <1>3 DEF TypeOK, streamVars, handlerVars
<1>5. inbox = <<>> /\ \A r \in Req : pending[r] = <<>>
  BY <1>0, <1>2 DEF StreamOK, Reading
<1>6. DOMAIN inbox = {} /\ \A r, p : ~ InFlight(r, p)'
  BY <1>1, <1>5 DEF InFlight, streamVars
<1>7. StreamOK'
  <2>1. UploadOK' /\ RequestWhole'
    BY <1>0, <1>1 DEF StreamOK, UploadOK, RequestWhole, Ended, streamVars, handlerVars
  <2>2. FramesOK' /\ Ordered' /\ Gapless' /\ Reaching' /\ PendingOK' /\ Reading' /\ StartedOnce'
    BY <1>1, <1>5, <1>6
    DEF FramesOK, Ordered, Gapless, Reaching, PendingOK, Reading, StartedOnce, streamVars
  <2> QED
    BY <2>1, <2>2 DEF StreamOK
<1>8. RepliesOK'
  <2>1. Steady \/ Close \/ (Connect /\ lockQ = <<>>)
    BY DEF Steady, SessionStarts, OtherLinkStep, Register, HandshakeAborts, GiveUp,
           CloseInterrupted
  <2> QED
    BY <1>1, <1>3, <2>1, RepliesOnLink DEF streamVars
<1> QED
  BY <1>1, <1>4, <1>7, <1>8, HandlersUnchanged DEF IInv

-----------------------------------------------------------------------------
(* The read loop *)

\* A frame is read.
LEMMA ReadLoopStep == IInv /\ ReadLoop => IInv'
<1> SUFFICES ASSUME IInv, ReadLoop PROVE IInv'
  OBVIOUS
<1>0. TypeOK /\ StreamOK
  BY DEF IInv
<1>2. inbox \in Seq(ServerFrames) /\ inbox # <<>>
  BY <1>0 DEF TypeOK, ReadLoop
<1>a. PICK f \in ServerFrames : f = Head(inbox)
  BY <1>2, TailFacts
<1>4. PICK r \in Req, p0 \in 1 .. MaxParts + 1 : r = f.req /\ p0 = f.part /\ f.op \in RequestOps
  BY <1>a DEF ServerFrames
<1> DEFINE k == Len(pending[r])
<1>1. /\ phase = "serving" /\ inbox # <<>> /\ inbox' = Tail(inbox)
      /\ RecvHead(f) \/ RecvBody(f) \/ RecvEnd(f)
      /\ UNCHANGED <<linkVars, upload, op, got, conn, free, lockQ, wire>>
  BY <1>a DEF ReadLoop
<1>b. p0 \in Nat
  BY RequestAssumption
<1>3. /\ inbox' \in Seq(ServerFrames)
      /\ f = inbox[1] /\ f \in ServerFrames /\ 1 \in DOMAIN inbox
      /\ \A i \in DOMAIN inbox' : i + 1 \in DOMAIN inbox /\ i + 1 # 1 /\ inbox'[i] = inbox[i + 1]
      /\ \A i \in DOMAIN inbox : i # 1 => i - 1 \in DOMAIN inbox' /\ inbox'[i - 1] = inbox[i]
  BY <1>a, <1>1, <1>2, TailFacts
<1>5. upload[r] \in Seq(RequestOps) /\ pending[r] \in Seq(Parts)
  BY <1>0, <1>4, <1>b DEF TypeOK
<1>6. p0 \in DOMAIN upload[r] /\ f.op = upload[r][p0] /\ p0 >= 1 /\ p0 <= Len(upload[r])
  <2>1. p0 \in DOMAIN upload[r] /\ f.op = upload[r][p0]
    BY <1>0, <1>3, <1>4 DEF StreamOK, FramesOK
  <2> QED
    BY <1>5, <2>1
<1>7. InFlight(r, p0)
  BY <1>3, <1>4 DEF InFlight
<1>8. ASSUME NEW p \in Nat, InFlight(r, p) PROVE p0 <= p
  <2>1. PICK i \in DOMAIN inbox : inbox[i].req = r /\ inbox[i].part = p
    BY <1>8 DEF InFlight
  <2>2. i = 1 \/ 1 < i
    BY <1>2
  <2> QED
    BY <1>0, <1>3, <1>4, <1>b, <2>1, <2>2 DEF StreamOK, Ordered
<1>9. \A x \in Req : \A p \in Nat : InFlight(x, p)' <=> InFlight(x, p) /\ ~ (x = r /\ p = p0)
  <2>1. ASSUME NEW x \in Req, NEW p \in Nat, InFlight(x, p)'
        PROVE  InFlight(x, p) /\ ~ (x = r /\ p = p0)
    <3>1. PICK i \in DOMAIN inbox' : inbox'[i].req = x /\ inbox'[i].part = p
      BY <2>1 DEF InFlight
    <3>2. i + 1 \in DOMAIN inbox /\ inbox[i + 1].req = x /\ inbox[i + 1].part = p /\ 1 < i + 1
      BY <1>2, <1>3, <3>1
    <3>3. InFlight(x, p)
      BY <3>2 DEF InFlight
    <3>4. x = r => p0 < p
      BY <1>0, <1>3, <1>4, <3>2 DEF StreamOK, Ordered
    <3> QED
      BY <1>4, <1>b, <3>3, <3>4
  <2>2. ASSUME NEW x \in Req, NEW p \in Nat, InFlight(x, p), ~ (x = r /\ p = p0)
        PROVE  InFlight(x, p)'
    <3>1. PICK i \in DOMAIN inbox : inbox[i].req = x /\ inbox[i].part = p
      BY <2>2 DEF InFlight
    <3>2. i # 1
      BY <1>3, <1>4, <2>2, <3>1
    <3>3. i - 1 \in DOMAIN inbox' /\ inbox'[i - 1] = inbox[i]
      BY <1>3, <3>2
    <3> QED
      BY <3>1, <3>3 DEF InFlight
  <2> QED
    BY <2>1, <2>2
<1>10. pc[r] = "idle"
  BY <1>0, <1>4, <1>b, <1>7 DEF StreamOK, StartedOnce
<1>11. pending[r] # <<>> => k = p0 - 1 /\ k \in Nat /\ \A i \in 1 .. k : pending[r][i] = i
  <2> SUFFICES ASSUME pending[r] # <<>>
               PROVE  k = p0 - 1 /\ k \in Nat /\ \A i \in 1 .. k : pending[r][i] = i
    OBVIOUS
  <2>1. k < p0 /\ (\A n \in Nat : k < n /\ n < p0 => InFlight(r, n))
        /\ \A i \in 1 .. k : pending[r][i] = i
    BY <1>0, <1>4, <1>b, <1>7 DEF StreamOK, PendingOK
  <2>2. k \in Nat
    BY <1>5
  <2>3. ~ (k + 1 < p0)
    BY <1>8, <2>1, <2>2, <1>4, <1>b
  <2> QED
    BY <1>4, <1>b, <2>1, <2>2, <2>3
<1>12. f.op # "END" => p0 \in Parts
  <2>0. /\ Len(upload[r]) \in Nat /\ Len(upload[r]) <= MaxParts + 1
        /\ ~ Ended(r) => Len(upload[r]) <= MaxParts
    BY <1>0, <1>5 DEF StreamOK, UploadOK
  <2>1. CASE Ended(r)
    <3>1. f.op # "END" => p0 # Len(upload[r])
      BY <1>6, <2>1 DEF Ended
    <3> QED
      BY <1>b, <1>6, <2>0, <3>1, RequestAssumption DEF Parts
  <2>2. CASE ~ Ended(r)
    BY <1>b, <1>6, <2>0, <2>2, RequestAssumption DEF Parts
  <2> QED
    BY <2>1, <2>2
\* What the loop keeps after a HEAD or a BODY ends with the frame it has read.
<1>13. /\ \A x \in Req : x # r => pending'[x] = pending[x]
       /\ pending' \in [Req -> Seq(Parts)]
       /\ pending'[r] # <<>> =>
            /\ f.op # "END" /\ Len(pending'[r]) = p0
            /\ \A i \in 1 .. p0 : pending'[r][i] = i
  <2>0. pending \in [Req -> Seq(Parts)]
    BY <1>0 DEF TypeOK
  <2>1. CASE RecvHead(f)
    <3>1. pending' = [pending EXCEPT ![r] = <<p0>>] /\ f.op = "HEAD"
      BY <1>4, <2>1 DEF RecvHead
    <3>2. p0 = 1
      BY <1>0, <1>4, <1>b, <1>6, <3>1 DEF StreamOK, UploadOK
    <3>3. <<p0>> \in Seq(Parts) /\ Len(<<p0>>) = 1 /\ <<p0>>[1] = p0
      BY <1>12, <3>1
    <3> QED
      BY <1>4, <1>b, <2>0, <3>1, <3>2, <3>3
  <2>2. CASE RecvBody(f)
    <3>1. CASE pending[r] = <<>>
      BY <1>4, <2>0, <2>2, <3>1 DEF RecvBody
    <3>2. CASE pending[r] # <<>>
      <4>1. pending' = [pending EXCEPT ![r] = Append(@, p0)] /\ f.op = "BODY"
        BY <1>4, <2>2, <3>2 DEF RecvBody
      <4>2. /\ Append(pending[r], p0) \in Seq(Parts) /\ Len(Append(pending[r], p0)) = k + 1
            /\ Append(pending[r], p0)[k + 1] = p0
            /\ \A i \in DOMAIN pending[r] : Append(pending[r], p0)[i] = pending[r][i]
            /\ DOMAIN pending[r] = 1 .. k
        BY <1>5, <1>12, <4>1, AppendFacts
      <4>3. k + 1 = p0 /\ \A i \in 1 .. k : pending[r][i] = i
        BY <1>11, <1>4, <1>b, <3>2
      <4>4. \A i \in 1 .. p0 : Append(pending[r], p0)[i] = i
        BY <1>4, <1>b, <1>5, <4>2, <4>3
      <4> HIDE DEF k
      <4> QED
        BY <1>4, <1>b, <2>0, <4>1, <4>2, <4>3, <4>4
    <3> QED
      BY <3>1, <3>2
  <2>3. CASE RecvEnd(f)
    <3>1. <<>> \in Seq(Parts)
      OBVIOUS
    <3>2. pending' = [pending EXCEPT ![r] = <<>>]
      BY <1>4, <2>3 DEF RecvEnd
    <3> QED
      BY <1>4, <1>b, <2>0, <3>1, <3>2
  <2> QED
    BY <1>1, <2>1, <2>2, <2>3
\* The handler starts at the END of a request that is there as a whole.
<1>14. \/ UNCHANGED <<raw, home, pc, semQ>>
       \/ /\ pending[r] # <<>> /\ f.op = "END" /\ pending'[r] = <<>>
          /\ raw' = [raw EXCEPT ![r] = pending[r]]
          /\ home' = [home EXCEPT ![r] = ws]
          /\ pc' = [pc EXCEPT ![r] = "sem"]
          /\ semQ' = Append(semQ, r)
  <2>1. RecvHead(f) \/ RecvBody(f) => UNCHANGED <<raw, home, pc, semQ>>
    BY DEF RecvHead, RecvBody
  <2>2. RecvEnd(f) => pending'[r] = <<>>
    BY <1>0, <1>4, <1>b DEF RecvEnd, TypeOK
  <2>3. CASE RecvEnd(f)
    BY <1>4, <2>2, <2>3 DEF RecvEnd
  <2> QED
    BY <1>1, <2>1, <2>3
<1> HIDE DEF k
<1>15. TypeOK'
  <2>1. ws \in 0 .. MaxSessions /\ "sem" \in Steps
    BY <1>0 DEF TypeOK, LinkTypeOK, Steps
  <2>2. raw' \in [Req -> Seq(Parts)] /\ home' \in [Req -> 0 .. MaxSessions]
        /\ pc' \in [Req -> Steps] /\ semQ' \in Seq(Req)
    <3>1. /\ raw \in [Req -> Seq(Parts)] /\ home \in [Req -> 0 .. MaxSessions]
          /\ pc \in [Req -> Steps] /\ semQ \in Seq(Req)
      BY <1>0 DEF TypeOK
    <3>2. Append(semQ, r) \in Seq(Req)
      BY <3>1
    <3> QED
      BY <1>5, <1>14, <2>1, <3>1, <3>2
  <2> QED
    BY <1>0, <1>1, <1>3, <1>13, <2>2 DEF TypeOK, LinkTypeOK, linkVars
<1>16. UploadOK' /\ FramesOK' /\ Ordered'
  <2>1. UploadOK'
    BY <1>0, <1>1 DEF StreamOK, UploadOK, Ended
  <2>2. FramesOK'
    BY <1>0, <1>1, <1>3 DEF StreamOK, FramesOK
  <2>3. \A i, j \in DOMAIN inbox' : i < j => i + 1 < j + 1
    BY <1>3
  <2>4. Ordered'
    <3> SUFFICES ASSUME NEW i \in DOMAIN inbox', NEW j \in DOMAIN inbox',
                        i < j, inbox'[i].req = inbox'[j].req
                 PROVE  inbox'[i].part < inbox'[j].part
      BY DEF Ordered
    <3>1. /\ i + 1 \in DOMAIN inbox /\ inbox'[i] = inbox[i + 1]
          /\ j + 1 \in DOMAIN inbox /\ inbox'[j] = inbox[j + 1]
      BY <1>3
    <3> QED
      BY <1>0, <2>3, <3>1 DEF StreamOK, Ordered
  <2> QED
    BY <2>1, <2>2, <2>4
<1>17. Gapless' /\ Reaching'
  <2>1. Gapless'
    <3> SUFFICES ASSUME NEW x \in Req, NEW p \in Nat, NEW q \in Nat, NEW n \in Nat,
                        InFlight(x, p)', InFlight(x, q)', p < n, n < q
                 PROVE  InFlight(x, n)'
      BY DEF Gapless
    <3>1. InFlight(x, n)
      BY <1>0, <1>9 DEF StreamOK, Gapless
    <3>2. ~ (x = r /\ n = p0)
      BY <1>8, <1>9, <1>4, <1>b
    <3> QED
      BY <1>9, <3>1, <3>2
  <2>2. Reaching'
    <3> SUFFICES ASSUME link = "up", NEW x \in Req, NEW p \in Nat, NEW n \in Nat,
                        InFlight(x, p)', p < n, n <= Len(upload[x])
                 PROVE  InFlight(x, n)'
      BY <1>1 DEF Reaching, linkVars
    <3>1. InFlight(x, n)
      BY <1>0, <1>9 DEF StreamOK, Reaching
    <3>2. ~ (x = r /\ n = p0)
      BY <1>8, <1>9, <1>4, <1>b
    <3> QED
      BY <1>9, <3>1, <3>2
  <2> QED
    BY <2>1, <2>2
<1>18. PendingOK'
  <2>1. ASSUME NEW x \in Req, x # r, pending[x] # <<>>
        PROVE  LET n0 == Len(pending[x])
               IN  /\ \A i \in 1 .. n0 : pending[x][i] = i
                   /\ n0 <= Len(upload[x]) /\ upload[x][n0] # "END"
                   /\ \A p \in Nat : InFlight(x, p)' =>
                        n0 < p /\ \A n \in Nat : n0 < n /\ n < p => InFlight(x, n)'
                   /\ link = "up" => \A n \in Nat : n0 < n /\ n <= Len(upload[x]) => InFlight(x, n)'
    BY <1>0, <1>9, <2>1 DEF StreamOK, PendingOK
  <2>2. ASSUME pending'[r] # <<>>
        PROVE  /\ \A p \in Nat : InFlight(r, p)' =>
                    p0 < p /\ \A n \in Nat : p0 < n /\ n < p => InFlight(r, n)'
               /\ link = "up" => \A n \in Nat : p0 < n /\ n <= Len(upload[r]) => InFlight(r, n)'
    <3>1. ASSUME NEW p \in Nat, InFlight(r, p)'
          PROVE  p0 < p /\ \A n \in Nat : p0 < n /\ n < p => InFlight(r, n)'
      <4>1. InFlight(r, p) /\ p # p0
        BY <1>4, <1>b, <1>9, <3>1
      <4>2. p0 < p
        BY <1>4, <1>b, <1>8, <4>1
      <4>3. \A n \in Nat : p0 < n /\ n < p => InFlight(r, n) /\ n # p0
        BY <1>0, <1>4, <1>b, <1>7, <4>1 DEF StreamOK, Gapless
      <4> QED
        BY <1>4, <1>b, <1>9, <4>2, <4>3
    <3>2. ASSUME link = "up", NEW n \in Nat, p0 < n, n <= Len(upload[r])
          PROVE  InFlight(r, n)'
      <4>1. InFlight(r, n) /\ n # p0
        BY <1>0, <1>4, <1>b, <1>7, <3>2 DEF StreamOK, Reaching
      <4> QED
        BY <1>4, <1>b, <1>9, <4>1
    <3> QED
      BY <3>1, <3>2
  <2>3. upload' = upload /\ link' = link
    BY <1>1 DEF linkVars
  <2>4. ASSUME pending'[r] # <<>>
        PROVE  Len(pending'[r]) = p0 /\ upload[r][p0] # "END"
               /\ \A i \in 1 .. p0 : pending'[r][i] = i
    BY <1>6, <1>13, <2>4
  <2> SUFFICES ASSUME NEW x \in Req, pending'[x] # <<>>
               PROVE  LET n0 == Len(pending'[x])
                      IN  /\ \A i \in 1 .. n0 : pending'[x][i] = i
                          /\ n0 <= Len(upload[x]) /\ upload[x][n0] # "END"
                          /\ \A p \in Nat : InFlight(x, p)' =>
                               n0 < p /\ \A n \in Nat : n0 < n /\ n < p => InFlight(x, n)'
                          /\ link = "up" =>
                               \A n \in Nat : n0 < n /\ n <= Len(upload[x]) => InFlight(x, n)'
    BY <2>3 DEF PendingOK
  <2>5. CASE x = r
    BY <1>6, <2>2, <2>4, <2>5
  <2>6. CASE x # r
    BY <1>13, <2>1, <2>6
  <2> QED
    BY <2>5, <2>6
<1>19. Reading'
  BY <1>1 DEF Reading, linkVars
<1>20. StartedOnce'
  <2>1. \A x \in Req : x # r => pc'[x] = pc[x]
    BY <1>0, <1>4, <1>b, <1>14 DEF TypeOK
  <2>2. \A x \in Req : x # r /\ pc'[x] # "idle" =>
          pending'[x] = <<>> /\ \A p \in Nat : ~ InFlight(x, p)'
    BY <1>0, <1>9, <1>13, <2>1 DEF StreamOK, StartedOnce
  <2>3. CASE pc'[r] = "idle"
    BY <2>2, <2>3 DEF StartedOnce
  <2>4. CASE pc'[r] # "idle"
    <3>1. f.op = "END" /\ pending'[r] = <<>>
      BY <1>10, <1>14, <2>4
    <3>2. p0 = Len(upload[r])
      BY <1>0, <1>4, <1>b, <1>6, <3>1 DEF StreamOK, UploadOK
    <3>3. \A p \in Nat : ~ InFlight(r, p)'
      BY <1>0, <1>4, <1>b, <1>8, <1>9, <3>2, <1>5, FlightBounded DEF StreamOK
    <3> QED
      BY <2>2, <3>1, <3>3 DEF StartedOnce
  <2> QED
    BY <2>3, <2>4
<1>21. RequestWhole'
  <2>1. CASE UNCHANGED <<raw, home, pc, semQ>>
    BY <1>0, <1>1, <2>1 DEF StreamOK, RequestWhole, Ended
  <2>2. CASE /\ pending[r] # <<>> /\ f.op = "END"
             /\ raw' = [raw EXCEPT ![r] = pending[r]]
             /\ pc' = [pc EXCEPT ![r] = "sem"]
    <3>1. p0 = Len(upload[r]) /\ Ended(r)
      <4>1. p0 = Len(upload[r])
        BY <1>0, <1>6, <2>2 DEF StreamOK, UploadOK
      <4>2. upload[r] # <<>>
        BY <1>5, <1>6
      <4>3. upload[r][Len(upload[r])] = "END"
        BY <1>6, <2>2, <4>1
      <4> QED
        BY <4>1, <4>2, <4>3 DEF Ended
    <3>2. Len(pending[r]) = Len(upload[r]) - 1 /\ \A i \in 1 .. Len(pending[r]) : pending[r][i] = i
      BY <1>11, <2>2, <3>1 DEF k
    <3>3. pending[r] = [i \in 1 .. Len(upload[r]) - 1 |-> i]
      <4>1. pending[r] \in Seq(Parts)
        BY <1>0 DEF TypeOK
      <4>2. pending[r] = [i \in 1 .. Len(pending[r]) |-> pending[r][i]]
        BY <4>1
      <4> QED
        BY <3>2, <4>2
    <3>4. raw'[r] = pending[r] /\ \A x \in Req : x # r => raw'[x] = raw[x] /\ pc'[x] = pc[x]
      BY <1>0, <1>4, <1>b, <2>2 DEF TypeOK
    <3> QED
      BY <1>0, <1>1, <3>1, <3>3, <3>4 DEF StreamOK, RequestWhole, Ended
  <2> QED
    BY <1>14, <2>1, <2>2
<1>22. HandlersOK'
  <2>1. CASE UNCHANGED <<raw, home, pc, semQ>>
    BY <1>1, <2>1, HandlersUnchanged DEF IInv, handlerVars
  <2>2. CASE pc' = [pc EXCEPT ![r] = "sem"] /\ semQ' = Append(semQ, r)
    <3>0. /\ semQ \in Seq(Req) /\ Unique(semQ) /\ ~ InQueue(semQ, r)
          /\ pc'[r] = "sem" /\ \A x \in Req : x # r => pc'[x] = pc[x]
      BY <1>0, <1>4, <1>b, <1>10, <2>2 DEF IInv, TypeOK, HandlersOK, QueuesOK, Tidy
    <3>1. Unique(semQ') /\ \A x \in Req : InQueue(semQ', x) <=> InQueue(semQ, x) \/ x = r
      BY <1>4, <1>b, <2>2, <3>0, QueueAppend
    <3>2. QueuesOK'
      BY <1>1, <3>1 DEF IInv, HandlersOK, QueuesOK
    <3>3. Admitted' = Admitted
      BY <1>4, <1>b, <1>10, <3>0 DEF Admitted, Calls, Sending
    <3>4. SlotsOK'
      BY <1>1, <3>3 DEF IInv, HandlersOK, SlotsOK, SlotsAccounted
    <3>5. ConnOK' /\ OneSender'
      BY <1>1, <1>4, <1>b, <1>10, <3>0 DEF IInv, HandlersOK, ConnOK, OneSender, Sending
    <3>6. Tidy'
      BY <1>1, <1>4, <1>b, <1>10, <3>0, <3>1 DEF IInv, HandlersOK, Tidy, Sending, Finished
    <3> QED
      BY <3>2, <3>4, <3>5, <3>6 DEF HandlersOK
  <2> QED
    BY <1>14, <2>1, <2>2
<1>23. RepliesOK'
  <2>1. CASE UNCHANGED <<raw, home, pc, semQ>>
    BY <1>1, <2>1, RepliesUnchanged DEF IInv, handlerVars
  <2>2. CASE home' = [home EXCEPT ![r] = ws] /\ pc' = [pc EXCEPT ![r] = "sem"]
    <3>0. /\ home'[r] = ws /\ pc'[r] = "sem"
          /\ \A x \in Req : x # r => pc'[x] = pc[x] /\ home'[x] = home[x]
      BY <1>0, <1>4, <1>b, <2>2 DEF TypeOK
    <3>1. ws \in Sessions /\ ws # NoSocket /\ wire[ws][r] = <<>> /\ got[r] = 0
      BY <1>0, <1>1, <1>4, <1>b, <1>10 DEF IInv, RepliesOK, TypeOK, LinkTypeOK, Sessions, NoSocket
    <3>2. Reply(r)' = <<>> /\ \A x \in Req : x # r => UNCHANGED Reply(x)
      BY <1>1, <3>0, <3>1 DEF Reply
    <3>3. WrittenBy(r)' /\ InOrder(Reply(r))'
      BY <1>1, <3>0, <3>1, <3>2 DEF WrittenBy, InOrder
    <3>4. \A x \in Req : x # r => (WrittenBy(x)' <=> WrittenBy(x))
      BY <1>1, <3>0, <3>2 DEF WrittenBy
    <3>5. \A x \in Req : x # r => InOrder(Reply(x))'
      BY <3>2 DEF IInv, RepliesOK
    <3> QED
      BY <1>1, <1>4, <1>b, <3>0, <3>1, <3>3, <3>4, <3>5 DEF IInv, RepliesOK, linkVars
  <2> QED
    BY <1>14, <2>1, <2>2
<1> QED
  BY <1>15, <1>16, <1>17, <1>18, <1>19, <1>20, <1>21, <1>22, <1>23 DEF IInv, StreamOK

-----------------------------------------------------------------------------
(* What a step of one handler does to the slots and the queues *)

Inside == Calls \cup Sending

\* The slots of the semaphore after a step of one handler.
LEMMA SlotsAfter ==
  ASSUME TypeOK, SlotsOK, NEW r \in Req, NEW s \in Steps,
         pc' = [pc EXCEPT ![r] = s], pc[r] \in Inside,
         \/ s \in Inside /\ free' = free
         \/ s \notin Inside /\ free' = free + 1
  PROVE  SlotsOK' /\ free' \in 0 .. MaxConcurrent
<1>1. \A x \in Req : x # r => pc'[x] = pc[x]
  BY DEF TypeOK
<1>2. pc'[r] = s
  BY DEF TypeOK
<1>3. IsFiniteSet(Admitted) /\ Cardinality(Admitted) \in Nat /\ r \in Admitted
      /\ free + Cardinality(Admitted) = MaxConcurrent /\ free \in Nat
  BY FS_CardinalityType DEF SlotsOK, SlotsAccounted, Admitted, Inside, TypeOK
<1>4. CASE s \in Inside /\ free' = free
  <2>1. Admitted' = Admitted
    BY <1>1, <1>2, <1>4 DEF Admitted, Inside
  <2> QED
    BY <1>4, <2>1 DEF SlotsOK, SlotsAccounted, TypeOK
<1>5. CASE s \notin Inside /\ free' = free + 1
  <2>1. Admitted' = Admitted \ {r}
    BY <1>1, <1>2, <1>5 DEF Admitted, Inside
  <2>2. IsFiniteSet(Admitted') /\ Cardinality(Admitted') = Cardinality(Admitted) - 1
    BY <1>3, <2>1, FS_RemoveElement
  <2>3. Cardinality(Admitted') \in Nat
    BY <2>2, FS_CardinalityType
  <2>4. free' + Cardinality(Admitted') = MaxConcurrent
    BY <1>3, <1>5, <2>2, <2>3
  <2> QED
    BY <1>3, <1>5, <2>2, <2>3, <2>4, RequestAssumption DEF SlotsOK, SlotsAccounted
<1> QED
  BY <1>4, <1>5

\* The handlers after a step of one of them.
LEMMA HandlersAfter ==
  ASSUME IInv, NEW r \in Req, NEW s \in Steps,
         pc' = [pc EXCEPT ![r] = s], pc[r] \in Inside, s # "request",
         \/ s \in Inside /\ free' = free
         \/ s \in Finished /\ free' = free + 1,
         \A x \in Req : x # r => conn'[x] = conn[x] /\ op'[x] = op[x],
         s \in Finished => conn'[r] # "held",
         s \in Sending /\ op'[r] = "ERROR" => conn'[r] # "held",
         UNCHANGED semQ, Unique(lockQ'),
         \A x \in Req : x # r => (InQueue(lockQ', x) <=> pc[x] \in Sending),
         InQueue(lockQ', r) <=> s \in Sending,
         \A x \in Req : pc'[x] \in {"writing", "refused"} => lockQ' # <<>> /\ Head(lockQ') = x
  PROVE  HandlersOK' /\ free' \in 0 .. MaxConcurrent
<1>0. TypeOK /\ HandlersOK
  BY DEF IInv
<1>1. pc'[r] = s /\ \A x \in Req : x # r => pc'[x] = pc[x]
  BY <1>0 DEF TypeOK
<1>2. Finished \cap Inside = {} /\ "sem" \notin Inside /\ "sem" \notin Finished
  BY DEF Finished, Inside, Calls, Sending
<1>3. SlotsOK' /\ free' \in 0 .. MaxConcurrent
  BY <1>0, <1>2, SlotsAfter DEF HandlersOK
<1>4. QueuesOK'
  BY <1>0 DEF HandlersOK, QueuesOK
<1>5. ConnOK'
  BY <1>0, <1>1 DEF HandlersOK, ConnOK, Inside, Calls, Sending, Finished
<1>6. OneSender'
  BY DEF OneSender
<1>7. Tidy'
  <2>1. \A x \in Req : pc'[x] \in Finished => conn'[x] # "held"
    BY <1>0, <1>1 DEF HandlersOK, Tidy
  <2>2. \A x \in Req : InQueue(lockQ', x) <=> pc'[x] \in Sending
    BY <1>1
  <2>3. \A x \in Req : InQueue(semQ, x) <=> pc[x] = "sem"
    BY <1>0 DEF HandlersOK, Tidy
  <2>4. pc[r] # "sem" /\ pc'[r] # "sem"
    BY <1>1, <1>2
  <2>5. \A x \in Req : InQueue(semQ', x) <=> pc'[x] = "sem"
    BY <1>1, <2>3, <2>4
  <2> QED
    BY <2>1, <2>2, <2>5 DEF Tidy
<1> QED
  BY <1>3, <1>4, <1>5, <1>6, <1>7 DEF HandlersOK

\* The types after a step of one handler.
LEMMA TypesAfter ==
  ASSUME TypeOK, UNCHANGED <<linkVars, streamVars>>,
         pc' \in [Req -> Steps], op' \in [Req -> ResponseOps], got' \in [Req -> 0 .. MaxChunks],
         conn' \in [Req -> ConnStates], free' \in 0 .. MaxConcurrent,
         semQ' \in Seq(Req), lockQ' \in Seq(Req),
         wire' \in [Sessions -> [Req -> Seq(ResponseFrames)]]
  PROVE  TypeOK'
  BY DEF TypeOK, LinkTypeOK, linkVars, streamVars

-----------------------------------------------------------------------------
(* What it does to the replies *)

\* The frame (o, g) is the next of the reply.
CanFollow(r, o, g) ==
  LET s == Reply(r)
  IN  /\ ~ Over(s)
      /\ o = "HEAD" => s = <<>> /\ g = 0
      /\ o = "BODY" => s # <<>> /\ Len(s) = g
      /\ o = "END" => Len(s) = g + 1

\* A reply is a sequence of frames.
LEMMA ReplyType ==
  ASSUME TypeOK, NEW r \in Req
  PROVE  Reply(r) \in Seq(ResponseFrames)
  BY DEF TypeOK, Reply, NoSocket, Sessions

\* Nothing is written.
LEMMA RepliesQuiet ==
  ASSUME IInv, NEW r \in Req, NEW s \in Steps,
         pc' = [pc EXCEPT ![r] = s], pc[r] # "idle", s # "idle",
         \A x \in Req : x # r => op'[x] = op[x] /\ got'[x] = got[x],
         UNCHANGED <<linkVars, home, wire>>,
         s = "refused" => link # "up",
         home[r] = ws /\ link = "up" => WrittenBy(r)'
  PROVE  RepliesOK'
<1>1. pc'[r] = s /\ \A x \in Req : x # r => pc'[x] = pc[x]
  BY DEF IInv, TypeOK
<1>2. \A x \in Req : UNCHANGED Reply(x)
  BY DEF Reply
<1>3. \A x \in Req : x # r => (WrittenBy(x)' <=> WrittenBy(x))
  BY <1>1, <1>2 DEF WrittenBy
<1>4. \A x \in Req : InOrder(Reply(x))'
  BY <1>2 DEF IInv, RepliesOK
<1> QED
  BY <1>1, <1>3, <1>4 DEF IInv, RepliesOK, linkVars

\* A frame that may follow leaves a reply in order.
LEMMA InOrderAppend ==
  ASSUME NEW s \in Seq(ResponseFrames), InOrder(s), ~ Over(s),
         NEW o \in ResponseOps, NEW g \in 0 .. MaxChunks,
         o = "HEAD" => s = <<>>,
         o = "BODY" => s # <<>> /\ Len(s) = g,
         o = "END" => Len(s) = g + 1
  PROVE  InOrder(Append(s, [op |-> o, n |-> g]))
<1> DEFINE f == [op |-> o, n |-> g]
<1>1. f \in ResponseFrames /\ f.op = o /\ f.n = g /\ g \in Nat
  BY RequestAssumption DEF ResponseFrames
<1> HIDE DEF f
<1>2. /\ Len(Append(s, f)) = Len(s) + 1 /\ Append(s, f)[Len(s) + 1] = f
      /\ \A i \in DOMAIN s : i \in 1 .. Len(s) /\ Append(s, f)[i] = s[i]
      /\ \A i \in DOMAIN Append(s, f) : i \in DOMAIN s \/ i = Len(s) + 1
      /\ Len(s) \in Nat
  BY <1>1, AppendFacts
<1>3. \A i \in DOMAIN s : s[i].op \notin {"END", "ERROR"}
  BY <1>2 DEF InOrder, Over
<1>4. ASSUME NEW i \in DOMAIN s
      PROVE  /\ s[i].op = "HEAD" => i = 1
             /\ s[i].op = "BODY" => i > 1 /\ s[i].n = i - 1
  BY DEF InOrder
<1>5. /\ o = "HEAD" => Len(s) + 1 = 1
      /\ o = "BODY" => Len(s) + 1 > 1 /\ g = (Len(s) + 1) - 1
      /\ o = "END" => Len(s) + 1 > 1 /\ g = (Len(s) + 1) - 2
  <2>1. s # <<>> => Len(s) >= 1
    OBVIOUS
  <2> QED
    BY <1>1, <1>2, <2>1
<1>6. InOrder(Append(s, f))
  BY <1>1, <1>2, <1>3, <1>4, <1>5 DEF InOrder
<1> QED
  BY <1>6 DEF f

\* One frame is written, to the connection that is there.
LEMMA RepliesWrite ==
  ASSUME IInv, NEW r \in Req, NEW o \in ResponseOps, NEW g \in 0 .. MaxChunks,
         pc' = [pc EXCEPT ![r] = "writing"], pc[r] # "idle",
         op' = [op EXCEPT ![r] = o], got' = [got EXCEPT ![r] = g],
         UNCHANGED <<linkVars, home>>, link = "up",
         wire' = [wire EXCEPT ![ws][r] = Append(@, [op |-> o, n |-> g])],
         home[r] = ws => CanFollow(r, o, g)
  PROVE  RepliesOK' /\ wire' \in [Sessions -> [Req -> Seq(ResponseFrames)]]
<1> DEFINE f == [op |-> o, n |-> g]
<1>0. TypeOK /\ RepliesOK
  BY DEF IInv
<1>1. /\ pc'[r] = "writing" /\ op'[r] = o /\ got'[r] = g
      /\ \A x \in Req : x # r => pc'[x] = pc[x] /\ op'[x] = op[x] /\ got'[x] = got[x]
  BY <1>0 DEF TypeOK
<1>2. ws \in Sessions /\ f \in ResponseFrames /\ f.op = o
  BY <1>0 DEF TypeOK, LinkTypeOK, RepliesOK, Sessions, NoSocket, ResponseFrames
<1> HIDE DEF f
<1>3. /\ wire' \in [Sessions -> [Req -> Seq(ResponseFrames)]]
      /\ wire'[ws][r] = Append(wire[ws][r], f)
      /\ \A s \in Sessions, x \in Req : s # ws \/ x # r => wire'[s][x] = wire[s][x]
  <2>1. wire \in [Sessions -> [Req -> Seq(ResponseFrames)]] /\ wire[ws][r] \in Seq(ResponseFrames)
    BY <1>0, <1>2 DEF TypeOK
  <2>2. Append(wire[ws][r], f) \in Seq(ResponseFrames)
    BY <1>2, <2>1
  <2>3. wire' = [wire EXCEPT ![ws][r] = Append(@, f)]
    BY DEF f
  <2> QED
    BY <1>2, <2>1, <2>2, <2>3
<1>4. home' = home /\ home \in [Req -> 0 .. MaxSessions] /\ home[r] # NoSocket
  BY <1>0 DEF TypeOK, RepliesOK
<1>5. \A x \in Req : x # r => UNCHANGED Reply(x)
  BY <1>3, <1>4 DEF Reply, Sessions, NoSocket
<1>6. \A x \in Req : x # r => (WrittenBy(x)' <=> WrittenBy(x))
  BY <1>1, <1>5 DEF WrittenBy
<1>7. CASE home[r] # ws
  <2>1. UNCHANGED Reply(r)
    BY <1>3, <1>4, <1>7 DEF Reply, Sessions, NoSocket
  <2>2. \A x \in Req : InOrder(Reply(x))'
    BY <1>0, <1>5, <2>1 DEF RepliesOK
  <2> QED
    BY <1>0, <1>1, <1>2, <1>3, <1>4, <1>6, <1>7, <2>2 DEF RepliesOK, linkVars, Sessions
<1>8. CASE home[r] = ws
  <2>1. CanFollow(r, o, g) /\ Reply(r) \in Seq(ResponseFrames) /\ InOrder(Reply(r))
    BY <1>0, <1>8, ReplyType DEF RepliesOK
  <2>2. Reply(r)' = Append(Reply(r), f)
    BY <1>3, <1>4, <1>8 DEF Reply
  <2>3. InOrder(Reply(r))'
    BY <2>1, <2>2, InOrderAppend DEF CanFollow, f
  <2>4. Len(Reply(r)') = Len(Reply(r)) + 1 /\ Reply(r)'[Len(Reply(r)')].op = o /\ Len(Reply(r)) \in Nat
    BY <1>2, <2>1, <2>2, AppendFacts
  <2>5. WrittenBy(r)'
    <3>1. o \in {"HEAD", "BODY"} => ~ Over(Reply(r))'
      BY <2>4 DEF Over
    <3>2. o \in {"HEAD", "BODY"} => Len(Reply(r)') = g + 1
      BY <2>1, <2>4 DEF CanFollow
    <3>3. o = "HEAD" => g = 0
      BY <2>1 DEF CanFollow
    <3> QED
      BY <1>1, <3>1, <3>2, <3>3 DEF WrittenBy
  <2>6. \A x \in Req : InOrder(Reply(x))'
    BY <1>0, <1>5, <2>3 DEF RepliesOK
  <2> QED
    BY <1>0, <1>1, <1>2, <1>3, <1>4, <1>6, <1>8, <2>5, <2>6 DEF RepliesOK, linkVars, Sessions
<1> QED
  BY <1>3, <1>7, <1>8

-----------------------------------------------------------------------------
(* send_bytes *)

\* The queue `q' is the one of the lock without the handler r.
Others(q, r) ==
  /\ q \in Seq(Req) /\ Unique(q)
  /\ \A x \in Req : InQueue(q, x) <=> x # r /\ pc[x] \in Sending
  /\ \A x \in Req : x # r /\ pc[x] \in {"writing", "refused"} => q # <<>> /\ Head(q) = x

\* A frame is written, by the handler that has the lock.
LEMMA SendBytesStep ==
  ASSUME IInv, NEW r \in Req, NEW o \in ResponseOps, NEW q, NEW c \in ConnStates,
         NEW g \in 0 .. MaxChunks,
         pc[r] \in Inside, Others(q, r), SendBytes(r, o, q),
         conn' = [conn EXCEPT ![r] = c], o = "ERROR" => c # "held",
         o = "END" /\ ws = NoSocket => c # "held",
         got' = [got EXCEPT ![r] = g],
         home[r] = ws /\ link = "up" => CanFollow(r, o, g),
         UNCHANGED <<linkVars, streamVars, semQ>>
  PROVE  IInv'
<1>0. TypeOK /\ StreamOK /\ HandlersOK /\ RepliesOK
  BY DEF IInv
<1>1. /\ conn'[r] = c /\ conn' \in [Req -> ConnStates]
      /\ \A x \in Req : x # r => conn'[x] = conn[x]
      /\ got'[r] = g /\ got' \in [Req -> 0 .. MaxChunks]
      /\ \A x \in Req : x # r => got'[x] = got[x]
  BY <1>0 DEF TypeOK
<1>2. pc[r] # "idle" /\ pc \in [Req -> Steps] /\ op \in [Req -> ResponseOps]
  BY <1>0 DEF Inside, Calls, Sending, TypeOK
<1>3. UNCHANGED home
  BY DEF streamVars
<1>4. q \in Seq(Req) /\ Unique(q) /\ ~ InQueue(q, r)
      /\ \A x \in Req : x # r => (InQueue(q, x) <=> pc[x] \in Sending)
  BY DEF Others
<1>5. wire \in [Sessions -> [Req -> Seq(ResponseFrames)]] /\ semQ \in Seq(Req)
  BY <1>0 DEF TypeOK
<1>6. Finished \cap Inside = {} /\ Sending \subseteq Inside /\ Inside \subseteq Steps
      /\ Finished \subseteq Steps /\ Sending \cap Finished = {} /\ Calls \cap Sending = {}
      /\ Calls \subseteq Inside
  BY DEF Finished, Inside, Calls, Sending, Steps
\* Without a connection.
<1>7. CASE ws = NoSocket
  <2>1. PICK s \in Steps :
          /\ pc' = [pc EXCEPT ![r] = s]
          /\ \/ s \in Calls \ {"request"} /\ free' = free
             \/ s \in Finished /\ free' = free + 1
          /\ s \in Finished => o \in {"END", "ERROR"}
    BY <1>7 DEF SendBytes, Continue, ResponseOps, Calls, Finished, Steps
  <2>2. lockQ' = q /\ UNCHANGED <<op, wire>>
    BY <1>7 DEF SendBytes
  <2>3. pc'[r] = s /\ pc' \in [Req -> Steps] /\ \A x \in Req : x # r => pc'[x] = pc[x]
    BY <1>2, <2>1
  <2>4. s \notin Sending /\ s \notin {"writing", "refused", "idle", "request"}
    BY <2>1, <1>6 DEF Calls, Sending, Finished
  <2>5. \A x \in Req : pc'[x] \in {"writing", "refused"} => lockQ' # <<>> /\ Head(lockQ') = x
    BY <2>2, <2>3, <2>4 DEF Others
  <2>6. HandlersOK' /\ free' \in 0 .. MaxConcurrent
    BY <1>1, <1>4, <1>6, <1>7, <2>1, <2>2, <2>4, <2>5, HandlersAfter
  <2>7. RepliesOK'
    BY <1>0, <1>1, <1>2, <1>3, <1>7, <2>1, <2>2, <2>4, RepliesQuiet DEF RepliesOK
  <2>8. TypeOK'
    BY <1>0, <1>1, <1>2, <1>4, <1>5, <2>2, <2>3, <2>6, TypesAfter
  <2>9. StreamOK'
    BY <1>0, <1>2, <2>3, StreamUnchanged
  <2> QED
    BY <2>6, <2>7, <2>8, <2>9 DEF IInv
\* With one: the handler joins the queue, and writes if it is the first.
<1>8. CASE ws # NoSocket
  <2>1. lockQ' = Append(q, r) /\ op' = [op EXCEPT ![r] = o] /\ free' = free
    BY <1>8 DEF SendBytes
  <2>2. op'[r] = o /\ op' \in [Req -> ResponseOps] /\ \A x \in Req : x # r => op'[x] = op[x]
    BY <1>2, <2>1
  <2>3. /\ lockQ' \in Seq(Req) /\ lockQ' # <<>> /\ Unique(lockQ')
        /\ \A x \in Req : InQueue(lockQ', x) <=> InQueue(q, x) \/ x = r
        /\ Head(lockQ') = IF q = <<>> THEN r ELSE Head(q)
    BY <1>4, <2>1, QueueAppend
  <2>4. PICK s \in Sending :
          /\ pc' = [pc EXCEPT ![r] = s]
          /\ s \in {"writing", "refused"} => q = <<>>
          /\ \/ s \in {"lock", "refused"} /\ UNCHANGED wire /\ (s = "refused" => link # "up")
             \/ /\ s = "writing" /\ link = "up"
                /\ wire' = [wire EXCEPT ![ws][r] = Append(@, [op |-> o, n |-> got'[r]])]
    BY <1>8 DEF SendBytes, Transmit, Sending
  <2>5. pc'[r] = s /\ pc' \in [Req -> Steps] /\ s # "idle" /\ s \in Steps
        /\ \A x \in Req : x # r => pc'[x] = pc[x]
    BY <1>2, <1>6, <2>4 DEF Sending
  <2>6. \A x \in Req : pc'[x] \in {"writing", "refused"} => lockQ' # <<>> /\ Head(lockQ') = x
    BY <2>3, <2>4, <2>5 DEF Others
  <2>7. HandlersOK' /\ free' \in 0 .. MaxConcurrent
    <3>1. s \in Inside /\ s \notin Finished
      BY <1>6, <2>4
    <3>2. \A x \in Req : x # r => (InQueue(lockQ', x) <=> pc[x] \in Sending)
      BY <1>4, <2>3
    <3>3. InQueue(lockQ', r) <=> s \in Sending
      BY <2>3, <2>4
    <3>4. s \in Sending /\ op'[r] = "ERROR" => conn'[r] # "held"
      BY <1>1, <2>2
    <3> QED
      BY <1>1, <2>1, <2>2, <2>3, <2>4, <2>5, <2>6, <3>1, <3>2, <3>3, <3>4, HandlersAfter
  <2>8. RepliesOK' /\ wire' \in [Sessions -> [Req -> Seq(ResponseFrames)]]
    <3>1. CASE /\ s = "writing" /\ link = "up"
               /\ wire' = [wire EXCEPT ![ws][r] = Append(@, [op |-> o, n |-> got'[r]])]
      <4>1. wire' = [wire EXCEPT ![ws][r] = Append(@, [op |-> o, n |-> g])]
        BY <1>1, <3>1
      <4> QED
        BY <1>2, <1>3, <2>1, <2>4, <3>1, <4>1, RepliesWrite
    <3>2. CASE s \in {"lock", "refused"} /\ UNCHANGED wire /\ (s = "refused" => link # "up")
      <4>1. UNCHANGED Reply(r)
        BY <1>3, <3>2 DEF Reply
      <4>2. home[r] = ws /\ link = "up" => WrittenBy(r)'
        <5> SUFFICES ASSUME home[r] = ws, link = "up" PROVE WrittenBy(r)'
          OBVIOUS
        <5>1. CanFollow(r, o, g) /\ pc'[r] = "lock"
          BY <2>5, <3>2
        <5> QED
          BY <1>1, <2>2, <4>1, <5>1 DEF WrittenBy, CanFollow
      <4> QED
        BY <1>1, <1>2, <1>3, <1>5, <2>2, <2>4, <2>5, <3>2, <4>2, RepliesQuiet
    <3> QED
      BY <2>4, <3>1, <3>2
  <2>9. TypeOK'
    BY <1>0, <1>1, <1>5, <2>2, <2>3, <2>5, <2>7, <2>8, TypesAfter
  <2>10. StreamOK'
    BY <1>0, <1>2, <2>5, StreamUnchanged
  <2> QED
    BY <2>7, <2>8, <2>9, <2>10 DEF IInv
<1> QED
  BY <1>7, <1>8

\* A handler that runs a job is not in the queue of the lock; the owner of the
\* lock is its first.
LEMMA OthersOfCall ==
  ASSUME IInv, NEW r \in Req, pc[r] \in Calls
  PROVE  Others(lockQ, r)
<1>1. pc[r] \notin Sending
  BY DEF Calls, Sending
<1> QED
  BY <1>1 DEF IInv, TypeOK, HandlersOK, QueuesOK, Tidy, OneSender, Others, Sending

\* When the owner lets the lock go, the others are as they should be.
LEMMA OthersOfOwner ==
  ASSUME IInv, NEW r \in Req, lockQ # <<>>, Head(lockQ) = r
  PROVE  Others(Tail(lockQ), r)
<1>1. /\ Tail(lockQ) \in Seq(Req) /\ Unique(Tail(lockQ))
      /\ \A x \in Req : InQueue(Tail(lockQ), x) <=> InQueue(lockQ, x) /\ x # r
  BY QueueTail DEF IInv, TypeOK, HandlersOK, QueuesOK
<1>2. \A x \in Req : x # r => pc[x] \notin {"writing", "refused"}
  BY DEF IInv, HandlersOK, OneSender
<1> QED
  BY <1>1, <1>2 DEF IInv, HandlersOK, Tidy, Others

\* send_bytes has raised, in the owner of the lock.
LEMMA SendRaisesStep ==
  ASSUME IInv, NEW r \in Req, NEW closed \in BOOLEAN,
         pc[r] \in Sending, lockQ # <<>>, Head(lockQ) = r,
         ws = NoSocket \/ link # "up",
         UNCHANGED got, SendRaises(r, closed), UNCHANGED <<linkVars, streamVars, semQ>>
  PROVE  IInv'
<1>0. TypeOK /\ StreamOK /\ HandlersOK /\ RepliesOK
  BY DEF IInv
<1>1. Others(Tail(lockQ), r) /\ pc[r] \in Inside /\ pc[r] # "idle"
  BY OthersOfOwner DEF Inside, Sending
<1>2. ~ (home[r] = ws /\ link = "up")
  BY <1>0, <1>1 DEF RepliesOK
<1>3. CASE op[r] # "ERROR"
  <2>1. conn' = [conn EXCEPT ![r] = "closed"] /\ SendBytes(r, "ERROR", Tail(lockQ))
    BY <1>3 DEF SendRaises, SetConn
  <2>2. got[r] \in 0 .. MaxChunks /\ got' = [got EXCEPT ![r] = got[r]]
    BY <1>0 DEF TypeOK
  <2>3. "closed" \in ConnStates /\ "ERROR" \in ResponseOps
    BY DEF ConnStates, ResponseOps
  <2> QED
    BY <1>1, <1>2, <2>1, <2>2, <2>3, SendBytesStep
<1>4. CASE op[r] = "ERROR"
  <2>1. PICK s \in {"done", "dangling"} :
          /\ pc' = [pc EXCEPT ![r] = s] /\ free' = free + 1
          /\ lockQ' = Tail(lockQ) /\ UNCHANGED <<conn, op, wire>>
    BY <1>4 DEF SendRaises
  <2>2. s \in Steps /\ s \in Finished /\ s \notin Sending
    BY DEF Steps, Finished, Sending
  <2>3. pc'[r] = s /\ pc' \in [Req -> Steps] /\ \A x \in Req : x # r => pc'[x] = pc[x]
    BY <1>0, <2>1, <2>2 DEF TypeOK
  <2>4. HandlersOK' /\ free' \in 0 .. MaxConcurrent
    <3>1. conn'[r] # "held"
      BY <1>0, <1>4, <2>1 DEF HandlersOK, ConnOK
    <3>2. \A x \in Req : pc'[x] \in {"writing", "refused"} => lockQ' # <<>> /\ Head(lockQ') = x
      BY <1>1, <2>1, <2>3 DEF Others
    <3>3. Unique(lockQ') /\ ~ InQueue(lockQ', r)
          /\ \A x \in Req : x # r => (InQueue(lockQ', x) <=> pc[x] \in Sending)
      BY <1>1, <2>1 DEF Others
    <3> QED
      BY <1>1, <2>1, <2>2, <3>1, <3>2, <3>3, HandlersAfter
  <2>5. RepliesOK'
    BY <1>1, <1>2, <2>1, <2>2, RepliesQuiet DEF streamVars
  <2>6. TypeOK'
    <3>1. lockQ' \in Seq(Req)
      BY <1>1, <2>1 DEF Others
    <3>2. UNCHANGED <<conn, op, wire, got, semQ>>
      BY <2>1
    <3>3. /\ op \in [Req -> ResponseOps] /\ got \in [Req -> 0 .. MaxChunks]
          /\ conn \in [Req -> ConnStates] /\ semQ \in Seq(Req)
          /\ wire \in [Sessions -> [Req -> Seq(ResponseFrames)]]
      BY <1>0 DEF TypeOK
    <3> QED
      BY <1>0, <2>3, <2>4, <3>1, <3>2, <3>3, TypesAfter
  <2>7. StreamOK'
    BY <1>0, <1>1, <2>3, StreamUnchanged
  <2> QED
    BY <2>4, <2>5, <2>6, <2>7 DEF IInv
<1> QED
  BY <1>3, <1>4

-----------------------------------------------------------------------------
(* The steps of a handler *)

\* A step inside the semaphore that neither sends nor ends.
LEMMA MoveStep ==
  ASSUME IInv, NEW r \in Req, NEW s \in Calls \ {"request"}, pc[r] \in Calls, NEW c \in ConnStates,
         pc' = [pc EXCEPT ![r] = s], conn' = [conn EXCEPT ![r] = c],
         UNCHANGED <<linkVars, streamVars, op, got, free, semQ, lockQ, wire>>,
         home[r] = ws /\ link = "up" => WrittenBy(r)'
  PROVE  IInv'
<1>0. TypeOK /\ StreamOK /\ HandlersOK /\ RepliesOK
  BY DEF IInv
<1>1. s \in Steps /\ s \in Inside /\ pc[r] \in Inside /\ pc[r] # "idle" /\ s # "idle"
      /\ s \notin Sending /\ pc[r] \notin Sending /\ s \notin Finished
      /\ s \notin {"writing", "refused"}
  BY DEF Steps, Inside, Calls, Sending, Finished
<1>2. pc'[r] = s /\ pc' \in [Req -> Steps] /\ \A x \in Req : x # r => pc'[x] = pc[x]
  BY <1>0, <1>1 DEF TypeOK
<1>3. conn' \in [Req -> ConnStates] /\ \A x \in Req : x # r => conn'[x] = conn[x]
  BY <1>0 DEF TypeOK
<1>4. HandlersOK' /\ free' \in 0 .. MaxConcurrent
  <2>1. Others(lockQ, r)
    BY OthersOfCall
  <2>2. /\ Unique(lockQ') /\ ~ InQueue(lockQ', r)
        /\ \A x \in Req : x # r => (InQueue(lockQ', x) <=> pc[x] \in Sending)
        /\ \A x \in Req : pc'[x] \in {"writing", "refused"} => lockQ' # <<>> /\ Head(lockQ') = x
    BY <1>1, <1>2, <2>1 DEF Others
  <2> QED
    BY <1>1, <1>3, <2>2, HandlersAfter
<1>5. RepliesOK'
  BY <1>1, RepliesQuiet DEF streamVars
<1>6. TypeOK'
  BY <1>0, <1>2, <1>3, <1>4 DEF TypeOK, LinkTypeOK, linkVars, streamVars
<1>7. StreamOK'
  BY <1>0, <1>1, <1>2, StreamUnchanged
<1> QED
  BY <1>4, <1>5, <1>6, <1>7 DEF IInv

\* A handler gets a slot.
LEMMA AdmitStep ==
  ASSUME IInv, NEW r \in Req, Admit(r)
  PROVE  IInv'
<1>0. TypeOK /\ StreamOK /\ HandlersOK /\ RepliesOK
  BY DEF IInv
<1>1. /\ pc[r] = "sem" /\ Head(semQ) = r /\ free > 0
      /\ semQ' = Tail(semQ) /\ free' = free - 1 /\ pc' = [pc EXCEPT ![r] = "request"]
      /\ UNCHANGED <<linkVars, streamVars, op, got, conn, lockQ, wire>>
  BY DEF Admit
<1>2. /\ pc'[r] = "request" /\ "request" \in Steps /\ pc' \in [Req -> Steps]
      /\ \A x \in Req : x # r => pc'[x] = pc[x]
  BY <1>0, <1>1 DEF TypeOK, Steps, Calls
<1>3. semQ # <<>>
  BY <1>0, <1>1 DEF HandlersOK, Tidy, InQueue
<1>4. /\ Tail(semQ) \in Seq(Req) /\ Unique(Tail(semQ))
      /\ \A x \in Req : InQueue(Tail(semQ), x) <=> InQueue(semQ, x) /\ x # r
  BY <1>0, <1>1, <1>3, QueueTail DEF TypeOK, HandlersOK, QueuesOK
<1>5. SlotsOK' /\ free' \in 0 .. MaxConcurrent
  <2>1. Admitted' = Admitted \cup {r} /\ r \notin Admitted
    BY <1>1, <1>2 DEF Admitted, Calls, Sending
  <2>2. IsFiniteSet(Admitted) /\ Cardinality(Admitted) \in Nat
    BY <1>0, FS_CardinalityType DEF HandlersOK, SlotsOK
  <2>3. IsFiniteSet(Admitted') /\ Cardinality(Admitted') = Cardinality(Admitted) + 1
    BY <2>1, <2>2, FS_AddElement
  <2>4. free \in 0 .. MaxConcurrent /\ free + Cardinality(Admitted) = MaxConcurrent
    BY <1>0 DEF TypeOK, HandlersOK, SlotsOK, SlotsAccounted
  <2>5. free' \in 0 .. MaxConcurrent
    BY <1>1, <2>4, RequestAssumption
  <2>6. free' + Cardinality(Admitted') = MaxConcurrent
    BY <1>1, <2>2, <2>3, <2>4, RequestAssumption
  <2> QED
    BY <2>3, <2>5, <2>6 DEF SlotsOK, SlotsAccounted
<1>6. HandlersOK'
  <2>1. QueuesOK'
    BY <1>0, <1>1, <1>4 DEF HandlersOK, QueuesOK
  <2>2. ConnOK' /\ OneSender'
    BY <1>0, <1>1, <1>2 DEF HandlersOK, ConnOK, OneSender, Sending
  <2>3. Tidy'
    BY <1>0, <1>1, <1>2, <1>4 DEF HandlersOK, Tidy, Sending, Finished
  <2> QED
    BY <1>5, <2>1, <2>2, <2>3 DEF HandlersOK
<1>7. RepliesOK'
  <2>1. home[r] = ws /\ link = "up" => WrittenBy(r)'
    <3>1. UNCHANGED <<Reply(r), got[r], op[r]>>
      BY <1>1 DEF Reply, streamVars
    <3> QED
      BY <1>0, <1>1, <1>2, <3>1 DEF RepliesOK, WrittenBy
  <2> QED
    BY <1>1, <1>2, <2>1, RepliesQuiet DEF streamVars
<1>8. TypeOK'
  BY <1>0, <1>1, <1>2, <1>4, <1>5 DEF TypeOK, LinkTypeOK, linkVars, streamVars
<1>9. StreamOK'
  BY <1>0, <1>1, <1>2, StreamUnchanged
<1> QED
  BY <1>6, <1>7, <1>8, <1>9 DEF IInv

\* A handler whose job ends sends a frame, or goes on without.
LEMMA CallStep ==
  ASSUME IInv, NEW r \in Req,
         RequestDone(r) \/ CallRaises(r) \/ HeadDone(r) \/ ReadChunk(r) \/ FirstEmpty(r) \/ ReadEmpty(r)
  PROVE  IInv'
<1>0. TypeOK /\ StreamOK /\ HandlersOK /\ RepliesOK
  BY DEF IInv
<1>1. pc[r] \in Calls
  BY DEF RequestDone, CallRaises, HeadDone, ReadChunk, FirstEmpty, ReadEmpty, Calls
<1>2. Others(lockQ, r) /\ pc[r] \in Inside /\ pc[r] # "idle"
  BY <1>1, OthersOfCall DEF Inside, Calls
<1>3. /\ got[r] \in 0 .. MaxChunks /\ got = [got EXCEPT ![r] = got[r]]
      /\ conn[r] \in ConnStates /\ conn = [conn EXCEPT ![r] = conn[r]]
  BY <1>0 DEF TypeOK
<1>4. home[r] = ws /\ link = "up" => WrittenBy(r)
  BY <1>0, <1>2 DEF RepliesOK
<1>5. Reply(r) \in Seq(ResponseFrames) /\ Over(<<>>) = FALSE /\ Len(<<>>) = 0
  BY <1>0, ReplyType DEF Over
<1>6. {"held", "closed", "pooled", "none"} \subseteq ConnStates
      /\ {"HEAD", "BODY", "END", "ERROR"} \subseteq ResponseOps
  BY DEF ConnStates, ResponseOps
<1>7. home[r] = ws /\ link = "up" => ~ Over(Reply(r))
  BY <1>1, <1>4, <1>5 DEF WrittenBy, Calls
<1>8. CASE RequestDone(r)
  <2>1. pc[r] = "request" /\ UNCHANGED <<linkVars, streamVars, semQ>>
    BY <1>8 DEF RequestDone
  <2>2. CASE /\ SetConn(r, "held") /\ pc' = [pc EXCEPT ![r] = "head"]
             /\ UNCHANGED <<op, free, lockQ, got, wire>>
    <3>1. UNCHANGED <<Reply(r), got[r], op[r]>> /\ pc'[r] = "head"
      BY <1>0, <2>1, <2>2 DEF Reply, streamVars, TypeOK
    <3>2. home[r] = ws /\ link = "up" => WrittenBy(r)'
      BY <1>4, <2>1, <3>1 DEF WrittenBy
    <3>3. "head" \in Calls
      BY DEF Calls
    <3> QED
      BY <1>1, <1>6, <2>1, <2>2, <3>2, <3>3, MoveStep DEF SetConn
  <2>3. CASE UNCHANGED <<got, conn>> /\ SendBytes(r, "ERROR", lockQ)
    <3>1. conn[r] # "held"
      BY <1>0, <2>1 DEF HandlersOK, ConnOK
    <3> QED
      BY <1>2, <1>3, <1>6, <1>7, <2>1, <2>3, <3>1, SendBytesStep DEF CanFollow
  <2> QED
    BY <1>8, <2>2, <2>3 DEF RequestDone
<1>9. CASE CallRaises(r)
  BY <1>2, <1>3, <1>6, <1>7, <1>9, SendBytesStep DEF CallRaises, SetConn, CanFollow
<1>10. CASE HeadDone(r)
  <2>1. pc[r] = "head" /\ UNCHANGED <<got, conn>> /\ SendBytes(r, "HEAD", lockQ)
        /\ UNCHANGED <<linkVars, streamVars, semQ>>
    BY <1>10 DEF HeadDone
  <2>2. home[r] = ws /\ link = "up" => CanFollow(r, "HEAD", got[r])
    BY <1>4, <1>7, <2>1 DEF WrittenBy, CanFollow
  <2> QED
    BY <1>2, <1>3, <1>6, <2>1, <2>2, SendBytesStep
<1>11. CASE ReadChunk(r)
  <2>1. /\ pc[r] \in {"first", "read"} /\ got[r] < MaxChunks
        /\ got' = [got EXCEPT ![r] = got[r] + 1]
        /\ UNCHANGED conn /\ SendBytes(r, "BODY", lockQ)
        /\ UNCHANGED <<linkVars, streamVars, semQ>>
    BY <1>11 DEF ReadChunk
  <2>2. got[r] + 1 \in 0 .. MaxChunks
    BY <1>3, <2>1, RequestAssumption
  <2>3. home[r] = ws /\ link = "up" => CanFollow(r, "BODY", got[r] + 1)
    <3>1. home[r] = ws /\ link = "up" => Len(Reply(r)) = got[r] + 1 /\ ~ Over(Reply(r))
      BY <1>4, <2>1 DEF WrittenBy
    <3>2. Len(Reply(r)) = got[r] + 1 => Reply(r) # <<>>
      BY <1>3, <1>5
    <3> QED
      BY <3>1, <3>2 DEF CanFollow
  <2> QED
    BY <1>2, <1>3, <1>6, <2>1, <2>2, <2>3, SendBytesStep
<1>12. CASE FirstEmpty(r)
  <2>1. pc[r] = "first" /\ pc' = [pc EXCEPT ![r] = "drained"]
        /\ UNCHANGED <<linkVars, streamVars, op, got, conn, free, semQ, lockQ, wire>>
    BY <1>12 DEF FirstEmpty
  <2>2. UNCHANGED <<Reply(r), got[r], op[r]>> /\ pc'[r] = "drained"
    BY <1>0, <2>1 DEF Reply, streamVars, TypeOK
  <2>3. home[r] = ws /\ link = "up" => WrittenBy(r)'
    BY <1>4, <2>1, <2>2 DEF WrittenBy, Over
  <2>4. "drained" \in Calls
    BY DEF Calls
  <2> QED
    BY <1>1, <1>3, <2>1, <2>3, <2>4, MoveStep
<1>13. CASE ReadEmpty(r)
  <2>1. /\ pc[r] \in {"read", "drained"} /\ UNCHANGED got /\ SendBytes(r, "END", lockQ)
        /\ IF ws = NoSocket THEN ConnAfter(r, "END") ELSE UNCHANGED conn
        /\ UNCHANGED <<linkVars, streamVars, semQ>>
    BY <1>13 DEF ReadEmpty
  <2>2. PICK c \in ConnStates : conn' = [conn EXCEPT ![r] = c] /\ (ws = NoSocket => c # "held")
    BY <1>3, <1>6, <2>1 DEF ConnAfter, SetConn
  <2>3. home[r] = ws /\ link = "up" => CanFollow(r, "END", got[r])
    BY <1>4, <1>7, <2>1 DEF WrittenBy, CanFollow
  <2> QED
    BY <1>2, <1>3, <1>6, <2>1, <2>2, <2>3, SendBytesStep
<1> QED
  BY <1>8, <1>9, <1>10, <1>11, <1>12, <1>13

\* The owner of the lock, or the waiter that becomes it.
LEMMA OwnerStep ==
  ASSUME IInv, NEW r \in Req, LockGranted(r) \/ SendDone(r) \/ SendClosed(r)
  PROVE  IInv'
<1>0. TypeOK /\ StreamOK /\ HandlersOK /\ RepliesOK
  BY DEF IInv
<1>1. pc[r] \in Sending /\ pc[r] \in Inside /\ pc[r] # "idle"
  BY DEF LockGranted, SendDone, SendClosed, Sending, Inside
<1>2. lockQ # <<>> /\ Head(lockQ) = r
  <2>1. CASE LockGranted(r)
    BY <1>0, <1>1, <2>1 DEF LockGranted, HandlersOK, Tidy, InQueue
  <2>2. CASE SendDone(r) \/ SendClosed(r)
    BY <1>0, <2>2 DEF SendDone, SendClosed, HandlersOK, OneSender
  <2> QED
    BY <2>1, <2>2
<1>3. Others(Tail(lockQ), r)
  BY <1>2, OthersOfOwner
<1>4. /\ pc \in [Req -> Steps] /\ op \in [Req -> ResponseOps] /\ got \in [Req -> 0 .. MaxChunks]
      /\ conn \in [Req -> ConnStates] /\ semQ \in Seq(Req) /\ lockQ \in Seq(Req)
      /\ wire \in [Sessions -> [Req -> Seq(ResponseFrames)]]
  BY <1>0 DEF TypeOK
<1>5. home[r] = ws /\ link = "up" => WrittenBy(r)
  BY <1>0, <1>1 DEF RepliesOK
<1>6. CASE SendClosed(r)
  <2>1. ws = NoSocket \/ link # "up"
    BY <1>0, <1>6 DEF SendClosed, RepliesOK
  <2> QED
    BY <1>1, <1>2, <1>6, <2>1, SendRaisesStep DEF SendClosed
<1>7. CASE LockGranted(r) /\ ws = NoSocket
  BY <1>1, <1>2, <1>7, SendRaisesStep DEF LockGranted
<1>8. CASE LockGranted(r) /\ ws # NoSocket
  <2>1. /\ pc[r] = "lock" /\ UNCHANGED <<got, lockQ, op, conn, free>> /\ Transmit(r, op[r])
        /\ UNCHANGED <<linkVars, streamVars, semQ>>
    BY <1>8 DEF LockGranted
  <2>2. /\ got = [got EXCEPT ![r] = got[r]] /\ op = [op EXCEPT ![r] = op[r]]
        /\ got[r] \in 0 .. MaxChunks /\ op[r] \in ResponseOps
    BY <1>4
  <2>3. PICK s \in {"writing", "refused"} :
          /\ pc' = [pc EXCEPT ![r] = s]
          /\ \/ s = "refused" /\ UNCHANGED wire /\ link # "up"
             \/ /\ s = "writing" /\ link = "up"
                /\ wire' = [wire EXCEPT ![ws][r] = Append(@, [op |-> op[r], n |-> got[r]])]
    BY <2>1 DEF Transmit
  <2>4. s \in Steps /\ s \in Inside /\ s \in Sending /\ s \notin Finished /\ s # "request"
        /\ s # "idle"
    BY DEF Steps, Inside, Sending, Finished
  <2>5. pc'[r] = s /\ pc' \in [Req -> Steps] /\ \A x \in Req : x # r => pc'[x] = pc[x]
    BY <1>4, <2>3, <2>4
  <2>6. HandlersOK' /\ free' \in 0 .. MaxConcurrent
    <3>1. \A x \in Req : InQueue(lockQ', x) <=> pc[x] \in Sending
      BY <1>0, <2>1 DEF HandlersOK, Tidy
    <3>2. \A x \in Req : pc'[x] \in {"writing", "refused"} => lockQ' # <<>> /\ Head(lockQ') = x
      BY <1>0, <1>2, <2>1, <2>5 DEF HandlersOK, OneSender
    <3>3. Unique(lockQ') /\ (op'[r] = "ERROR" => conn'[r] # "held")
      BY <1>0, <1>1, <2>1 DEF HandlersOK, QueuesOK, ConnOK
    <3> QED
      BY <1>1, <2>1, <2>3, <2>4, <3>1, <3>2, <3>3, HandlersAfter
  <2>7. RepliesOK' /\ wire' \in [Sessions -> [Req -> Seq(ResponseFrames)]]
    <3>1. CASE s = "refused"
      BY <1>1, <1>4, <2>1, <2>3, <2>4, <3>1, RepliesQuiet DEF streamVars
    <3>2. CASE s = "writing"
      <4>1. home[r] = ws => CanFollow(r, op[r], got[r])
        BY <1>5, <2>1, <2>3, <3>2 DEF WrittenBy, CanFollow
      <4> QED
        BY <1>1, <2>1, <2>2, <2>3, <3>2, <4>1, RepliesWrite DEF streamVars
    <3> QED
      BY <2>3, <3>1, <3>2
  <2>8. TypeOK'
    BY <1>0, <1>4, <2>1, <2>5, <2>6, <2>7, TypesAfter
  <2>9. StreamOK'
    BY <1>0, <1>1, <2>1, <2>5, StreamUnchanged
  <2> QED
    BY <2>6, <2>7, <2>8, <2>9 DEF IInv
<1>9. CASE SendDone(r)
  <2>1. /\ pc[r] = "writing" /\ lockQ' = Tail(lockQ)
        /\ Continue(r, op[r]) /\ ConnAfter(r, op[r])
        /\ UNCHANGED <<linkVars, streamVars, op, got, semQ, wire>>
    BY <1>9 DEF SendDone
  <2>2. PICK s \in Steps :
          /\ pc' = [pc EXCEPT ![r] = s]
          /\ \/ op[r] = "HEAD" /\ s = "first" /\ free' = free
             \/ op[r] = "BODY" /\ s = "read" /\ free' = free
             \/ op[r] \in {"END", "ERROR"} /\ s = "done" /\ free' = free + 1
    BY <1>4, <2>1 DEF Continue, ResponseOps, Steps, Calls, Finished
  <2>3. pc'[r] = s /\ pc' \in [Req -> Steps] /\ \A x \in Req : x # r => pc'[x] = pc[x]
    BY <1>4, <2>2
  <2>4. conn' \in [Req -> ConnStates] /\ (\A x \in Req : x # r => conn'[x] = conn[x])
        /\ (s \in Finished => conn'[r] # "held")
    <3>1. CASE op[r] = "END"
      BY <1>4, <2>1, <3>1 DEF ConnAfter, SetConn, ConnStates
    <3>2. CASE op[r] # "END"
      BY <1>0, <1>1, <1>4, <2>1, <2>2, <3>2 DEF ConnAfter, HandlersOK, ConnOK, Finished
    <3> QED
      BY <3>1, <3>2
  <2>5. s \notin Sending /\ s # "request" /\ s # "idle" /\ s \notin {"writing", "refused"}
        /\ (s # "done" => s \in Inside) /\ (s = "done" => s \in Finished)
    BY <2>2 DEF Sending, Inside, Calls, Finished
  <2>6. HandlersOK' /\ free' \in 0 .. MaxConcurrent
    <3>1. /\ Unique(lockQ') /\ ~ InQueue(lockQ', r)
          /\ \A x \in Req : x # r => (InQueue(lockQ', x) <=> pc[x] \in Sending)
          /\ \A x \in Req : pc'[x] \in {"writing", "refused"} => lockQ' # <<>> /\ Head(lockQ') = x
      BY <1>3, <2>1, <2>3, <2>5 DEF Others
    <3>2. (s \in Inside /\ free' = free) \/ (s \in Finished /\ free' = free + 1)
      BY <2>2 DEF Inside, Calls, Finished
    <3> QED
      BY <1>1, <2>1, <2>2, <2>4, <2>5, <3>1, <3>2, HandlersAfter
  <2>7. RepliesOK'
    <3>1. home[r] = ws /\ link = "up" => WrittenBy(r)'
      <4> SUFFICES ASSUME home[r] = ws, link = "up" PROVE WrittenBy(r)'
        OBVIOUS
      <4>1. UNCHANGED <<Reply(r), got[r], op[r]>>
        BY <2>1 DEF Reply, streamVars
      <4>2. /\ op[r] = "HEAD" => got[r] = 0
            /\ op[r] \in {"HEAD", "BODY"} => Len(Reply(r)) = got[r] + 1 /\ ~ Over(Reply(r))
        BY <1>5, <2>1 DEF WrittenBy
      <4>3. Over(Reply(r))' <=> Over(Reply(r))
        BY <4>1 DEF Over
      <4> QED
        BY <2>2, <2>3, <4>1, <4>2, <4>3 DEF WrittenBy
    <3> QED
      BY <1>1, <2>1, <2>2, <2>5, <3>1, RepliesQuiet DEF streamVars
  <2>8. TypeOK'
    <3>1. lockQ' \in Seq(Req)
      BY <1>3, <2>1 DEF Others
    <3> QED
      BY <1>0, <1>4, <2>1, <2>3, <2>4, <2>6, <3>1, TypesAfter
  <2>9. StreamOK'
    BY <1>0, <1>1, <2>1, <2>3, StreamUnchanged
  <2> QED
    BY <2>6, <2>7, <2>8, <2>9 DEF IInv
<1> QED
  BY <1>6, <1>7, <1>8, <1>9

\* The end of asyncio.run.
LEMMA CancelAllStep == IInv /\ CancelAll => IInv'
<1> SUFFICES ASSUME IInv, CancelAll PROVE IInv'
  OBVIOUS
<1>0. TypeOK /\ StreamOK /\ HandlersOK /\ RepliesOK
  BY DEF IInv
<1>1. /\ pc' = [r \in Req |-> IF pc[r] \in {"idle"} \cup Finished THEN pc[r] ELSE "cancelled"]
      /\ conn' = [r \in Req |-> IF conn[r] = "held" THEN "closed"
                                ELSE IF pc[r] = "request" THEN "orphaned" ELSE conn[r]]
      /\ free' = free + Cardinality(Admitted) /\ semQ' = <<>> /\ lockQ' = <<>>
      /\ UNCHANGED <<linkVars, streamVars, op, got, wire>>
  BY DEF CancelAll
<1>2. \A r \in Req : pc'[r] = IF pc[r] \in {"idle"} \cup Finished THEN pc[r] ELSE "cancelled"
  BY <1>1
<1>3. \A r \in Req : pc'[r] \in {"idle"} \cup Finished
  BY <1>2 DEF Finished
<1>4. \A r \in Req : pc'[r] = "idle" <=> pc[r] = "idle"
  BY <1>2 DEF Finished
<1>5. <<>> \in Seq(Req) /\ DOMAIN <<>> = {}
  OBVIOUS
<1>6. free' = MaxConcurrent /\ MaxConcurrent \in 0 .. MaxConcurrent
  BY <1>0, <1>1, RequestAssumption DEF HandlersOK, SlotsOK, SlotsAccounted
<1>7. TypeOK'
  <2>1. pc' \in [Req -> Steps]
    BY <1>0, <1>1 DEF TypeOK, Steps, Finished
  <2>2. conn' \in [Req -> ConnStates]
    BY <1>0, <1>1 DEF TypeOK, ConnStates
  <2>3. /\ op \in [Req -> ResponseOps] /\ got \in [Req -> 0 .. MaxChunks]
        /\ wire \in [Sessions -> [Req -> Seq(ResponseFrames)]]
    BY <1>0 DEF TypeOK
  <2> QED
    BY <1>0, <1>1, <1>5, <1>6, <2>1, <2>2, <2>3, TypesAfter
<1>8. StreamOK'
  BY <1>0, <1>1, <1>4, StreamUnchanged
<1>9. HandlersOK'
  <2>1. Admitted' = {}
    BY <1>3 DEF Admitted, Calls, Sending, Finished
  <2>2. SlotsOK'
    BY <1>6, <2>1, FS_EmptySet, RequestAssumption DEF SlotsOK, SlotsAccounted
  <2>3. \A r \in Req : conn'[r] # "held"
    BY <1>1
  <2>4. \A r \in Req : pc'[r] \notin Sending /\ pc'[r] \notin {"sem", "writing", "refused"}
    BY <1>3 DEF Sending, Finished
  <2>5. \A r \in Req : ~ InQueue(semQ', r) /\ ~ InQueue(lockQ', r)
    BY <1>1, <1>5 DEF InQueue
  <2>6. QueuesOK'
    BY <1>1, <1>5 DEF QueuesOK, Unique
  <2> QED
    BY <2>2, <2>3, <2>4, <2>5, <2>6 DEF HandlersOK, ConnOK, Tidy, OneSender
<1>10. RepliesOK'
  <2>1. \A r \in Req : UNCHANGED <<Reply(r), home[r], wire, got[r]>>
    BY <1>1 DEF Reply, streamVars
  <2>2. \A r \in Req : InOrder(Reply(r))'
    BY <1>0, <2>1 DEF RepliesOK
  <2>3. \A r \in Req : pc'[r] # "idle" => WrittenBy(r)'
    BY <1>3 DEF WrittenBy, Finished
  <2>4. \A r \in Req : pc'[r] # "refused"
    BY <1>3 DEF Finished
  <2> QED
    BY <1>0, <1>1, <1>4, <2>1, <2>2, <2>3, <2>4 DEF RepliesOK, linkVars
<1> QED
  BY <1>7, <1>8, <1>9, <1>10 DEF IInv

\* Each step of the handlers, the read loop, the server and the link.
LEMMA NextIInv == IInv /\ [Next]_vars => IInv'
<1> SUFFICES ASSUME IInv, [Next]_vars PROVE IInv'
  OBVIOUS
<1>1. ASSUME NEW r \in Req, ServerSends(r) PROVE IInv'
  BY <1>1, ServerSendsStep
<1>2. ASSUME NEW r \in Req, HandlerStep(r) PROVE IInv'
  BY <1>2, AdmitStep, CallStep, OwnerStep DEF HandlerStep
<1>3. CASE LinkDrops
  BY <1>3, LinkDropsStep
<1>4. CASE SessionEnds
  BY <1>4, SessionEndsStep
<1>5. CASE SessionStarts \/ OtherLinkStep
  BY <1>5, LinkStepKeeps
<1>6. CASE ReadLoop
  BY <1>6, ReadLoopStep
<1>7. CASE CancelAll
  BY <1>7, CancelAllStep
<1>8. CASE UNCHANGED vars
  <2>1. UNCHANGED <<linkVars, streamVars, handlerVars, home>>
    BY <1>8 DEF vars, streamVars
  <2>2. StreamOK'
    BY <2>1, StreamUnchanged DEF IInv, handlerVars
  <2>3. TypeOK'
    BY <2>1 DEF IInv, TypeOK, LinkTypeOK, linkVars, streamVars, handlerVars
  <2> QED
    BY <2>1, <2>2, <2>3, HandlersUnchanged, RepliesUnchanged DEF IInv
<1> QED
  BY <1>1, <1>2, <1>3, <1>4, <1>5, <1>6, <1>7, <1>8 DEF Next

\* What the proofs below start from.
LEMMA AlwaysIInv == Spec => []IInv
  BY InitIInv, NextIInv, PTL DEF Spec

-----------------------------------------------------------------------------
(* The theorems about what the handlers keep, share and write *)

\* TypeOK is an invariant; it bounds the value of the semaphore.
THEOREM TypeCorrect == Spec => []TypeOK
<1>1. IInv => TypeOK
  BY DEF IInv
<1> QED
  BY <1>1, AlwaysIInv, PTL

\* Every handler is started with the whole request.
THEOREM RequestsWhole == Spec => []RequestWhole
<1>1. IInv => RequestWhole
  BY DEF IInv, StreamOK
<1> QED
  BY <1>1, AlwaysIInv, PTL

\* No slot of the semaphore is lost or added.
THEOREM SlotsAlwaysAccounted == Spec => []SlotsAccounted
<1>1. IInv => SlotsAccounted
  BY DEF IInv, HandlersOK, SlotsOK
<1> QED
  BY <1>1, AlwaysIInv, PTL

\* No connection is lost but in the cancellation of everything,
LEMMA OrphansStep ==
  ASSUME IInv, OrphansLast, [Next]_vars
  PROVE  OrphansLast'
<1>0. TypeOK
  BY DEF IInv
<1>1. CASE UNCHANGED <<conn, pc>> /\ (phase = "ended" => phase' = "ended")
  BY <1>1 DEF OrphansLast
<1>2. ASSUME NEW r \in Req, HandlerStep(r)
      PROVE  OrphansLast'
  <2>1. /\ phase' = phase /\ pc[r] # "cancelled"
        /\ \A x \in Req : x # r => pc'[x] = pc[x] /\ conn'[x] = conn[x]
        /\ conn[r] # "orphaned" => conn'[r] # "orphaned"
    <3> USE <1>0 DEF TypeOK, linkVars, SetConn, ConnAfter
    <3>1. CASE Admit(r)
      BY <3>1 DEF Admit
    <3>2. CASE RequestDone(r)
      BY <3>2 DEF RequestDone, SendBytes, Continue, Transmit
    <3>3. CASE CallRaises(r)
      BY <3>3 DEF CallRaises, SendBytes, Continue, Transmit
    <3>4. CASE HeadDone(r)
      BY <3>4 DEF HeadDone, SendBytes, Continue, Transmit
    <3>5. CASE ReadChunk(r)
      BY <3>5 DEF ReadChunk, SendBytes, Continue, Transmit
    <3>6. CASE FirstEmpty(r)
      BY <3>6 DEF FirstEmpty
    <3>7. CASE ReadEmpty(r)
      BY <3>7 DEF ReadEmpty, SendBytes, Continue, Transmit
    <3>8. CASE LockGranted(r)
      BY <3>8 DEF LockGranted, SendRaises, SendBytes, Continue, Transmit
    <3>9. CASE SendDone(r)
      BY <3>9 DEF SendDone, Continue
    <3>10. CASE SendClosed(r)
      BY <3>10 DEF SendClosed, SendRaises, SendBytes, Continue, Transmit
    <3> QED
      BY <1>2, <3>1, <3>2, <3>3, <3>4, <3>5, <3>6, <3>7, <3>8, <3>9, <3>10 DEF HandlerStep
  <2> QED
    BY <2>1 DEF OrphansLast
<1>3. CASE \E r \in Req : ServerSends(r)
  BY <1>1, <1>3 DEF ServerSends, handlerVars, linkVars
<1>4. CASE LinkDrops \/ SessionStarts \/ SessionEnds \/ OtherLinkStep
  BY <1>1, <1>4 DEF LinkDrops, Drop, SessionStarts, Connect, SessionEnds, ReadLoopRaises,
     ReadLoopReturns, RelayRaises, Leave, OtherLinkStep, Register, HandshakeAborts, GiveUp, Close,
     CloseInterrupted, handlerVars
<1>5. CASE ReadLoop
  <2>1. phase' = phase /\ conn' = conn /\ phase # "ended"
    BY <1>5 DEF ReadLoop, linkVars
  <2> QED
    BY <2>1 DEF OrphansLast
<1>6. CASE CancelAll
  <2>1. \A r \in Req : /\ conn'[r] = "orphaned" => conn[r] = "orphaned" \/ pc[r] = "request"
                      /\ pc'[r] = IF pc[r] \in {"idle"} \cup Finished THEN pc[r] ELSE "cancelled"
    BY <1>6 DEF CancelAll
  <2>2. phase' = "ended"
    BY <1>6 DEF CancelAll, linkVars
  <2> QED
    BY <2>1, <2>2 DEF OrphansLast, Finished
<1>7. CASE UNCHANGED vars
  BY <1>1, <1>7 DEF vars, handlerVars, linkVars
<1> QED
  BY <1>2, <1>3, <1>4, <1>5, <1>6, <1>7 DEF Next

\* so that a handler that is over keeps nothing, and the one connection it may not
\* have released is that of a response it was never given.
THEOREM NothingIsKept == Spec => []NothingKept
<1>1. IInv => Tidy
  BY DEF IInv, HandlersOK
<1>2. Init => OrphansLast
  BY DEF Init, OrphansLast
<1>3. IInv /\ OrphansLast /\ [Next]_vars => OrphansLast'
  BY OrphansStep
<1> QED
  BY <1>1, <1>2, <1>3, AlwaysIInv, PTL DEF Spec, NothingKept

\* Only the owner of the lock is inside ws.send.
THEOREM OneSenderAtATime == Spec => []OneSender
<1>1. IInv => OneSender
  BY DEF IInv, HandlersOK
<1> QED
  BY <1>1, AlwaysIInv, PTL

-----------------------------------------------------------------------------
(* No handler waits for ever *)

\* What every handler waits for is at hand, or with one that can go on.
THEOREM HandlersNeverStuck == Spec => []NeverStuck
<1>1. IInv => NeverStuck
  <2> SUFFICES ASSUME IInv, NEW r \in Req, pc[r] \notin {"idle"} \cup Finished
               PROVE  \E x \in Req : CanGoOn(x)
    BY DEF NeverStuck
  <2>0. TypeOK /\ HandlersOK /\ pc[r] \in Steps
    BY DEF IInv, TypeOK
  <2>1. ASSUME NEW x \in Req, pc[x] \in Sending PROVE \E y \in Req : CanGoOn(y)
    <3>1. CASE pc[x] \in {"writing", "refused"}
      BY <3>1 DEF CanGoOn
    <3>2. CASE pc[x] = "lock"
      <4>1. InQueue(lockQ, x) /\ lockQ \in Seq(Req)
        BY <2>0, <2>1 DEF HandlersOK, Tidy, TypeOK
      <4>2. lockQ # <<>>
        BY <4>1 DEF InQueue
      <4>3. PICK y \in Req : y = Head(lockQ) /\ InQueue(lockQ, y)
        BY <4>1, <4>2, TailFacts DEF InQueue
      <4>4. pc[y] \in Sending
        BY <2>0, <4>3 DEF HandlersOK, Tidy
      <4> QED
        BY <4>3, <4>4 DEF CanGoOn, Sending
    <3> QED
      BY <2>1, <3>1, <3>2 DEF Sending
  <2>2. CASE pc[r] = "sem"
    <3>1. InQueue(semQ, r) /\ semQ \in Seq(Req)
      BY <2>0, <2>2 DEF HandlersOK, Tidy, TypeOK
    <3>2. semQ # <<>>
      BY <3>1 DEF InQueue
    <3>3. PICK y \in Req : y = Head(semQ) /\ InQueue(semQ, y)
      BY <3>1, <3>2, TailFacts DEF InQueue
    <3>4. pc[y] = "sem"
      BY <2>0, <3>3 DEF HandlersOK, Tidy
    <3>5. CASE free > 0
      BY <3>3, <3>4, <3>5 DEF CanGoOn
    <3>6. CASE free = 0
      <4>1. Cardinality(Admitted) # 0
        BY <2>0, <3>6, RequestAssumption DEF HandlersOK, SlotsOK, SlotsAccounted
      <4>2. PICK x \in Admitted : TRUE
        BY <4>1, FS_EmptySet
      <4>3. CASE pc[x] \in Calls
        BY <4>2, <4>3 DEF Admitted, CanGoOn
      <4> QED
        BY <2>1, <4>2, <4>3 DEF Admitted
    <3> QED
      BY <2>0, <3>5, <3>6, RequestAssumption DEF TypeOK
  <2> QED
    BY <2>0, <2>1, <2>2 DEF Steps, CanGoOn
<1> QED
  BY <1>1, AlwaysIInv, PTL

-----------------------------------------------------------------------------
(* What is written to all connections together *)

\* Frame f has been written by a handler at p, with opcode o and g chunks read.
Fits(p, o, g, f) ==
  /\ p \notin {"idle", "sem", "request", "head"}
  /\ f.op = "BODY" => f.n <= g
  /\ f.op = "END" => p \in Finished \/ (p \in Sending /\ o \in {"END", "ERROR"})
  /\ f.op = "ERROR" => p \in Finished \/ (p = "writing" /\ o = "ERROR")
  /\ p = "lock" => Precedes(f, [op |-> o, n |-> g])

WireOK ==
  \A r \in Req, s \in Sessions : \A i \in DOMAIN wire[s][r] :
    /\ s <= sessions /\ home[r] # NoSocket /\ home[r] <= s
    /\ Fits(pc[r], op[r], got[r], wire[s][r][i])

Forward ==
  \A r \in Req, s, t \in Sessions : \A i \in DOMAIN wire[s][r], k \in DOMAIN wire[t][r] :
    s < t \/ (s = t /\ i < k) => Precedes(wire[s][r][i], wire[t][r][k])

WireInv == LinkTypeOK /\ LinkInv /\ IInv /\ WireOK /\ Forward

\* It is the turn of frame o2, with g2 chunks read, for a handler at p.
Turn(p, o, g, o2, g2) ==
  \/ o2 = "ERROR" /\ g2 = g /\ (p \in Calls \/ (p \in Sending /\ o # "ERROR"))
  \/ o2 = "HEAD" /\ p = "head" /\ g2 = g
  \/ o2 = "BODY" /\ p \in {"first", "read"} /\ g2 = g + 1
  \/ o2 = "END" /\ p \in {"read", "drained"} /\ g2 = g

\* What a handler turns to comes after all that it has written.
LEMMA TurnPrecedes ==
  ASSUME NEW p \in Steps, NEW o \in ResponseOps, NEW g \in 0 .. MaxChunks,
         NEW f \in ResponseFrames, Fits(p, o, g, f),
         NEW o2 \in ResponseOps, NEW g2, Turn(p, o, g, o2, g2)
  PROVE  Precedes(f, [op |-> o2, n |-> g2])
<1>1. f.op \in ResponseOps /\ f.n \in 0 .. MaxChunks
  BY DEF ResponseFrames
<1>2. g \in Nat /\ f.n \in Nat /\ g2 \in Nat
  BY <1>1, RequestAssumption DEF Turn
<1> QED
  BY <1>1, <1>2 DEF Fits, Turn, Precedes, ResponseOps, Calls, Sending, Finished

\* After its turn the handler waits, sends, or goes on without a connection.
LEMMA TurnFits ==
  ASSUME NEW p \in Steps, NEW o \in ResponseOps, NEW g \in 0 .. MaxChunks,
         NEW f \in ResponseFrames, Fits(p, o, g, f),
         NEW o2 \in ResponseOps, NEW g2, Turn(p, o, g, o2, g2)
  PROVE  /\ \A q \in {"lock", "writing", "refused"} : Fits(q, o2, g2, f)
         /\ o2 = "HEAD" => Fits("first", o, g2, f)
         /\ o2 = "BODY" => Fits("read", o, g2, f)
         /\ o2 \in {"END", "ERROR"} => Fits("done", o, g2, f)
<1>1. f.op \in ResponseOps /\ f.n \in 0 .. MaxChunks
  BY DEF ResponseFrames
<1>2. g \in Nat /\ f.n \in Nat /\ g2 \in Nat
  BY <1>1, RequestAssumption DEF Turn
<1>3. Precedes(f, [op |-> o2, n |-> g2])
  BY TurnPrecedes
<1>4. Fits("lock", o2, g2, f)
  BY <1>1, <1>2, <1>3 DEF Fits, Turn, Precedes, ResponseOps, Calls, Sending, Finished
<1>5. Fits("writing", o2, g2, f) /\ Fits("refused", o2, g2, f)
  BY <1>1, <1>2, <1>3 DEF Fits, Turn, Precedes, ResponseOps, Calls, Sending, Finished
<1>6. o2 = "HEAD" => Fits("first", o, g2, f)
  BY <1>1, <1>2 DEF Fits, Turn, Calls, Sending, Finished
<1>7. o2 = "BODY" => Fits("read", o, g2, f)
  BY <1>1, <1>2 DEF Fits, Turn, Calls, Sending, Finished
<1>8. o2 \in {"END", "ERROR"} => Fits("done", o, g2, f)
  BY <1>1, <1>2 DEF Fits, Turn, Calls, Sending, Finished
<1> QED
  BY <1>4, <1>5, <1>6, <1>7, <1>8

\* The steps of one that has written, or waits to.
LEMMA SentFits ==
  ASSUME NEW p \in Sending, NEW o \in ResponseOps, NEW g \in 0 .. MaxChunks,
         NEW f \in ResponseFrames, Fits(p, o, g, f)
  PROVE  /\ p = "lock" => /\ Precedes(f, [op |-> o, n |-> g])
                          /\ Fits("writing", o, g, f) /\ Fits("refused", o, g, f)
         /\ p = "writing" /\ o = "HEAD" => Fits("first", o, g, f)
         /\ p = "writing" /\ o = "BODY" => Fits("read", o, g, f)
         /\ \A q \in Finished : Fits(q, o, g, f)
  BY DEF Fits, Precedes, Sending, Finished, ResponseOps, ResponseFrames

\* A step of one handler that writes nothing.
LEMMA WireQuiet ==
  ASSUME TypeOK, WireOK, Forward, NEW r \in Req, UNCHANGED <<wire, home, sessions>>,
         \A x \in Req : x # r => pc'[x] = pc[x] /\ op'[x] = op[x] /\ got'[x] = got[x],
         \A f \in ResponseFrames : Fits(pc[r], op[r], got[r], f) => Fits(pc'[r], op'[r], got'[r], f)
  PROVE  WireOK' /\ Forward'
<1>1. Forward'
  BY DEF Forward
<1>2. ASSUME NEW x \in Req, NEW s \in Sessions, NEW i \in DOMAIN wire[s][x]
      PROVE  /\ s <= sessions /\ home[x] # NoSocket /\ home[x] <= s
             /\ Fits(pc'[x], op'[x], got'[x], wire[s][x][i])
  <2>1. wire[s][x][i] \in ResponseFrames
    <3>1. wire \in [Sessions -> [Req -> Seq(ResponseFrames)]]
      BY DEF TypeOK
    <3>2. wire[s][x] \in Seq(ResponseFrames) /\ i \in DOMAIN wire[s][x]
      BY <1>2, <3>1
    <3> QED
      BY <3>2
  <2>2. /\ s <= sessions /\ home[x] # NoSocket /\ home[x] <= s
        /\ Fits(pc[x], op[x], got[x], wire[s][x][i])
    BY <1>2 DEF WireOK
  <2>3. Fits(pc'[x], op'[x], got'[x], wire[s][x][i])
    <3>1. CASE x = r
      BY <2>1, <2>2, <3>1
    <3>2. CASE x # r
      BY <2>2, <3>2
    <3> QED
      BY <3>1, <3>2
  <2> QED
    BY <2>2, <2>3
<1> QED
  BY <1>1, <1>2 DEF WireOK

\* One that writes a frame whose turn it is.
LEMMA WireWrites ==
  ASSUME WireInv, NEW r \in Req, NEW o \in ResponseOps, NEW g \in 0 .. MaxChunks,
         link = "up", home[r] # NoSocket, UNCHANGED <<home, sessions>>,
         wire' = [wire EXCEPT ![ws][r] = Append(@, [op |-> o, n |-> g])],
         pc'[r] = "writing", op'[r] = o, got'[r] = g,
         \A x \in Req : x # r => pc'[x] = pc[x] /\ op'[x] = op[x] /\ got'[x] = got[x],
         \A f \in ResponseFrames : Fits(pc[r], op[r], got[r], f) =>
           Precedes(f, [op |-> o, n |-> g]) /\ Fits("writing", o, g, f)
  PROVE  WireOK' /\ Forward'
<1> DEFINE e == [op |-> o, n |-> g]
<1>0. TypeOK /\ RepliesOK /\ LinkInv /\ LinkTypeOK
  BY DEF WireInv, IInv
<1>1. ws \in Sessions /\ ws = sessions /\ Sessions \subseteq Nat /\ home[r] \in 0 .. MaxSessions
      /\ home[r] <= ws
  BY <1>0, MaxSessionsAssumption DEF TypeOK, RepliesOK, LinkTypeOK, LinkInv, NoSocket, Sessions
<1>2. /\ wire \in [Sessions -> [Req -> Seq(ResponseFrames)]] /\ e \in ResponseFrames
      /\ wire[ws][r] \in Seq(ResponseFrames)
  BY <1>0, <1>1 DEF TypeOK, ResponseFrames
<1>3. /\ wire'[ws][r] = Append(wire[ws][r], e)
      /\ \A s \in Sessions, x \in Req : s # ws \/ x # r => wire'[s][x] = wire[s][x]
  BY <1>1, <1>2
<1>4. /\ \A i \in DOMAIN wire'[ws][r] :
           \/ i \in DOMAIN wire[ws][r] /\ wire'[ws][r][i] = wire[ws][r][i] /\ i < Len(wire[ws][r]) + 1
           \/ i = Len(wire[ws][r]) + 1 /\ wire'[ws][r][i] = e
  BY <1>2, <1>3, AppendFacts
<1>5. \A x \in Req, s \in Sessions : \A i \in DOMAIN wire[s][x] :
        wire[s][x][i] \in ResponseFrames /\ s <= ws
  BY <1>1, <1>2 DEF WireInv, WireOK
<1>6. \A s \in Sessions : \A i \in DOMAIN wire[s][r] :
        Precedes(wire[s][r][i], e) /\ Fits("writing", o, g, wire[s][r][i])
  BY <1>5 DEF WireInv, WireOK
<1>7. Fits("writing", o, g, e)
  BY RequestAssumption DEF Fits, Finished, Sending, ResponseOps
<1>8. WireOK'
  <2> SUFFICES ASSUME NEW x \in Req, NEW s \in Sessions, NEW i \in DOMAIN wire'[s][x]
               PROVE  /\ s <= sessions /\ home[x] # NoSocket /\ home[x] <= s
                      /\ Fits(pc'[x], op'[x], got'[x], wire'[s][x][i])
    BY DEF WireOK
  <2>1. CASE x # r
    BY <1>3, <2>1 DEF WireInv, WireOK
  <2>2. CASE x = r /\ s # ws
    <3>1. wire'[s][x] = wire[s][x]
      BY <1>3, <2>2
    <3> QED
      BY <1>6, <2>2, <3>1 DEF WireInv, WireOK
  <2>3. CASE x = r /\ s = ws
    <3>1. Fits("writing", o, g, wire'[s][x][i])
      BY <1>4, <1>6, <1>7, <2>3
    <3> QED
      BY <1>1, <2>3, <3>1
  <2> QED
    BY <2>1, <2>2, <2>3
<1>9. Forward'
  <2> SUFFICES ASSUME NEW x \in Req, NEW s \in Sessions, NEW t \in Sessions,
                      NEW i \in DOMAIN wire'[s][x], NEW k \in DOMAIN wire'[t][x],
                      s < t \/ (s = t /\ i < k)
               PROVE  Precedes(wire'[s][x][i], wire'[t][x][k])
    BY DEF Forward
  <2>1. CASE x # r
    BY <1>3, <2>1 DEF WireInv, Forward
  <2>2. CASE x = r /\ t # ws
    <3>1. wire'[t][x] = wire[t][x] /\ t <= ws
      BY <1>3, <1>5, <2>2
    <3>2. s # ws
      BY <1>1, <2>2, <3>1
    <3> QED
      BY <1>3, <2>2, <3>1, <3>2 DEF WireInv, Forward
  <2>3. CASE x = r /\ t = ws /\ s # ws
    <3>1. wire'[s][x] = wire[s][x]
      BY <1>3, <2>3
    <3> QED
      BY <1>4, <1>6, <2>3, <3>1 DEF WireInv, Forward
  <2>4. CASE x = r /\ t = ws /\ s = ws
    <3>1. i < k
      BY <1>1, <2>4
    <3>2. DOMAIN wire[ws][r] = 1 .. Len(wire[ws][r]) /\ Len(wire[ws][r]) \in Nat
      BY <1>2
    <3>3. i \in DOMAIN wire[ws][r] /\ wire'[ws][r][i] = wire[ws][r][i]
      BY <1>4, <2>4, <3>1, <3>2
    <3>4. CASE k \in DOMAIN wire[ws][r] /\ wire'[ws][r][k] = wire[ws][r][k]
      BY <2>4, <3>1, <3>3, <3>4 DEF WireInv, Forward
    <3>5. CASE wire'[ws][r][k] = e
      BY <1>6, <2>4, <3>3, <3>5
    <3> QED
      BY <1>4, <2>4, <3>4, <3>5
  <2> QED
    BY <2>1, <2>2, <2>3, <2>4
<1> QED
  BY <1>8, <1>9

\* send_bytes, when it is the frame's turn.
LEMMA SendBytesWire ==
  ASSUME WireInv, NEW r \in Req, NEW o \in ResponseOps, NEW q, NEW g \in 0 .. MaxChunks,
         pc[r] # "idle", SendBytes(r, o, q), got' = [got EXCEPT ![r] = g],
         Turn(pc[r], op[r], got[r], o, g), UNCHANGED <<home, linkVars>>
  PROVE  WireOK' /\ Forward'
<1>0. /\ TypeOK /\ RepliesOK /\ WireOK /\ Forward
      /\ pc \in [Req -> Steps] /\ op \in [Req -> ResponseOps] /\ got \in [Req -> 0 .. MaxChunks]
  BY DEF WireInv, IInv, TypeOK
<1>1. got'[r] = g /\ (\A x \in Req : x # r => got'[x] = got[x]) /\ home[r] # NoSocket
      /\ UNCHANGED <<home, sessions>>
  BY <1>0 DEF RepliesOK, linkVars
<1>2. \A f \in ResponseFrames : Fits(pc[r], op[r], got[r], f) =>
        /\ Precedes(f, [op |-> o, n |-> g])
        /\ \A p \in {"lock", "writing", "refused"} : Fits(p, o, g, f)
        /\ o = "HEAD" => Fits("first", op[r], g, f)
        /\ o = "BODY" => Fits("read", op[r], g, f)
        /\ o \in {"END", "ERROR"} => Fits("done", op[r], g, f)
  BY <1>0, TurnPrecedes, TurnFits
<1>3. CASE ws = NoSocket
  <2>1. /\ UNCHANGED <<op, wire>>
        /\ \/ o = "HEAD" /\ pc' = [pc EXCEPT ![r] = "first"]
           \/ o = "BODY" /\ pc' = [pc EXCEPT ![r] = "read"]
           \/ o \in {"END", "ERROR"} /\ pc' = [pc EXCEPT ![r] = "done"]
    BY <1>3 DEF SendBytes, Continue, ResponseOps
  <2>2. \A x \in Req : x # r => pc'[x] = pc[x] /\ op'[x] = op[x] /\ got'[x] = got[x]
    BY <1>0, <1>1, <2>1
  <2>3. \/ o = "HEAD" /\ pc'[r] = "first"
        \/ o = "BODY" /\ pc'[r] = "read"
        \/ o \in {"END", "ERROR"} /\ pc'[r] = "done"
    BY <1>0, <2>1
  <2>4. \A f \in ResponseFrames : Fits(pc[r], op[r], got[r], f) => Fits(pc'[r], op'[r], got'[r], f)
    BY <1>1, <1>2, <2>1, <2>3
  <2> QED
    BY <1>0, <1>1, <2>1, <2>2, <2>4, WireQuiet
<1>4. CASE ws # NoSocket
  <2>1. op' = [op EXCEPT ![r] = o]
    BY <1>4 DEF SendBytes
  <2>2. op'[r] = o /\ \A x \in Req : x # r => op'[x] = op[x]
    BY <1>0, <2>1
  <2>3. \/ /\ link = "up" /\ pc' = [pc EXCEPT ![r] = "writing"]
           /\ wire' = [wire EXCEPT ![ws][r] = Append(@, [op |-> o, n |-> got'[r]])]
        \/ UNCHANGED wire /\ \E p \in {"lock", "refused"} : pc' = [pc EXCEPT ![r] = p]
    BY <1>4 DEF SendBytes, Transmit
  <2>4. CASE UNCHANGED wire /\ \E p \in {"lock", "refused"} : pc' = [pc EXCEPT ![r] = p]
    <3>1. pc'[r] \in {"lock", "refused"} /\ \A x \in Req : x # r => pc'[x] = pc[x]
      BY <1>0, <2>4
    <3>2. \A f \in ResponseFrames : Fits(pc[r], op[r], got[r], f) => Fits(pc'[r], op'[r], got'[r], f)
      BY <1>1, <1>2, <2>2, <3>1
    <3> QED
      BY <1>0, <1>1, <2>2, <2>4, <3>1, <3>2, WireQuiet
  <2>5. CASE /\ link = "up" /\ pc' = [pc EXCEPT ![r] = "writing"]
             /\ wire' = [wire EXCEPT ![ws][r] = Append(@, [op |-> o, n |-> got'[r]])]
    <3>1. pc'[r] = "writing" /\ \A x \in Req : x # r => pc'[x] = pc[x]
      BY <1>0, <2>5
    <3>2. wire' = [wire EXCEPT ![ws][r] = Append(@, [op |-> o, n |-> g])]
      BY <1>1, <2>5
    <3> QED
      BY <1>1, <1>2, <2>2, <2>5, <3>1, <3>2, WireWrites
  <2> QED
    BY <2>3, <2>4, <2>5
<1> QED
  BY <1>3, <1>4

\* The answers of the local app.
LEMMA CallWire ==
  ASSUME WireInv, NEW r \in Req,
         Admit(r) \/ RequestDone(r) \/ CallRaises(r) \/ HeadDone(r) \/ ReadChunk(r)
         \/ FirstEmpty(r) \/ ReadEmpty(r)
  PROVE  WireOK' /\ Forward'
<1>0. /\ TypeOK /\ WireOK /\ Forward
      /\ pc \in [Req -> Steps] /\ op \in [Req -> ResponseOps] /\ got \in [Req -> 0 .. MaxChunks]
      /\ got = [got EXCEPT ![r] = got[r]] /\ got[r] \in 0 .. MaxChunks
  BY DEF WireInv, IInv, TypeOK
<1>1. UNCHANGED <<linkVars, home>> /\ UNCHANGED sessions
  BY DEF Admit, RequestDone, CallRaises, HeadDone, ReadChunk, FirstEmpty, ReadEmpty, linkVars, streamVars
<1>2. pc[r] # "idle"
  BY DEF Admit, RequestDone, CallRaises, HeadDone, ReadChunk, FirstEmpty, ReadEmpty
<1>3. ASSUME NEW p \in Steps, pc' = [pc EXCEPT ![r] = p], UNCHANGED <<op, got, wire>>,
             \/ pc[r] \in {"sem", "request"}
             \/ pc[r] = "first" /\ p = "drained"
      PROVE  WireOK' /\ Forward'
  <2>1. pc'[r] = p /\ \A x \in Req : x # r => pc'[x] = pc[x] /\ op'[x] = op[x] /\ got'[x] = got[x]
    BY <1>0, <1>3
  <2>2. \A f \in ResponseFrames : Fits(pc[r], op[r], got[r], f) => Fits(pc'[r], op'[r], got'[r], f)
    BY <1>3, <2>1 DEF Fits, Finished, Sending
  <2> QED
    BY <1>0, <1>1, <1>3, <2>1, <2>2, WireQuiet
<1>4. CASE pc[r] \in Calls /\ UNCHANGED got /\ SendBytes(r, "ERROR", lockQ)
  <2>1. Turn(pc[r], op[r], got[r], "ERROR", got[r]) /\ "ERROR" \in ResponseOps
    BY <1>4 DEF Turn, ResponseOps
  <2> QED
    BY <1>0, <1>1, <1>2, <1>4, <2>1, SendBytesWire
<1>5. CASE HeadDone(r)
  <2>1. pc[r] = "head" /\ UNCHANGED got /\ SendBytes(r, "HEAD", lockQ)
    BY <1>5 DEF HeadDone
  <2>2. Turn(pc[r], op[r], got[r], "HEAD", got[r]) /\ "HEAD" \in ResponseOps
    BY <2>1 DEF Turn, ResponseOps
  <2> QED
    BY <1>0, <1>1, <1>2, <2>1, <2>2, SendBytesWire
<1>6. CASE ReadChunk(r)
  <2>1. /\ pc[r] \in {"first", "read"} /\ got[r] < MaxChunks
        /\ got' = [got EXCEPT ![r] = got[r] + 1] /\ SendBytes(r, "BODY", lockQ)
    BY <1>6 DEF ReadChunk
  <2>2. got[r] + 1 \in 0 .. MaxChunks
    BY <1>0, <2>1, RequestAssumption
  <2>3. Turn(pc[r], op[r], got[r], "BODY", got[r] + 1) /\ "BODY" \in ResponseOps
    BY <2>1 DEF Turn, ResponseOps
  <2> QED
    BY <1>1, <1>2, <2>1, <2>2, <2>3, SendBytesWire
<1>7. CASE ReadEmpty(r)
  <2>1. pc[r] \in {"read", "drained"} /\ UNCHANGED got /\ SendBytes(r, "END", lockQ)
    BY <1>7 DEF ReadEmpty
  <2>2. Turn(pc[r], op[r], got[r], "END", got[r]) /\ "END" \in ResponseOps
    BY <2>1 DEF Turn, ResponseOps
  <2> QED
    BY <1>0, <1>1, <1>2, <2>1, <2>2, SendBytesWire
<1>8. CASE Admit(r) \/ FirstEmpty(r)
  BY <1>3, <1>8 DEF Admit, FirstEmpty, Steps, Calls
<1>9. CASE RequestDone(r)
  <2>1. CASE SendBytes(r, "ERROR", lockQ) /\ UNCHANGED got
    BY <1>4, <1>9, <2>1 DEF RequestDone, Calls
  <2>2. CASE pc' = [pc EXCEPT ![r] = "head"] /\ UNCHANGED <<op, got, wire>>
    BY <1>3, <1>9, <2>2 DEF RequestDone, Steps, Calls
  <2> QED
    BY <1>9, <2>1, <2>2 DEF RequestDone
<1>10. CASE CallRaises(r)
  BY <1>4, <1>10 DEF CallRaises, Calls
<1> QED
  BY <1>5, <1>6, <1>7, <1>8, <1>9, <1>10

\* The owner of the lock.
LEMMA OwnerWire ==
  ASSUME WireInv, NEW r \in Req, LockGranted(r) \/ SendDone(r) \/ SendClosed(r)
  PROVE  WireOK' /\ Forward'
<1>0. /\ TypeOK /\ RepliesOK /\ WireOK /\ Forward
      /\ pc \in [Req -> Steps] /\ op \in [Req -> ResponseOps] /\ got \in [Req -> 0 .. MaxChunks]
      /\ got = [got EXCEPT ![r] = got[r]] /\ got[r] \in 0 .. MaxChunks /\ op[r] \in ResponseOps
  BY DEF WireInv, IInv, TypeOK
<1>1. UNCHANGED <<linkVars, home, got>> /\ UNCHANGED sessions
  BY DEF LockGranted, SendDone, SendClosed, linkVars, streamVars
<1>2. pc[r] \in Sending /\ pc[r] # "idle" /\ home[r] # NoSocket
  BY <1>0 DEF LockGranted, SendDone, SendClosed, Sending, RepliesOK
<1>3. \A f \in ResponseFrames : Fits(pc[r], op[r], got[r], f) =>
        /\ pc[r] = "lock" => /\ Precedes(f, [op |-> op[r], n |-> got[r]])
                             /\ Fits("writing", op[r], got[r], f) /\ Fits("refused", op[r], got[r], f)
        /\ pc[r] = "writing" /\ op[r] = "HEAD" => Fits("first", op[r], got[r], f)
        /\ pc[r] = "writing" /\ op[r] = "BODY" => Fits("read", op[r], got[r], f)
        /\ \A q \in Finished : Fits(q, op[r], got[r], f)
  BY <1>0, <1>2, SentFits
<1>4. ASSUME NEW p \in Steps, pc' = [pc EXCEPT ![r] = p], UNCHANGED <<op, wire>>,
             \/ pc[r] = "lock" /\ p = "refused"
             \/ pc[r] = "writing" /\ op[r] = "HEAD" /\ p = "first"
             \/ pc[r] = "writing" /\ op[r] = "BODY" /\ p = "read"
             \/ p \in Finished
      PROVE  WireOK' /\ Forward'
  <2>1. pc'[r] = p /\ \A x \in Req : x # r => pc'[x] = pc[x] /\ op'[x] = op[x] /\ got'[x] = got[x]
    BY <1>0, <1>1, <1>4
  <2>2. \A f \in ResponseFrames : Fits(pc[r], op[r], got[r], f) => Fits(pc'[r], op'[r], got'[r], f)
    BY <1>1, <1>3, <1>4, <2>1
  <2> QED
    BY <1>0, <1>1, <1>4, <2>1, <2>2, WireQuiet
<1>5. ASSUME NEW closed \in BOOLEAN, SendRaises(r, closed) PROVE WireOK' /\ Forward'
  <2>1. CASE op[r] = "ERROR"
    <3>1. UNCHANGED <<op, wire>> /\ \E p \in {"done", "dangling"} : pc' = [pc EXCEPT ![r] = p]
      BY <1>5, <2>1 DEF SendRaises
    <3> QED
      BY <1>4, <3>1 DEF Finished, Steps
  <2>2. CASE op[r] # "ERROR"
    <3>1. SendBytes(r, "ERROR", Tail(lockQ))
      BY <1>5, <2>2 DEF SendRaises
    <3>2. Turn(pc[r], op[r], got[r], "ERROR", got[r]) /\ "ERROR" \in ResponseOps
      BY <1>2, <2>2 DEF Turn, ResponseOps
    <3> QED
      BY <1>0, <1>1, <1>2, <3>1, <3>2, SendBytesWire
  <2> QED
    BY <2>1, <2>2
<1>6. CASE SendClosed(r)
  BY <1>5, <1>6 DEF SendClosed
<1>7. CASE LockGranted(r) /\ ws = NoSocket
  BY <1>5, <1>7 DEF LockGranted
<1>8. CASE LockGranted(r) /\ ws # NoSocket
  <2>1. pc[r] = "lock" /\ Transmit(r, op[r]) /\ UNCHANGED op
    BY <1>8 DEF LockGranted
  <2>2. CASE link = "up"
    <3>1. /\ pc' = [pc EXCEPT ![r] = "writing"]
          /\ wire' = [wire EXCEPT ![ws][r] = Append(@, [op |-> op[r], n |-> got[r]])]
      BY <1>1, <2>1, <2>2 DEF Transmit
    <3>2. pc'[r] = "writing" /\ op'[r] = op[r] /\ got'[r] = got[r]
          /\ \A x \in Req : x # r => pc'[x] = pc[x] /\ op'[x] = op[x] /\ got'[x] = got[x]
      BY <1>0, <1>1, <2>1, <3>1
    <3>3. \A f \in ResponseFrames : Fits(pc[r], op[r], got[r], f) =>
            Precedes(f, [op |-> op[r], n |-> got[r]]) /\ Fits("writing", op[r], got[r], f)
      BY <1>3, <2>1
    <3> QED
      BY <1>0, <1>1, <1>2, <2>2, <3>1, <3>2, <3>3, WireWrites
  <2>3. CASE link # "up"
    <3>1. UNCHANGED wire /\ pc' = [pc EXCEPT ![r] = "refused"]
      BY <2>1, <2>3 DEF Transmit
    <3> QED
      BY <1>4, <2>1, <3>1 DEF Steps, Sending
  <2> QED
    BY <2>2, <2>3
<1>9. CASE SendDone(r)
  <2>1. pc[r] = "writing" /\ UNCHANGED <<op, wire>>
        /\ \/ op[r] = "HEAD" /\ pc' = [pc EXCEPT ![r] = "first"]
           \/ op[r] = "BODY" /\ pc' = [pc EXCEPT ![r] = "read"]
           \/ pc' = [pc EXCEPT ![r] = "done"]
    BY <1>9 DEF SendDone, Continue
  <2> QED
    BY <1>4, <2>1 DEF Steps, Calls, Finished
<1> QED
  BY <1>6, <1>7, <1>8, <1>9

\* The read loop writes nothing of a reply.
LEMMA ReadLoopWire ==
  ASSUME WireInv, ReadLoop
  PROVE  WireOK' /\ Forward'
<1>0. TypeOK /\ StreamOK /\ RepliesOK /\ inbox # <<>> /\ inbox \in Seq(ServerFrames)
      /\ UNCHANGED <<wire, op, got>> /\ UNCHANGED sessions
  BY DEF WireInv, IInv, TypeOK, ReadLoop, linkVars
<1>1. PICK f \in ServerFrames : f = Head(inbox) /\ f = inbox[1] /\ 1 \in DOMAIN inbox
  BY <1>0, TailFacts
<1>2. PICK r \in Req : r = f.req
  BY <1>1 DEF ServerFrames
<1>3. pc[r] = "idle"
  <2>1. f.part \in Nat
    BY <1>1, RequestAssumption DEF ServerFrames
  <2>2. InFlight(r, f.part)
    BY <1>1, <1>2 DEF InFlight
  <2> QED
    BY <1>0, <2>1, <2>2 DEF StreamOK, StartedOnce
<1>4. \A s \in Sessions : wire[s][r] = <<>>
  BY <1>0, <1>3 DEF RepliesOK
<1>5. \A x \in Req : x # r => pc'[x] = pc[x] /\ home'[x] = home[x]
  <2>1. \/ UNCHANGED <<pc, home>>
        \/ pc' = [pc EXCEPT ![r] = "sem"] /\ home' = [home EXCEPT ![r] = ws]
    BY <1>1, <1>2 DEF ReadLoop, RecvHead, RecvBody, RecvEnd
  <2> QED
    BY <1>0, <2>1 DEF TypeOK
<1>6. WireOK'
  BY <1>0, <1>4, <1>5 DEF WireInv, WireOK
<1> QED
  BY <1>0, <1>6 DEF WireInv, Forward

\* Nor does the cancellation of the handlers.
LEMMA CancelAllWire ==
  ASSUME WireInv, CancelAll
  PROVE  WireOK' /\ Forward'
<1>1. /\ pc' = [r \in Req |-> IF pc[r] \in {"idle"} \cup Finished THEN pc[r] ELSE "cancelled"]
      /\ UNCHANGED <<home, wire, op, got>> /\ UNCHANGED sessions
  BY DEF CancelAll, streamVars, linkVars
<1>2. ASSUME NEW r \in Req, NEW f, Fits(pc[r], op[r], got[r], f)
      PROVE  Fits(pc'[r], op[r], got[r], f)
  BY <1>1, <1>2 DEF Fits, Finished
<1>3. WireOK'
  BY <1>1, <1>2 DEF WireInv, WireOK
<1> QED
  BY <1>1, <1>3 DEF WireInv, Forward

\* Between connections, and outside the handlers, nothing is written.
LEMMA NothingWritten ==
  ASSUME WireInv, UNCHANGED <<pc, op, got, home, wire>>,
         sessions' \in Nat, sessions <= sessions'
  PROVE  WireOK' /\ Forward'
<1>1. sessions \in Nat /\ Sessions \subseteq Nat
  BY MaxSessionsAssumption DEF WireInv, LinkTypeOK, Sessions
<1>2. \A s \in Sessions : s <= sessions => s <= sessions'
  BY <1>1
<1>3. WireOK'
  BY <1>2 DEF WireInv, WireOK
<1> QED
  BY <1>3 DEF WireInv, Forward

\* Each step keeps what was written before what is still to come.
LEMMA NextWire == WireInv /\ [Next]_vars => WireOK' /\ Forward'
<1> SUFFICES ASSUME WireInv, [Next]_vars PROVE WireOK' /\ Forward'
  OBVIOUS
<1>0. sessions \in Nat
  BY MaxSessionsAssumption DEF WireInv, LinkTypeOK
<1>1. ASSUME NEW r \in Req, ServerSends(r) PROVE WireOK' /\ Forward'
  BY <1>0, <1>1, NothingWritten DEF ServerSends, linkVars, handlerVars
<1>2. ASSUME NEW r \in Req, HandlerStep(r) PROVE WireOK' /\ Forward'
  BY <1>2, CallWire, OwnerWire DEF HandlerStep
<1>3. CASE LinkDrops \/ SessionEnds
  <2>1. UNCHANGED <<handlerVars, home>> /\ UNCHANGED sessions
    BY <1>3 DEF LinkDrops, SessionEnds, Drop, ReadLoopRaises, ReadLoopReturns, RelayRaises, Leave
  <2> QED
    BY <1>0, <2>1, NothingWritten DEF handlerVars
<1>4. CASE SessionStarts
  <2>1. sessions' = sessions + 1 /\ UNCHANGED <<home, handlerVars>>
    BY <1>4 DEF SessionStarts, Connect, streamVars
  <2> QED
    BY <1>0, <2>1, NothingWritten DEF handlerVars
<1>5. CASE OtherLinkStep
  <2>1. UNCHANGED <<sessions, home, handlerVars>>
    BY <1>5 DEF OtherLinkStep, Register, HandshakeAborts, GiveUp, Close, CloseInterrupted, streamVars
  <2> QED
    BY <1>0, <2>1, NothingWritten DEF handlerVars
<1>6. CASE ReadLoop \/ CancelAll
  BY <1>6, ReadLoopWire, CancelAllWire
<1>7. CASE UNCHANGED vars
  BY <1>0, <1>7, NothingWritten DEF vars, linkVars, streamVars, handlerVars
<1> QED
  BY <1>1, <1>2, <1>3, <1>4, <1>5, <1>6, <1>7 DEF Next

\* The steps of RequestStream on the connection are those of ControlLink, so that
\* whatever ControlLink guarantees holds of it.
THEOREM StreamOnLink == Spec => LinkSpec
<1>1. Init => LinkInit
  BY DEF Init
<1>2. [Next]_vars => [LinkStep]_linkVars
  <2> USE DEF LinkStep
  <2>1. ASSUME NEW r \in Req, ServerSends(r) \/ HandlerStep(r) PROVE UNCHANGED linkVars
    BY <2>1 DEF ServerSends, HandlerStep, Admit, RequestDone, CallRaises, HeadDone,
       ReadChunk, FirstEmpty, ReadEmpty, LockGranted, SendDone, SendClosed
  <2>2. LinkDrops \/ SessionStarts \/ SessionEnds \/ OtherLinkStep => LinkStep
    BY DEF LinkDrops, SessionStarts, SessionEnds, OtherLinkStep
  <2>3. ReadLoop \/ CancelAll \/ UNCHANGED vars => UNCHANGED linkVars
    BY DEF ReadLoop, CancelAll, vars
  <2> QED
    BY <2>1, <2>2, <2>3 DEF Next
<1> QED
  BY <1>1, <1>2, PTL DEF Spec, LinkSpec

\* Nothing is written yet.
LEMMA InitWire == Init => WireOK /\ Forward
<1> SUFFICES ASSUME Init PROVE WireOK /\ Forward
  OBVIOUS
<1>1. \A r \in Req, s \in Sessions : DOMAIN wire[s][r] = {}
  BY DEF Init
<1> QED
  BY <1>1 DEF WireOK, Forward

\* A reply is written once, over all the connections its handler lives to see.
THEOREM FramesWrittenOnce == Spec => []WrittenOnce
<1>1. Spec => [](LinkTypeOK /\ LinkInv)
  BY StreamOnLink, LinkConsistent
<1>2. WireInv /\ [Next]_vars => (WireOK /\ Forward)'
  BY NextWire
<1>3. WireOK /\ Forward => WrittenOnce
  BY DEF WireOK, Forward, WrittenOnce
<1>4. Spec => [](WireOK /\ Forward)
  BY <1>1, <1>2, InitWire, AlwaysIInv, PTL DEF Spec, WireInv
<1> QED
  BY <1>3, <1>4, PTL
\* The frames a handler writes to the connection of its request are in order, and
\* none is written again to a later one.
THEOREM RepliesInOrder == Spec => []ReplyInOrder
<1>1. IInv /\ WrittenOnce => ReplyInOrder
  BY DEF IInv, RepliesOK, ReplyInOrder
<1> QED
  BY <1>1, AlwaysIInv, FramesWrittenOnce, PTL

-----------------------------------------------------------------------------
(* The refinement of HttpExchange *)

\* What HttpExchange sees of each place of a handler.
LEMMA StateOfStep ==
  ASSUME NEW s \in Steps
  PROVE  /\ StateOf(s) = "none" <=> s = "idle"
         /\ StateOf(s) = "waiting" <=> s = "sem"
         /\ StateOf(s) = "over" <=> s \in Finished
         /\ StateOf(s) = "open" <=> s \in Inside
         /\ StateOf(s) \in {"none", "waiting", "over", "open"}
  BY DEF StateOf, Steps, Finished, Inside, Calls, Sending

\* A step of one handler that the server does not see.
LEMMA Unseen ==
  ASSUME NEW r \in Req, \A x \in Req : x # r => pc'[x] = pc[x],
         StateOf(pc'[r]) = StateOf(pc[r]),
         \A x \in Req : UNCHANGED Reply(x)
  PROVE  UNCHANGED Exchange!vars
<1>1. States' = States
  BY DEF States
<1>2. Replies' = Replies
  BY DEF Replies
<1> QED
  BY <1>1, <1>2 DEF Exchange!vars

\* One handler ends.
LEMMA Ends ==
  ASSUME NEW r \in Req, pc[r] \in Inside, pc'[r] \in Finished,
         \A x \in Req : x # r => pc'[x] = pc[x],
         \A x \in Req : UNCHANGED Reply(x)
  PROVE  Exchange!Next
<1>1. StateOf(pc[r]) = "open" /\ StateOf(pc'[r]) = "over"
  <2>1. pc[r] \in Steps /\ pc'[r] \in Steps
    BY DEF Inside, Steps, Finished, Calls, Sending
  <2> QED
    BY <2>1, StateOfStep
<1>2. {r} \in SUBSET {x \in Req : States[x] \in {"waiting", "open"}} /\ {r} # {}
  BY <1>1 DEF States
<1>3. States' = [x \in Req |-> IF x \in {r} THEN "over" ELSE States[x]]
  BY <1>1 DEF States
<1>4. Replies' = Replies
  BY DEF Replies
<1>5. Exchange!Finish
  BY <1>2, <1>3, <1>4 DEF Exchange!Finish
<1> QED
  BY <1>5 DEF Exchange!Next

\* A frame is written: the server sees it if the connection is the one of the
\* request.
LEMMA WriteExchange ==
  ASSUME IInv, NEW r \in Req, NEW o \in ResponseOps, NEW g \in 0 .. MaxChunks,
         pc' = [pc EXCEPT ![r] = "writing"], pc[r] \in Inside,
         UNCHANGED <<linkVars, home>>, link = "up",
         wire' = [wire EXCEPT ![ws][r] = Append(@, [op |-> o, n |-> g])],
         home[r] = ws => CanFollow(r, o, g)
  PROVE  Exchange!Next \/ UNCHANGED Exchange!vars
<1> DEFINE f == [op |-> o, n |-> g]
<1>0. TypeOK /\ RepliesOK
  BY DEF IInv
<1>1. /\ pc'[r] = "writing" /\ pc[r] # "idle" /\ pc[r] \in Steps
      /\ \A x \in Req : x # r => pc'[x] = pc[x]
  BY <1>0 DEF TypeOK, Inside, Calls, Sending
<1>2. StateOf(pc[r]) = "open" /\ StateOf(pc'[r]) = "open"
  BY <1>1, StateOfStep DEF Steps, Inside, Sending
<1>3. ws \in Sessions /\ f \in ResponseFrames /\ f.op = o /\ f.n = g
  BY <1>0 DEF TypeOK, LinkTypeOK, RepliesOK, Sessions, NoSocket, ResponseFrames
<1> HIDE DEF f
<1>4. /\ wire'[ws][r] = Append(wire[ws][r], f)
      /\ \A s \in Sessions, x \in Req : s # ws \/ x # r => wire'[s][x] = wire[s][x]
  <2>1. wire \in [Sessions -> [Req -> Seq(ResponseFrames)]]
    BY <1>0 DEF TypeOK
  <2>2. wire' = [wire EXCEPT ![ws][r] = Append(@, f)]
    BY DEF f
  <2> QED
    BY <1>3, <2>1, <2>2
<1>5. home' = home /\ home \in [Req -> 0 .. MaxSessions] /\ home[r] # NoSocket
  BY <1>0, <1>1 DEF TypeOK, RepliesOK
<1>6. \A x \in Req : x # r => UNCHANGED Reply(x)
  BY <1>4, <1>5 DEF Reply, Sessions, NoSocket
<1>7. CASE home[r] # ws
  <2>1. UNCHANGED Reply(r)
    BY <1>4, <1>5, <1>7 DEF Reply, Sessions, NoSocket
  <2> QED
    BY <1>1, <1>2, <1>6, <2>1, Unseen
<1>8. CASE home[r] = ws
  <2>1. CanFollow(r, o, g) /\ Reply(r) \in Seq(ResponseFrames)
    BY <1>0, <1>8, ReplyType
  <2>2. Reply(r)' = Append(Reply(r), f)
    BY <1>4, <1>5, <1>8 DEF Reply
  <2>3. /\ Len(Reply(r)') = Len(Reply(r)) + 1 /\ Reply(r)'[Len(Reply(r)')] = f
        /\ Len(Reply(r)) \in Nat
    BY <1>3, <2>1, <2>2, AppendFacts
  <2>4. Exchange!Follows(Reply(r), f)
    <3>1. Len(Reply(r)) = g + 1 => Reply(r) # <<>> /\ g = Len(Reply(r)) - 1
      BY <2>1, <2>3
    <3> QED
      BY <1>3, <2>1, <3>1 DEF Exchange!Follows, CanFollow, Over, ResponseOps
  <2>5. States' = States /\ States[r] = "open"
    BY <1>1, <1>2 DEF States
  <2>6. Replies[r] = Reply(r) /\ Replies'[r] = Reply(r)'
    BY DEF Replies
  <2>7. Replies' = [Replies EXCEPT ![r] = Append(@, f)]
    BY <1>6, <2>2 DEF Replies
  <2>8. Exchange!Emit(r)
    BY <2>3, <2>4, <2>5, <2>6, <2>7 DEF Exchange!Emit
  <2> QED
    BY <2>8 DEF Exchange!Next
<1> QED
  BY <1>7, <1>8

\* A frame that is written is the next one of its exchange.
LEMMA SendBytesExchange ==
  ASSUME IInv, NEW r \in Req, NEW o \in ResponseOps, NEW q, NEW g \in 0 .. MaxChunks,
         pc[r] \in Inside, SendBytes(r, o, q),
         got' = [got EXCEPT ![r] = g],
         home[r] = ws /\ link = "up" => CanFollow(r, o, g),
         UNCHANGED <<linkVars, streamVars>>
  PROVE  Exchange!Next \/ UNCHANGED Exchange!vars
<1>0. pc \in [Req -> Steps] /\ got'[r] = g /\ home' = home
  BY DEF IInv, TypeOK, streamVars
<1>1. CASE UNCHANGED wire /\ \E s \in Inside \cup Finished : pc' = [pc EXCEPT ![r] = s]
  <2>1. \A x \in Req : UNCHANGED Reply(x)
    BY <1>0, <1>1 DEF Reply
  <2>2. PICK s \in Inside \cup Finished : pc' = [pc EXCEPT ![r] = s]
    BY <1>1
  <2>3. pc'[r] = s /\ (\A x \in Req : x # r => pc'[x] = pc[x]) /\ s \in Steps
    BY <1>0, <2>2 DEF Inside, Steps, Calls, Sending, Finished
  <2>4. CASE s \in Finished
    BY <2>1, <2>3, <2>4, Ends
  <2>5. CASE s \in Inside
    <3>1. StateOf(pc[r]) = "open" /\ StateOf(pc'[r]) = "open"
      BY <1>0, <2>3, <2>5, StateOfStep
    <3> QED
      BY <2>1, <2>3, <3>1, Unseen
  <2> QED
    BY <2>2, <2>4, <2>5
<1>2. CASE ws = NoSocket
  <2>1. UNCHANGED wire
    BY <1>2 DEF SendBytes
  <2>2. \E s \in Inside \cup Finished : pc' = [pc EXCEPT ![r] = s]
    BY <1>2 DEF SendBytes, Continue, ResponseOps, Inside, Calls, Finished
  <2> QED
    BY <1>1, <2>1, <2>2
<1>3. CASE ws # NoSocket /\ q = <<>> /\ link = "up"
  <2>1. /\ pc' = [pc EXCEPT ![r] = "writing"]
        /\ wire' = [wire EXCEPT ![ws][r] = Append(@, [op |-> o, n |-> g])]
    BY <1>0, <1>3 DEF SendBytes, Transmit
  <2> QED
    BY <1>0, <1>3, <2>1, WriteExchange
<1>4. CASE ws # NoSocket /\ ~ (q = <<>> /\ link = "up")
  <2>1. UNCHANGED wire /\ \E s \in {"lock", "refused"} : pc' = [pc EXCEPT ![r] = s]
    BY <1>4 DEF SendBytes, Transmit
  <2>2. {"lock", "refused"} \subseteq Inside \cup Finished
    BY DEF Inside, Sending
  <2> QED
    BY <1>1, <2>1, <2>2
<1> QED
  BY <1>2, <1>3, <1>4

\* A handler takes a slot.
LEMMA AdmitExchange ==
  ASSUME IInv, NEW r \in Req, Admit(r)
  PROVE  Exchange!Next
<1>1. /\ pc[r] = "sem" /\ free > 0 /\ pc' = [pc EXCEPT ![r] = "request"]
      /\ UNCHANGED <<home, wire>> /\ pc \in [Req -> Steps]
  BY DEF Admit, streamVars, IInv, TypeOK
<1>2. pc'[r] = "request" /\ \A x \in Req : x # r => pc'[x] = pc[x]
  BY <1>1
<1>3. StateOf(pc[r]) = "waiting" /\ StateOf(pc'[r]) = "open"
  BY <1>1, <1>2 DEF StateOf, Finished
<1>4. {x \in Req : States[x] = "open"} = Admitted
  BY <1>1, StateOfStep DEF States, Admitted, Inside
<1>5. Cardinality(Admitted) < MaxConcurrent
  BY <1>1, FS_CardinalityType, RequestAssumption
  DEF IInv, TypeOK, HandlersOK, SlotsOK, SlotsAccounted
<1>6. States[r] = "waiting" /\ States' = [States EXCEPT ![r] = "open"]
  BY <1>2, <1>3 DEF States
<1>7. Replies' = Replies
  BY <1>1 DEF Replies, Reply
<1>8. Exchange!Cardinality({x \in Req : States[x] = "open"}) < MaxConcurrent
  <2>1. Exchange!Cardinality(Admitted) = Cardinality(Admitted)
    BY DEF Exchange!Cardinality, Cardinality
  <2> QED
    BY <1>4, <1>5, <2>1
<1>9. Exchange!Open(r)
  BY <1>6, <1>7, <1>8 DEF Exchange!Open
<1> QED
  BY <1>9 DEF Exchange!Next

\* A handler is started, or the frame is one of the request only.
LEMMA ReadLoopExchange ==
  ASSUME IInv, ReadLoop
  PROVE  Exchange!Next \/ UNCHANGED Exchange!vars
<1>0. TypeOK /\ StreamOK /\ RepliesOK /\ inbox # <<>> /\ inbox \in Seq(ServerFrames)
      /\ UNCHANGED wire
  BY DEF IInv, TypeOK, ReadLoop
<1>1. PICK f \in ServerFrames : f = Head(inbox) /\ f = inbox[1] /\ 1 \in DOMAIN inbox
  BY <1>0, TailFacts
<1>2. PICK r \in Req : r = f.req
  BY <1>1 DEF ServerFrames
<1>3. pc[r] = "idle"
  <2>1. f.part \in Nat
    BY <1>1, RequestAssumption DEF ServerFrames
  <2>2. InFlight(r, f.part)
    BY <1>1, <1>2 DEF InFlight
  <2> QED
    BY <1>0, <2>1, <2>2 DEF StreamOK, StartedOnce
<1>4. \/ UNCHANGED <<pc, home>>
      \/ /\ pc' = [pc EXCEPT ![r] = "sem"] /\ home' = [home EXCEPT ![r] = ws]
  BY <1>1, <1>2 DEF ReadLoop, RecvHead, RecvBody, RecvEnd
<1>5. CASE UNCHANGED <<pc, home>>
  BY <1>0, <1>5 DEF Exchange!vars, States, Replies, Reply
<1>6. CASE pc' = [pc EXCEPT ![r] = "sem"] /\ home' = [home EXCEPT ![r] = ws]
  <2>1. /\ pc'[r] = "sem" /\ home'[r] = ws
        /\ \A x \in Req : x # r => pc'[x] = pc[x] /\ home'[x] = home[x]
    BY <1>0, <1>6 DEF TypeOK
  <2>2. StateOf(pc[r]) = "none" /\ StateOf(pc'[r]) = "waiting"
    BY <1>3, <2>1 DEF StateOf, Finished
  <2>3. \A s \in Sessions : wire[s][r] = <<>>
    BY <1>0, <1>3 DEF RepliesOK
  <2>4. Reply(r) = <<>> /\ Reply(r)' = <<>>
    BY <1>0, <2>1, <2>3 DEF Reply, NoSocket, Sessions, TypeOK, LinkTypeOK
  <2>5. \A x \in Req : UNCHANGED Reply(x)
    BY <1>0, <2>1, <2>4 DEF Reply
  <2>6. Replies' = Replies
    BY <2>5 DEF Replies
  <2>7. States[r] = "none" /\ States' = [States EXCEPT ![r] = "waiting"]
    BY <2>1, <2>2 DEF States
  <2>8. Exchange!Accept(r)
    BY <2>6, <2>7 DEF Exchange!Accept
  <2> QED
    BY <2>8 DEF Exchange!Next
<1> QED
  BY <1>4, <1>5, <1>6

\* Every handler that is left ends.
LEMMA CancelAllExchange ==
  ASSUME IInv, CancelAll
  PROVE  Exchange!Next
<1> DEFINE S == {x \in Req : States[x] \in {"waiting", "open"}}
<1>1. /\ \E r \in Req : pc[r] \notin {"idle"} \cup Finished
      /\ pc' = [r \in Req |-> IF pc[r] \in {"idle"} \cup Finished THEN pc[r] ELSE "cancelled"]
      /\ UNCHANGED <<home, wire>> /\ pc \in [Req -> Steps]
  BY DEF CancelAll, streamVars, IInv, TypeOK
<1>2. \A x \in Req : x \in S <=> pc[x] \notin {"idle"} \cup Finished
  <2>1. \A x \in Req : pc[x] \in Steps /\ States[x] = StateOf(pc[x])
    BY <1>1 DEF States
  <2>2. \A s \in Steps : s \notin {"idle"} \cup Finished <=> s \in Inside \cup {"sem"}
    BY DEF Steps, Inside, Calls, Sending, Finished
  <2> QED
    BY <2>1, <2>2, StateOfStep
<1>3. StateOf("cancelled") = "over"
  BY DEF StateOf, Finished
<1>4. \A x \in Req : pc'[x] = IF x \in S THEN "cancelled" ELSE pc[x]
  BY <1>1, <1>2
<1>5. States' = [x \in Req |-> IF x \in S THEN "over" ELSE States[x]]
  BY <1>3, <1>4 DEF States
<1>6. Replies' = Replies
  BY <1>1 DEF Replies, Reply
<1>7. S # {} /\ S \in SUBSET S
  BY <1>1, <1>2
<1>8. Exchange!Finish
  BY <1>5, <1>6, <1>7 DEF Exchange!Finish
<1> QED
  BY <1>8 DEF Exchange!Next

\* The answers of the local app.
LEMMA CallExchange ==
  ASSUME IInv, NEW r \in Req,
         RequestDone(r) \/ CallRaises(r) \/ HeadDone(r) \/ ReadChunk(r) \/ FirstEmpty(r) \/ ReadEmpty(r)
  PROVE  Exchange!Next \/ UNCHANGED Exchange!vars
<1>0. TypeOK /\ RepliesOK
  BY DEF IInv
<1>1. pc[r] \in Calls /\ pc[r] \in Inside /\ pc[r] # "idle"
  BY DEF RequestDone, CallRaises, HeadDone, ReadChunk, FirstEmpty, ReadEmpty, Calls, Inside
<1>2. home[r] = ws /\ link = "up" => WrittenBy(r)
  BY <1>0, <1>1 DEF RepliesOK
<1>3. Reply(r) \in Seq(ResponseFrames) /\ ~ Over(<<>>) /\ Len(<<>>) = 0
      /\ got[r] \in 0 .. MaxChunks /\ got = [got EXCEPT ![r] = got[r]]
  BY <1>0, ReplyType DEF Over, TypeOK
<1>4. home[r] = ws /\ link = "up" => ~ Over(Reply(r))
  BY <1>1, <1>2, <1>3 DEF WrittenBy, Calls
<1>5. UNCHANGED <<linkVars, streamVars>>
  BY DEF RequestDone, CallRaises, HeadDone, ReadChunk, FirstEmpty, ReadEmpty
<1>6. CASE UNCHANGED got /\ SendBytes(r, "ERROR", lockQ)
  <2>1. home[r] = ws /\ link = "up" => CanFollow(r, "ERROR", got[r])
    BY <1>4 DEF CanFollow
  <2>2. "ERROR" \in ResponseOps
    BY DEF ResponseOps
  <2> QED
    BY <1>1, <1>3, <1>5, <1>6, <2>1, <2>2, SendBytesExchange
<1>7. ASSUME NEW s \in {"head", "drained"}, pc' = [pc EXCEPT ![r] = s], UNCHANGED wire
      PROVE  UNCHANGED Exchange!vars
  <2>1. pc'[r] = s /\ \A x \in Req : x # r => pc'[x] = pc[x]
    BY <1>0, <1>7 DEF TypeOK
  <2>2. StateOf(pc[r]) = "open" /\ StateOf(pc'[r]) = "open"
    BY <1>0, <1>1, <2>1 DEF StateOf, Calls, Finished
  <2>3. \A x \in Req : UNCHANGED Reply(x)
    BY <1>5, <1>7 DEF Reply, streamVars
  <2> QED
    BY <2>1, <2>2, <2>3, Unseen
<1>8. CASE HeadDone(r)
  <2>1. pc[r] = "head" /\ UNCHANGED got /\ SendBytes(r, "HEAD", lockQ)
    BY <1>8 DEF HeadDone
  <2>2. home[r] = ws /\ link = "up" => CanFollow(r, "HEAD", got[r])
    BY <1>2, <1>4, <2>1 DEF WrittenBy, CanFollow
  <2> QED
    BY <1>1, <1>3, <1>5, <2>1, <2>2, SendBytesExchange DEF ResponseOps
<1>9. CASE ReadChunk(r)
  <2>1. /\ pc[r] \in {"first", "read"} /\ got[r] < MaxChunks
        /\ got' = [got EXCEPT ![r] = got[r] + 1] /\ SendBytes(r, "BODY", lockQ)
    BY <1>9 DEF ReadChunk
  <2>2. got[r] + 1 \in 0 .. MaxChunks
    BY <1>3, <2>1, RequestAssumption
  <2>3. home[r] = ws /\ link = "up" => CanFollow(r, "BODY", got[r] + 1)
    <3>1. home[r] = ws /\ link = "up" => Len(Reply(r)) = got[r] + 1 /\ ~ Over(Reply(r))
      BY <1>2, <2>1 DEF WrittenBy
    <3>2. Len(Reply(r)) = got[r] + 1 => Reply(r) # <<>>
      BY <1>3
    <3> QED
      BY <3>1, <3>2 DEF CanFollow
  <2> QED
    BY <1>1, <1>5, <2>1, <2>2, <2>3, SendBytesExchange DEF ResponseOps
<1>10. CASE ReadEmpty(r)
  <2>1. pc[r] \in {"read", "drained"} /\ UNCHANGED got /\ SendBytes(r, "END", lockQ)
    BY <1>10 DEF ReadEmpty
  <2>2. home[r] = ws /\ link = "up" => CanFollow(r, "END", got[r])
    BY <1>2, <1>4, <2>1 DEF WrittenBy, CanFollow
  <2> QED
    BY <1>1, <1>3, <1>5, <2>1, <2>2, SendBytesExchange DEF ResponseOps
<1>11. CASE RequestDone(r)
  BY <1>6, <1>7, <1>11 DEF RequestDone
<1>12. CASE CallRaises(r)
  BY <1>6, <1>12 DEF CallRaises
<1>13. CASE FirstEmpty(r)
  BY <1>7, <1>13 DEF FirstEmpty
<1> QED
  BY <1>8, <1>9, <1>10, <1>11, <1>12, <1>13

\* The owner of the lock.
LEMMA OwnerExchange ==
  ASSUME IInv, NEW r \in Req, LockGranted(r) \/ SendDone(r) \/ SendClosed(r)
  PROVE  Exchange!Next \/ UNCHANGED Exchange!vars
<1>0. TypeOK /\ RepliesOK /\ pc \in [Req -> Steps] /\ op[r] \in ResponseOps
      /\ got[r] \in 0 .. MaxChunks
  BY DEF IInv, TypeOK
<1>1. pc[r] \in Inside /\ pc[r] # "idle"
  BY DEF LockGranted, SendDone, SendClosed, Sending, Inside
<1>2. UNCHANGED <<linkVars, streamVars, got>> /\ UNCHANGED home
  BY DEF LockGranted, SendDone, SendClosed, streamVars
<1>3. ASSUME NEW s \in Inside \cup Finished, pc' = [pc EXCEPT ![r] = s], UNCHANGED wire
      PROVE  Exchange!Next \/ UNCHANGED Exchange!vars
  <2>1. /\ pc'[r] = s /\ (\A x \in Req : x # r => pc'[x] = pc[x]) /\ s \in Steps
        /\ \A x \in Req : UNCHANGED Reply(x)
    BY <1>0, <1>2, <1>3 DEF Inside, Steps, Calls, Sending, Finished, Reply
  <2>2. CASE s \in Finished
    BY <1>1, <2>1, <2>2, Ends
  <2>3. CASE s \in Inside
    <3>1. StateOf(pc[r]) = "open" /\ StateOf(pc'[r]) = "open"
      BY <1>0, <1>1, <2>1, <2>3, StateOfStep
    <3> QED
      BY <2>1, <3>1, Unseen
  <2> QED
    BY <1>3, <2>2, <2>3
<1>4. ASSUME NEW closed \in BOOLEAN, SendRaises(r, closed), ~ (home[r] = ws /\ link = "up")
      PROVE  Exchange!Next \/ UNCHANGED Exchange!vars
  <2>1. CASE op[r] = "ERROR"
    <3>1. UNCHANGED wire /\ \E s \in {"done", "dangling"} : pc' = [pc EXCEPT ![r] = s]
      BY <1>4, <2>1 DEF SendRaises
    <3>2. {"done", "dangling"} \subseteq Inside \cup Finished
      BY DEF Finished
    <3> QED
      BY <1>3, <3>1, <3>2
  <2>2. CASE op[r] # "ERROR"
    <3>1. SendBytes(r, "ERROR", Tail(lockQ))
      BY <1>4, <2>2 DEF SendRaises
    <3>2. "ERROR" \in ResponseOps /\ got' = [got EXCEPT ![r] = got[r]]
      BY <1>0, <1>2 DEF ResponseOps, TypeOK
    <3> QED
      BY <1>0, <1>1, <1>2, <1>4, <3>1, <3>2, SendBytesExchange
  <2> QED
    BY <2>1, <2>2
<1>5. CASE SendClosed(r)
  <2>1. ~ (home[r] = ws /\ link = "up")
    BY <1>0, <1>1, <1>5 DEF SendClosed, RepliesOK
  <2> QED
    BY <1>4, <1>5, <2>1 DEF SendClosed
<1>6. CASE LockGranted(r) /\ ws = NoSocket
  <2>1. ~ (home[r] = ws /\ link = "up")
    BY <1>0, <1>1, <1>6 DEF RepliesOK
  <2> QED
    BY <1>4, <1>6, <2>1 DEF LockGranted
<1>7. CASE LockGranted(r) /\ ws # NoSocket
  <2>1. pc[r] = "lock" /\ Transmit(r, op[r])
    BY <1>7 DEF LockGranted
  <2>2. CASE link = "up"
    <3>1. /\ pc' = [pc EXCEPT ![r] = "writing"]
          /\ wire' = [wire EXCEPT ![ws][r] = Append(@, [op |-> op[r], n |-> got[r]])]
      BY <1>2, <2>1, <2>2 DEF Transmit
    <3>2. home[r] = ws => CanFollow(r, op[r], got[r])
      BY <1>0, <2>1, <2>2 DEF RepliesOK, WrittenBy, CanFollow
    <3> QED
      BY <1>0, <1>1, <1>2, <2>2, <3>1, <3>2, WriteExchange
  <2>3. CASE link # "up"
    <3>1. "refused" \in Inside /\ UNCHANGED wire /\ pc' = [pc EXCEPT ![r] = "refused"]
      BY <2>1, <2>3 DEF Transmit, Inside, Sending
    <3> QED
      BY <1>3, <3>1
  <2> QED
    BY <2>2, <2>3
<1>8. CASE SendDone(r)
  <2>1. UNCHANGED wire /\ \E s \in {"first", "read", "done"} : pc' = [pc EXCEPT ![r] = s]
    BY <1>8 DEF SendDone, Continue
  <2>2. {"first", "read", "done"} \subseteq Inside \cup Finished
    BY DEF Inside, Calls, Finished
  <2> QED
    BY <1>3, <2>1, <2>2
<1> QED
  BY <1>5, <1>6, <1>7, <1>8

\* Each step is one of HttpExchange, or leaves all that it sees as it is.
LEMMA NextExchange == IInv /\ [Next]_vars => [Exchange!Next]_Exchange!vars
<1> SUFFICES ASSUME IInv, [Next]_vars PROVE Exchange!Next \/ UNCHANGED Exchange!vars
  BY DEF Exchange!vars
<1>1. ASSUME UNCHANGED <<pc, home, wire>> PROVE UNCHANGED Exchange!vars
  BY <1>1 DEF Exchange!vars, States, Replies, Reply
<1>2. ASSUME NEW r \in Req, ServerSends(r) PROVE UNCHANGED Exchange!vars
  BY <1>1, <1>2 DEF ServerSends, handlerVars
<1>3. ASSUME NEW r \in Req, HandlerStep(r) PROVE Exchange!Next \/ UNCHANGED Exchange!vars
  BY <1>3, AdmitExchange, CallExchange, OwnerExchange DEF HandlerStep
<1>4. CASE LinkDrops \/ SessionEnds
  BY <1>1, <1>4 DEF LinkDrops, SessionEnds, handlerVars
<1>5. CASE SessionStarts \/ OtherLinkStep
  BY <1>1, <1>5 DEF SessionStarts, OtherLinkStep, streamVars, handlerVars
<1>6. CASE ReadLoop
  BY <1>6, ReadLoopExchange
<1>7. CASE CancelAll
  BY <1>7, CancelAllExchange
<1>8. CASE UNCHANGED vars
  BY <1>1, <1>8 DEF vars, streamVars, handlerVars
<1> QED
  BY <1>2, <1>3, <1>4, <1>5, <1>6, <1>7, <1>8 DEF Next

\* No exchange has begun.
LEMMA InitExchange == Init => Exchange!Init
<1> SUFFICES ASSUME Init PROVE Exchange!Init
  OBVIOUS
<1>1. StateOf("idle") = "none"
  BY DEF StateOf, Finished
<1>2. States = [r \in Req |-> "none"]
  BY <1>1 DEF Init, States
<1>3. Replies = [r \in Req |-> <<>>]
  BY DEF Init, Replies, Reply
<1> QED
  BY <1>2, <1>3 DEF Exchange!Init

\* The read loop, the handlers and the two locks implement the exchange that
\* the server relies on, over any number of connections.
THEOREM StreamImplementsExchange == Spec => ImplementsExchange
  BY InitExchange, NextExchange, AlwaysIInv, PTL DEF Spec, ImplementsExchange, Exchange!Spec
===============================================================================
