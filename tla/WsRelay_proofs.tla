----------------------------- MODULE WsRelay_proofs -----------------------------
(***************************************************************************)
(* Proofs about WsRelay for any ids and any number of relays, sessions and  *)
(* messages in flight.                                                      *)
(***************************************************************************)
EXTENDS WsRelay, ControlLink_proofs, TLAPS

Known == 1 .. opens

\* After a Ctrl+C the read loop may go on beside close_all.
Late == phase \in {"leaving", "ended"} /\ interrupted

Before == phase \in {"connecting", "handshake"}

Opening == {"connect", "refuse", "ack"}

\* Where the tasks are in each phase, and what they work on.
PlaceInv ==
  /\ ws \in 0 .. sessions
  /\ phase \notin {"connecting", "ended"} => sessions >= 1
  /\ at["main"] \in {"off", "idle", "task", "ws"}
  /\ at["main"] # "off" => phase \in {"reconnecting", "leaving", "ended"}
  /\ at["reader"] # "off" => phase = "serving" \/ Late
  /\ \A c \in Callers : at[c] \in {"task", "ws"} => arg[c] \in Known
  /\ \A c \in Callers : at[c] = "ws" => home[arg[c]] = sessions
  /\ at["reader"] \in Opening \cup {"feed"} => arg["reader"] \in Known
  /\ at["reader"] \in Opening => home[arg["reader"]] = sessions
  /\ Before => opened = {} /\ inbox = <<>>
  /\ link # "up" => opened = {}
  /\ \A r \in opened : home[r] = sessions
  /\ \A k \in DOMAIN inbox : inbox[k].relay \in Known /\ home[inbox[k].relay] = sessions

\* A relay the read loop has not opened yet has no task and no connection.
FreshInv ==
  /\ \A r \in Relay : pc[r] # "none" \/ sock[r] # "none" => r \in Known
  /\ \A r \in cancelled : pc[r] # "none"
  /\ \A k \in DOMAIN inbox :
       inbox[k].op = "open" => pc[inbox[k].relay] = "none" /\ sock[inbox[k].relay] = "none"
  /\ at["reader"] \in Opening => pc[arg["reader"]] = "none"
  /\ at["reader"] \in {"connect", "refuse"} => sock[arg["reader"]] = "none"
  /\ at["reader"] = "ack" => sock[arg["reader"]] # "none"
  /\ \A c \in Callers : at[c] = "task" => pc[arg[c]] # "none"
  /\ \A c \in Callers : at[c] = "ws" => sock[arg[c]] # "none"

\* A relay that an id in use stands for.
Active(q) ==
  \/ /\ relays[id[q]] = q \/ tasks[id[q]] = q
     /\ ~ (at["reader"] = "task" /\ arg["reader"] = q)
  \/ at["reader"] \in Opening /\ arg["reader"] = q

\* The close of `q' is between two places of the inbox.
ClosedIn(q, k, j) == \E l \in DOMAIN inbox : k < l /\ l < j /\ inbox[l] = [op |-> "close", relay |-> q]

\* What follows place k with the id of `q' is data or the close of `q', and
\* then, if anything, of later relays.
Behind(q, k) ==
  \A j \in DOMAIN inbox : k < j /\ id[inbox[j].relay] = id[q] =>
    /\ inbox[j].relay >= q
    /\ inbox[j].relay = q => inbox[j].op # "open"
    /\ inbox[j].relay > q => ClosedIn(q, k, j)

\* What the server does not take for open it has closed.
Told(q, k) == link = "up" /\ q \notin opened => ClosedIn(q, k, Len(inbox) + 1)

StreamInv ==
  /\ \A q \in Known : Active(q) => Behind(q, 0) /\ Told(q, 0)
  /\ \A q \in Known : \A k \in DOMAIN inbox :
       inbox[k] = [op |-> "open", relay |-> q] => Behind(q, k) /\ Told(q, k)
  /\ \A r \in opened : \A q \in Known : id[q] = id[r] => q <= r
  /\ \A q, r \in Known : Active(q) /\ Active(r) /\ id[q] = id[r] => q = r

\* What the dictionaries hold.
DictInv ==
  /\ \A i \in Id : relays[i] # None =>
       /\ relays[i] \in Known /\ id[relays[i]] = i /\ home[relays[i]] = sessions
       /\ sock[relays[i]] \in {"open", "gone"} /\ pc[relays[i]] # "closing"
  /\ \A i \in Id : tasks[i] # None =>
       /\ tasks[i] \in Known /\ id[tasks[i]] = i
       /\ pc[tasks[i]] \in Relaying /\ tasks[i] \notin cancelled
  /\ \A c \in Callers : at[c] = "ws" => relays[id[arg[c]]] # arg[c]
  /\ \A c \in Callers : at[c] = "task" => tasks[id[arg[c]]] # arg[c]
  /\ at["reader"] = "task" => tasks[id[arg["reader"]]] = None
  /\ at["reader"] = "task" => relays[id[arg["reader"]]] \in {None, arg["reader"]}

\* Of the relays with one id one at most has a task that relays, and that one
\* can be found or has been cancelled.
TaskInv ==
  /\ \A r \in Known : pc[r] \in Relaying => home[r] = sessions /\ heard[id[r]] = r /\ ~ Before
  /\ \A r \in Known : pc[r] \in Relaying /\ r \notin cancelled => tasks[id[r]] = r
  /\ \A q, r \in Known : pc[q] \in Relaying /\ pc[r] \in Relaying /\ id[q] = id[r] => q = r
  /\ \A q \in Known : pc[q] \in Relaying => relays[id[q]] \in {None, q}
  /\ \A q \in Known : pc[q] \in Relaying /\ at["reader"] = "ack" => id[arg["reader"]] # id[q]

\* The two dictionaries agree, and what has been cancelled is waited for.
PairInv ==
  ~ Late =>
    /\ \A i \in Id : tasks[i] # None => relays[i] = tasks[i]
    /\ at["reader"] = "ack" => relays[id[arg["reader"]]] = arg["reader"]
    /\ at["main"] = "task" => tasks[id[arg["main"]]] = None
    /\ \A r \in cancelled : pc[r] \in Relaying => \E c \in Callers : at[c] = "task" /\ arg[c] = r

\* close_all still has to come to what is left.
TodoInv ==
  phase = "reconnecting" =>
    \A i \in Id : relays[i] # None => i \in todo \/ (at["main"] = "task" /\ id[arg["main"]] = i)

\* An open local connection will be closed by someone.
SockInv ==
  ~ interrupted =>
    /\ \A r \in cancelled : pc[r] \in Relaying
    /\ \A r \in Known : sock[r] \in {"open", "gone"} =>
         \/ relays[id[r]] = r \/ pc[r] = "closing"
         \/ \E c \in Callers : at[c] = "ws" /\ arg[c] = r
    /\ Before => \A r \in Known : sock[r] \in {"open", "gone"} => pc[r] = "closing"

IInv ==
  /\ TypeOK /\ PlaceInv /\ FreshInv /\ StreamInv /\ DictInv /\ TaskInv
  /\ PairInv /\ TodoInv /\ SockInv
-----------------------------------------------------------------------------
(* Sequences *)

\* What Append does to the places of a sequence.
LEMMA AppendFacts ==
  ASSUME NEW S, NEW s \in Seq(S), NEW e \in S
  PROVE  /\ Append(s, e) \in Seq(S)
         /\ Len(s) \in Nat /\ DOMAIN s = 1 .. Len(s)
         /\ DOMAIN Append(s, e) = 1 .. Len(s) + 1
         /\ Len(Append(s, e)) = Len(s) + 1
         /\ \A k \in DOMAIN s : Append(s, e)[k] = s[k]
         /\ Append(s, e)[Len(s) + 1] = e
  OBVIOUS

\* A sequence of length n is a function on 1 .. n.
LEMMA AsSequence ==
  ASSUME NEW S, NEW s
  PROVE  /\ \A n \in Nat : s \in [1 .. n -> S] => s \in Seq(S) /\ Len(s) = n
         /\ s \in Seq(S) => s \in [1 .. Len(s) -> S]
  OBVIOUS

\* Tail moves each element one place down.
LEMMA TailFacts ==
  ASSUME NEW S, NEW s \in Seq(S), s # <<>>
  PROVE  /\ Tail(s) \in Seq(S)
         /\ 1 \in DOMAIN s /\ Head(s) = s[1]
         /\ Len(s) \in Nat /\ Len(Tail(s)) = Len(s) - 1 /\ DOMAIN s = 1 .. Len(s)
         /\ \A k \in DOMAIN Tail(s) : k \in Nat /\ k >= 1 /\ k + 1 \in DOMAIN s /\ Tail(s)[k] = s[k + 1]
         /\ \A k \in DOMAIN s : k \in Nat /\ (k > 1 => k - 1 \in DOMAIN Tail(s) /\ Tail(s)[k - 1] = s[k])
  OBVIOUS

\* A prefix keeps its places.
LEMMA PrefixFacts ==
  ASSUME NEW S, NEW s \in Seq(S), NEW n \in 0 .. Len(s)
  PROVE  /\ SubSeq(s, 1, n) \in Seq(S)
         /\ DOMAIN SubSeq(s, 1, n) = 1 .. n /\ DOMAIN s = 1 .. Len(s)
         /\ \A k \in 1 .. n : k \in DOMAIN s /\ SubSeq(s, 1, n)[k] = s[k]
  OBVIOUS

-----------------------------------------------------------------------------
(* The messages in flight *)

\* A relay opened so far is a relay, and its id is an id.
LEMMA KnownFacts ==
  ASSUME TypeOK
  PROVE  \A r \in Known : r \in Relay /\ r \in Nat /\ r # None /\ id[r] \in Id
  BY RelayAssumption DEF TypeOK, Known, Relay, None, RelayAssumption

\* What the places of the inbox are, and the relays of the messages there.
LEMMA InboxFacts ==
  ASSUME TypeOK, PlaceInv
  PROVE  /\ inbox \in Seq(Message) /\ Len(inbox) \in Nat /\ DOMAIN inbox = 1 .. Len(inbox)
         /\ \A k \in DOMAIN inbox :
              /\ k \in Nat /\ inbox[k] \in Message
              /\ inbox[k].relay \in Known /\ inbox[k].relay \in Nat
         /\ Known \subseteq Nat
<1>1. inbox \in Seq(Message)
  BY DEF TypeOK
<1>2. Len(inbox) \in Nat /\ DOMAIN inbox = 1 .. Len(inbox) /\ \A k \in DOMAIN inbox : inbox[k] \in Message
  BY <1>1
<1> QED
  BY <1>1, <1>2, RelayAssumption DEF TypeOK, PlaceInv, Known, RelayAssumption

\* No message comes or goes, and no relay becomes active.
LEMMA StreamKept ==
  ASSUME StreamInv, UNCHANGED <<opened, inbox, origin>>, link' = "up" => link = "up",
         \A q \in Known : Active(q)' => Active(q)
  PROVE  StreamInv'
<1>1. Known' = Known /\ \A q, k, j : ClosedIn(q, k, j)' <=> ClosedIn(q, k, j)
  BY DEF Known, ClosedIn, origin
<1>2. \A q, k : /\ Behind(q, k) => Behind(q, k)'
                /\ Told(q, k) => Told(q, k)'
  BY <1>1 DEF Behind, Told, origin
<1> QED
  BY <1>1, <1>2 DEF StreamInv, origin

\* The read loop takes the first message: a relay that becomes active is the
\* one of an open, and a relay whose close is read is no longer active.
LEMMA StreamRead ==
  ASSUME IInv, inbox # <<>>, inbox' = Tail(inbox), UNCHANGED <<opened, origin, link>>,
         \A q \in Known : Active(q)' =>
           /\ Active(q) \/ Head(inbox) = [op |-> "open", relay |-> q]
           /\ Head(inbox) # [op |-> "close", relay |-> q]
  PROVE  StreamInv'
<1>1. /\ TypeOK /\ PlaceInv /\ StreamInv /\ inbox \in Seq(Message)
      /\ Known' = Known /\ Known \subseteq Nat /\ id' = id /\ opened' = opened /\ link' = link
  BY InboxFacts DEF IInv, Known, origin
<1>2. /\ Len(inbox) \in Nat /\ Len(inbox') = Len(inbox) - 1 /\ 1 \in DOMAIN inbox /\ Head(inbox) = inbox[1]
      /\ DOMAIN inbox = 1 .. Len(inbox)
      /\ \A k \in DOMAIN inbox' : k \in Nat /\ k >= 1 /\ k + 1 \in DOMAIN inbox /\ inbox'[k] = inbox[k + 1]
      /\ \A k \in DOMAIN inbox : k \in Nat /\ (k > 1 => k - 1 \in DOMAIN inbox' /\ inbox'[k - 1] = inbox[k])
  BY <1>1, TailFacts
<1>3. \A q \in Known : \A k, j \in Nat : k + 1 < j + 1 /\ ClosedIn(q, k + 1, j + 1) => ClosedIn(q, k, j)'
  <2> SUFFICES ASSUME NEW q \in Known, NEW k \in Nat, NEW j \in Nat, ClosedIn(q, k + 1, j + 1)
               PROVE  ClosedIn(q, k, j)'
    OBVIOUS
  <2>1. PICK l \in DOMAIN inbox : k + 1 < l /\ l < j + 1 /\ inbox[l] = [op |-> "close", relay |-> q]
    BY DEF ClosedIn
  <2>2. l \in Nat /\ l - 1 \in DOMAIN inbox' /\ inbox'[l - 1] = inbox[l] /\ k < l - 1 /\ l - 1 < j
    BY <1>2, <2>1
  <2> QED
    BY <2>1, <2>2 DEF ClosedIn
<1>4. ASSUME NEW q \in Known, NEW k \in Nat, Behind(q, k + 1) PROVE Behind(q, k)'
  <2> SUFFICES ASSUME NEW j \in DOMAIN inbox', k < j, id[inbox'[j].relay] = id[q]
               PROVE  /\ inbox'[j].relay >= q
                      /\ inbox'[j].relay = q => inbox'[j].op # "open"
                      /\ inbox'[j].relay > q => ClosedIn(q, k, j)'
    BY <1>1 DEF Behind
  <2>1. j \in Nat /\ j + 1 \in DOMAIN inbox /\ inbox'[j] = inbox[j + 1] /\ k + 1 < j + 1
    BY <1>2
  <2> QED
    BY <1>3, <1>4, <2>1 DEF Behind
<1>5. ASSUME NEW q \in Known, NEW k \in Nat, Told(q, k + 1) PROVE Told(q, k)'
  <2>1. CASE link = "up" /\ q \notin opened
    <3>1. ClosedIn(q, k + 1, Len(inbox) + 1)
      BY <1>5, <2>1 DEF Told
    <3>2. PICK l \in DOMAIN inbox : k + 1 < l /\ l < Len(inbox) + 1 /\ inbox[l] = [op |-> "close", relay |-> q]
      BY <3>1 DEF ClosedIn
    <3>3. l \in Nat /\ l - 1 \in DOMAIN inbox' /\ inbox'[l - 1] = inbox[l] /\ k < l - 1 /\ l - 1 < Len(inbox') + 1
      BY <1>2, <3>2
    <3> QED
      BY <3>2, <3>3 DEF ClosedIn, Told
  <2> QED
    BY <1>1, <2>1 DEF Told
<1>6. ASSUME NEW q \in Known, Active(q)' PROVE Behind(q, 0)' /\ Told(q, 0)'
  <2>1. Behind(q, 1) /\ Told(q, 1)
    <3>1. CASE Head(inbox) = [op |-> "open", relay |-> q]
      BY <1>1, <1>2, <3>1 DEF StreamInv
    <3>2. CASE Active(q) /\ Head(inbox) # [op |-> "close", relay |-> q]
      <4>1. Behind(q, 0) /\ Told(q, 0)
        BY <1>1, <3>2 DEF StreamInv
      <4>2. \A j \in Nat : ClosedIn(q, 0, j) => ClosedIn(q, 1, j)
        BY <1>2, <3>2 DEF ClosedIn
      <4> QED
        BY <1>2, <4>1, <4>2 DEF Behind, Told
    <3> QED
      BY <1>6, <3>1, <3>2
  <2> QED
    BY <1>4, <1>5, <2>1
<1>7. ASSUME NEW q \in Known, NEW k \in DOMAIN inbox', inbox'[k] = [op |-> "open", relay |-> q]
      PROVE  Behind(q, k)' /\ Told(q, k)'
  <2>1. k \in Nat /\ k + 1 \in DOMAIN inbox /\ inbox'[k] = inbox[k + 1]
    BY <1>2
  <2>2. Behind(q, k + 1) /\ Told(q, k + 1)
    BY <1>1, <1>7, <2>1 DEF StreamInv
  <2> QED
    BY <1>4, <1>5, <2>1, <2>2
<1>8. ASSUME NEW q \in Known, NEW r \in Known, Active(q)', Active(r)', id[q] = id[r] PROVE q = r
  <2>1. ASSUME NEW a \in Known, NEW b \in Known, Active(a), id[a] = id[b],
               Head(inbox) = [op |-> "open", relay |-> b]
        PROVE  FALSE
    <3>1. Behind(a, 0)
      BY <1>1, <2>1 DEF StreamInv
    <3>2. inbox[1].relay = b /\ inbox[1].op = "open"
      BY <1>2, <2>1
    <3>3. b > a /\ ClosedIn(a, 0, 1)
      BY <1>1, <1>2, <2>1, <3>1, <3>2 DEF Behind
    <3> QED
      BY <1>2, <3>3 DEF ClosedIn
  <2>2. CASE Active(q) /\ Active(r)
    BY <1>1, <1>8, <2>2 DEF StreamInv
  <2>3. CASE ~ Active(q) /\ Active(r)
    <3>1. Head(inbox) = [op |-> "open", relay |-> q]
      BY <1>8, <2>3
    <3> QED
      BY <1>8, <2>1, <2>3, <3>1
  <2>4. CASE ~ Active(r) /\ Active(q)
    <3>1. Head(inbox) = [op |-> "open", relay |-> r]
      BY <1>8, <2>4
    <3> QED
      BY <1>8, <2>1, <2>4, <3>1
  <2>5. CASE ~ Active(q) /\ ~ Active(r)
    <3>1. [op |-> "open", relay |-> q] = [op |-> "open", relay |-> r]
      BY <1>8, <2>5
    <3>2. [op |-> "open", relay |-> q].relay = [op |-> "open", relay |-> r].relay
      BY <3>1
    <3> QED
      BY <3>2
  <2> QED
    BY <2>2, <2>3, <2>4, <2>5
<1>9. \A r \in opened : \A q \in Known : id[q] = id[r] => q <= r
  BY <1>1 DEF StreamInv
<1> QED
  BY <1>1, <1>6, <1>7, <1>8, <1>9 DEF StreamInv

\* A message of a relay that is open, or the open of a new relay under an id that
\* no open relay has, is put at the end.
LEMMA StreamSent ==
  ASSUME IInv, NEW m \in Message, inbox' = Append(inbox, m), link = "up", link' = "up",
         opens' \in Nat, Known \subseteq Known', m.relay \in Known',
         \A q \in Known : id'[q] = id[q],
         \A q \in Known' : Active(q)' => q \in Known /\ Active(q),
         \/ /\ m.op # "open" /\ m.relay \in opened /\ Known' = Known
            /\ opened' = IF m.op = "close" THEN opened \ {m.relay} ELSE opened
         \/ /\ m.op = "open" /\ Known' = Known \cup {m.relay} /\ \A q \in Known : q < m.relay
            /\ \A q \in opened : id[q] # id'[m.relay]
            /\ opened' = opened \cup {m.relay}
  PROVE  StreamInv'
<1> DEFINE x == m.relay
<1>n. PICK n : n = Len(inbox) + 1
  OBVIOUS
<1>0. /\ TypeOK /\ PlaceInv /\ StreamInv /\ opened \subseteq Known
      /\ Known' \subseteq Nat /\ x \in Nat
  <2>1. Known' \subseteq Nat
    BY DEF Known
  <2>2. x \in Nat
    BY <2>1
  <2>3. TypeOK /\ PlaceInv /\ StreamInv
    BY DEF IInv
  <2>4. opened \subseteq Known
    BY <2>3 DEF TypeOK, Known
  <2> QED
    BY <2>1, <2>2, <2>3, <2>4
<1>1. /\ TypeOK /\ PlaceInv /\ StreamInv /\ inbox \in Seq(Message) /\ Known \subseteq Nat
      /\ opened \subseteq Known /\ Known' \subseteq Nat /\ x \in Nat
      /\ \A k \in DOMAIN inbox : inbox[k].relay \in Known
  BY <1>0, InboxFacts
<1>2. /\ Len(inbox) \in Nat /\ DOMAIN inbox = 1 .. Len(inbox)
      /\ DOMAIN inbox' = 1 .. n /\ Len(inbox') = n /\ n \in Nat
      /\ \A k \in DOMAIN inbox : inbox'[k] = inbox[k]
      /\ inbox'[n] = m
  BY <1>n, <1>1, AppendFacts
<1> HIDE DEF x
<1>3. \A q \in Known : \A k, j \in Nat : ClosedIn(q, k, j) => ClosedIn(q, k, j)'
  BY <1>1, <1>2 DEF ClosedIn
<1>4. ASSUME NEW q \in Known, NEW k \in 0 .. Len(inbox), Told(q, k) PROVE Told(q, k)'
  <2> SUFFICES ASSUME q \notin opened' PROVE ClosedIn(q, k, n + 1)'
    BY <1>2 DEF Told
  <2>1. CASE q \notin opened
    <3>1. ClosedIn(q, k, n)
      BY <1>n, <1>4, <2>1 DEF Told
    <3>2. PICK l \in DOMAIN inbox : k < l /\ l < n /\ inbox[l] = [op |-> "close", relay |-> q]
      BY <3>1 DEF ClosedIn
    <3>3. l \in DOMAIN inbox' /\ l < n + 1 /\ inbox'[l] = inbox[l]
      BY <1>2, <3>2
    <3> QED
      BY <3>2, <3>3 DEF ClosedIn
  <2>2. CASE q \in opened
    <3>1. m.op = "close" /\ m.relay = q
      BY <2>2
    <3>2. m = [op |-> "close", relay |-> q]
      BY <3>1 DEF Message
    <3>3. n \in DOMAIN inbox' /\ k < n /\ n < n + 1
      BY <1>2
    <3> QED
      BY <1>2, <3>2, <3>3 DEF ClosedIn
  <2> QED
    BY <2>1, <2>2
<1>5. ASSUME NEW q \in Known, NEW k \in 0 .. Len(inbox), Behind(q, k), Told(q, k) PROVE Behind(q, k)'
  <2> SUFFICES ASSUME NEW j \in DOMAIN inbox', k < j, id'[inbox'[j].relay] = id'[q]
               PROVE  /\ inbox'[j].relay >= q
                      /\ inbox'[j].relay = q => inbox'[j].op # "open"
                      /\ inbox'[j].relay > q => ClosedIn(q, k, j)'
    BY DEF Behind
  <2>1. CASE j \in DOMAIN inbox
    <3>1. inbox'[j] = inbox[j] /\ inbox[j].relay \in Known /\ id'[inbox[j].relay] = id[inbox[j].relay] /\ j \in Nat
      BY <1>1, <1>2, <2>1
    <3> QED
      BY <1>3, <1>5, <2>1, <3>1 DEF Behind
  <2>2. CASE j = n
    <3>1. inbox'[j] = m /\ id'[x] = id[q] /\ q \in Nat
      BY <1>1, <1>2, <2>2 DEF x
    <3>2. q \notin opened => ClosedIn(q, k, j)'
      BY <1>n, <1>2, <1>3, <1>5, <2>2 DEF Told
    <3>3. CASE m.op # "open"
      <4>1. x \in opened /\ id[x] = id[q] /\ x \in Known
        BY <1>1, <3>1, <3>3 DEF x
      <4>2. q <= x /\ (q \in opened => x <= q)
        BY <1>1, <4>1 DEF StreamInv
      <4> QED
        BY <1>1, <3>1, <3>2, <3>3, <4>2 DEF x
    <3>4. CASE m.op = "open"
      <4>1. q < x /\ q \notin opened
        BY <3>1, <3>4 DEF x
      <4> QED
        BY <1>1, <3>1, <3>2, <4>1 DEF x
    <3> QED
      BY <3>3, <3>4
  <2> QED
    BY <1>n, <1>2, <2>1, <2>2
<1>6. ASSUME NEW q \in Known', q \notin Known
      PROVE  m.op = "open" /\ q = x /\ q \in opened' /\ \A k \in DOMAIN inbox : inbox[k].relay # q
  BY <1>1, <1>6 DEF x
<1>7. ASSUME NEW q \in Known', Active(q)' PROVE Behind(q, 0)' /\ Told(q, 0)'
  <2>1. q \in Known /\ Behind(q, 0) /\ Told(q, 0) /\ 0 \in 0 .. Len(inbox)
    BY <1>1, <1>2, <1>7 DEF StreamInv
  <2> QED
    BY <1>4, <1>5, <2>1
<1>8. ASSUME NEW q \in Known', NEW k \in DOMAIN inbox', inbox'[k] = [op |-> "open", relay |-> q]
      PROVE  Behind(q, k)' /\ Told(q, k)'
  <2>1. CASE k \in DOMAIN inbox
    <3>1. inbox[k] = [op |-> "open", relay |-> q] /\ q \in Known /\ k \in 0 .. Len(inbox)
      BY <1>1, <1>2, <1>8, <2>1
    <3>2. Behind(q, k) /\ Told(q, k)
      BY <1>1, <2>1, <3>1 DEF StreamInv
    <3> QED
      BY <1>4, <1>5, <3>1, <3>2
  <2>2. CASE k = n
    <3>1. m.op = "open" /\ m.relay = q /\ q \in opened'
      BY <1>2, <1>8, <2>2
    <3>2. \A j \in DOMAIN inbox' : ~ (k < j)
      BY <1>2, <2>2
    <3> QED
      BY <3>1, <3>2 DEF Behind, Told
  <2> QED
    BY <1>n, <1>2, <2>1, <2>2
<1>9. ASSUME NEW r \in opened', NEW q \in Known', id'[q] = id'[r] PROVE q <= r
  <2>1. CASE r \in opened /\ q \in Known
    BY <1>1, <1>9, <2>1 DEF StreamInv
  <2>2. CASE r \notin opened
    BY <1>1, <1>6, <1>9, <2>2 DEF x
  <2>3. CASE r \in opened /\ q \notin Known
    BY <1>1, <1>6, <1>9, <2>3 DEF x
  <2> QED
    BY <2>1, <2>2, <2>3
<1>10. \A q, r \in Known' : Active(q)' /\ Active(r)' /\ id'[q] = id'[r] => q = r
  BY <1>1 DEF StreamInv
<1> QED
  BY <1>7, <1>8, <1>9, <1>10 DEF StreamInv

\* The messages from some place on are lost with the connection.
LEMMA StreamLost ==
  ASSUME IInv, NEW n \in 0 .. Len(inbox), inbox' = SubSeq(inbox, 1, n), link' # "up", opened' = {},
         UNCHANGED origin, \A q \in Known : Active(q)' => Active(q)
  PROVE  StreamInv'
<1>1. /\ TypeOK /\ PlaceInv /\ StreamInv /\ inbox \in Seq(Message)
      /\ Known' = Known /\ id' = id
  BY InboxFacts DEF IInv, Known, origin
<1>2. /\ DOMAIN inbox' = 1 .. n /\ DOMAIN inbox = 1 .. Len(inbox) /\ Len(inbox) \in Nat
      /\ \A k \in DOMAIN inbox' : k \in DOMAIN inbox /\ k \in Nat /\ inbox'[k] = inbox[k]
  BY <1>1, PrefixFacts
<1>3. \A q, k : Told(q, k)'
  BY DEF Told
<1>4. ASSUME NEW q \in Known, NEW k \in Nat, Behind(q, k) PROVE Behind(q, k)'
  <2> SUFFICES ASSUME NEW j \in DOMAIN inbox', k < j, id[inbox[j].relay] = id[q],
                      ClosedIn(q, k, j)
               PROVE  ClosedIn(q, k, j)'
    BY <1>1, <1>2, <1>4 DEF Behind
  <2>1. PICK l \in DOMAIN inbox : k < l /\ l < j /\ inbox[l] = [op |-> "close", relay |-> q]
    BY DEF ClosedIn
  <2>2. l \in DOMAIN inbox'
    BY <1>2, <2>1
  <2> QED
    BY <1>2, <2>1, <2>2 DEF ClosedIn
<1> QED
  BY <1>1, <1>2, <1>3, <1>4 DEF StreamInv

-----------------------------------------------------------------------------
(* The server, the network and the local apps *)

\* What the server sends is put at the end of a session that serves, and nothing
\* of the client changes.
LEMMA SendFacts ==
  ASSUME IInv, NEW op \in {"open", "data", "close"}, NEW r \in Relay, Send(op, r)
  PROVE  /\ inbox' \in Seq(Message) /\ [op |-> op, relay |-> r] \in Message
         /\ inbox' = Append(inbox, [op |-> op, relay |-> r])
         /\ \A k \in DOMAIN inbox' :
              \/ k \in DOMAIN inbox /\ inbox'[k] = inbox[k]
              \/ inbox'[k] = [op |-> op, relay |-> r]
         /\ link = "up" /\ phase = "serving" /\ sessions \in 1 .. MaxSessions
         /\ UNCHANGED <<linkVars, at, arg, dictVars, todo, taskVars, heard, interrupted>>
<1>1. inbox \in Seq(Message) /\ [op |-> op, relay |-> r] \in Message
  BY DEF IInv, TypeOK, Message
<1>2. phase = "serving" /\ sessions \in 1 .. MaxSessions
  BY MaxSessionsAssumption DEF Send, IInv, TypeOK, LinkTypeOK, PlaceInv, MaxSessionsAssumption
<1>3. /\ Append(inbox, [op |-> op, relay |-> r]) \in Seq(Message)
      /\ \A k \in DOMAIN Append(inbox, [op |-> op, relay |-> r]) :
           \/ k \in DOMAIN inbox /\ Append(inbox, [op |-> op, relay |-> r])[k] = inbox[k]
           \/ Append(inbox, [op |-> op, relay |-> r])[k] = [op |-> op, relay |-> r]
  BY <1>1, AppendFacts
<1> QED
  BY <1>1, <1>2, <1>3 DEF Send

\* The new relay is fresh, and its id is not that of an open relay: what is left in
\* flight of earlier relays with that id ends in a close.
LEMMA ServerOpensStep ==
  ASSUME IInv, NEW i \in Id, ServerOpens(i) PROVE IInv'
<1>n. PICK n : n = opens + 1
  OBVIOUS
<1>m. PICK m : m = [op |-> "open", relay |-> n]
  OBVIOUS
<1>1. /\ n \in Relay /\ n \in Nat /\ opens \in Nat /\ n \notin Known /\ Known' = Known \cup {n}
      /\ \A q \in Known : q \in Nat /\ q < n
      /\ opens' = n /\ opened' = opened \cup {n} /\ opened \subseteq Known
      /\ home' = Append(home, sessions) /\ id' = Append(id, i)
      /\ \A q \in opened : id[q] # i
      /\ Send("open", n)
  BY <1>n, RelayAssumption DEF ServerOpens, RelayAssumption, IInv, TypeOK, Known, Relay
<1>2. /\ inbox' \in Seq(Message) /\ m \in Message /\ m.op = "open" /\ m.relay = n
      /\ inbox' = Append(inbox, m)
      /\ \A k \in DOMAIN inbox' : (k \in DOMAIN inbox /\ inbox'[k] = inbox[k]) \/ inbox'[k] = m
      /\ link = "up" /\ phase = "serving" /\ sessions \in 1 .. MaxSessions
      /\ UNCHANGED <<linkVars, at, arg, dictVars, todo, taskVars, heard, interrupted>>
  BY <1>m, <1>1, SendFacts
<1>3. UNCHANGED <<phase, ws, sessions, link, at, arg, relays, tasks, todo, sock, pc, cancelled, heard, interrupted>>
  BY <1>2 DEF linkVars, dictVars, taskVars
<1>4. home' \in [1 .. n -> 1 .. MaxSessions] /\ home'[n] = sessions /\ \A q \in Known : home'[q] = home[q]
  <2>0. opens \in Nat /\ sessions \in 1 .. MaxSessions
    BY <1>1, <1>2
  <2>1. home \in [1 .. opens -> 1 .. MaxSessions]
    BY DEF IInv, TypeOK
  <2>2. home \in Seq(1 .. MaxSessions) /\ Len(home) = opens /\ DOMAIN home = 1 .. opens
    BY <2>0, <2>1, AsSequence
  <2>3. /\ Append(home, sessions) \in Seq(1 .. MaxSessions) /\ Len(Append(home, sessions)) = opens + 1
        /\ \A q \in 1 .. opens : Append(home, sessions)[q] = home[q]
        /\ Append(home, sessions)[opens + 1] = sessions
    BY <2>0, <2>2, AppendFacts
  <2>4. Append(home, sessions) \in [1 .. opens + 1 -> 1 .. MaxSessions]
    BY <2>3, AsSequence
  <2> QED
    BY <1>n, <1>1, <2>3, <2>4 DEF Known
<1>5. id' \in [1 .. n -> Id] /\ id'[n] = i /\ \A q \in Known : id'[q] = id[q]
  <2>0. opens \in Nat
    BY <1>1
  <2>1. id \in [1 .. opens -> Id]
    BY DEF IInv, TypeOK
  <2>2. id \in Seq(Id) /\ Len(id) = opens /\ DOMAIN id = 1 .. opens
    BY <2>0, <2>1, AsSequence
  <2>3. /\ Append(id, i) \in Seq(Id) /\ Len(Append(id, i)) = opens + 1
        /\ \A q \in 1 .. opens : Append(id, i)[q] = id[q]
        /\ Append(id, i)[opens + 1] = i
    BY <2>0, <2>2, AppendFacts
  <2>4. Append(id, i) \in [1 .. opens + 1 -> Id]
    BY <2>3, AsSequence
  <2> QED
    BY <1>n, <1>1, <2>3, <2>4 DEF Known
<1>6. TypeOK'
  BY <1>1, <1>2, <1>3, <1>4, <1>5 DEF IInv, TypeOK, LinkTypeOK, Known, Relay
<1>7. PlaceInv'
  <2>0. \A k \in DOMAIN inbox : inbox[k].relay \in Known /\ home[inbox[k].relay] = sessions
    BY DEF IInv, PlaceInv
  <2>1. \A k \in DOMAIN inbox' : inbox'[k].relay \in Known' /\ home'[inbox'[k].relay] = sessions'
    <3> SUFFICES ASSUME NEW k \in DOMAIN inbox'
                 PROVE  inbox'[k].relay \in Known' /\ home'[inbox'[k].relay] = sessions'
      OBVIOUS
    <3>1. CASE inbox'[k] = m
      BY <1>1, <1>2, <1>3, <1>4, <3>1
    <3>2. CASE k \in DOMAIN inbox /\ inbox'[k] = inbox[k]
      BY <1>1, <1>3, <1>4, <2>0, <3>2
    <3> QED
      BY <1>2, <3>1, <3>2
  <2>2. \A q \in opened' : home'[q] = sessions'
    BY <1>1, <1>3, <1>4 DEF IInv, PlaceInv
  <2>3. /\ \A c \in Callers : at[c] \in {"task", "ws"} => arg[c] \in Known /\ home'[arg[c]] = home[arg[c]]
        /\ at["reader"] \in Opening \cup {"feed"} => arg["reader"] \in Known /\ home'[arg["reader"]] = home[arg["reader"]]
    BY <1>4 DEF IInv, PlaceInv
  <2>4. /\ \A c \in Callers : at[c] = "ws" => home'[arg[c]] = sessions
        /\ at["reader"] \in Opening => home'[arg["reader"]] = sessions
    BY <2>3 DEF IInv, PlaceInv
  <2>5. \A q \in Known : q \in Known'
    BY <1>1, <1>3
  <2>6. /\ \A c \in Callers : at'[c] \in {"task", "ws"} => arg'[c] \in Known'
        /\ \A c \in Callers : at'[c] = "ws" => home'[arg'[c]] = sessions'
        /\ at'["reader"] \in Opening \cup {"feed"} => arg'["reader"] \in Known'
        /\ at'["reader"] \in Opening => home'[arg'["reader"]] = sessions'
    BY <1>3, <2>3, <2>4, <2>5
  <2>7. /\ ws' \in 0 .. sessions'
        /\ phase' \notin {"connecting", "ended"} => sessions' >= 1
        /\ at'["main"] \in {"off", "idle", "task", "ws"}
        /\ at'["main"] # "off" => phase' \in {"reconnecting", "leaving", "ended"}
        /\ at'["reader"] # "off" => phase' = "serving" \/ Late'
    BY <1>2, <1>3 DEF IInv, PlaceInv, Late
  <2>8. ~ Before' /\ link' = "up"
    BY <1>2, <1>3 DEF Before
  <2> QED
    BY <2>1, <2>2, <2>6, <2>7, <2>8 DEF PlaceInv, Opening
<1>8. FreshInv'
  BY <1>1, <1>2, <1>3 DEF IInv, FreshInv, Opening
<1>9. DictInv'
  <2>1. \A c \in Callers : at[c] \in {"task", "ws"} => id'[arg[c]] = id[arg[c]]
    BY <1>5 DEF IInv, PlaceInv
  <2>2. /\ \A j \in Id : relays[j] # None => id'[relays[j]] = id[relays[j]] /\ home'[relays[j]] = home[relays[j]]
        /\ \A j \in Id : tasks[j] # None => id'[tasks[j]] = id[tasks[j]]
    BY <1>4, <1>5 DEF IInv, DictInv
  <2>3. "reader" \in Callers
    BY DEF Callers
  <2>4. \A j \in Id : relays'[j] # None =>
          /\ relays'[j] \in Known' /\ id'[relays'[j]] = j /\ home'[relays'[j]] = sessions'
          /\ sock'[relays'[j]] \in {"open", "gone"} /\ pc'[relays'[j]] # "closing"
    <3> SUFFICES ASSUME NEW j \in Id, relays[j] # None
                 PROVE  /\ relays[j] \in Known' /\ id'[relays[j]] = j /\ home'[relays[j]] = sessions
                        /\ sock[relays[j]] \in {"open", "gone"} /\ pc[relays[j]] # "closing"
      BY <1>3
    <3>1. /\ relays[j] \in Known /\ id[relays[j]] = j /\ home[relays[j]] = sessions
          /\ sock[relays[j]] \in {"open", "gone"} /\ pc[relays[j]] # "closing"
      BY DEF IInv, DictInv
    <3> QED
      BY <1>1, <2>2, <3>1
  <2>5. \A j \in Id : tasks'[j] # None =>
          /\ tasks'[j] \in Known' /\ id'[tasks'[j]] = j
          /\ pc'[tasks'[j]] \in Relaying /\ tasks'[j] \notin cancelled'
    BY <1>1, <1>3, <2>2 DEF IInv, DictInv
  <2>6. /\ \A c \in Callers : at'[c] = "ws" => relays'[id'[arg'[c]]] # arg'[c]
        /\ \A c \in Callers : at'[c] = "task" => tasks'[id'[arg'[c]]] # arg'[c]
        /\ at'["reader"] = "task" => tasks'[id'[arg'["reader"]]] = None
        /\ at'["reader"] = "task" => relays'[id'[arg'["reader"]]] \in {None, arg'["reader"]}
    BY <1>3, <2>1, <2>3 DEF IInv, DictInv
  <2> QED
    BY <2>4, <2>5, <2>6 DEF DictInv
<1>10. \A r \in Known' : pc[r] \in Relaying \/ sock[r] \in {"open", "gone"} => r \in Known /\ home'[r] = home[r] /\ id'[r] = id[r]
  BY <1>1, <1>4, <1>5 DEF IInv, TypeOK, FreshInv, Relaying, Known, Relay
<1>11. at["reader"] = "ack" => id'[arg["reader"]] = id[arg["reader"]]
  BY <1>5 DEF IInv, PlaceInv, Opening
<1>12. TaskInv'
  BY <1>3, <1>10, <1>11 DEF IInv, TaskInv, Before
<1>13. PairInv'
  BY <1>3, <1>5, <1>11 DEF IInv, PairInv, PlaceInv, Opening, Late, Callers
<1>14. TodoInv'
  BY <1>2, <1>3 DEF TodoInv
<1>15. SockInv'
  BY <1>3, <1>10 DEF IInv, SockInv, Before
<1>16. StreamInv'
  <2>0. /\ relays[i] # n /\ tasks[i] # n
        /\ at["reader"] \in Opening => arg["reader"] # n
    BY <1>1 DEF IInv, DictInv, PlaceInv, None, Relay
  <2>1. \A q \in Known' : Active(q)' => q \in Known
    BY <1>1, <1>3, <1>5, <2>0 DEF Active
  <2>2. \A q \in Known' : Active(q)' => q \in Known /\ Active(q)
    BY <2>1, <1>3, <1>5 DEF Active
  <2>3. link' = "up" /\ opens' \in Nat /\ Known \subseteq Known'
    BY <1>1, <1>2, <1>3
  <2> QED
    BY <1>1, <1>2, <1>5, <2>2, <2>3, StreamSent
<1> QED
  BY <1>6, <1>7, <1>8, <1>9, <1>12, <1>13, <1>14, <1>15, <1>16 DEF IInv

\* Data and close go behind what the server has sent of the same relay.
LEMMA ServerSendsStep ==
  ASSUME IInv, NEW r \in Relay, ServerSends(r) \/ ServerCloses(r) PROVE IInv'
<1>0. PICK op \in {"data", "close"} :
        /\ Send(op, r) /\ r \in opened /\ UNCHANGED origin
        /\ opened' = IF op = "close" THEN opened \ {r} ELSE opened
  BY DEF ServerSends, ServerCloses
<1>m. PICK m : m = [op |-> op, relay |-> r]
  OBVIOUS
<1>1. /\ m \in Message /\ m.op = op /\ m.relay = r /\ m.op # "open"
      /\ inbox' \in Seq(Message) /\ inbox' = Append(inbox, m)
      /\ \A k \in DOMAIN inbox' : (k \in DOMAIN inbox /\ inbox'[k] = inbox[k]) \/ inbox'[k] = m
      /\ link = "up" /\ phase = "serving" /\ sessions \in 1 .. MaxSessions
      /\ UNCHANGED <<linkVars, at, arg, dictVars, todo, taskVars, heard, interrupted>>
  BY <1>0, <1>m, SendFacts
<1>2. r \in Known /\ opened' \subseteq opened /\ UNCHANGED <<opens, home, id>> /\ Known' = Known
  BY <1>0 DEF IInv, TypeOK, origin, Known
<1>3. TypeOK'
  BY <1>1, <1>2 DEF IInv, TypeOK, LinkTypeOK, linkVars, dictVars, taskVars
<1>4. PlaceInv'
  BY <1>0, <1>1, <1>2 DEF IInv, PlaceInv, linkVars, Before, Late, Opening
<1>5. FreshInv'
  BY <1>1, <1>2 DEF IInv, FreshInv, taskVars, Opening
<1>6. DictInv' /\ TaskInv' /\ PairInv' /\ TodoInv' /\ SockInv'
  BY <1>1, <1>2 DEF IInv, DictInv, TaskInv, PairInv, TodoInv, SockInv, linkVars, dictVars, taskVars, Before, Late
<1>7. StreamInv'
  <2>1. \A q \in Known' : Active(q)' => q \in Known /\ Active(q)
    BY <1>1, <1>2 DEF Active, dictVars
  <2>2. link' = "up" /\ opens' \in Nat /\ m.relay \in opened
    BY <1>0, <1>1, <1>2 DEF linkVars, IInv, TypeOK
  <2>3. opened' = IF m.op = "close" THEN opened \ {m.relay} ELSE opened
    BY <1>0, <1>1
  <2> QED
    BY <1>1, <1>2, <2>1, <2>2, <2>3, StreamSent
<1> QED
  BY <1>3, <1>4, <1>5, <1>6, <1>7 DEF IInv

\* A prefix of what was in flight is still to be read; no relay is open any more.
LEMMA LinkDropsStep ==
  ASSUME IInv, LinkDrops PROVE IInv'
<1>0. PICK n \in 0 .. Len(inbox) : inbox' = SubSeq(inbox, 1, n)
  BY DEF LinkDrops
<1>1. /\ link' # "up" /\ link' \in LinkStates /\ UNCHANGED <<phase, ws, sessions>> /\ opened' = {}
      /\ UNCHANGED <<opens, home, id, at, arg, relays, tasks, todo, sock, pc, cancelled, heard, interrupted>>
      /\ Known' = Known
  BY DEF LinkDrops, Drop, LinkStates, origin, dictVars, taskVars, Known
<1>2. /\ inbox' \in Seq(Message)
      /\ \A k \in DOMAIN inbox' : k \in DOMAIN inbox /\ inbox'[k] = inbox[k]
  BY <1>0, PrefixFacts DEF IInv, TypeOK
<1>3. TypeOK'
  BY <1>1, <1>2 DEF IInv, TypeOK, LinkTypeOK
<1>4. PlaceInv'
  <2>1. inbox = <<>> => inbox' = <<>>
    BY <1>0
  <2> QED
    BY <1>1, <1>2, <2>1 DEF IInv, PlaceInv, Before, Late
<1>5. FreshInv'
  BY <1>1, <1>2 DEF IInv, FreshInv
<1>6. DictInv' /\ TaskInv' /\ PairInv' /\ TodoInv' /\ SockInv'
  BY <1>1 DEF IInv, DictInv, TaskInv, PairInv, TodoInv, SockInv, Before, Late
<1>7. StreamInv'
  BY <1>0, <1>1, StreamLost DEF Active, origin
<1> QED
  BY <1>3, <1>4, <1>5, <1>6, <1>7 DEF IInv

\* A local connection the app has left is still to be closed on this side.
LEMMA AppLeavesStep ==
  ASSUME IInv, NEW r \in Relay, AppLeaves(r) PROVE IInv'
<1>1. /\ sock[r] = "open" /\ sock' = [sock EXCEPT ![r] = "gone"]
      /\ UNCHANGED <<linkVars, opened, inbox, origin, at, arg, dictVars, todo, pc, cancelled, heard, interrupted>>
  BY DEF AppLeaves
<1>2. /\ \A q \in Relay : /\ sock'[q] = "none" <=> sock[q] = "none"
                          /\ sock'[q] \in {"open", "gone"} <=> sock[q] \in {"open", "gone"}
      /\ sock' \in [Relay -> {"none", "open", "gone", "closed"}]
      /\ Known' = Known /\ Known \subseteq Relay
  BY <1>1, RelayAssumption DEF IInv, TypeOK, Known, origin, Relay, RelayAssumption
<1>3. TypeOK' /\ PlaceInv' /\ TaskInv' /\ PairInv' /\ TodoInv'
  <2>1. TypeOK'
    BY <1>1, <1>2 DEF IInv, TypeOK, LinkTypeOK, linkVars, origin, dictVars
  <2>2. PlaceInv'
    BY <1>1, <1>2 DEF IInv, PlaceInv, linkVars, origin, Before, Late
  <2>3. TaskInv' /\ PairInv'
    BY <1>1, <1>2 DEF IInv, TaskInv, PairInv, linkVars, origin, dictVars, Before, Late
  <2>4. TodoInv'
    BY <1>1 DEF IInv, TodoInv, linkVars, origin, dictVars
  <2> QED
    BY <2>1, <2>2, <2>3, <2>4
<1>4. FreshInv'
  BY <1>1, <1>2 DEF IInv, TypeOK, PlaceInv, FreshInv, origin, Opening, Callers
<1>5. DictInv'
  BY <1>1, <1>2 DEF IInv, DictInv, origin, dictVars, linkVars
<1>6. SockInv'
  BY <1>1, <1>2 DEF IInv, SockInv, origin, dictVars, linkVars, Before
<1>7. StreamInv'
  BY <1>1, StreamKept DEF IInv, Active, origin, dictVars, linkVars
<1> QED
  BY <1>3, <1>4, <1>5, <1>6, <1>7 DEF IInv

-----------------------------------------------------------------------------
(* The session *)

\* Before the read loop starts nothing is under way but what the tasks of the
\* last session have still to close.
LEMMA BeforeFacts ==
  ASSUME IInv, Before
  PROVE  /\ at["reader"] = "off" /\ at["main"] = "off" /\ "reader" \in Callers /\ "main" \in Callers
         /\ \A c \in Callers : at[c] = "off"
         /\ opened = {} /\ inbox = <<>>
         /\ \A r \in Relay : pc[r] \notin Relaying
  BY DEF IInv, TypeOK, PlaceInv, FreshInv, TaskInv, Before, Late, Callers, Relaying

\* The new WSRelay has empty dictionaries, and no task of an earlier session
\* relays.
LEMMA SessionConnectsStep ==
  ASSUME IInv, SessionConnects PROVE IInv'
<1>1. /\ phase = "connecting" /\ phase' = "handshake" /\ sessions < MaxSessions
      /\ sessions' = sessions + 1 /\ ws' = sessions + 1 /\ link' = "up"
      /\ relays' = [i \in Id |-> None] /\ tasks' = [i \in Id |-> None] /\ heard' = [i \in Id |-> None]
      /\ UNCHANGED <<opened, inbox, opens, home, id, at, arg, todo, sock, pc, cancelled, interrupted>>
  BY DEF SessionConnects, Connect, origin, taskVars
<1>2. Before /\ Known' = Known
  BY <1>1 DEF Before, Known
<1>3. TypeOK'
  BY <1>1, MaxSessionsAssumption DEF IInv, TypeOK, LinkTypeOK, Phases, LinkStates, MaxSessionsAssumption
<1>4. PlaceInv' /\ FreshInv'
  BY <1>1, <1>2, BeforeFacts DEF IInv, TypeOK, LinkTypeOK, PlaceInv, FreshInv, Opening
<1>a. \A r \in Known : r \in Relay
  BY RelayAssumption DEF Known, Relay, IInv, TypeOK, RelayAssumption
<1>b. \A c \in Callers : at'[c] = "off" /\ "reader" \in Callers
  BY <1>1, <1>2, BeforeFacts
<1>5. DictInv' /\ TodoInv'
  <2>1. phase' # "reconnecting" /\ \A i \in Id : relays'[i] = None /\ tasks'[i] = None
    BY <1>1
  <2>2. at'["reader"] = "off"
    BY <1>b DEF Callers
  <2>3. DictInv'
    BY <1>b, <2>1, <2>2 DEF DictInv
  <2> QED
    BY <2>1, <2>3 DEF TodoInv
<1>c. TaskInv' /\ PairInv'
  BY <1>1, <1>2, <1>a, <1>b, BeforeFacts DEF TaskInv, PairInv, IInv, TypeOK
<1>6. SockInv'
  BY <1>1, <1>2 DEF IInv, SockInv
<1>7. StreamInv'
  <2>1. \A q \in Known : ~ Active(q)'
    BY <1>1, <1>2, BeforeFacts DEF Active, Opening, Known, None, IInv, TypeOK
  <2> QED
    BY <1>1, <1>2, <2>1, BeforeFacts DEF StreamInv
<1> QED
  BY <1>3, <1>4, <1>5, <1>6, <1>7, <1>c DEF IInv

\* The read loop starts with nothing in flight.
LEMMA SessionStartsStep ==
  ASSUME IInv, SessionStarts PROVE IInv'
<1>1. /\ phase = "handshake" /\ phase' = "serving"
      /\ at' = [at EXCEPT !["reader"] = "idle"] /\ arg' = [arg EXCEPT !["reader"] = None]
      /\ UNCHANGED <<ws, sessions, link, opened, inbox, opens, home, id, relays, tasks, todo, sock, pc,
                     cancelled, heard, interrupted>>
  BY DEF SessionStarts, Register, Goes, origin, dictVars, taskVars
<1>2. Before /\ ~ Before' /\ ~ Late' /\ Known' = Known
  BY <1>1 DEF Before, Late, Known
<1>3. TypeOK'
  BY <1>1 DEF IInv, TypeOK, LinkTypeOK, Phases, Places, Callers, Relay, None
<1>4. at'["reader"] = "idle" /\ at'["main"] = "off" /\ \A c \in Callers : at'[c] \in {"idle", "off"}
  BY <1>1, <1>2, BeforeFacts DEF IInv, TypeOK
<1>5. PlaceInv' /\ FreshInv'
  BY <1>1, <1>2, <1>4 DEF IInv, PlaceInv, FreshInv, Opening, Before
<1>6. DictInv' /\ TaskInv' /\ TodoInv' /\ SockInv'
  BY <1>1, <1>2, <1>4, BeforeFacts DEF IInv, DictInv, TaskInv, TodoInv, SockInv, Known
<1>7. PairInv'
  BY <1>1, <1>2, <1>4, BeforeFacts DEF IInv, TypeOK, PairInv, Late, Before
<1>8. StreamInv'
  BY <1>1, <1>2, <1>4, BeforeFacts, StreamKept DEF IInv, Active, Opening, origin
<1> QED
  BY <1>3, <1>5, <1>6, <1>7, <1>8 DEF IInv

\* No relay is opened before the session serves.
LEMMA HandshakeFailsStep ==
  ASSUME IInv, HandshakeFails PROVE IInv'
<1>1. /\ Before /\ phase' \in {"connecting", "ended"}
      /\ UNCHANGED <<ws, sessions, link, opened, inbox, opens, home, id, at, arg, relays, tasks, todo, sock, pc,
                     cancelled, heard, interrupted>>
  BY DEF HandshakeFails, HandshakeAborts, GiveUp, Before, relayVars, origin, dictVars, taskVars
<1>2. Known' = Known /\ \A r \in Known : r \in Relay
  BY <1>1, RelayAssumption DEF Known, Relay, IInv, TypeOK, RelayAssumption
<1>3. TypeOK'
  BY <1>1 DEF IInv, TypeOK, LinkTypeOK, Phases
<1>4. PlaceInv' /\ FreshInv' /\ DictInv' /\ TodoInv'
  BY <1>1, <1>2, BeforeFacts DEF IInv, PlaceInv, FreshInv, DictInv, TodoInv, Opening, Before
<1>5. TaskInv' /\ SockInv'
  BY <1>1, <1>2, BeforeFacts DEF IInv, TaskInv, SockInv
<1>6. PairInv'
  BY <1>1, BeforeFacts DEF IInv, PairInv, Late, Before
<1>7. StreamInv'
  BY <1>1, StreamKept DEF IInv, Active, origin
<1> QED
  BY <1>3, <1>4, <1>5, <1>6, <1>7 DEF IInv

\* The read loop ends between two messages: the relays go on.
LEMMA ReaderReturnsStep ==
  ASSUME IInv, ReaderReturns PROVE IInv'
<1>1. /\ phase = "serving" /\ phase' = "deaf" /\ at["reader"] = "idle"
      /\ at' = [at EXCEPT !["reader"] = "off"] /\ arg' = [arg EXCEPT !["reader"] = None]
      /\ UNCHANGED <<ws, sessions, link, opened, inbox, opens, home, id, relays, tasks, todo, sock, pc,
                     cancelled, heard, interrupted>>
  BY DEF ReaderReturns, ReadLoopReturns, Goes, origin, dictVars, taskVars
<1>2. Known' = Known /\ ~ Before' /\ ~ Before /\ ~ Late /\ ~ Late'
  BY <1>1 DEF Known, Before, Late
<1>3. TypeOK'
  BY <1>1 DEF IInv, TypeOK, LinkTypeOK, Phases, Places, Callers, Relay, None
<1>4. at'["reader"] = "off" /\ \A c \in Callers : at'[c] = "off"
  BY <1>1 DEF IInv, TypeOK, PlaceInv, Callers
<1>5. PlaceInv' /\ FreshInv'
  BY <1>1, <1>2, <1>4 DEF IInv, PlaceInv, FreshInv, Opening, Callers
<1>6. DictInv' /\ TaskInv' /\ TodoInv'
  BY <1>1, <1>2, <1>4 DEF IInv, DictInv, TaskInv, TodoInv, Callers
<1>7. \A c \in Callers : at[c] \in {"idle", "off"}
  BY <1>1 DEF IInv, TypeOK, PlaceInv, Callers
<1>8. PairInv' /\ SockInv'
  BY <1>1, <1>2, <1>4, <1>7 DEF IInv, PairInv, SockInv, Callers
<1>9. StreamInv'
  BY <1>1, <1>4, StreamKept DEF IInv, Active, Opening, origin
<1> QED
  BY <1>3, <1>5, <1>6, <1>8, <1>9 DEF IInv

\* The end of the read loop, from wherever it may raise.
LEMMA ReaderLeavesStep ==
  ASSUME IInv, phase # "ended", at["reader"] \in {"idle", "ack", "refuse", "feed"},
         ReaderLeaves(ReadLoopRaises) \/ ReaderLeaves(RelayRaises) \/ ReaderLeaves(Leave)
  PROVE  IInv'
<1>1. /\ UNCHANGED <<ws, sessions, link, opened, inbox, opens, home, id, relays, tasks, sock, pc,
                     cancelled, heard, interrupted>>
      /\ at'["reader"] = "off" /\ arg' = [arg EXCEPT !["reader"] = None]
      /\ at' \in [Callers -> Places]
      /\ \/ /\ phase = "serving" /\ phase' \in {"reconnecting", "leaving"} /\ at'["main"] = "idle"
            /\ todo' = {i \in Id : relays[i] # None}
         \/ Late /\ Late' /\ phase' = phase /\ todo' = todo /\ at'["main"] = at["main"]
  BY DEF ReaderLeaves, ReadLoopRaises, RelayRaises, Leave, CloseAllBegins, Goes, linkVars, origin, dictVars,
     taskVars, IInv, TypeOK, PlaceInv, Late, Callers, Places
<1>2. Known' = Known /\ ~ Before' /\ ~ Before
  BY <1>1 DEF Known, Before, Late
<1>3. TypeOK'
  BY <1>1 DEF IInv, TypeOK, LinkTypeOK, Phases, Callers, Relay, None, Late
<1>4. arg'["main"] = arg["main"] /\ "main" \in Callers /\ "reader" \in Callers
  BY <1>1 DEF Callers, IInv, TypeOK
<1>5. \A c \in Callers : at'[c] \in {"task", "ws"} => at[c] = at'[c] /\ arg'[c] = arg[c] /\ Late'
  BY <1>1, <1>4 DEF Callers
<1>6. PlaceInv' /\ FreshInv'
  BY <1>1, <1>2, <1>4, <1>5 DEF IInv, PlaceInv, FreshInv, Opening
<1>7. DictInv' /\ TaskInv'
  BY <1>1, <1>2, <1>4, <1>5 DEF IInv, DictInv, TaskInv
<1>8. ~ Late => \A c \in Callers : at[c] # "task" /\ at[c] # "ws"
  BY <1>1 DEF IInv, TypeOK, PlaceInv, Callers
<1>9. PairInv'
  BY <1>1, <1>8 DEF IInv, PairInv, Late
<1>10. TodoInv'
  BY <1>1 DEF TodoInv, Late
<1>11. SockInv'
  BY <1>1, <1>2, <1>8 DEF IInv, SockInv, Late
<1>12. StreamInv'
  BY <1>1, StreamKept DEF IInv, Active, Opening, origin
<1> QED
  BY <1>3, <1>6, <1>7, <1>9, <1>10, <1>11, <1>12 DEF IInv

\* Ctrl+C leaves the read loop, the main task or the session at a place where
\* the invariant asks less of the two dictionaries.
LEMMA InterruptStep ==
  ASSUME IInv, phase # "ended", Interrupt PROVE IInv'
<1>1. /\ UNCHANGED <<ws, sessions, link, opened, inbox, opens, home, id, relays, tasks, sock, pc, heard>>
      /\ interrupted' = TRUE
  BY DEF Interrupt, Leave, CloseInterrupted, linkVars, origin, dictVars
<1>2. CASE /\ phase \in {"serving", "deaf"} /\ Leave
           /\ IF at["reader"] = "task"
              THEN CloseAllBegins("task") /\ cancelled' = cancelled \cup Live(arg["reader"])
              ELSE CloseAllBegins("off") /\ UNCHANGED cancelled
  <2>1. /\ phase' = "leaving" /\ Late'
        /\ at' \in [Callers -> Places] /\ arg' \in [Callers -> Relay \cup {None}] /\ at'["main"] = "idle"
        /\ todo' = {i \in Id : relays[i] # None}
        /\ \/ /\ at["reader"] = "task" /\ at'["reader"] = "task" /\ arg' = arg
              /\ cancelled' = cancelled \cup Live(arg["reader"])
           \/ at["reader"] # "task" /\ at'["reader"] = "off" /\ cancelled' = cancelled
        /\ "reader" \in Callers /\ Callers = {"reader", "main"}
    BY <1>1, <1>2 DEF Leave, CloseAllBegins, Late, IInv, TypeOK, Places, Callers, Relay, None
  <2>2. Known' = Known /\ ~ Before' /\ ~ Before
    BY <1>1, <1>2, <2>1 DEF Known, Before
  <2>a. at["reader"] = "task" => arg["reader"] \in Known /\ arg["reader"] \in Relay /\ pc[arg["reader"]] # "none"
    BY <2>1, KnownFacts DEF IInv, PlaceInv, FreshInv
  <2>b. \A r \in cancelled' : r \notin cancelled => at["reader"] = "task" /\ r = arg["reader"]
    BY <2>1 DEF Live
  <2>3. /\ cancelled \subseteq cancelled' /\ cancelled' \subseteq Relay
        /\ \A r \in cancelled' : pc[r] # "none"
        /\ \A r \in cancelled' : r \notin cancelled => at["reader"] = "task" /\ r = arg["reader"]
        /\ at["reader"] = "task" => arg["reader"] \in Known
    BY <2>1, <2>a, <2>b DEF IInv, TypeOK, FreshInv
  <2>4. TypeOK'
    BY <1>1, <2>1, <2>3 DEF IInv, TypeOK, LinkTypeOK, Phases
  <2>5. PlaceInv' /\ FreshInv'
    BY <1>1, <1>2, <2>1, <2>2, <2>3 DEF IInv, PlaceInv, FreshInv, Opening
  <2>6. DictInv'
    BY <1>1, <2>1, <2>2, <2>3 DEF IInv, DictInv
  <2>7. TaskInv'
    BY <1>1, <2>1, <2>2, <2>3 DEF IInv, TaskInv
  <2>8. PairInv' /\ TodoInv' /\ SockInv'
    BY <1>1, <2>1 DEF PairInv, TodoInv, SockInv
  <2>9. StreamInv'
    BY <1>1, <2>1, StreamKept DEF IInv, Active, Opening, origin
  <2> QED
    BY <2>4, <2>5, <2>6, <2>7, <2>8, <2>9 DEF IInv
<1>3. CASE /\ at["main"] = "task" /\ cancelled' = cancelled \cup Live(arg["main"])
           /\ UNCHANGED <<linkVars, at, arg, todo>>
  <2>1. /\ UNCHANGED <<phase, at, arg, todo>> /\ Known' = Known
        /\ (Before' <=> Before) /\ "main" \in Callers
        /\ arg["main"] \in Known
    BY <1>1, <1>3 DEF linkVars, Known, Before, Callers, IInv, PlaceInv
  <2>a. arg["main"] \in Relay /\ pc[arg["main"]] # "none"
    BY <1>3, <2>1, KnownFacts DEF IInv, FreshInv
  <2>b. \A r \in cancelled' : r \notin cancelled => r = arg["main"]
    BY <1>3 DEF Live
  <2>2. /\ cancelled \subseteq cancelled' /\ cancelled' \subseteq Relay
        /\ \A r \in cancelled' : pc[r] # "none"
        /\ \A r \in cancelled' : r \notin cancelled => r = arg["main"]
    BY <1>3, <2>a, <2>b DEF IInv, TypeOK, FreshInv
  <2>3. TypeOK' /\ PlaceInv' /\ FreshInv'
    BY <1>1, <2>1, <2>2 DEF IInv, TypeOK, LinkTypeOK, PlaceInv, FreshInv, Late
  <2>4. DictInv' /\ TaskInv'
    BY <1>1, <1>3, <2>1, <2>2 DEF IInv, DictInv, TaskInv
  <2>5. PairInv' /\ TodoInv' /\ SockInv'
    BY <1>1, <1>3, <2>1, <2>2 DEF IInv, PairInv, TodoInv, SockInv, Late
  <2>6. StreamInv'
    BY <1>1, <2>1, StreamKept DEF IInv, Active, origin
  <2> QED
    BY <2>3, <2>4, <2>5, <2>6 DEF IInv
<1>4. CASE CloseInterrupted /\ UNCHANGED <<at, arg, todo, cancelled>>
  <2>1. /\ phase' = "ended" /\ Late' /\ ~ Before /\ ~ Before' /\ Known' = Known
        /\ UNCHANGED <<at, arg, todo, cancelled>>
    BY <1>1, <1>4 DEF CloseInterrupted, Late, Before, Known
  <2>2. TypeOK' /\ PlaceInv' /\ FreshInv' /\ DictInv' /\ TaskInv'
    BY <1>1, <2>1 DEF IInv, TypeOK, LinkTypeOK, Phases, PlaceInv, FreshInv, DictInv, TaskInv
  <2>3. PairInv' /\ TodoInv' /\ SockInv'
    BY <1>1, <2>1 DEF PairInv, TodoInv, SockInv
  <2>4. StreamInv'
    BY <1>1, <2>1, StreamKept DEF IInv, Active, origin
  <2> QED
    BY <2>2, <2>3, <2>4 DEF IInv
<1> QED
  BY <1>2, <1>3, <1>4 DEF Interrupt

\* close_all has come to the end of its ids, so that nothing is left in the
\* dictionaries, and no task relays.
LEMMA CloseWsStep ==
  ASSUME IInv, CloseWs PROVE IInv'
<1>1. /\ at["main"] = "idle" /\ todo = {} /\ phase \in {"reconnecting", "leaving"} /\ link # "up"
      /\ phase' = IF phase = "reconnecting" THEN "connecting" ELSE "ended"
      /\ ws' = NoSocket /\ link' = "none" /\ inbox' = <<>>
      /\ at' = [c \in Callers |-> "off"] /\ arg' = [c \in Callers |-> None]
      /\ UNCHANGED <<sessions, opened, opens, home, id, relays, tasks, todo, sock, pc, cancelled, heard, interrupted>>
  BY DEF CloseWs, Close, origin, dictVars, taskVars
<1>2. /\ opened = {} /\ Known' = Known /\ "reader" \in Callers /\ "main" \in Callers
      /\ \A c \in Callers : at'[c] = "off"
      /\ \A c \in Callers : ~ Late => at[c] \in {"idle", "off"}
      /\ Before' <=> phase = "reconnecting"
      /\ Late' <=> Late
  BY <1>1 DEF IInv, PlaceInv, Known, Callers, Late, Before
<1>3. phase = "reconnecting" => \A r \in Known : pc[r] \notin Relaying
  <2> SUFFICES ASSUME phase = "reconnecting", NEW r \in Known, pc[r] \in Relaying PROVE FALSE
    OBVIOUS
  <2>1. ~ Late /\ \A i \in Id : relays[i] = None
    BY <1>1 DEF IInv, TodoInv, Late
  <2>2. \A i \in Id : tasks[i] = None
    BY <2>1 DEF IInv, PairInv
  <2>3. r \in cancelled
    BY <2>2, RelayAssumption DEF IInv, TypeOK, TaskInv, Known, None
  <2> QED
    BY <1>2, <2>1, <2>3 DEF IInv, PairInv
<1>4. TypeOK'
  BY <1>1, MaxSessionsAssumption DEF IInv, TypeOK, LinkTypeOK, Phases, LinkStates, NoSocket, Callers, Places, None,
     MaxSessionsAssumption
<1>5. PlaceInv' /\ FreshInv' /\ DictInv'
  BY <1>1, <1>2 DEF IInv, TypeOK, LinkTypeOK, PlaceInv, FreshInv, DictInv, Opening, NoSocket
<1>6. TaskInv'
  BY <1>1, <1>2, <1>3 DEF IInv, TaskInv
<1>7. PairInv' /\ TodoInv'
  BY <1>1, <1>2 DEF IInv, PairInv, TodoInv
<1>8. SockInv'
  <2>1. ~ interrupted => \A c \in Callers : at[c] # "ws"
    BY <1>2 DEF Late
  <2>2. phase = "reconnecting" => \A r \in Known : relays[id[r]] # r
    BY <1>1, KnownFacts DEF IInv, TypeOK, TodoInv, None
  <2> QED
    BY <1>1, <1>2, <2>1, <2>2 DEF IInv, SockInv
<1>9. StreamInv'
  <2>1. \A q, k : Behind(q, k)' /\ Told(q, k)'
    BY <1>1 DEF Behind, Told
  <2>2. ASSUME NEW q \in Known, NEW r \in Known, Active(q)', Active(r)', id[q] = id[r] PROVE q = r
    <3>1. /\ relays[id[q]] = q \/ tasks[id[q]] = q
          /\ relays[id[q]] = r \/ tasks[id[q]] = r
      BY <1>1, <1>2, <2>2 DEF Active, Opening
    <3>2. CASE at["reader"] = "task" /\ id[arg["reader"]] = id[q]
      BY <1>1, <3>1, <3>2, KnownFacts DEF IInv, DictInv, None
    <3>3. CASE ~ (at["reader"] = "task" /\ id[arg["reader"]] = id[q])
      <4>1. Active(q) /\ Active(r)
        BY <2>2, <3>1, <3>3 DEF Active
      <4> QED
        BY <2>2, <4>1 DEF IInv, StreamInv
    <3> QED
      BY <3>2, <3>3
  <2> QED
    BY <1>1, <1>2, <2>1, <2>2 DEF StreamInv
<1> QED
  BY <1>4, <1>5, <1>6, <1>7, <1>8, <1>9 DEF IInv

-----------------------------------------------------------------------------
(* The relay tasks *)

\* A task that is not cancelled goes on between its awaits.
LEMMA TaskGoesOnStep ==
  ASSUME IInv, NEW r \in Relay, TaskStarts(r) \/ TaskReads(r) \/ TaskSends(r) PROVE IInv'
<1>1. /\ pc[r] \in Relaying /\ r \in Known
      /\ \E p \in Relaying : pc' = [pc EXCEPT ![r] = p]
      /\ heard' = heard \/ heard' = [heard EXCEPT ![id[r]] = r]
      /\ UNCHANGED <<phase, ws, sessions, link, opened, inbox, opens, home, id, at, arg, relays, tasks, todo,
                     sock, cancelled, interrupted>>
  BY DEF TaskStarts, TaskReads, TaskSends, Relaying, IInv, FreshInv, linkVars, origin, dictVars
<1>2. heard' = heard
  BY <1>1, KnownFacts DEF IInv, TypeOK, TaskInv
<1>3. /\ pc' \in [Relay -> TaskPlaces] /\ Known' = Known /\ (Before' <=> Before) /\ (Late' <=> Late)
      /\ \A q \in Relay : /\ pc'[q] = "none" <=> pc[q] = "none"
                          /\ pc'[q] = "closing" <=> pc[q] = "closing"
                          /\ pc'[q] \in Relaying <=> pc[q] \in Relaying
  BY <1>1 DEF IInv, TypeOK, TaskPlaces, Relaying, Known, Before, Late
<1>4. \A q \in Known : q \in Relay
  BY KnownFacts DEF IInv
<1>5. TypeOK' /\ PlaceInv' /\ TodoInv'
  BY <1>1, <1>2, <1>3 DEF IInv, TypeOK, LinkTypeOK, PlaceInv, TodoInv
<1>6. FreshInv'
  <2>1. /\ \A k \in DOMAIN inbox : inbox[k].relay \in Relay
        /\ at["reader"] \in Opening => arg["reader"] \in Relay
        /\ \A c \in Callers : at[c] = "task" => arg[c] \in Relay
    BY <1>4 DEF IInv, PlaceInv
  <2> QED
    BY <1>1, <1>3, <2>1 DEF IInv, TypeOK, FreshInv
<1>7. DictInv' /\ TaskInv' /\ PairInv' /\ SockInv'
  BY <1>1, <1>2, <1>3, <1>4 DEF IInv, TypeOK, DictInv, TaskInv, PairInv, SockInv
<1>8. StreamInv'
  BY <1>1, StreamKept DEF IInv, Active, origin
<1> QED
  BY <1>5, <1>6, <1>7, <1>8 DEF IInv

\* The finally block of a task that has relayed takes its own two entries, and
\* a pending cancel, if any, has arrived.
LEMMA FinallyStep ==
  ASSUME IInv, NEW r \in Relay, pc[r] \in {"reading", "sending"}, Finally(r),
         cancelled' = cancelled \ {r},
         UNCHANGED <<linkVars, opened, inbox, origin, at, arg, todo, sock, heard, interrupted>>
  PROVE  IInv'
<1>1. /\ r \in Known /\ home[r] = sessions /\ pc[r] \in Relaying /\ id[r] \in Id /\ ~ Before
  BY KnownFacts DEF IInv, FreshInv, TaskInv, Relaying
<1>2. /\ pc' = [pc EXCEPT ![r] = "closing"]
      /\ relays' = [relays EXCEPT ![id[r]] = None] /\ tasks' = [tasks EXCEPT ![id[r]] = None]
      /\ UNCHANGED <<phase, ws, sessions, link, opened, inbox, opens, home, id, at, arg, todo, sock, heard, interrupted>>
  BY <1>1 DEF Finally, Popped, linkVars, origin
<1>3. /\ Known' = Known /\ (Before' <=> Before) /\ (Late' <=> Late)
      /\ \A q \in Relay : /\ q # r => pc'[q] = pc[q]
                          /\ pc'[q] = "none" <=> pc[q] = "none"
                          /\ pc'[q] \in Relaying <=> pc[q] \in Relaying /\ q # r
      /\ pc'[r] = "closing"
      /\ \A i \in Id : /\ i # id[r] => relays'[i] = relays[i] /\ tasks'[i] = tasks[i]
                       /\ i = id[r] => relays'[i] = None /\ tasks'[i] = None
  BY <1>1, <1>2 DEF IInv, TypeOK, Relaying, Known, Before, Late
<1>4. \A q \in Known : q \in Relay /\ id[q] \in Id /\ q # None
  BY KnownFacts DEF IInv
<1>5. TypeOK'
  BY <1>2 DEF IInv, TypeOK, LinkTypeOK, TaskPlaces, None
<1>6. PlaceInv' /\ TodoInv'
  BY <1>2, <1>3 DEF IInv, PlaceInv, TodoInv
<1>7. FreshInv'
  <2>1. /\ \A k \in DOMAIN inbox : inbox[k].relay \in Relay
        /\ at["reader"] \in Opening => arg["reader"] \in Relay
        /\ \A c \in Callers : at[c] = "task" => arg[c] \in Relay
    BY <1>4 DEF IInv, PlaceInv
  <2> QED
    BY <1>2, <1>3, <2>1 DEF IInv, TypeOK, FreshInv
<1>8. DictInv'
  <2>1. \A i \in Id : relays'[i] # None \/ tasks'[i] # None =>
          relays'[i] = relays[i] /\ tasks'[i] = tasks[i] /\ i # id[r]
    BY <1>3
  <2>2. \A i \in Id : relays'[i] # None => pc'[relays'[i]] = pc[relays[i]]
    BY <1>3, <1>4, <2>1 DEF IInv, DictInv
  <2>3. \A i \in Id : tasks'[i] # None => pc'[tasks'[i]] = pc[tasks[i]]
    BY <1>3, <1>4, <2>1 DEF IInv, DictInv
  <2>4. \A c \in Callers : at[c] \in {"task", "ws"} => id[arg[c]] \in Id /\ arg[c] # None
    BY <1>4 DEF IInv, PlaceInv
  <2>5. "reader" \in Callers
    BY DEF Callers
  <2>6. \A i \in Id : relays'[i] # None =>
          /\ relays'[i] \in Known' /\ id'[relays'[i]] = i /\ home'[relays'[i]] = sessions'
          /\ sock'[relays'[i]] \in {"open", "gone"} /\ pc'[relays'[i]] # "closing"
    BY <1>2, <1>3, <2>1, <2>2 DEF IInv, DictInv
  <2>7. \A i \in Id : tasks'[i] # None =>
          /\ tasks'[i] \in Known' /\ id'[tasks'[i]] = i
          /\ pc'[tasks'[i]] \in Relaying /\ tasks'[i] \notin cancelled'
    BY <1>2, <1>3, <2>1, <2>3 DEF IInv, DictInv
  <2>8. \A i \in Id : relays'[i] \in {relays[i], None} /\ tasks'[i] \in {tasks[i], None}
    BY <1>3
  <2>9. /\ \A c \in Callers : at'[c] = "ws" => relays'[id'[arg'[c]]] # arg'[c]
        /\ \A c \in Callers : at'[c] = "task" => tasks'[id'[arg'[c]]] # arg'[c]
        /\ at'["reader"] = "task" => tasks'[id'[arg'["reader"]]] = None
        /\ at'["reader"] = "task" => relays'[id'[arg'["reader"]]] \in {None, arg'["reader"]}
    BY <1>2, <2>4, <2>5, <2>8 DEF IInv, DictInv
  <2> QED
    BY <2>6, <2>7, <2>9 DEF DictInv
<1>9. TaskInv'
  <2>1. \A q \in Known : pc'[q] \in Relaying => pc[q] \in Relaying /\ id[q] # id[r] /\ id[q] \in Id
    BY <1>1, <1>3, <1>4 DEF IInv, TaskInv
  <2> QED
    BY <1>2, <1>3, <2>1 DEF IInv, TaskInv
<1>10. PairInv'
  <2>1. at["reader"] = "ack" => id[arg["reader"]] # id[r] /\ id[arg["reader"]] \in Id
    BY <1>1, <1>4 DEF IInv, TaskInv, PlaceInv, Opening
  <2>2. at["main"] = "task" => id[arg["main"]] \in Id
    BY <1>4 DEF IInv, PlaceInv, Callers
  <2> QED
    BY <1>2, <1>3, <2>1, <2>2 DEF IInv, TypeOK, PairInv
<1>11. SockInv'
  <2>1. \A q \in Known : q # r /\ relays[id[q]] = q => relays'[id[q]] = q
    BY <1>1, <1>3, <1>4 DEF IInv, TaskInv
  <2> QED
    BY <1>1, <1>2, <1>3, <1>4, <2>1 DEF IInv, TypeOK, SockInv
<1>12. StreamInv'
  <2>1. \A q \in Known : Active(q)' => Active(q)
    BY <1>2, <1>3, <1>4 DEF Active
  <2> QED
    BY <1>2, <2>1, StreamKept DEF IInv, origin
<1> QED
  BY <1>5, <1>6, <1>7, <1>8, <1>9, <1>10, <1>11, <1>12 DEF IInv

\* A task ends without its finally block: it has not started, or is cancelled in it.
LEMMA TaskDropsStep ==
  ASSUME IInv, NEW r \in cancelled, pc[r] \notin {"reading", "sending"}, Unwinds(r) PROVE IInv'
<1>1. /\ r \in Relay /\ pc[r] # "none" /\ cancelled' = cancelled \ {r} /\ pc' = [pc EXCEPT ![r] = "done"]
      /\ UNCHANGED <<phase, ws, sessions, link, opened, inbox, opens, home, id, at, arg, relays, tasks, todo,
                     sock, heard, interrupted>>
  BY DEF Unwinds, IInv, TypeOK, FreshInv, linkVars, origin, dictVars
<1>2. /\ Known' = Known /\ (Before' <=> Before) /\ (Late' <=> Late)
      /\ \A q \in Relay : /\ q # r => pc'[q] = pc[q]
                          /\ pc'[q] = "none" <=> pc[q] = "none"
                          /\ pc'[q] \in Relaying <=> pc[q] \in Relaying /\ q # r
      /\ pc'[r] = "done"
  BY <1>1 DEF IInv, TypeOK, Relaying, Known, Before, Late
<1>3. \A q \in Known : q \in Relay
  BY KnownFacts DEF IInv
<1>4. TypeOK' /\ PlaceInv' /\ TodoInv'
  BY <1>1, <1>2 DEF IInv, TypeOK, LinkTypeOK, TaskPlaces, PlaceInv, TodoInv
<1>5. FreshInv'
  <2>1. /\ \A k \in DOMAIN inbox : inbox[k].relay \in Relay
        /\ at["reader"] \in Opening => arg["reader"] \in Relay
        /\ \A c \in Callers : at[c] = "task" => arg[c] \in Relay
    BY <1>3 DEF IInv, PlaceInv
  <2> QED
    BY <1>1, <1>2, <2>1 DEF IInv, TypeOK, FreshInv
<1>6. DictInv'
  BY <1>1, <1>2, <1>3 DEF IInv, TypeOK, DictInv
<1>7. TaskInv' /\ PairInv'
  BY <1>1, <1>2, <1>3 DEF IInv, TypeOK, TaskInv, PairInv
<1>8. SockInv'
  BY <1>1, <1>2, <1>3 DEF IInv, TypeOK, SockInv, Relaying
<1>9. StreamInv'
  BY <1>1, StreamKept DEF IInv, Active, origin
<1> QED
  BY <1>4, <1>5, <1>6, <1>7, <1>8, <1>9 DEF IInv

\* The entries a task pops when it ends are its own.
LEMMA TaskEndsStep ==
  ASSUME IInv, NEW r \in Relay, TaskEnds(r) \/ Unwinds(r) PROVE IInv'
<1>1. CASE TaskEnds(r)
  <2>1. /\ pc[r] \in {"reading", "sending"} /\ Finally(r) /\ cancelled' = cancelled \ {r}
        /\ UNCHANGED <<linkVars, opened, inbox, origin, at, arg, todo, sock, heard, interrupted>>
    BY <1>1 DEF TaskEnds
  <2> QED
    BY <2>1, FinallyStep
<1>2. CASE Unwinds(r)
  <2>1. CASE pc[r] \in {"reading", "sending"}
    <3>1. /\ Finally(r) /\ cancelled' = cancelled \ {r}
          /\ UNCHANGED <<linkVars, opened, inbox, origin, at, arg, todo, sock, heard, interrupted>>
      BY <1>2, <2>1 DEF Unwinds
    <3> QED
      BY <2>1, <3>1, FinallyStep
  <2>2. CASE pc[r] \notin {"reading", "sending"}
    <3>1. r \in cancelled
      BY <1>2 DEF Unwinds
    <3> QED
      BY <1>2, <2>2, <3>1, TaskDropsStep
  <2> QED
    BY <2>1, <2>2
<1> QED
  BY <1>1, <1>2

\* The end of the finally block closes the local connection.
LEMMA TaskClosesStep ==
  ASSUME IInv, NEW r \in Relay, TaskCloses(r) PROVE IInv'
<1>1. /\ pc[r] = "closing" /\ r \notin cancelled /\ r \in Known
      /\ pc' = [pc EXCEPT ![r] = "done"] /\ sock' = [sock EXCEPT ![r] = "closed"]
      /\ UNCHANGED <<phase, ws, sessions, link, opened, inbox, opens, home, id, at, arg, relays, tasks, todo,
                     cancelled, heard, interrupted>>
  BY DEF TaskCloses, IInv, FreshInv, linkVars, origin, dictVars
<1>2. /\ Known' = Known /\ (Before' <=> Before) /\ (Late' <=> Late)
      /\ \A q \in Relay : /\ q # r => pc'[q] = pc[q] /\ sock'[q] = sock[q]
                          /\ pc'[q] = "none" <=> pc[q] = "none"
                          /\ pc'[q] \in Relaying <=> pc[q] \in Relaying
      /\ pc'[r] = "done" /\ sock'[r] = "closed"
  BY <1>1 DEF IInv, TypeOK, Relaying, Known, Before, Late
<1>3. \A q \in Known : q \in Relay
  BY KnownFacts DEF IInv
<1>4. TypeOK' /\ PlaceInv' /\ TodoInv'
  BY <1>1, <1>2 DEF IInv, TypeOK, LinkTypeOK, TaskPlaces, PlaceInv, TodoInv
<1>5. FreshInv'
  <2>1. /\ \A k \in DOMAIN inbox : inbox[k].relay \in Relay
        /\ at["reader"] \in Opening => arg["reader"] \in Relay
        /\ \A c \in Callers : at[c] \in {"task", "ws"} => arg[c] \in Relay
    BY <1>3 DEF IInv, PlaceInv
  <2> QED
    BY <1>1, <1>2, <2>1 DEF IInv, TypeOK, FreshInv, Opening
<1>6. DictInv'
  BY <1>1, <1>2, <1>3 DEF IInv, TypeOK, DictInv
<1>7. TaskInv' /\ PairInv'
  BY <1>1, <1>2, <1>3 DEF IInv, TypeOK, TaskInv, PairInv
<1>8. SockInv'
  BY <1>1, <1>2, <1>3 DEF IInv, TypeOK, SockInv
<1>9. StreamInv'
  BY <1>1, StreamKept DEF IInv, Active, origin
<1> QED
  BY <1>4, <1>5, <1>6, <1>7, <1>8, <1>9 DEF IInv

-----------------------------------------------------------------------------
(* WSRelay.close *)

\* Until a Ctrl+C one of the two tasks at most is in it.
LEMMA CallerFacts ==
  ASSUME IInv, NEW c \in Callers, at[c] # "off", ~ Late
  PROVE  /\ c = "reader" => phase = "serving" /\ at["main"] = "off"
         /\ c = "main" => phase \in {"reconnecting", "leaving", "ended"} /\ at["reader"] = "off"
  BY DEF IInv, TypeOK, PlaceInv, Callers

\* What the two forms of close have in common: its caller, and the other one.
CloseMoves(c) ==
  /\ at' \in [Callers -> Places] /\ arg' \in [Callers -> Relay \cup {None}]
  /\ \A d \in Callers : d # c => at'[d] = at[d] /\ arg'[d] = arg[d]
  /\ at'[c] \in {"idle", "task", "ws"}
  /\ at'[c] = "task" => arg'[c] \in Known /\ pc[arg'[c]] # "none"
  /\ at'[c] = "ws" => arg'[c] \in Known /\ sock[arg'[c]] # "none" /\ home[arg'[c]] = sessions

\* The rest of close of the relay with id `i', for a caller that has waited for
\* its task or has found none.
LEMMA CloseRestStep ==
  ASSUME IInv, NEW c \in Callers, NEW i \in Id, CloseRest(c, i),
         \/ at[c] = "idle" /\ tasks[i] = None
         \/ at[c] = "task" /\ id[arg[c]] = i /\ pc[arg[c]] = "done",
         todo' = todo \/ (c = "main" /\ todo' = todo \ {i}),
         UNCHANGED <<phase, ws, sessions, link, opens, home, id, tasks, sock, pc, cancelled, heard, interrupted>>
  PROVE  /\ relays' \in [Id -> Relay \cup {None}] /\ CloseMoves(c)
         /\ DictInv' /\ TaskInv' /\ PairInv' /\ TodoInv' /\ SockInv'
         /\ \A q \in Known : Active(q)' => Active(q) /\ (c = "reader" => id[q] # i)
<1>1. /\ relays' = [relays EXCEPT ![i] = None]
      /\ at' = [at EXCEPT ![c] = IF relays[i] = None THEN "idle" ELSE "ws"]
      /\ arg' = [arg EXCEPT ![c] = relays[i]]
  BY DEF CloseRest, Goes, Popped
<1>2. /\ relays' \in [Id -> Relay \cup {None}]
      /\ \A j \in Id : j # i => relays'[j] = relays[j]
      /\ relays'[i] = None
      /\ \A d \in Callers : d # c => at'[d] = at[d] /\ arg'[d] = arg[d]
      /\ at'[c] = IF relays[i] = None THEN "idle" ELSE "ws"
      /\ arg'[c] = relays[i]
      /\ at' \in [Callers -> Places] /\ arg' \in [Callers -> Relay \cup {None}]
  BY <1>1 DEF IInv, TypeOK, Places
<1>3. /\ Known' = Known /\ (Before' <=> Before) /\ (Late' <=> Late)
      /\ \A q \in Known : q \in Relay /\ id[q] \in Id /\ q # None
      /\ Callers = {"reader", "main"}
      /\ \A d \in Callers : at[d] \in {"task", "ws"} => arg[d] \in Known
      /\ relays[i] # None =>
           /\ relays[i] \in Known /\ id[relays[i]] = i /\ home[relays[i]] = sessions
           /\ sock[relays[i]] \in {"open", "gone"}
  BY KnownFacts DEF IInv, PlaceInv, DictInv, Known, Before, Late, Callers
<1>4. CloseMoves(c)
  BY <1>2, <1>3 DEF CloseMoves
<1>5. (c = "reader" \/ ~ Late) => tasks[i] = None
  BY <1>3 DEF IInv, DictInv, PairInv
<1>6. DictInv'
  <2>1. \A j \in Id : relays'[j] # None => relays'[j] = relays[j]
    BY <1>2
  <2>2. \A d \in Callers : at'[d] = "ws" => relays'[id[arg'[d]]] # arg'[d]
    <3> SUFFICES ASSUME NEW d \in Callers, at'[d] = "ws" PROVE relays'[id[arg'[d]]] # arg'[d]
      OBVIOUS
    <3>1. CASE d = c
      BY <1>2, <1>3, <3>1
    <3>2. CASE d # c
      BY <1>2, <1>3, <3>2 DEF IInv, DictInv
    <3> QED
      BY <3>1, <3>2
  <2>3. \A d \in Callers : at'[d] = "task" => d # c /\ at[d] = "task" /\ arg'[d] = arg[d]
    BY <1>2
  <2>4. at'["reader"] = "task" => relays'[id[arg'["reader"]]] \in {None, arg'["reader"]}
    BY <1>2, <1>3, <2>3 DEF IInv, DictInv
  <2> QED
    BY <1>3, <2>1, <2>2, <2>3, <2>4 DEF IInv, DictInv
<1>7. TaskInv'
  <2>1. at'["reader"] = "ack" => at["reader"] = "ack" /\ arg'["reader"] = arg["reader"]
    BY <1>2, <1>3
  <2>2. \A j \in Id : relays'[j] \in {None, relays[j]}
    BY <1>2
  <2> QED
    BY <1>3, <2>1, <2>2 DEF IInv, TaskInv
<1>8. PairInv'
  <2> SUFFICES ASSUME ~ Late PROVE PairInv'
    BY <1>3 DEF PairInv
  <2>1. \A d \in Callers : d # c => at[d] = "off"
    BY <1>3, CallerFacts
  <2>2. at'["reader"] # "ack" /\ at'["main"] # "task"
    BY <1>2, <1>3, <2>1
  <2>3. \A j \in Id : tasks[j] # None => relays'[j] = tasks[j]
    BY <1>2, <1>5 DEF IInv, PairInv
  <2>4. \A r \in cancelled : pc[r] \notin Relaying
    BY <2>1 DEF IInv, PairInv, Relaying
  <2> QED
    BY <2>2, <2>3, <2>4 DEF PairInv
<1>9. TodoInv'
  <2> SUFFICES ASSUME phase = "reconnecting", NEW j \in Id, relays'[j] # None PROVE j \in todo'
    BY DEF TodoInv
  <2>1. c = "main" /\ j # i /\ relays[j] # None
    BY <1>2, <1>3, CallerFacts DEF Late
  <2> QED
    BY <2>1 DEF IInv, TodoInv
<1>10. SockInv'
  <2> SUFFICES ASSUME ~ interrupted PROVE SockInv'
    BY DEF SockInv
  <2>1. ASSUME NEW r \in Known, sock[r] \in {"open", "gone"}
        PROVE  relays'[id[r]] = r \/ pc[r] = "closing" \/ \E d \in Callers : at'[d] = "ws" /\ arg'[d] = r
    <3>1. CASE relays[id[r]] = r
      BY <1>2, <1>3, <3>1
    <3>2. CASE \E d \in Callers : at[d] = "ws" /\ arg[d] = r
      BY <1>2, <3>2
    <3> QED
      BY <2>1, <3>1, <3>2 DEF IInv, SockInv
  <2> QED
    BY <1>3, <2>1 DEF IInv, SockInv
<1>11. ASSUME NEW q \in Known, Active(q)' PROVE Active(q) /\ (c = "reader" => id[q] # i)
  <2>1. c = "reader" => id[q] # i
    BY <1>2, <1>3, <1>5, <1>11 DEF Active, Opening
  <2>2. CASE c = "reader"
    BY <1>2, <1>3, <1>11, <2>1, <2>2 DEF Active, Opening
  <2>3. CASE c = "main"
    BY <1>2, <1>3, <1>11, <2>3 DEF Active
  <2> QED
    BY <1>3, <2>1, <2>2, <2>3
<1> QED
  BY <1>2, <1>4, <1>6, <1>7, <1>8, <1>9, <1>10, <1>11

\* The start of close: a task that is found is cancelled, and waited for.
LEMMA CloseCancelStep ==
  ASSUME IInv, NEW c \in Callers, NEW i \in Id, NEW t, t = tasks[i], t # None, at[c] = "idle",
         tasks' = Popped(tasks, i), cancelled' = cancelled \cup {t}, Goes(c, "task", t),
         todo' = todo \/ (c = "main" /\ todo' = todo \ {i}),
         UNCHANGED <<phase, ws, sessions, link, opens, home, id, relays, sock, pc, heard, interrupted>>
  PROVE  /\ tasks' \in [Id -> Relay \cup {None}] /\ cancelled' \subseteq Relay /\ CloseMoves(c)
         /\ \A r \in cancelled' : pc[r] # "none"
         /\ DictInv' /\ TaskInv' /\ PairInv' /\ TodoInv' /\ SockInv'
         /\ \A q \in Known : Active(q)' => Active(q) /\ (c = "reader" => id[q] # i)
<1>1. /\ \A j \in Id : j # i => tasks'[j] = tasks[j]
      /\ tasks'[i] = None /\ tasks' \in [Id -> Relay \cup {None}]
      /\ \A d \in Callers : d # c => at'[d] = at[d] /\ arg'[d] = arg[d]
      /\ at'[c] = "task" /\ arg'[c] = t
  BY DEF IInv, TypeOK, Goes, Popped, Places
<1>2. /\ Known' = Known /\ (Before' <=> Before) /\ (Late' <=> Late)
      /\ \A q \in Known : q \in Relay /\ id[q] \in Id /\ q # None
      /\ Callers = {"reader", "main"}
      /\ \A d \in Callers : at[d] \in {"task", "ws"} => arg[d] \in Known
      /\ t \in Known /\ id[t] = i /\ pc[t] \in Relaying /\ pc[t] # "none" /\ relays[i] \in {None, t}
  BY KnownFacts DEF IInv, PlaceInv, DictInv, TaskInv, Known, Before, Late, Callers, Relaying
<1>3. at' \in [Callers -> Places] /\ arg' \in [Callers -> Relay \cup {None}]
  BY <1>2 DEF IInv, TypeOK, Goes, Places
<1>4. CloseMoves(c) /\ cancelled' \subseteq Relay /\ \A r \in cancelled' : pc[r] # "none"
  BY <1>1, <1>2, <1>3 DEF CloseMoves, IInv, TypeOK, FreshInv
<1>5. DictInv'
  <2>1. \A j \in Id : tasks'[j] # None => tasks'[j] = tasks[j] /\ tasks'[j] \notin cancelled'
    BY <1>1, <1>2 DEF IInv, DictInv
  <2>2. \A d \in Callers : at'[d] = "ws" => d # c /\ at[d] = "ws" /\ arg'[d] = arg[d]
    BY <1>1
  <2>3. \A d \in Callers : at'[d] = "task" => tasks'[id[arg'[d]]] # arg'[d]
    <3> SUFFICES ASSUME NEW d \in Callers, at'[d] = "task" PROVE tasks'[id[arg'[d]]] # arg'[d]
      OBVIOUS
    <3>1. CASE d = c
      BY <1>1, <1>2, <3>1
    <3>2. CASE d # c
      BY <1>1, <1>2, <3>2 DEF IInv, DictInv
    <3> QED
      BY <3>1, <3>2
  <2>4. at'["reader"] = "task" => /\ tasks'[id[arg'["reader"]]] = None
                                  /\ relays[id[arg'["reader"]]] \in {None, arg'["reader"]}
    <3>1. CASE c = "reader"
      BY <1>1, <1>2, <3>1
    <3>2. CASE c # "reader"
      BY <1>1, <1>2, <3>2 DEF IInv, DictInv
    <3> QED
      BY <3>1, <3>2
  <2> QED
    BY <1>2, <2>1, <2>2, <2>3, <2>4 DEF IInv, DictInv
<1>6. TaskInv'
  <2>1. at'["reader"] = "ack" => at["reader"] = "ack" /\ arg'["reader"] = arg["reader"]
    BY <1>1, <1>2
  <2>2. \A q \in Known : pc[q] \in Relaying /\ q \notin cancelled' => tasks'[id[q]] = q
    BY <1>1, <1>2 DEF IInv, TaskInv
  <2> QED
    BY <1>2, <2>1, <2>2 DEF IInv, TaskInv
<1>7. PairInv'
  <2> SUFFICES ASSUME ~ Late PROVE PairInv'
    BY <1>2 DEF PairInv
  <2>1. \A d \in Callers : d # c => at[d] = "off"
    BY <1>2, CallerFacts
  <2>2. at'["reader"] # "ack" /\ (at'["main"] = "task" => arg'["main"] = t)
    BY <1>1, <1>2, <2>1
  <2>3. \A j \in Id : tasks'[j] # None => relays[j] = tasks'[j]
    BY <1>1 DEF IInv, PairInv
  <2>4. \A r \in cancelled' : pc[r] \in Relaying => r = t
    BY <2>1 DEF IInv, PairInv
  <2> QED
    BY <1>1, <1>2, <2>2, <2>3, <2>4 DEF PairInv
<1>8. TodoInv'
  <2> SUFFICES ASSUME phase = "reconnecting", NEW j \in Id, relays[j] # None
               PROVE  j \in todo' \/ (at'["main"] = "task" /\ id[arg'["main"]] = j)
    BY DEF TodoInv
  <2>1. c = "main"
    BY <1>2, CallerFacts DEF Late
  <2> QED
    BY <1>1, <1>2, <2>1 DEF IInv, TodoInv
<1>9. SockInv'
  <2>1. \A r \in Known : (\E d \in Callers : at[d] = "ws" /\ arg[d] = r) => \E d \in Callers : at'[d] = "ws" /\ arg'[d] = r
    BY <1>1
  <2> QED
    BY <1>2, <2>1 DEF IInv, SockInv
<1>10. ASSUME NEW q \in Known, Active(q)' PROVE Active(q) /\ (c = "reader" => id[q] # i)
  <2>1. CASE c = "reader"
    BY <1>1, <1>2, <1>10, <2>1 DEF Active, Opening
  <2>2. CASE c = "main"
    BY <1>1, <1>2, <1>10, <2>2 DEF Active
  <2> QED
    BY <1>2, <2>1, <2>2
<1> QED
  BY <1>1, <1>4, <1>5, <1>6, <1>7, <1>8, <1>9, <1>10

\* Places in the inbox are not touched by close.
LEMMA CloseTail ==
  ASSUME IInv, NEW c \in Callers, CloseMoves(c), at[c] \in {"idle", "task"},
         at["reader"] # "off" \/ c = "main",
         UNCHANGED <<phase, ws, sessions, link, opened, opens, home, id, sock, pc, interrupted>>,
         \A r \in cancelled' : pc[r] # "none", inbox' \in Seq(Message),
         inbox = <<>> => inbox' = <<>>,
         \A k \in DOMAIN inbox' : \E l \in DOMAIN inbox : inbox'[k] = inbox[l]
  PROVE  PlaceInv' /\ FreshInv'
<1>1. /\ Known' = Known /\ (Before' <=> Before) /\ (Late' <=> Late) /\ Callers = {"reader", "main"}
      /\ \A d \in Callers : d # c => at'[d] = at[d] /\ arg'[d] = arg[d]
      /\ at'[c] \in {"idle", "task", "ws"}
      /\ at'[c] = "task" => arg'[c] \in Known /\ pc[arg'[c]] # "none"
      /\ at'[c] = "ws" => arg'[c] \in Known /\ sock[arg'[c]] # "none" /\ home[arg'[c]] = sessions
  BY DEF Known, Before, Late, Callers, CloseMoves
<1>2. PlaceInv'
  BY <1>1 DEF IInv, PlaceInv, Opening
<1>3. FreshInv'
  BY <1>1 DEF IInv, FreshInv, Opening
<1> QED
  BY <1>2, <1>3

\* The entry `close' pops after it has waited is that of the task, or none.
LEMMA TaskAwaitedStep ==
  ASSUME IInv, NEW c \in Callers, TaskAwaited(c) PROVE IInv'
<1>1. /\ at[c] = "task" /\ pc[arg[c]] = "done" /\ CloseRest(c, id[arg[c]])
      /\ UNCHANGED <<phase, ws, sessions, link, opened, inbox, opens, home, id, tasks, todo, sock, pc, cancelled,
                     heard, interrupted>>
  BY DEF TaskAwaited, linkVars, origin, taskVars
<1>2. id[arg[c]] \in Id
  BY <1>1, KnownFacts DEF IInv, PlaceInv
<1>3. /\ relays' \in [Id -> Relay \cup {None}] /\ CloseMoves(c)
      /\ DictInv' /\ TaskInv' /\ PairInv' /\ TodoInv' /\ SockInv'
      /\ \A q \in Known : Active(q)' => Active(q)
  BY <1>1, <1>2, CloseRestStep
<1>4. TypeOK'
  BY <1>1, <1>3 DEF IInv, TypeOK, LinkTypeOK, CloseMoves
<1>5. \A r \in cancelled' : pc[r] # "none"
  BY <1>1 DEF IInv, FreshInv
<1>6. at["reader"] # "off" \/ c = "main"
  BY <1>1 DEF Callers
<1>7. PlaceInv' /\ FreshInv'
  BY <1>1, <1>3, <1>5, <1>6, CloseTail DEF IInv, TypeOK
<1>8. StreamInv'
  BY <1>1, <1>3, StreamKept DEF IInv, origin
<1> QED
  BY <1>3, <1>4, <1>7, <1>8 DEF IInv

\* close_all takes the next id.
LEMMA CloseNextStep ==
  ASSUME IInv, CloseNext PROVE IInv'
<1>1. PICK i \in todo : todo' = todo \ {i} /\ CloseBegins("main", i)
  BY DEF CloseNext
<1>2. /\ at["main"] = "idle" /\ i \in Id /\ todo' \subseteq Id /\ "main" \in Callers /\ sock' = sock /\ pc' = pc
      /\ UNCHANGED <<phase, ws, sessions, link, opened, inbox, opens, home, id, heard, interrupted>>
  BY <1>1 DEF CloseNext, CloseBegins, IInv, TypeOK, Callers, linkVars, origin
<1>3. /\ relays' \in [Id -> Relay \cup {None}] /\ tasks' \in [Id -> Relay \cup {None}] /\ cancelled' \subseteq Relay
      /\ CloseMoves("main") /\ \A r \in cancelled' : pc[r] # "none"
      /\ DictInv' /\ TaskInv' /\ PairInv' /\ TodoInv' /\ SockInv'
      /\ \A q \in Known : Active(q)' => Active(q)
  <2>1. CASE tasks[i] = None
    <3>1. CloseRest("main", i) /\ cancelled' = cancelled /\ tasks' = tasks
      BY <1>1, <1>2, <2>1 DEF CloseBegins, Popped, IInv, TypeOK
    <3> QED
      BY <1>1, <1>2, <2>1, <3>1, CloseRestStep DEF IInv, TypeOK, FreshInv
  <2>2. CASE tasks[i] # None
    <3>1. /\ tasks' = Popped(tasks, i) /\ cancelled' = cancelled \cup {tasks[i]} /\ Goes("main", "task", tasks[i])
          /\ relays' = relays
      BY <1>1, <2>2 DEF CloseBegins
    <3> QED
      BY <1>1, <1>2, <2>2, <3>1, CloseCancelStep DEF IInv, TypeOK
  <2> QED
    BY <2>1, <2>2
<1>4. TypeOK'
  BY <1>2, <1>3 DEF IInv, TypeOK, LinkTypeOK, CloseMoves
<1>5. PlaceInv' /\ FreshInv'
  BY <1>2, <1>3, CloseTail DEF IInv, TypeOK
<1>6. StreamInv'
  BY <1>2, <1>3, StreamKept DEF IInv, origin
<1> QED
  BY <1>3, <1>4, <1>5, <1>6 DEF IInv

\* `close' has closed the local connection of a relay that no id stands for.
LEMMA LocalClosedStep ==
  ASSUME IInv, NEW c \in Callers, LocalClosed(c) PROVE IInv'
<1>1. /\ at[c] = "ws" /\ sock' = [sock EXCEPT ![arg[c]] = "closed"]
      /\ at' = [at EXCEPT ![c] = "idle"] /\ arg' = [arg EXCEPT ![c] = None]
      /\ UNCHANGED <<phase, ws, sessions, link, opened, inbox, opens, home, id, relays, tasks, todo, pc, cancelled,
                     heard, interrupted>>
  BY DEF LocalClosed, Goes, linkVars, origin, dictVars
<1>2. /\ Known' = Known /\ (Before' <=> Before) /\ (Late' <=> Late) /\ Callers = {"reader", "main"}
      /\ \A q \in Known : q \in Relay /\ id[q] \in Id
      /\ arg[c] \in Known /\ sock[arg[c]] # "none" /\ relays[id[arg[c]]] # arg[c]
  BY <1>1, KnownFacts DEF IInv, PlaceInv, FreshInv, DictInv, Known, Before, Late, Callers
<1>3. /\ \A q \in Relay : q # arg[c] => sock'[q] = sock[q]
      /\ sock'[arg[c]] = "closed"
      /\ \A d \in Callers : d # c => at'[d] = at[d] /\ arg'[d] = arg[d]
      /\ at'[c] = "idle"
      /\ \A q \in Relay : sock'[q] = "none" <=> sock[q] = "none"
  BY <1>1, <1>2 DEF IInv, TypeOK
<1>4. TypeOK'
  BY <1>1 DEF IInv, TypeOK, LinkTypeOK, Places, None
<1>5. PlaceInv'
  BY <1>1, <1>2, <1>3 DEF IInv, PlaceInv, Opening
<1>6. FreshInv'
  <2>1. /\ \A k \in DOMAIN inbox : inbox[k].relay \in Relay
        /\ at["reader"] \in Opening => arg["reader"] \in Relay
        /\ \A d \in Callers : at[d] \in {"task", "ws"} => arg[d] \in Relay
    BY <1>2 DEF IInv, PlaceInv
  <2> QED
    BY <1>1, <1>2, <1>3, <2>1 DEF IInv, FreshInv, Opening
<1>7. DictInv'
  <2>1. \A j \in Id : relays[j] # None => sock'[relays[j]] = sock[relays[j]]
    BY <1>2, <1>3 DEF IInv, DictInv
  <2>2. \A d \in Callers : at'[d] \in {"task", "ws"} => at[d] = at'[d] /\ arg'[d] = arg[d]
    BY <1>3
  <2> QED
    BY <1>1, <1>2, <2>1, <2>2 DEF IInv, DictInv
<1>8. TaskInv' /\ TodoInv'
  BY <1>1, <1>2, <1>3 DEF IInv, TaskInv, TodoInv
<1>9. PairInv'
  BY <1>1, <1>2, <1>3 DEF IInv, PairInv
<1>10. SockInv'
  <2>1. \A q \in Known : sock'[q] \in {"open", "gone"} => q # arg[c] /\ sock'[q] = sock[q]
    BY <1>2, <1>3
  <2>2. \A q \in Known : q # arg[c] /\ (\E d \in Callers : at[d] = "ws" /\ arg[d] = q) =>
          \E d \in Callers : at'[d] = "ws" /\ arg'[d] = q
    BY <1>3
  <2> QED
    BY <1>1, <1>2, <2>1, <2>2 DEF IInv, SockInv
<1>11. StreamInv'
  BY <1>1, <1>2, <1>3, StreamKept DEF IInv, Active, Opening, origin
<1> QED
  BY <1>4, <1>5, <1>6, <1>7, <1>8, <1>9, <1>10, <1>11 DEF IInv

-----------------------------------------------------------------------------
(* The read loop *)

\* What the read loop takes is the first message, of a relay of this session.
LEMMA ReadsFacts ==
  ASSUME IInv, NEW op, NEW r, Reads(op, r)
  PROVE  /\ at["reader"] = "idle" /\ inbox # <<>> /\ inbox' = Tail(inbox) /\ inbox' \in Seq(Message)
         /\ Head(inbox) = [op |-> op, relay |-> r] /\ r \in Known /\ home[r] = sessions
         /\ op = "open" => pc[r] = "none" /\ sock[r] = "none"
         /\ \A k \in DOMAIN inbox' : \E l \in DOMAIN inbox : inbox'[k] = inbox[l]
<1>1. /\ at["reader"] = "idle" /\ inbox # <<>> /\ Head(inbox) = [op |-> op, relay |-> r] /\ inbox' = Tail(inbox)
  BY DEF Reads
<1>2. /\ inbox \in Seq(Message) /\ inbox' \in Seq(Message) /\ 1 \in DOMAIN inbox
      /\ inbox[1] = [op |-> op, relay |-> r]
      /\ \A k \in DOMAIN inbox' : k + 1 \in DOMAIN inbox /\ inbox'[k] = inbox[k + 1]
  BY <1>1, TailFacts DEF IInv, TypeOK
<1>3. inbox[1].op = op /\ inbox[1].relay = r
  BY <1>2
<1> QED
  BY <1>1, <1>2, <1>3 DEF IInv, PlaceInv, FreshInv

\* After the close of a relay nothing of it is in flight.
LEMMA RecvCloseStep ==
  ASSUME IInv, NEW r \in Relay, RecvClose(r) PROVE IInv'
<1>1. /\ at["reader"] = "idle" /\ inbox # <<>> /\ inbox' = Tail(inbox) /\ inbox' \in Seq(Message)
      /\ Head(inbox) = [op |-> "close", relay |-> r] /\ r \in Known
      /\ \A k \in DOMAIN inbox' : \E l \in DOMAIN inbox : inbox'[k] = inbox[l]
      /\ CloseBegins("reader", id[r])
  BY ReadsFacts DEF RecvClose
<1>2. /\ id[r] \in Id /\ "reader" \in Callers /\ sock' = sock /\ pc' = pc
      /\ UNCHANGED <<phase, ws, sessions, link, opened, opens, home, id, todo, heard, interrupted>>
  BY <1>1, KnownFacts DEF RecvClose, CloseBegins, IInv, Callers, linkVars, origin
<1>3. /\ relays' \in [Id -> Relay \cup {None}] /\ tasks' \in [Id -> Relay \cup {None}] /\ cancelled' \subseteq Relay
      /\ CloseMoves("reader") /\ \A q \in cancelled' : pc[q] # "none"
      /\ DictInv' /\ TaskInv' /\ PairInv' /\ TodoInv' /\ SockInv'
      /\ \A q \in Known : Active(q)' => Active(q) /\ id[q] # id[r]
  <2>1. CASE tasks[id[r]] = None
    <3>1. CloseRest("reader", id[r]) /\ cancelled' = cancelled /\ tasks' = tasks
      BY <1>1, <1>2, <2>1 DEF CloseBegins, Popped, IInv, TypeOK
    <3> QED
      BY <1>1, <1>2, <2>1, <3>1, CloseRestStep DEF IInv, TypeOK, FreshInv
  <2>2. CASE tasks[id[r]] # None
    <3>1. /\ tasks' = Popped(tasks, id[r]) /\ cancelled' = cancelled \cup {tasks[id[r]]}
          /\ Goes("reader", "task", tasks[id[r]]) /\ relays' = relays
      BY <1>1, <2>2 DEF CloseBegins
    <3> QED
      BY <1>1, <1>2, <2>2, <3>1, CloseCancelStep DEF IInv, TypeOK
  <2> QED
    BY <2>1, <2>2
<1>4. TypeOK'
  BY <1>1, <1>2, <1>3 DEF IInv, TypeOK, LinkTypeOK, CloseMoves
<1>5. PlaceInv' /\ FreshInv'
  BY <1>1, <1>2, <1>3, CloseTail
<1>6. StreamInv'
  <2>1. \A q \in Known : Active(q)' => Head(inbox) # [op |-> "close", relay |-> q]
    <3> SUFFICES ASSUME NEW q \in Known, Active(q)', [op |-> "close", relay |-> r] = [op |-> "close", relay |-> q]
                 PROVE  FALSE
      BY <1>1
    <3>1. [op |-> "close", relay |-> r].relay = [op |-> "close", relay |-> q].relay
      OBVIOUS
    <3> QED
      BY <1>3, <3>1
  <2> QED
    BY <1>1, <1>2, <1>3, <2>1, StreamRead DEF origin
<1> QED
  BY <1>3, <1>4, <1>5, <1>6 DEF IInv

\* The read loop goes on from `idle' with a message that is no close.
LEMMA RecvStep ==
  ASSUME IInv, NEW r \in Relay, RecvOpen(r) \/ RecvData(r) PROVE IInv'
<1>1. /\ at["reader"] = "idle" /\ inbox # <<>> /\ inbox' = Tail(inbox) /\ inbox' \in Seq(Message) /\ r \in Known
      /\ home[r] = sessions
      /\ \A k \in DOMAIN inbox' : \E l \in DOMAIN inbox : inbox'[k] = inbox[l]
      /\ \/ /\ Head(inbox) = [op |-> "open", relay |-> r] /\ pc[r] = "none" /\ sock[r] = "none"
            /\ \E place \in {"connect", "refuse"} : Goes("reader", place, r)
         \/ /\ Head(inbox) = [op |-> "data", relay |-> r]
            /\ IF relays[id[r]] = None THEN Goes("reader", "idle", None) ELSE Goes("reader", "feed", relays[id[r]])
      /\ UNCHANGED <<phase, ws, sessions, link, opened, opens, home, id, relays, tasks, todo, sock, pc, cancelled,
                     heard, interrupted>>
  BY ReadsFacts DEF RecvOpen, RecvData, linkVars, origin, dictVars, taskVars
<1>2. /\ Known' = Known /\ (Before' <=> Before) /\ (Late' <=> Late) /\ Callers = {"reader", "main"}
      /\ \A q \in Known : q \in Relay /\ id[q] \in Id
      /\ \A i \in Id : relays[i] # None => relays[i] \in Known
  BY <1>1, KnownFacts DEF IInv, DictInv, Known, Before, Late, Callers
<1>3. /\ at' \in [Callers -> Places] /\ arg' \in [Callers -> Relay \cup {None}]
      /\ at'["main"] = at["main"] /\ arg'["main"] = arg["main"]
      /\ \/ /\ at'["reader"] \in {"connect", "refuse"} /\ arg'["reader"] = r
            /\ Head(inbox) = [op |-> "open", relay |-> r] /\ pc[r] = "none" /\ sock[r] = "none"
         \/ /\ at'["reader"] \in {"idle", "feed"} /\ Head(inbox) = [op |-> "data", relay |-> r]
            /\ at'["reader"] = "feed" => arg'["reader"] \in Known
  BY <1>1, <1>2 DEF IInv, TypeOK, Goes, Places
<1>4. TypeOK'
  BY <1>1, <1>3 DEF IInv, TypeOK, LinkTypeOK
<1>5. PlaceInv'
  BY <1>1, <1>2, <1>3 DEF IInv, PlaceInv, Opening
<1>6. FreshInv'
  BY <1>1, <1>2, <1>3 DEF IInv, FreshInv, Opening
<1>7. DictInv' /\ TaskInv' /\ PairInv' /\ TodoInv' /\ SockInv'
  <2>1. \A c \in Callers : at'[c] \in {"task", "ws"} => at[c] = at'[c] /\ arg'[c] = arg[c]
    BY <1>2, <1>3
  <2>2. \A c \in Callers : at[c] \in {"task", "ws"} => at[c] = at'[c] /\ arg'[c] = arg[c]
    BY <1>1, <1>2, <1>3
  <2>3. DictInv'
    BY <1>1, <1>2, <1>3, <2>1 DEF IInv, DictInv
  <2>4. TaskInv' /\ TodoInv'
    BY <1>1, <1>2, <1>3 DEF IInv, TaskInv, TodoInv
  <2>5. PairInv'
    BY <1>1, <1>2, <1>3, <2>2 DEF IInv, PairInv
  <2>6. SockInv'
    BY <1>1, <1>2, <1>3, <2>2 DEF IInv, SockInv
  <2> QED
    BY <2>3, <2>4, <2>5, <2>6
<1>8. StreamInv'
  <2>1. \A q \in Known : Active(q)' => Active(q) \/ Head(inbox) = [op |-> "open", relay |-> q]
    BY <1>1, <1>3 DEF Active, Opening
  <2>2. Head(inbox).op # "close"
    BY <1>3
  <2>3. \A q \in Known : Head(inbox) # [op |-> "close", relay |-> q]
    BY <2>2
  <2> QED
    BY <1>1, <2>1, <2>3, StreamRead DEF origin
<1> QED
  BY <1>4, <1>5, <1>6, <1>7, <1>8 DEF IInv

\* The steps of handle_open and handle_data that change nothing but the place.
LEMMA ReaderMovesStep ==
  ASSUME IInv, LocalRefuses \/ FeedDone PROVE IInv'
<1>1. /\ \/ at["reader"] = "connect" /\ at'["reader"] = "refuse" /\ arg'["reader"] = arg["reader"]
         \/ at["reader"] = "feed" /\ at'["reader"] = "idle"
      /\ at'["main"] = at["main"] /\ arg'["main"] = arg["main"]
      /\ at' \in [Callers -> Places] /\ arg' \in [Callers -> Relay \cup {None}]
      /\ UNCHANGED <<phase, ws, sessions, link, opened, inbox, opens, home, id, relays, tasks, todo, sock, pc,
                     cancelled, heard, interrupted>>
  BY DEF LocalRefuses, FeedDone, Goes, IInv, TypeOK, Callers, Places, linkVars, origin, dictVars, taskVars
<1>2. /\ Known' = Known /\ (Before' <=> Before) /\ (Late' <=> Late) /\ Callers = {"reader", "main"}
  BY <1>1 DEF Known, Before, Late, Callers
<1>a. TypeOK'
  BY <1>1 DEF IInv, TypeOK, LinkTypeOK
<1>b. PlaceInv'
  BY <1>1, <1>2 DEF IInv, PlaceInv, Opening
<1>3. FreshInv'
  BY <1>1, <1>2 DEF IInv, FreshInv, Opening
<1>4. DictInv' /\ TaskInv' /\ TodoInv'
  BY <1>1, <1>2 DEF IInv, DictInv, TaskInv, TodoInv
<1>5. PairInv' /\ SockInv'
  BY <1>1, <1>2 DEF IInv, PairInv, SockInv
<1>6. StreamInv'
  BY <1>1, StreamKept DEF IInv, Active, Opening, origin
<1> QED
  BY <1>a, <1>b, <1>3, <1>4, <1>5, <1>6 DEF IInv

\* While a relay is being opened no other one with its id is in use.
LEMMA OpeningFacts ==
  ASSUME IInv, at["reader"] \in Opening, NEW r, r = arg["reader"]
  PROVE  /\ r \in Known /\ r \in Relay /\ r # None /\ id[r] \in Id /\ Active(r)
         /\ home[r] = sessions /\ pc[r] = "none" /\ r \notin cancelled /\ ~ Before
         /\ \A q \in Known : id[q] = id[r] /\ (relays[id[r]] = q \/ tasks[id[r]] = q) => q = r
         /\ relays[id[r]] \in {None, r} /\ tasks[id[r]] \in {None, r}
         /\ \A k \in DOMAIN inbox : inbox[k].op = "open" => inbox[k].relay # r
<1>1. /\ r \in Known /\ r \in Relay /\ r # None /\ id[r] \in Id /\ Active(r)
      /\ home[r] = sessions /\ pc[r] = "none" /\ r \notin cancelled /\ ~ Before
  BY KnownFacts DEF IInv, PlaceInv, FreshInv, Active, Before, Late, Opening
<1>2. \A q \in Known : id[q] = id[r] /\ (relays[id[r]] = q \/ tasks[id[r]] = q) => q = r
  BY <1>1 DEF IInv, StreamInv, Active, Opening
<1>3. relays[id[r]] \in {None, r} /\ tasks[id[r]] \in {None, r}
  BY <1>1, <1>2 DEF IInv, DictInv
<1>4. \A k \in DOMAIN inbox : inbox[k].op = "open" => inbox[k].relay # r
  <2> SUFFICES ASSUME NEW k \in DOMAIN inbox, inbox[k].op = "open", inbox[k].relay = r PROVE FALSE
    OBVIOUS
  <2>1. Behind(r, 0) /\ k \in Nat /\ 0 < k
    BY <1>1, InboxFacts DEF IInv, StreamInv
  <2> QED
    BY <2>1 DEF Behind
<1> QED
  BY <1>1, <1>2, <1>3, <1>4

\* No other relay with this id is in the dictionaries, nor does its task relay:
\* the server has closed that one, and the close has been read.
LEMMA LocalConnectsStep ==
  ASSUME IInv, LocalConnects PROVE IInv'
<1>r. PICK r : r = arg["reader"]
  OBVIOUS
<1>1. /\ at["reader"] = "connect" /\ \A q \in cancelled : id[q] # id[r]
      /\ sock' = [sock EXCEPT ![r] = "open"] /\ relays' = [relays EXCEPT ![id[r]] = r]
      /\ at' = [at EXCEPT !["reader"] = "ack"] /\ arg' = [arg EXCEPT !["reader"] = r]
      /\ UNCHANGED <<phase, ws, sessions, link, opened, inbox, opens, home, id, tasks, todo, pc, cancelled,
                     heard, interrupted>>
  BY <1>r DEF LocalConnects, Goes, linkVars, origin
<1>2. /\ r \in Known /\ r \in Relay /\ r # None /\ id[r] \in Id /\ Active(r)
      /\ home[r] = sessions /\ pc[r] = "none" /\ r \notin cancelled /\ ~ Before
      /\ relays[id[r]] \in {None, r} /\ tasks[id[r]] \in {None, r}
      /\ \A k \in DOMAIN inbox : inbox[k].op = "open" => inbox[k].relay # r
  BY <1>r, <1>1, OpeningFacts DEF Opening
<1>3. tasks[id[r]] = None /\ sock[r] = "none" /\ phase # "reconnecting"
  BY <1>r, <1>1, <1>2 DEF IInv, FreshInv, DictInv, PlaceInv, Relaying, Late
<1>4. \A q \in Known : pc[q] \in Relaying => id[q] # id[r]
  BY <1>1, <1>3 DEF IInv, TaskInv, FreshInv, Relaying, DictInv, None, Known
<1>5. /\ Known' = Known /\ (Before' <=> Before) /\ (Late' <=> Late) /\ Callers = {"reader", "main"}
      /\ \A q \in Known : q \in Relay /\ id[q] \in Id /\ q # None
      /\ \A q \in Relay : q # r => sock'[q] = sock[q]
      /\ sock'[r] = "open"
      /\ \A i \in Id : i # id[r] => relays'[i] = relays[i]
      /\ relays'[id[r]] = r
      /\ at'["reader"] = "ack" /\ arg'["reader"] = r /\ at'["main"] = at["main"] /\ arg'["main"] = arg["main"]
  BY <1>1, <1>2, KnownFacts DEF IInv, TypeOK, Known, Before, Late, Callers
<1>6. TypeOK'
  BY <1>1, <1>2 DEF IInv, TypeOK, LinkTypeOK, Places
<1>7. PlaceInv'
  BY <1>1, <1>2, <1>5 DEF IInv, PlaceInv, Opening
<1>8. FreshInv'
  <2>1. /\ \A k \in DOMAIN inbox : inbox[k].relay \in Relay
        /\ at["main"] \in {"task", "ws"} => arg["main"] \in Relay
    BY <1>5 DEF IInv, PlaceInv
  <2> QED
    BY <1>1, <1>2, <1>5, <2>1 DEF IInv, FreshInv, Opening
<1>9. DictInv'
  <2>1. \A i \in Id : relays'[i] # None =>
          /\ relays'[i] \in Known /\ id[relays'[i]] = i /\ home[relays'[i]] = sessions
          /\ sock'[relays'[i]] \in {"open", "gone"} /\ pc[relays'[i]] # "closing"
    <3> SUFFICES ASSUME NEW i \in Id, relays'[i] # None
                 PROVE  /\ relays'[i] \in Known /\ id[relays'[i]] = i /\ home[relays'[i]] = sessions
                        /\ sock'[relays'[i]] \in {"open", "gone"} /\ pc[relays'[i]] # "closing"
      OBVIOUS
    <3>1. CASE i = id[r]
      BY <1>2, <1>5, <3>1
    <3>2. CASE i # id[r]
      BY <1>2, <1>5, <3>2 DEF IInv, DictInv
    <3> QED
      BY <3>1, <3>2
  <2>2. at["main"] = "ws" => relays'[id[arg["main"]]] # arg["main"]
    <3>1. at["main"] = "ws" => arg["main"] \in Known /\ arg["main"] # r
      BY <1>3, <1>5 DEF IInv, PlaceInv, FreshInv
    <3> QED
      BY <1>5, <3>1 DEF IInv, DictInv
  <2> QED
    BY <1>1, <1>5, <2>1, <2>2 DEF IInv, DictInv
<1>10. TaskInv'
  BY <1>1, <1>4, <1>5 DEF IInv, TaskInv
<1>11. PairInv'
  BY <1>1, <1>3, <1>5 DEF IInv, PairInv
<1>12. TodoInv'
  BY <1>1, <1>3 DEF TodoInv
<1>13. SockInv'
  <2>1. \A q \in Known : q # r /\ relays[id[q]] = q => relays'[id[q]] = q
    BY <1>2, <1>5
  <2> QED
    BY <1>1, <1>2, <1>5, <2>1 DEF IInv, SockInv
<1>14. StreamInv'
  <2>1. \A q \in Known : Active(q)' => Active(q)
    BY <1>1, <1>2, <1>5 DEF Active, Opening
  <2> QED
    BY <1>1, <2>1, StreamKept DEF IInv, origin
<1> QED
  BY <1>6, <1>7, <1>8, <1>9, <1>10, <1>11, <1>12, <1>13, <1>14 DEF IInv

\* From the ack on the id stands for this relay, on both sides.
LEMMA AckWrittenStep ==
  ASSUME IInv, AckWritten PROVE IInv'
<1>r. PICK r : r = arg["reader"]
  OBVIOUS
<1>1. /\ at["reader"] = "ack"
      /\ heard' = [heard EXCEPT ![id[r]] = r] /\ tasks' = [tasks EXCEPT ![id[r]] = r]
      /\ pc' = [pc EXCEPT ![r] = "created"]
      /\ at' = [at EXCEPT !["reader"] = "idle"] /\ arg' = [arg EXCEPT !["reader"] = None]
      /\ UNCHANGED <<phase, ws, sessions, link, opened, inbox, opens, home, id, relays, todo, sock, cancelled,
                     interrupted>>
  BY <1>r DEF AckWritten, Goes, linkVars, origin
<1>2. /\ r \in Known /\ r \in Relay /\ r # None /\ id[r] \in Id /\ Active(r)
      /\ home[r] = sessions /\ pc[r] = "none" /\ r \notin cancelled /\ ~ Before
      /\ relays[id[r]] \in {None, r}
      /\ \A k \in DOMAIN inbox : inbox[k].op = "open" => inbox[k].relay # r
  BY <1>r, <1>1, OpeningFacts DEF Opening
<1>3. /\ Known' = Known /\ (Before' <=> Before) /\ (Late' <=> Late) /\ Callers = {"reader", "main"}
      /\ \A q \in Known : q \in Relay /\ id[q] \in Id /\ q # None
      /\ \A q \in Relay : q # r => pc'[q] = pc[q]
      /\ pc'[r] = "created" /\ pc'[r] \in Relaying
      /\ \A i \in Id : i # id[r] => tasks'[i] = tasks[i] /\ heard'[i] = heard[i]
      /\ tasks'[id[r]] = r /\ heard'[id[r]] = r
      /\ at'["reader"] = "idle" /\ at'["main"] = at["main"] /\ arg'["main"] = arg["main"]
  BY <1>1, <1>2, KnownFacts DEF IInv, TypeOK, Known, Before, Late, Callers, Relaying
<1>4. \A q \in Known : pc[q] \in Relaying => id[q] # id[r]
  BY <1>r, <1>1 DEF IInv, TaskInv
<1>5. TypeOK'
  BY <1>1, <1>2 DEF IInv, TypeOK, LinkTypeOK, Places, TaskPlaces, None
<1>6. PlaceInv'
  BY <1>1, <1>2, <1>3 DEF IInv, PlaceInv, Opening
<1>7. FreshInv'
  <2>1. /\ \A k \in DOMAIN inbox : inbox[k].relay \in Relay
        /\ at["main"] \in {"task", "ws"} => arg["main"] \in Relay
        /\ cancelled \subseteq Relay
    BY <1>3 DEF IInv, TypeOK, PlaceInv
  <2> QED
    BY <1>1, <1>2, <1>3, <2>1 DEF IInv, FreshInv, Opening
<1>8. DictInv'
  <2>1. \A i \in Id : relays[i] # None => pc'[relays[i]] # "closing"
    BY <1>3 DEF IInv, DictInv
  <2>2. \A i \in Id : tasks'[i] # None =>
          tasks'[i] \in Known /\ id[tasks'[i]] = i /\ pc'[tasks'[i]] \in Relaying /\ tasks'[i] \notin cancelled
    <3> SUFFICES ASSUME NEW i \in Id, tasks'[i] # None
                 PROVE  tasks'[i] \in Known /\ id[tasks'[i]] = i /\ pc'[tasks'[i]] \in Relaying /\ tasks'[i] \notin cancelled
      OBVIOUS
    <3>1. CASE i = id[r]
      BY <1>2, <1>3, <3>1
    <3>2. CASE i # id[r]
      BY <1>2, <1>3, <3>2 DEF IInv, DictInv
    <3> QED
      BY <3>1, <3>2
  <2>3. at["main"] = "task" => tasks'[id[arg["main"]]] # arg["main"]
    <3>1. at["main"] = "task" => arg["main"] \in Known /\ arg["main"] # r
      BY <1>2, <1>3 DEF IInv, PlaceInv, FreshInv
    <3> QED
      BY <1>3, <3>1 DEF IInv, DictInv
  <2> QED
    BY <1>1, <1>3, <2>1, <2>2, <2>3 DEF IInv, DictInv
<1>9. TaskInv'
  <2>1. \A q \in Known : pc'[q] \in Relaying => q = r \/ (pc[q] \in Relaying /\ id[q] # id[r])
    BY <1>3, <1>4
  <2> QED
    BY <1>1, <1>2, <1>3, <2>1 DEF IInv, TaskInv
<1>10. PairInv'
  <2> SUFFICES ASSUME ~ Late PROVE PairInv'
    BY <1>3 DEF PairInv
  <2>1. at["main"] = "off" /\ relays[id[r]] = r
    BY <1>r, <1>1, <1>3, CallerFacts DEF IInv, PairInv
  <2>2. \A i \in Id : tasks'[i] # None => relays[i] = tasks'[i]
    BY <1>3, <2>1 DEF IInv, PairInv
  <2>3. \A q \in cancelled : pc'[q] \notin Relaying
    BY <1>1, <1>2, <1>3, <2>1 DEF IInv, TypeOK, PairInv
  <2> QED
    BY <1>1, <1>3, <2>1, <2>2, <2>3 DEF PairInv
<1>11. TodoInv'
  BY <1>1, <1>3 DEF IInv, TodoInv
<1>12. SockInv'
  BY <1>1, <1>2, <1>3 DEF IInv, TypeOK, SockInv
<1>13. StreamInv'
  <2>1. \A q \in Known : Active(q)' => Active(q)
    BY <1>1, <1>2, <1>3 DEF Active, Opening
  <2> QED
    BY <1>1, <2>1, StreamKept DEF IInv, origin
<1> QED
  BY <1>5, <1>6, <1>7, <1>8, <1>9, <1>10, <1>11, <1>12, <1>13 DEF IInv

\* A relay that is refused has no place left; the server may use its id again.
LEMMA RefusalWrittenStep ==
  ASSUME IInv, RefusalWritten PROVE IInv'
<1>r. PICK r : r = arg["reader"]
  OBVIOUS
<1>1. /\ at["reader"] = "refuse" /\ opened' = opened \ {r}
      /\ at' = [at EXCEPT !["reader"] = "idle"] /\ arg' = [arg EXCEPT !["reader"] = None]
      /\ UNCHANGED <<phase, ws, sessions, link, inbox, opens, home, id, relays, tasks, todo, sock, pc, cancelled,
                     heard, interrupted>>
  BY <1>r DEF RefusalWritten, Goes, linkVars, origin, dictVars, taskVars
<1>2. /\ r \in Known /\ id[r] \in Id /\ Active(r) /\ pc[r] = "none" /\ sock[r] = "none" /\ r # None
      /\ \A k \in DOMAIN inbox : inbox[k].op = "open" => inbox[k].relay # r
  BY <1>r, <1>1, OpeningFacts DEF Opening, IInv, FreshInv
<1>3. relays[id[r]] # r /\ tasks[id[r]] # r
  BY <1>2 DEF IInv, DictInv, Relaying
<1>4. /\ Known' = Known /\ (Before' <=> Before) /\ (Late' <=> Late) /\ Callers = {"reader", "main"}
      /\ at'["reader"] = "idle" /\ at'["main"] = at["main"] /\ arg'["main"] = arg["main"]
  BY <1>1 DEF IInv, TypeOK, Known, Before, Late, Callers
<1>5. TypeOK'
  BY <1>1 DEF IInv, TypeOK, LinkTypeOK, Places, None
<1>6. PlaceInv' /\ FreshInv'
  BY <1>1, <1>4 DEF IInv, PlaceInv, FreshInv, Opening
<1>7. DictInv' /\ TaskInv' /\ TodoInv'
  BY <1>1, <1>4 DEF IInv, DictInv, TaskInv, TodoInv
<1>8. PairInv' /\ SockInv'
  BY <1>1, <1>4 DEF IInv, PairInv, SockInv
<1>9. StreamInv'
  <2>1. \A q \in Known : Active(q)' => Active(q) /\ q # r
    BY <1>1, <1>3, <1>4 DEF Active, Opening
  <2>2. \A q, k, j : ClosedIn(q, k, j)' <=> ClosedIn(q, k, j)
    BY <1>1 DEF ClosedIn
  <2>3. \A q, k : /\ Behind(q, k) => Behind(q, k)'
                  /\ Told(q, k) /\ q # r => Told(q, k)'
    BY <1>1, <2>2 DEF Behind, Told
  <2>4. \A q \in Known : \A k \in DOMAIN inbox : inbox[k] = [op |-> "open", relay |-> q] => q # r
    BY <1>2
  <2>5. \A q \in Known : Active(q)' => Behind(q, 0)' /\ Told(q, 0)'
    BY <2>1, <2>3 DEF IInv, StreamInv
  <2>6. \A q \in Known : \A k \in DOMAIN inbox :
          inbox[k] = [op |-> "open", relay |-> q] => Behind(q, k)' /\ Told(q, k)'
    BY <2>3, <2>4 DEF IInv, StreamInv
  <2>7. /\ \A q \in opened' : \A p \in Known : id[p] = id[q] => p <= q
        /\ \A p, q \in Known : Active(p)' /\ Active(q)' /\ id[p] = id[q] => p = q
    BY <1>1, <2>1 DEF IInv, StreamInv
  <2> QED
    BY <1>1, <1>4, <2>5, <2>6, <2>7 DEF StreamInv
<1> QED
  BY <1>5, <1>6, <1>7, <1>8, <1>9 DEF IInv

\* Every step keeps the invariant.
LEMMA NextIInv == IInv /\ [Next]_vars => IInv'
<1> SUFFICES ASSUME IInv, [Next]_vars PROVE IInv'
  OBVIOUS
<1>1. CASE UNCHANGED vars
  <2>1. UNCHANGED <<phase, ws, sessions, link, opened, inbox, opens, home, id, at, arg, relays, tasks, todo, sock, pc,
                   cancelled, heard, interrupted>>
    BY <1>1 DEF vars, relayVars, linkVars, origin, dictVars, taskVars
  <2>2. TypeOK'
    BY <2>1 DEF IInv, TypeOK, LinkTypeOK
  <2>3. PlaceInv' /\ FreshInv'
    BY <2>1 DEF IInv, PlaceInv, FreshInv, Known, Before, Late
  <2>4. DictInv' /\ TaskInv' /\ PairInv' /\ TodoInv' /\ SockInv'
    BY <2>1 DEF IInv, DictInv, TaskInv, PairInv, TodoInv, SockInv, Known, Before, Late
  <2>5. StreamInv'
    BY <2>1, StreamKept DEF IInv, Active, origin
  <2> QED
    BY <2>2, <2>3, <2>4, <2>5 DEF IInv
<1>2. CASE phase # "ended" /\ ReaderStep
  <2>1. CASE ReaderRaises \/ AckFails \/ FeedFails
    <3>1. at["reader"] \in {"idle", "ack", "refuse", "feed"}
      BY <2>1 DEF ReaderRaises, AckFails, FeedFails
    <3>2. ReaderLeaves(ReadLoopRaises) \/ ReaderLeaves(RelayRaises) \/ ReaderLeaves(Leave)
      BY <2>1 DEF ReaderRaises, AckFails, FeedFails
    <3> QED
      BY <1>2, <3>1, <3>2, ReaderLeavesStep
  <2> QED
    BY <1>2, <2>1, ReaderReturnsStep, RecvStep, RecvCloseStep, ReaderMovesStep, LocalConnectsStep,
       AckWrittenStep, RefusalWrittenStep DEF ReaderStep
<1>3. CASE MainStep
  BY <1>3, CloseNextStep, TaskAwaitedStep, LocalClosedStep, CloseWsStep DEF MainStep, Callers
<1>4. ASSUME NEW r \in Relay, TaskStep(r) PROVE IInv'
  BY <1>4, TaskGoesOnStep, TaskEndsStep, TaskClosesStep DEF TaskStep
<1>5. ASSUME NEW r \in Relay, ServerSends(r) \/ ServerCloses(r) \/ AppLeaves(r) PROVE IInv'
  BY <1>5, ServerSendsStep, AppLeavesStep
<1>6. CASE LinkDrops \/ SessionConnects \/ SessionStarts \/ HandshakeFails
  BY <1>6, LinkDropsStep, SessionConnectsStep, SessionStartsStep, HandshakeFailsStep
<1>7. CASE TaskAwaited("reader") \/ LocalClosed("reader")
  BY <1>7, TaskAwaitedStep, LocalClosedStep DEF Callers
<1>8. CASE phase # "ended" /\ Interrupt
  BY <1>8, InterruptStep
<1> QED
  BY <1>1, <1>2, <1>3, <1>4, <1>5, <1>6, <1>7, <1>8, ServerOpensStep, CloseNextStep DEF Next

\* It holds at the start.
LEMMA InitIInv == Init => IInv
<1> SUFFICES ASSUME Init PROVE IInv
  OBVIOUS
<1> USE RelayAssumption, MaxSessionsAssumption DEF RelayAssumption, MaxSessionsAssumption, Init, LinkInit, Callers
<1>1. TypeOK
  <2>1. LinkTypeOK
    BY DEF LinkTypeOK, Phases, LinkStates, NoSocket
  <2>2. home \in [1 .. opens -> 1 .. MaxSessions] /\ id \in [1 .. opens -> Id] /\ opens \in 0 .. MaxRelays
    BY AsSequence
  <2>3. inbox \in Seq(Message)
    OBVIOUS
  <2>4. at \in [Callers -> Places] /\ arg \in [Callers -> Relay \cup {None}]
    BY DEF Places
  <2>5. pc \in [Relay -> TaskPlaces] /\ sock \in [Relay -> {"none", "open", "gone", "closed"}]
    BY DEF TaskPlaces
  <2> QED
    BY <2>1, <2>2, <2>3, <2>4, <2>5 DEF TypeOK
<1>2. Known = {}
  BY DEF Known
<1>3. PlaceInv /\ FreshInv
  BY <1>2 DEF PlaceInv, FreshInv, Opening, Before, Late, NoSocket
<1>4. StreamInv /\ DictInv
  BY <1>2 DEF StreamInv, DictInv
<1>5. TaskInv /\ PairInv /\ TodoInv /\ SockInv
  BY <1>2 DEF TaskInv, PairInv, TodoInv, SockInv
<1> QED
  BY <1>1, <1>3, <1>4, <1>5 DEF IInv

\* So it holds in every state.
LEMMA AlwaysIInv == Spec => []IInv
  BY InitIInv, NextIInv, PTL DEF Spec

-----------------------------------------------------------------------------
(* The theorems *)

\* TypeOK is an invariant.
THEOREM TypeCorrect == Spec => []TypeOK
<1>1. IInv => TypeOK
  BY DEF IInv
<1> QED
  BY <1>1, AlwaysIInv, PTL

\* A task that relays is where a close finds it, and what close finds relays.
THEOREM RelaysTracked == Spec => []Tracked
<1>1. IInv => Tracked
  <2> SUFFICES ASSUME IInv, ~ Late PROVE Tracked
    BY DEF Tracked, Late
  <2>1. \A r \in Relay : pc[r] \in Relaying => r \in Known /\ id[r] \in Id /\ r # None
    BY KnownFacts DEF IInv, FreshInv, Relaying
  <2>2. \A r \in Relay : pc[r] \in Relaying /\ r \notin cancelled =>
          home[r] = sessions /\ relays[id[r]] = r /\ tasks[id[r]] = r
    BY <2>1 DEF IInv, TaskInv, PairInv
  <2>3. \A i \in Id : tasks[i] # None => pc[tasks[i]] \in Relaying /\ tasks[i] \notin cancelled
    BY DEF IInv, DictInv
  <2> QED
    BY <2>2, <2>3 DEF Tracked
<1> QED
  BY <1>1, AlwaysIInv, PTL

\* A session leaves no task that goes on, and no connection that nobody closes.
THEOREM SessionsLeaveNothing == Spec => []NothingLeft
<1>1. IInv => NothingLeft
  <2> SUFFICES ASSUME IInv, NEW r \in Known, home[r] < sessions \/ phase = "connecting"
               PROVE  /\ pc[r] \in {"none", "closing", "done"}
                      /\ sock[r] \in {"open", "gone"} => pc[r] = "closing" \/ interrupted
    BY DEF NothingLeft, Known
  <2>0. r \in Relay /\ id[r] \in Id /\ r # None /\ home[r] \in Nat /\ sessions \in Nat /\ pc[r] \in TaskPlaces
    BY KnownFacts DEF IInv, TypeOK, LinkTypeOK, Known
  <2>1. pc[r] \notin Relaying
    BY <2>0 DEF IInv, TaskInv, Before
  <2>2. ASSUME ~ interrupted, sock[r] \in {"open", "gone"} PROVE pc[r] = "closing"
    <3>1. CASE phase = "connecting"
      BY <2>2, <3>1 DEF IInv, SockInv, Before
    <3>2. CASE home[r] < sessions
      <4>1. relays[id[r]] # r /\ \A c \in Callers : ~ (at[c] = "ws" /\ arg[c] = r)
        BY <2>0, <3>2 DEF IInv, DictInv, PlaceInv
      <4> QED
        BY <2>2, <4>1 DEF IInv, SockInv
    <3> QED
      BY <3>1, <3>2
  <2> QED
    BY <2>0, <2>1, <2>2 DEF TaskPlaces, Relaying
<1> QED
  BY <1>1, AlwaysIInv, PTL

\* On one connection the server hears under an id only the relay whose ack was last.
THEOREM FramesAreOwn == Spec => OwnFrames
<1>1. IInv /\ [Next]_vars =>
        [ws' = ws => \A i \in Id : heard'[i] # heard[i] => at["reader"] = "ack" /\ heard'[i] = arg["reader"]]_vars
  <2> SUFFICES ASSUME IInv, Next, ws' = ws, NEW i \in Id, heard'[i] # heard[i]
               PROVE  at["reader"] = "ack" /\ heard'[i] = arg["reader"]
    BY DEF vars, relayVars
  <2>0. ws \in Nat /\ sessions \in Nat /\ ws <= sessions
    BY DEF IInv, TypeOK, LinkTypeOK, PlaceInv
  <2>1. CASE SessionConnects
    BY <2>0, <2>1 DEF SessionConnects, Connect
  <2>2. CASE AckWritten
    BY <2>2 DEF AckWritten, IInv, TypeOK
  <2>3. ASSUME NEW r \in Relay, TaskSends(r) PROVE FALSE
    <3>1. heard' = [heard EXCEPT ![id[r]] = r] /\ r \in Known /\ heard[id[r]] = r
      BY <2>3 DEF TaskSends, IInv, FreshInv, TaskInv, Relaying
    <3> QED
      BY <3>1, KnownFacts DEF IInv, TypeOK
  <2>4. UNCHANGED heard \/ SessionConnects \/ AckWritten \/ \E r \in Relay : TaskSends(r)
    <3>1. CASE ReaderStep
      BY <3>1 DEF ReaderStep, ReaderRaises, ReaderReturns, RecvOpen, RecvData, RecvClose, LocalRefuses,
         LocalConnects, RefusalWritten, AckFails, FeedDone, FeedFails, ReaderLeaves
    <3>2. CASE MainStep \/ CloseNext \/ TaskAwaited("reader") \/ LocalClosed("reader")
      BY <3>2 DEF MainStep, CloseNext, TaskAwaited, LocalClosed, CloseWs
    <3>3. ASSUME NEW r \in Relay, TaskStep(r) PROVE UNCHANGED heard \/ TaskSends(r)
      BY <3>3 DEF TaskStep, TaskStarts, TaskReads, TaskEnds, Unwinds, TaskCloses
    <3>4. CASE (\E j \in Id : ServerOpens(j)) \/ \E r \in Relay : ServerSends(r) \/ ServerCloses(r) \/ AppLeaves(r)
      BY <3>4 DEF ServerOpens, ServerSends, ServerCloses, Send, AppLeaves
    <3>5. CASE LinkDrops \/ SessionStarts \/ HandshakeFails \/ Interrupt
      BY <3>5 DEF LinkDrops, SessionStarts, HandshakeFails, Interrupt, relayVars
    <3> QED
      BY <3>1, <3>2, <3>3, <3>4, <3>5 DEF Next
  <2> QED
    BY <2>1, <2>2, <2>3, <2>4
<1> QED
  BY <1>1, AlwaysIInv, PTL DEF Spec, OwnFrames

\* What a browser sends goes to the local connection of its own relay.
THEOREM FeedsAreOwn == Spec => FeedsOwn
<1>1. IInv /\ [Next]_vars =>
        [at'["reader"] = "feed" /\ at["reader"] # "feed" =>
           arg'["reader"] = Head(inbox).relay /\ sock[arg'["reader"]] # "closed"]_vars
  <2> SUFFICES ASSUME IInv, Next, at'["reader"] = "feed", at["reader"] # "feed"
               PROVE  arg'["reader"] = Head(inbox).relay /\ sock[arg'["reader"]] # "closed"
    BY DEF vars, relayVars
  <2>1. PICK r \in Relay : RecvData(r)
    <3> SUFFICES ASSUME \A r \in Relay : ~ RecvData(r) PROVE FALSE
      OBVIOUS
    <3> USE DEF IInv, TypeOK, Callers, Goes
    <3>1. ~ (LocalRefuses \/ LocalConnects \/ AckWritten \/ RefusalWritten \/ FeedDone)
      BY DEF LocalRefuses, LocalConnects, AckWritten, RefusalWritten, FeedDone
    <3>2. ~ (ReaderReturns \/ \E r \in Relay : RecvOpen(r))
      BY DEF ReaderReturns, RecvOpen
    <3>3. ~ \E r \in Relay : RecvClose(r)
      BY DEF RecvClose, CloseBegins, CloseRest
    <3>4. ~ (ReaderRaises \/ AckFails \/ FeedFails)
      BY DEF ReaderRaises, AckFails, FeedFails, ReaderLeaves, CloseAllBegins
    <3>5. ~ (CloseNext \/ CloseWs)
      BY DEF CloseNext, CloseWs, CloseBegins, CloseRest
    <3>6. \A c \in Callers : ~ (TaskAwaited(c) \/ LocalClosed(c))
      BY DEF TaskAwaited, LocalClosed, CloseRest
    <3>7. \A r \in Relay : ~ (TaskStep(r) \/ ServerSends(r) \/ ServerCloses(r) \/ AppLeaves(r))
      BY DEF TaskStep, TaskStarts, TaskReads, TaskSends, TaskEnds, Unwinds, TaskCloses, ServerSends, ServerCloses,
         Send, AppLeaves
    <3>8. ~ (\E i \in Id : ServerOpens(i)) /\ ~ (LinkDrops \/ SessionConnects \/ SessionStarts \/ HandshakeFails)
      BY DEF ServerOpens, Send, LinkDrops, SessionConnects, SessionStarts, HandshakeFails, relayVars
    <3>9. ~ Interrupt
      BY DEF Interrupt, CloseAllBegins
    <3> QED
      BY <3>1, <3>2, <3>3, <3>4, <3>5, <3>6, <3>7, <3>8, <3>9 DEF Next, ReaderStep, MainStep
  <2>2. /\ at["reader"] = "idle" /\ Head(inbox) = [op |-> "data", relay |-> r] /\ inbox # <<>> /\ r \in Known
        /\ relays[id[r]] # None /\ arg'["reader"] = relays[id[r]]
    BY <2>1, ReadsFacts DEF RecvData, Goes, IInv, TypeOK, Callers
  <2>3. PICK q \in Known : q = relays[id[r]] /\ id[q] = id[r] /\ sock[q] # "closed"
    BY <2>2, KnownFacts DEF IInv, DictInv
  <2>4. Active(q)
    BY <2>2, <2>3 DEF Active
  <2>5. Behind(q, 0) /\ inbox[1].relay = r /\ 1 \in DOMAIN inbox
    BY <2>2, <2>4, TailFacts DEF IInv, TypeOK, StreamInv
  <2>6. ~ ClosedIn(q, 0, 1)
    BY InboxFacts DEF IInv, ClosedIn
  <2>7. r = q
    <3>1. r \in Nat /\ q \in Nat /\ r \in Known
      BY <2>2, KnownFacts DEF IInv
    <3>2. id[inbox[1].relay] = id[q] /\ inbox[1].relay = r /\ 0 < 1 /\ 1 \in DOMAIN inbox
      BY <2>3, <2>5
    <3>3. r >= q /\ (r > q => ClosedIn(q, 0, 1))
      BY <2>5, <3>2 DEF Behind
    <3> QED
      BY <2>6, <3>1, <3>3
  <2> QED
    BY <2>2, <2>3, <2>7
<1> QED
  BY <1>1, AlwaysIInv, PTL DEF Spec, FeedsOwn

-----------------------------------------------------------------------------
(* The finally block does not wait for ever *)

\* A step that takes back no cancel() and restarts no task, and by which nobody
\* begins to wait.
LEMMA StillEnding ==
  ASSUME IInv, CloseNeverStuck,
         \A r \in Known : Ending(r) /\ pc[r] # "none" => Ending(r)',
         \A c \in Callers : at'[c] = "task" => at[c] = "task" /\ arg'[c] = arg[c],
         phase' \in {"reconnecting", "leaving"} => at'["main"] # "off"
  PROVE  CloseNeverStuck'
<1>1. \A c \in Callers : at[c] = "task" => arg[c] \in Known /\ pc[arg[c]] # "none"
  BY DEF IInv, PlaceInv, FreshInv
<1>2. \A c \in Callers : at'[c] = "task" => Ending(arg[c])'
  BY <1>1 DEF CloseNeverStuck
<1> QED
  BY <1>2 DEF CloseNeverStuck, Ending

\* Each step of the tasks, the read loop, WSRelay.close and the session.
LEMMA NextNeverStuck == IInv /\ CloseNeverStuck /\ [Next]_vars => CloseNeverStuck'
<1> SUFFICES ASSUME IInv, CloseNeverStuck, [Next]_vars PROVE CloseNeverStuck'
  OBVIOUS
<1>0. /\ at \in [Callers -> Places] /\ arg \in [Callers -> Relay \cup {None}]
      /\ pc \in [Relay -> TaskPlaces] /\ Callers = {"reader", "main"} /\ Known \subseteq Relay
      /\ \A i \in Id : tasks[i] # None => tasks[i] \in Known
      /\ phase \in {"reconnecting", "leaving"} => at["main"] # "off"
  <2>1. Known \subseteq Relay
    BY KnownFacts DEF IInv
  <2>2. \A i \in Id : tasks[i] # None => tasks[i] \in Known
    BY DEF IInv, DictInv
  <2> QED
    BY <2>1, <2>2 DEF IInv, TypeOK, Callers, CloseNeverStuck
\* Nobody begins to wait, and no task moves.
<1>1. ASSUME UNCHANGED <<pc, cancelled>>,
             \A c \in Callers : at'[c] = "task" => at[c] = "task" /\ arg'[c] = arg[c],
             phase' \in {"reconnecting", "leaving"} => at'["main"] # "off"
      PROVE  CloseNeverStuck'
  BY <1>1, StillEnding DEF Ending
<1>2. ASSUME NEW c \in Callers, NEW place \in Places \ {"task", "off"}, NEW r, Goes(c, place, r),
             UNCHANGED <<pc, cancelled, phase>>
      PROVE  CloseNeverStuck'
  BY <1>0, <1>1, <1>2 DEF Goes
\* The tasks.
<1>3. ASSUME NEW r \in Relay, TaskStep(r) PROVE CloseNeverStuck'
  <2>1. UNCHANGED <<at, arg, phase>>
    BY <1>3 DEF TaskStep, TaskStarts, TaskReads, TaskSends, TaskEnds, Unwinds, TaskCloses, linkVars
  <2>2. \A q \in Known : Ending(q) /\ pc[q] # "none" => Ending(q)'
    <3>1. CASE TaskStarts(r) \/ TaskReads(r) \/ TaskSends(r)
      BY <1>0, <3>1 DEF TaskStarts, TaskReads, TaskSends, Ending
    <3>2. CASE TaskEnds(r) \/ TaskCloses(r)
      BY <1>0, <3>2 DEF TaskEnds, TaskCloses, Finally, Ending
    <3>3. CASE Unwinds(r)
      BY <1>0, <3>3 DEF Unwinds, Finally, Ending
    <3> QED
      BY <1>3, <3>1, <3>2, <3>3 DEF TaskStep
  <2> QED
    BY <1>0, <2>1, <2>2, StillEnding
\* The read loop.
<1>4. ASSUME NEW r \in Relay, RecvOpen(r) \/ RecvData(r) PROVE CloseNeverStuck'
  BY <1>2, <1>4 DEF RecvOpen, RecvData, Places, linkVars, taskVars, Callers
<1>5. CASE LocalRefuses \/ LocalConnects \/ RefusalWritten \/ FeedDone
  BY <1>2, <1>5 DEF LocalRefuses, LocalConnects, RefusalWritten, FeedDone, Places, linkVars, taskVars, Callers
<1>6. CASE AckWritten
  <2>1. /\ pc' = [pc EXCEPT ![arg["reader"]] = "created"] /\ pc[arg["reader"]] = "none"
        /\ UNCHANGED <<cancelled, phase>> /\ Goes("reader", "idle", None)
    BY <1>6 DEF AckWritten, IInv, FreshInv, Opening, linkVars
  <2>2. \A q \in Known : Ending(q) /\ pc[q] # "none" => Ending(q)'
    BY <1>0, <2>1 DEF Ending
  <2>3. \A c \in Callers : at'[c] = "task" => at[c] = "task" /\ arg'[c] = arg[c]
    BY <1>0, <2>1 DEF Goes
  <2>4. at'["main"] = at["main"]
    BY <1>0, <2>1 DEF Goes
  <2> QED
    BY <1>0, <2>1, <2>2, <2>3, <2>4, StillEnding
<1>7. CASE ReaderRaises \/ AckFails \/ FeedFails
  <2>1. ReaderLeaves(ReadLoopRaises) \/ ReaderLeaves(RelayRaises) \/ ReaderLeaves(Leave)
    BY <1>7 DEF ReaderRaises, AckFails, FeedFails
  <2>2. UNCHANGED <<pc, cancelled>>
    BY <2>1 DEF ReaderLeaves, taskVars
  <2>3. \A c \in Callers : at'[c] = "task" => at[c] = "task" /\ arg'[c] = arg[c]
    BY <1>0, <2>1 DEF ReaderLeaves, CloseAllBegins, Goes
  <2>4. phase' \in {"reconnecting", "leaving"} => at'["main"] # "off"
    BY <1>0, <2>1 DEF ReaderLeaves, CloseAllBegins, Goes, linkVars
  <2> QED
    BY <1>1, <2>2, <2>3, <2>4
<1>8. CASE ReaderReturns
  BY <1>0, <1>1, <1>8 DEF ReaderReturns, ReadLoopReturns, Goes, taskVars
\* WSRelay.close
<1>9. ASSUME NEW c \in Callers, NEW i \in Id, CloseBegins(c, i), UNCHANGED phase PROVE CloseNeverStuck'
  <2>1. CASE tasks[i] = None
    BY <1>0, <1>2, <1>9, <2>1 DEF CloseBegins, CloseRest, Places
  <2>2. CASE tasks[i] # None
    <3>1. /\ cancelled' = cancelled \cup {tasks[i]} /\ Goes(c, "task", tasks[i]) /\ UNCHANGED pc
      BY <1>9, <2>2 DEF CloseBegins
    <3>2. at'[c] = "task" /\ arg'[c] = tasks[i]
          /\ \A d \in Callers : d # c => at'[d] = at[d] /\ arg'[d] = arg[d]
      BY <1>0, <3>1 DEF Goes
    <3>3. \A d \in Callers : at'[d] = "task" => Ending(arg[d])'
      BY <3>1, <3>2 DEF Ending, CloseNeverStuck
    <3>4. phase' \in {"reconnecting", "leaving"} => at'["main"] # "off"
      BY <1>0, <1>9, <3>2
    <3> QED
      BY <3>3, <3>4 DEF CloseNeverStuck, Ending
  <2> QED
    BY <2>1, <2>2
<1>10. ASSUME NEW r \in Relay, RecvClose(r) PROVE CloseNeverStuck'
  <2>1. id[r] \in Id
    BY <1>10, ReadsFacts, KnownFacts DEF RecvClose, IInv, TypeOK
  <2> QED
    BY <1>9, <1>10, <2>1 DEF RecvClose, linkVars, Callers
<1>11. CASE CloseNext
  <2>1. todo \subseteq Id
    BY DEF IInv, TypeOK
  <2> QED
    BY <1>9, <1>11, <2>1 DEF CloseNext, linkVars, Callers
<1>12. ASSUME NEW c \in Callers, TaskAwaited(c) \/ LocalClosed(c) PROVE CloseNeverStuck'
  BY <1>2, <1>12 DEF TaskAwaited, LocalClosed, CloseRest, Places, linkVars, taskVars
\* The session.
<1>13. CASE CloseWs
  BY <1>0, <1>1, <1>13 DEF CloseWs, Close, taskVars
<1>14. CASE Interrupt
  <2>1. UNCHANGED pc /\ cancelled \subseteq cancelled'
    BY <1>14 DEF Interrupt
  <2>2. \A r \in Known : Ending(r) => Ending(r)'
    BY <2>1 DEF Ending
  <2>3. \A c \in Callers : at'[c] = "task" => at[c] = "task" /\ arg'[c] = arg[c]
    BY <1>0, <1>14 DEF Interrupt, CloseAllBegins
  <2>4. phase' \in {"reconnecting", "leaving"} => at'["main"] # "off"
    BY <1>0, <1>14 DEF Interrupt, CloseAllBegins, CloseInterrupted, linkVars
  <2> QED
    BY <2>2, <2>3, <2>4, StillEnding
<1>15. CASE SessionStarts
  BY <1>0, <1>1, <1>15 DEF SessionStarts, Register, Goes, taskVars
<1>16. CASE LinkDrops \/ SessionConnects \/ HandshakeFails
  BY <1>0, <1>1, <1>16 DEF LinkDrops, Drop, SessionConnects, Connect, HandshakeFails, HandshakeAborts, GiveUp,
     relayVars, taskVars
<1>17. ASSUME NEW i \in Id, ServerOpens(i) PROVE CloseNeverStuck'
  BY <1>0, <1>1, <1>17 DEF ServerOpens, Send, linkVars, taskVars
<1>18. ASSUME NEW r \in Relay, ServerSends(r) \/ ServerCloses(r) \/ AppLeaves(r) PROVE CloseNeverStuck'
  BY <1>0, <1>1, <1>18 DEF ServerSends, ServerCloses, Send, AppLeaves, linkVars, taskVars
<1>19. CASE UNCHANGED vars
  BY <1>0, <1>1, <1>19 DEF vars, relayVars, linkVars, taskVars
<1> QED
  BY <1>3, <1>4, <1>5, <1>6, <1>7, <1>8, <1>10, <1>11, <1>12, <1>13, <1>14, <1>15, <1>16, <1>17, <1>18, <1>19
  DEF Next, ReaderStep, MainStep, Callers

\* close() and close_all() wait for a task only after cancel(), and no task that
\* is cancelled goes back to its loop, for any number of relays and sessions
\* (ws_relay.py:76-110).
THEOREM ClosesNeverStuck == Spec => []CloseNeverStuck
<1>1. Init => CloseNeverStuck
  BY DEF Init, LinkInit, CloseNeverStuck, Callers
<1> QED
  BY <1>1, NextNeverStuck, AlwaysIInv, PTL DEF Spec

-----------------------------------------------------------------------------
(* The relays and the link *)

\* The relays change the control link only in the ways ControlLink allows, so
\* that LinkConsistent of ControlLink_proofs holds of it too.
THEOREM RelayOnLink == Spec => LinkSpec
<1>1. Init => LinkInit
  BY DEF Init
<1>2. [Next]_vars => [LinkStep]_linkVars
  <2> USE DEF LinkStep
  <2>1. ASSUME NEW i \in Id, ServerOpens(i) PROVE UNCHANGED linkVars
    BY <2>1 DEF ServerOpens, Send
  <2>2. ASSUME NEW r \in Relay, ServerSends(r) \/ ServerCloses(r) \/ AppLeaves(r)
        PROVE  UNCHANGED linkVars
    BY <2>2 DEF ServerSends, ServerCloses, Send, AppLeaves
  <2>3. ASSUME NEW r \in Relay, TaskStep(r) PROVE UNCHANGED linkVars
    BY <2>3 DEF TaskStep, TaskStarts, TaskReads, TaskSends, TaskEnds, Unwinds, TaskCloses
  <2>4. ASSUME NEW r \in Relay, RecvOpen(r) \/ RecvData(r) \/ RecvClose(r) PROVE UNCHANGED linkVars
    BY <2>4 DEF RecvOpen, RecvData, RecvClose
  <2>5. LocalRefuses \/ LocalConnects \/ AckWritten \/ RefusalWritten \/ FeedDone
        \/ CloseNext \/ (\E c \in Callers : TaskAwaited(c) \/ LocalClosed(c)) => UNCHANGED linkVars
    BY DEF LocalRefuses, LocalConnects, AckWritten, RefusalWritten, FeedDone, CloseNext,
       TaskAwaited, LocalClosed
  <2>6. ReaderRaises \/ AckFails \/ FeedFails => LinkStep \/ UNCHANGED linkVars
    BY DEF ReaderRaises, AckFails, FeedFails, ReaderLeaves
  <2>7. LinkDrops \/ SessionConnects \/ SessionStarts \/ HandshakeFails \/ CloseWs \/ ReaderReturns => LinkStep
    BY DEF LinkDrops, SessionConnects, SessionStarts, HandshakeFails, CloseWs, ReaderReturns
  <2>8. Interrupt => LinkStep \/ UNCHANGED linkVars
    BY DEF Interrupt
  <2>9. UNCHANGED vars => UNCHANGED linkVars
    BY DEF vars
  <2> QED
    BY <2>1, <2>2, <2>3, <2>4, <2>5, <2>6, <2>7, <2>8, <2>9 DEF Next, ReaderStep, MainStep, Callers
<1> QED
  BY <1>1, <1>2, PTL DEF Spec, LinkSpec
===============================================================================
