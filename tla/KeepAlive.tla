------------------------------- MODULE KeepAlive -------------------------------
(***************************************************************************)
(* What the local apps can rely on: a connection serves one request at a   *)
(* time, is kept for its own port and for a bounded number of others, and  *)
(* never serves again once it is dead or lost.  A request gets an idle     *)
(* connection or a new one, and a second connection only in place of an    *)
(* idle one.  Requests are answered and connections kept while the proxy   *)
(* is open; after it has shut, nothing is idle.                            *)
(***************************************************************************)
EXTENDS Naturals, FiniteSets

CONSTANTS Job, Port, Conn, PoolLimit, NoConn

VARIABLES
  port,   \* [Job -> Port], the port of each request
  stage,  \* [Job -> Stages]
  busy,   \* [Job -> Conn \cup {NoConn}]
  idle,   \* [Port -> SUBSET Conn]
  dead,   \* connections that are closed for good
  lost,   \* connections nobody has and nobody has closed
  phase   \* "open", "closing", "shut"

vars == <<port, stage, busy, idle, dead, lost, phase>>

\* "pooled" is with a connection that had been idle, "fresh" with a new one.
Stages == {"none", "pooled", "fresh", "answered", "over"}

Init ==
  /\ port \in [Job -> Port]
  /\ stage = [j \in Job |-> "none"]
  /\ busy = [j \in Job |-> NoConn]
  /\ idle = [p \in Port |-> {}]
  /\ dead = {}
  /\ lost = {}
  /\ phase = "open"

New(c) == c \notin dead \cup lost /\ (\A j \in Job : busy[j] # c) /\ (\A p \in Port : c \notin idle[p])

Moves(j, step, c) == stage' = [stage EXCEPT ![j] = step] /\ busy' = [busy EXCEPT ![j] = c]

Make(j) ==
  /\ stage[j] = "none"
  /\ \E c \in Conn : New(c) /\ Moves(j, "fresh", c)
  /\ UNCHANGED <<port, idle, dead, lost, phase>>

Reuse(j) ==
  /\ stage[j] = "none"
  /\ \E c \in idle[port[j]] :
       /\ Moves(j, "pooled", c)
       /\ idle' = [idle EXCEPT ![port[j]] = @ \ {c}]
  /\ UNCHANGED <<port, dead, lost, phase>>

Replace(j) ==
  /\ stage[j] = "pooled"
  /\ \E c \in Conn : New(c) /\ Moves(j, "fresh", c)
  /\ dead' = dead \cup {busy[j]}
  /\ UNCHANGED <<port, idle, lost, phase>>

Answer(j) ==
  /\ stage[j] \in {"pooled", "fresh"} /\ phase = "open"
  /\ Moves(j, "answered", busy[j])
  /\ UNCHANGED <<port, idle, dead, lost, phase>>

Park(j) ==
  /\ stage[j] = "answered" /\ phase = "open"
  /\ Cardinality(idle[port[j]]) < PoolLimit
  /\ Moves(j, "over", NoConn)
  /\ idle' = [idle EXCEPT ![port[j]] = @ \cup {busy[j]}]
  /\ UNCHANGED <<port, dead, lost, phase>>

\* A request ends and takes its connection with it.
Drop(j) ==
  /\ stage[j] \in {"pooled", "fresh", "answered"}
  /\ Moves(j, "over", NoConn)
  /\ dead' = dead \cup {busy[j]}
  /\ UNCHANGED <<port, idle, lost, phase>>

\* A request ends without an answer and forgets its connection: one that had
\* been idle, or, once the proxy is closing, any.
Lose(j) ==
  /\ stage[j] = "pooled" \/ (stage[j] = "fresh" /\ phase # "open")
  /\ Moves(j, "over", NoConn)
  /\ lost' = lost \cup {busy[j]}
  /\ UNCHANGED <<port, idle, dead, phase>>

\* A request ends before it has a connection.
GiveUp(j) ==
  /\ stage[j] = "none"
  /\ Moves(j, "over", NoConn)
  /\ UNCHANGED <<port, idle, dead, lost, phase>>

\* An idle connection is closed.
Expire(p) ==
  /\ \E c \in idle[p] :
       /\ idle' = [idle EXCEPT ![p] = @ \ {c}]
       /\ dead' = dead \cup {c}
  /\ UNCHANGED <<port, stage, busy, lost, phase>>

\* The proxy closes: the requests that have been answered end.
Close ==
  /\ phase = "open"
  /\ LET answered == {j \in Job : stage[j] = "answered"}
     IN  /\ stage' = [j \in Job |-> IF j \in answered THEN "over" ELSE stage[j]]
         /\ busy' = [j \in Job |-> IF j \in answered THEN NoConn ELSE busy[j]]
         /\ dead' = dead \cup {busy[j] : j \in answered}
  /\ phase' = "closing"
  /\ UNCHANGED <<port, idle, lost>>

Shut ==
  /\ phase = "closing"
  /\ \A p \in Port : idle[p] = {}
  /\ phase' = "shut"
  /\ UNCHANGED <<port, stage, busy, idle, dead, lost>>

Next ==
  \/ \E j \in Job : Make(j) \/ Reuse(j) \/ Replace(j) \/ Answer(j) \/ Park(j)
  \/ \E j \in Job : Drop(j) \/ Lose(j) \/ GiveUp(j)
  \/ \E p \in Port : Expire(p)
  \/ Close \/ Shut

Spec == Init /\ [][Next]_vars
===============================================================================
