----------------------------- MODULE HttpExchange ------------------------------
(***************************************************************************)
(* What the tunnel server can rely on for the requests of one session: the *)
(* client serves them a bounded number at a time, and the reply to each is *)
(* HEAD, BODY 1, BODY 2, ... END with no chunk missing, or any beginning   *)
(* of that with an ERROR after it.  An exchange that is over says no more. *)
(***************************************************************************)
EXTENDS Naturals, Sequences, FiniteSets

CONSTANTS Req, MaxConcurrent

VARIABLES
  state,  \* [Req -> States]
  reply   \* [Req -> Seq([op, n])]

vars == <<state, reply>>

States == {"none", "waiting", "open", "over"}

Init ==
  /\ state = [r \in Req |-> "none"]
  /\ reply = [r \in Req |-> <<>>]

Accept(r) ==
  /\ state[r] = "none"
  /\ state' = [state EXCEPT ![r] = "waiting"]
  /\ UNCHANGED reply

Open(r) ==
  /\ state[r] = "waiting"
  /\ Cardinality({q \in Req : state[q] = "open"}) < MaxConcurrent
  /\ state' = [state EXCEPT ![r] = "open"]
  /\ UNCHANGED reply

\* The frames that may follow the reply `s'.
Follows(s, f) ==
  LET over == s # <<>> /\ s[Len(s)].op \in {"END", "ERROR"}
  IN  /\ ~ over
      /\ \/ f.op = "HEAD" /\ s = <<>>
         \/ f.op = "BODY" /\ s # <<>> /\ f.n = Len(s)
         \/ f.op = "END" /\ s # <<>> /\ f.n = Len(s) - 1
         \/ f.op = "ERROR"

\* The reply grows by the one frame its next value ends with.
Emit(r) ==
  /\ state[r] = "open"
  /\ LET s == reply'[r]
     IN  /\ Len(s) = Len(reply[r]) + 1
         /\ Follows(reply[r], s[Len(s)])
         /\ reply' = [reply EXCEPT ![r] = Append(@, s[Len(s)])]
  /\ UNCHANGED state

\* One exchange ends, or every one that is left when the client exits.
Finish ==
  /\ \E S \in SUBSET {r \in Req : state[r] \in {"waiting", "open"}} :
       /\ S # {}
       /\ state' = [r \in Req |-> IF r \in S THEN "over" ELSE state[r]]
  /\ UNCHANGED reply

Next == (\E r \in Req : Accept(r) \/ Open(r) \/ Emit(r)) \/ Finish

Spec == Init /\ [][Next]_vars
===============================================================================
