--------------------------- MODULE ControlLink_proofs ---------------------------
(***************************************************************************)
(* Proofs about ControlLink for every number of sessions.  RequestStream   *)
(* and WsRelay take these steps as they are, and ControlSession implements *)
(* them, so that what holds here holds of all three.                       *)
(***************************************************************************)
EXTENDS ControlLink, TLAPS

\* Before the first session there is no connection to be consistent about.
LEMMA InitLinkInv == LinkInit => LinkTypeOK /\ LinkInv
  BY MaxSessionsAssumption
  DEF LinkInit, LinkTypeOK, Phases, LinkStates, LinkInv, NoSocket

\* Each step of the link.
LEMMA NextLinkInv == LinkTypeOK /\ LinkInv /\ [LinkStep]_linkVars => (LinkTypeOK /\ LinkInv)'
<1> SUFFICES ASSUME LinkTypeOK, LinkInv, [LinkStep]_linkVars
             PROVE  (LinkTypeOK /\ LinkInv)'
  OBVIOUS
<1> USE MaxSessionsAssumption DEF LinkTypeOK, LinkStates, LinkInv, NoSocket
<1>1. CASE Connect
  BY <1>1 DEF Connect, Phases
<1>2. CASE Register
  BY <1>2 DEF Register, Phases
<1>3. CASE HandshakeAborts
  BY <1>3 DEF HandshakeAborts, Phases
<1>4. CASE GiveUp
  BY <1>4 DEF GiveUp, Phases
<1>5. CASE ReadLoopRaises
  BY <1>5 DEF ReadLoopRaises, Phases
<1>6. CASE RelayRaises
  BY <1>6 DEF RelayRaises, Phases
<1>7. CASE ReadLoopReturns
  BY <1>7 DEF ReadLoopReturns, Phases
<1>8. CASE Leave
  BY <1>8 DEF Leave, Phases
<1>9. CASE Close
  BY <1>9 DEF Close, Phases
<1>10. CASE CloseInterrupted
  BY <1>10 DEF CloseInterrupted, Phases
<1>11. ASSUME NEW how \in {"lost", "closed"}, Drop(how) PROVE (LinkTypeOK /\ LinkInv)'
  BY <1>11 DEF Drop
<1>12. CASE UNCHANGED linkVars
  BY <1>12 DEF linkVars
<1> QED
  BY <1>1, <1>2, <1>3, <1>4, <1>5, <1>6, <1>7, <1>8, <1>9, <1>10, <1>11, <1>12 DEF LinkStep

\* Whoever reads self.ws finds the connection of the last session that was
\* opened, and while a session lasts it finds one (tunnel.py:86-172).
THEOREM LinkConsistent == LinkSpec => [](LinkTypeOK /\ LinkInv)
  BY InitLinkInv, NextLinkInv, PTL DEF LinkSpec
===============================================================================
