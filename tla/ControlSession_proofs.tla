------------------------- MODULE ControlSession_proofs -------------------------
(***************************************************************************)
(* Proofs about ControlSession for every number of sessions and every      *)
(* backoff: its types, the heartbeat that every session has, and that it   *)
(* implements ControlLink.                                                 *)
(***************************************************************************)
EXTENDS ControlSession, TLAPS

\* From the dial on, until the finally block has reset it, ws is the connection
\* of the session; while that is up, the heartbeat loop of this very session is
\* alive, and the read loop has only returned from one that was closed.
Connected ==
  /\ ws \in {0, sessions}
  /\ ws = 0 <=> link = "none"
  /\ at \in {"authAck", "registerAck", "gather", "closeRelays", "closeWs"} => ws # 0
  /\ at = "gather" /\ reader = "returned" => link = "closed"
  /\ at = "gather" /\ link = "up" => beat[ws] \in {"waiting", "locked"}

IInv == TypeOK /\ Connected

\* Before the first connection.
LEMMA InitIInv == Init => IInv
<1> SUFFICES ASSUME Init PROVE IInv
  OBVIOUS
<1>1. backoff \in FirstBackoff .. MaxBackoff
  BY SessionAssumption DEF Init
<1>2. beat \in [Sessions -> Beats]
  BY DEF Init, Beats
<1>3. ws \in 0 .. MaxSessions /\ sessions \in 0 .. MaxSessions
  BY SessionAssumption DEF Init
<1> QED
  BY <1>1, <1>2, <1>3 DEF Init, IInv, TypeOK, Connected, Places, Excs, Readers

\* Each step of the client, the server and the network.
LEMMA NextIInv == IInv /\ [Next]_vars => IInv'
<1> SUFFICES ASSUME IInv, [Next]_vars PROVE IInv'
  OBVIOUS
<1> USE SessionAssumption DEF IInv, TypeOK, Connected, Places, Excs, Readers, Beats, Sessions
<1>1. CASE Dial
  BY <1>1 DEF Dial
<1>2. CASE DialFails
  BY <1>2 DEF DialFails
<1>3. CASE Authenticated \/ SendRefused
  BY <1>3 DEF Authenticated, SendRefused
<1>4. CASE AckFails
  BY <1>4 DEF AckFails
<1>5. CASE Registered
  BY <1>5 DEF Registered
<1>6. CASE SaveFails
  BY <1>6 DEF SaveFails
<1>7. CASE CloseRelays
  BY <1>7 DEF CloseRelays
<1>8. CASE CloseWs
  BY <1>8 DEF CloseWs
<1>9. CASE Wake
  BY <1>9 DEF Wake
<1>10. CASE ReaderRaises
  BY <1>10 DEF ReaderRaises, GatherRaises
<1>11. CASE ReaderReturns
  BY <1>11 DEF ReaderReturns
<1>12. CASE Drop
  BY <1>12 DEF Drop
<1>13. CASE Interrupt
  BY <1>13 DEF Interrupt, GatherRaises
<1>14. ASSUME NEW s \in Sessions, BeatFires(s) PROVE IInv'
  BY <1>14 DEF BeatFires
<1>15. ASSUME NEW s \in Sessions, BeatSends(s) PROVE IInv'
  BY <1>15 DEF BeatSends, GatherRaises
<1>16. CASE UNCHANGED vars
  BY <1>16 DEF vars
<1>17. CASE ReaderBlocks \/ ReaderUnblocks
  BY <1>17 DEF ReaderBlocks, ReaderUnblocks
<1>18. CASE FeedRaises
  BY <1>18 DEF FeedRaises, GatherRaises
<1> QED
  BY <1>1, <1>2, <1>3, <1>4, <1>5, <1>6, <1>7, <1>8, <1>9, <1>10, <1>11, <1>12,
     <1>13, <1>14, <1>15, <1>16, <1>17, <1>18 DEF Next, MainStep

\* What the proofs below start from.
LEMMA AlwaysIInv == Spec => []IInv
  BY InitIInv, NextIInv, PTL DEF Spec

\* TypeOK is an invariant: the backoff stays within its limits.
THEOREM TypeCorrect == Spec => []TypeOK
<1>1. IInv => TypeOK
  BY DEF IInv
<1> QED
  BY <1>1, AlwaysIInv, PTL

\* Every session whose connection is up has a live heartbeat loop.
THEOREM SessionsKeptAlive == Spec => []KeptAlive
<1>1. IInv => KeptAlive
  BY SessionAssumption DEF IInv, TypeOK, Connected, KeptAlive, Sessions
<1> QED
  BY <1>1, AlwaysIInv, PTL

\* No heartbeat that fails ends or redirects the session.
THEOREM HeartbeatsHarmless == Spec => HeartbeatHarmless
<1>1. IInv /\ [Next]_vars =>
        [(\E s \in Sessions : beat'[s] = "failed" /\ beat[s] # "failed") => UNCHANGED <<at, exc>>]_vars
  <2> SUFFICES ASSUME IInv, Next,
                      NEW s \in Sessions, beat'[s] = "failed", beat[s] # "failed"
               PROVE  UNCHANGED <<at, exc>>
    OBVIOUS
  <2>1. PICK q \in Sessions : BeatSends(q)
    BY SessionAssumption DEF Next, MainStep, IInv, TypeOK, Connected, Sessions, Beats,
       Dial, DialFails, Authenticated, SendRefused, AckFails, Registered, SaveFails, CloseRelays, CloseWs,
       Wake, ReaderRaises, ReaderReturns, ReaderBlocks, ReaderUnblocks, FeedRaises, Drop, Interrupt, GatherRaises, BeatFires
  <2> QED
    BY <2>1, SessionAssumption DEF BeatSends, IInv, TypeOK, Connected, Sessions
<1> QED
  BY <1>1, AlwaysIInv, PTL DEF Spec, HeartbeatHarmless

-----------------------------------------------------------------------------
(* The refinement *)

\* Before the first connection the link is in its initial state.
LEMMA InitLink == Init => Link!LinkInit
  BY DEF Init, Link!LinkInit, Link!NoSocket

\* Each step of a session is one of the link, or leaves the link alone.
LEMMA NextLink == IInv /\ [Next]_vars => [Link!LinkStep]_Link!linkVars
<1> SUFFICES ASSUME IInv, [Next]_vars PROVE Link!LinkStep \/ UNCHANGED Link!linkVars
  BY DEF Link!linkVars
<1> USE DEF IInv, TypeOK, Places, Link!linkVars, Link!LinkStep
<1>1. CASE Dial
  BY <1>1 DEF Dial, Link!Connect
<1>2. CASE DialFails
  BY <1>2 DEF DialFails, Link!GiveUp
<1>3. CASE Authenticated \/ SendRefused
  BY <1>3 DEF Authenticated, SendRefused, Link!HandshakeAborts
<1>4. CASE AckFails
  BY <1>4 DEF AckFails, Link!GiveUp
<1>5. CASE Registered
  BY <1>5 DEF Registered, Link!Register
<1>6. CASE SaveFails
  BY <1>6 DEF SaveFails, Link!HandshakeAborts
<1>7. CASE CloseRelays
  BY <1>7 DEF CloseRelays
<1>8. CASE CloseWs
  BY <1>8 DEF CloseWs, Link!Close, Link!NoSocket
<1>9. CASE Wake
  BY <1>9 DEF Wake
<1>10. CASE ReaderRaises
  BY <1>10 DEF ReaderRaises, GatherRaises, Link!RelayRaises, Link!Leave
<1>11. CASE ReaderReturns
  BY <1>11 DEF ReaderReturns, Link!ReadLoopReturns
<1>12. CASE Drop
  BY <1>12 DEF Drop, Link!Drop
<1>13. CASE Interrupt
  BY <1>13 DEF Interrupt, GatherRaises, Link!Leave, Link!GiveUp, Link!CloseInterrupted
<1>14. ASSUME NEW s \in Sessions, BeatFires(s) PROVE UNCHANGED Link!linkVars
  BY <1>14 DEF BeatFires
<1>15. ASSUME NEW s \in Sessions, BeatSends(s) PROVE Link!LinkStep \/ UNCHANGED Link!linkVars
  BY <1>15 DEF BeatSends, GatherRaises, Link!Leave
<1>16. CASE UNCHANGED vars
  BY <1>16 DEF vars
<1>17. CASE ReaderBlocks \/ ReaderUnblocks
  BY <1>17 DEF ReaderBlocks, ReaderUnblocks
<1>18. CASE FeedRaises
  BY <1>18 DEF FeedRaises, GatherRaises, Link!RelayRaises
<1> QED
  BY <1>1, <1>2, <1>3, <1>4, <1>5, <1>6, <1>7, <1>8, <1>9, <1>10, <1>11, <1>12,
     <1>13, <1>14, <1>15, <1>16, <1>17, <1>18 DEF Next, MainStep

\* The main task, its read loop and its heartbeats implement ControlLink.
THEOREM SessionImplementsLink == Spec => ImplementsLink
  BY InitLink, NextLink, AlwaysIInv, PTL DEF Spec, ImplementsLink, Link!LinkSpec

\* What ControlLink guarantees of ws and its connection, for the tasks of
\* TunnelClient.run that implement it.
THEOREM SessionLinkConsistent == Spec => [](Link!LinkTypeOK /\ Link!LinkInv)
<1>1. IInv => Link!LinkTypeOK /\ Link!LinkInv
  BY DEF IInv, TypeOK, Connected, Places, Link!LinkTypeOK, Link!Phases, Link!LinkStates,
     Link!LinkInv, Link!NoSocket
<1> QED
  BY <1>1, AlwaysIInv, PTL
===============================================================================
