------------------------------ MODULE DeviceLogin ------------------------------
(***************************************************************************)
(* `jtunnel login': a device code, polled for until the user has decided in  *)
(* the browser, and the two files written after it.                          *)
(*                                                                           *)
(* Time is what time.time() - start says, up to a cap the code cannot tell   *)
(* from later times.                                                         *)
(***************************************************************************)
EXTENDS Naturals

CONSTANTS
  Interval,      \* sleep between two polls (2 s)
  Grace,         \* EXPIRED_GRACE_SECONDS (60 s)
  Timeout,       \* timeout of poll_device_token (600 s)
  RequestLimit   \* longest time one request takes (httpx: 10 s for each of its waits)

ASSUME LoginAssumption ==
  /\ Interval \in Nat \ {0} /\ RequestLimit \in Nat
  /\ Timeout \in Nat /\ Grace \in 0 .. Timeout

VARIABLES
  login,     \* where _do_login is, see LoginPlaces
  code,      \* the server's record of the device code, see Codes
  elapsed,   \* time since the first poll
  written    \* files this login has written

loginVars == <<login, code, elapsed, written>>

\* "crashed": left by an exception nobody catches; "failed": by one _do_login
\* reports, a cancel among them.
LoginPlaces ==
  {"idle", "starting", "asking", "sleeping", "writeBlock", "writeToken",
   "signedIn", "failed", "crashed"}

LoginEnds == {"signedIn", "failed", "crashed"}

\* "unassigned" is approved by a user who has no port block; "spent" after the
\* token was issued.
Codes == {"none", "pending", "approved", "unassigned", "denied", "expired", "spent"}

Cap == Timeout + Interval + RequestLimit + 1

LoginTypeOK ==
  /\ login \in LoginPlaces
  /\ code \in Codes
  /\ elapsed \in 0 .. Cap
  /\ written \subseteq {"tunnel.json", "device.jwt"}

LoginInit == login = "idle" /\ code = "none" /\ elapsed = 0 /\ written = {}

Later(t) == IF elapsed + t < Cap THEN elapsed + t ELSE Cap

\* Nobody asks for the code again, and the time does not matter any more.
LoginOver(place) == login' = place /\ code' = "none" /\ elapsed' = 0 /\ UNCHANGED written

-----------------------------------------------------------------------------
(* The user and the server *)

UserDecides ==
  /\ code = "pending" /\ login \in {"asking", "sleeping"}
  /\ code' \in {"approved", "unassigned", "denied", "expired"}
  /\ UNCHANGED <<login, elapsed, written>>

\* What the server says of the code.  A worker that does not share the others'
\* store calls any code expired; another error says nothing of it.
Answers ==
  {"expired", "error"}
  \cup {a \in {"token"} : code = "approved"}
  \cup {a \in {"no_tunnel_port_block"} : code = "unassigned"}
  \cup {a \in {"authorization_denied"} : code = "denied"}

-----------------------------------------------------------------------------
(* _do_login *)

LoginStarts ==
  /\ login = "idle" /\ login' = "starting"
  /\ UNCHANGED <<code, elapsed, written>>

FlowStarts ==
  /\ login = "starting" /\ login' = "asking"
  /\ code' = "pending"
  /\ UNCHANGED <<elapsed, written>>

\* An HTTP or OS error is reported; an answer that is not JSON is not caught.
FlowFails ==
  /\ login = "starting"
  /\ \E place \in {"failed", "crashed"} : LoginOver(place)

\* Mutant: an answer `expired' is asked again whatever the time.
NextPoll_NoGrace(answer, now) ==
  IF answer = "token" THEN "writeBlock"
  ELSE IF \/ answer \in {"no_tunnel_port_block", "authorization_denied"}
          \/ answer # "expired" /\ now > Timeout
       THEN "failed" ELSE "sleeping"

\* Mutant: the time limit is only tested with an answer `expired'.
NextPoll_NoLimit(answer, now) ==
  IF answer = "token" THEN "writeBlock"
  ELSE IF \/ answer \in {"no_tunnel_port_block", "authorization_denied"}
          \/ answer = "expired" /\ now >= Grace
       THEN "failed" ELSE "sleeping"

\* What poll_device_token does with an answer it has at the time `now'.
NextPoll(answer, now) ==
  IF answer = "token" THEN "writeBlock"
  ELSE IF \/ answer \in {"no_tunnel_port_block", "authorization_denied"}
          \/ answer = "expired" /\ now >= Grace
          \/ answer # "expired" /\ now > Timeout
       THEN "failed" ELSE "sleeping"

\* The server spends the code on the token it answers with.
PollAnswered ==
  /\ login = "asking"
  /\ \E answer \in Answers, t \in 0 .. RequestLimit :
       IF NextPoll(answer, Later(t)) = "failed" THEN LoginOver("failed")
       ELSE /\ login' = NextPoll(answer, Later(t))
            /\ elapsed' = IF answer = "token" THEN 0 ELSE Later(t)
            /\ code' = IF answer = "token" THEN "spent" ELSE code
            /\ UNCHANGED written

\* httpx.HTTPError is no OSError, and an answer may not be JSON: neither is
\* caught.  The server may have issued the token that is lost with the answer.
PollLost == login = "asking" /\ LoginOver("crashed")

PollAgain ==
  /\ login = "sleeping" /\ login' = "asking"
  /\ elapsed' = Later(Interval)
  /\ UNCHANGED <<code, written>>

\* Ctrl+C while it polls is reported, at any other time it ends the command.
LoginCancelled ==
  \/ login \in {"asking", "sleeping"} /\ LoginOver("failed")
  \/ login \in {"starting", "writeBlock", "writeToken"} /\ LoginOver("crashed")

\* Mutant: the token is written first.
WritesBlock_TokenFirst ==
  /\ login = "writeBlock" /\ login' = "writeToken"
  /\ written' = written \cup {"device.jwt"}
  /\ UNCHANGED <<code, elapsed>>

\* The block, when the answer has one beside the token.
WritesBlock ==
  /\ login = "writeBlock" /\ login' = "writeToken"
  /\ written' \in {written, written \cup {"tunnel.json"}}
  /\ UNCHANGED <<code, elapsed>>

WritesToken ==
  /\ login = "writeToken" /\ login' = "signedIn"
  /\ written' = written \cup {"device.jwt"}
  /\ UNCHANGED <<code, elapsed>>

LoginStep ==
  FlowStarts \/ FlowFails \/ PollAnswered \/ PollLost \/ PollAgain \/ WritesBlock \/ WritesToken

LoginNext == UserDecides \/ LoginStarts \/ LoginStep \/ LoginCancelled

-----------------------------------------------------------------------------

\* A login does what it says: no poll is sent later than Timeout and one interval
\* after the first, so that the code is given up at most a request later, however
\* the answers alternate between `expired' and others; device.jwt is written for a
\* code that was approved, by a login that then reports success; and a login that
\* reports a failure has changed no file.
LoginKeepsItsWord ==
  /\ login = "sleeping" => elapsed <= Timeout
  /\ login = "asking" => elapsed <= Timeout + Interval
  /\ "device.jwt" \in written => login = "signedIn" /\ code = "spent"
  /\ login = "failed" => written = {}
===============================================================================
