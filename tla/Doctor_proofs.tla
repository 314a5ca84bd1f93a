------------------------------ MODULE Doctor_proofs ------------------------------
(***************************************************************************)
(* Proofs about Doctor, with the login and the firewall rule it composes,   *)
(* for any intervals and limits, any number of doctors and programs.        *)
(***************************************************************************)
EXTENDS Doctor, TLAPS

\* What a login has written, and what it has been given, by its place.
LoginInv ==
  /\ login \in {"idle", "starting"} => elapsed = 0
  /\ login \in {"idle", "starting", "asking", "sleeping", "writeBlock", "failed"} => written = {}
  /\ login \in {"writeBlock", "writeToken", "signedIn"} => code = "spent"
  /\ "device.jwt" \in written => login = "signedIn"
  /\ login = "sleeping" => elapsed <= Timeout
  /\ login = "asking" => elapsed <= Timeout + Interval

SameProgram(f) == \A g \in Fixer : program[g] = program[f]

\* Scripts that do not overlap: one at most relies on what it has seen, also when
\* it saw too little; a script that has seen all has seen that its program has no
\* rule before it removes the others, and what has been added stays.
FwInv ==
  /\ mishap # "disturbed" =>
       /\ \A f, g \in Fixer : AtWork(f) /\ AtWork(g) => f = g
       /\ \A f \in Fixer : script[f] = "exit 0" => rules[program[f]] > 0
  /\ mishap = "none" =>
       /\ \A f \in Fixer : script[f] \in {"replace", "removed"} => rules[program[f]] = 0
       /\ \A p \in Program : rules[p] <= 1
       /\ \A f \in Fixer : fixer[f] = "added" /\ SameProgram(f) => rules[program[f]] > 0

DoctorTypeOK ==
  /\ windows \in BOOLEAN
  /\ doctor \in [Fixer -> DoctorPlaces]
  /\ status \in [Fixer -> Statuses]
  /\ verdict \in [Fixer -> {"none", "yes", "no", "unknown"}]
  /\ misled \in [Fixer -> BOOLEAN]
  /\ netsh \in [Fixer -> Statuses]
  /\ had \in [Fixer -> SUBSET BOOLEAN]

\* What a doctor has heard of the rule has been so since its check began, or
\* PowerShell missed the rule.
Heard(f) ==
  /\ doctor[f] \in {"ask", "netsh"} => (rules[program[f]] > 0) \in had[f]
  /\ doctor[f] = "netsh" => status[f] \in {"MISSING", "ERROR"}
  /\ doctor[f] = "netsh" /\ status[f] = "MISSING" => FALSE \in had[f] \/ misled[f]
  /\ doctor[f] # "report" => verdict[f] = "none" /\ netsh[f] = "none"
  /\ verdict[f] = "yes" => TRUE \in had[f]
  /\ verdict[f] = "no" => FALSE \in had[f] \/ Misinformed(f)

HeardInv == \A f \in Fixer : Heard(f)

\* A doctor that has had the rule added has seen nothing else since.
AddedInv ==
  mishap = "none" =>
    \A f \in Fixer : fixer[f] = "added" /\ SameProgram(f) => FALSE \notin had[f]

IInv ==
  /\ LoginTypeOK /\ FwTypeOK /\ DoctorTypeOK
  /\ LoginInv /\ FwInv /\ HeardInv /\ AddedInv

-----------------------------------------------------------------------------
(* The login *)

\* The time counted by the login stays within its bound.
LEMMA LaterFacts ==
  ASSUME LoginTypeOK, NEW t \in Nat
  PROVE  /\ Later(t) \in 0 .. Cap
         /\ elapsed <= Timeout /\ t = Interval => Later(t) <= Timeout + Interval
BY LoginAssumption DEF LoginTypeOK, Later, Cap

\* A login that fails or is interrupted keeps what is said of a login.
LEMMA LoginLeft ==
  ASSUME LoginTypeOK, LoginInv, login \notin {"idle", "signedIn"},
         NEW place \in {"failed", "crashed"},
         place = "failed" => login \notin {"writeToken", "crashed"},
         LoginOver(place)
  PROVE  LoginTypeOK' /\ LoginInv'
<1> USE LoginAssumption
<1>1. login' = place /\ code' = "none" /\ elapsed' = 0 /\ written' = written
  BY DEF LoginOver
<1>2. 0 \in 0 .. Cap
  BY DEF Cap
<1>3. LoginTypeOK'
  BY <1>1, <1>2 DEF LoginTypeOK, LoginPlaces, Codes
<1>4. "device.jwt" \notin written
  BY DEF LoginInv
<1>5. place = "failed" => written = {}
  BY DEF LoginInv, LoginTypeOK, LoginPlaces
<1> QED
  BY <1>1, <1>3, <1>4, <1>5 DEF LoginInv

\* So does an answer to a poll,
LEMMA LoginPolls ==
  ASSUME LoginTypeOK, LoginInv, PollAnswered
  PROVE  LoginTypeOK' /\ LoginInv'
<1> USE LoginAssumption
<1>1. PICK answer \in Answers, t \in 0 .. RequestLimit :
        IF NextPoll(answer, Later(t)) = "failed" THEN LoginOver("failed")
        ELSE /\ login' = NextPoll(answer, Later(t))
             /\ elapsed' = IF answer = "token" THEN 0 ELSE Later(t)
             /\ code' = IF answer = "token" THEN "spent" ELSE code
             /\ UNCHANGED written
  BY DEF PollAnswered
<1>2. login = "asking"
  BY DEF PollAnswered
<1>3. Later(t) \in 0 .. Cap /\ Cap \in Nat
  BY LaterFacts DEF Cap
<1>4. CASE NextPoll(answer, Later(t)) = "failed"
  BY <1>1, <1>2, <1>4, LoginLeft
<1>5. CASE NextPoll(answer, Later(t)) # "failed"
  <2>1. NextPoll(answer, Later(t)) \in {"writeBlock", "sleeping"}
    BY <1>5 DEF NextPoll
  <2>2. NextPoll(answer, Later(t)) = "writeBlock" <=> answer = "token"
    BY <1>5 DEF NextPoll
  <2>3. NextPoll(answer, Later(t)) = "sleeping" => Later(t) <= Timeout
    BY <1>3, <1>5 DEF NextPoll
  <2>4. /\ login' = NextPoll(answer, Later(t))
        /\ elapsed' = IF answer = "token" THEN 0 ELSE Later(t)
        /\ code' = IF answer = "token" THEN "spent" ELSE code
        /\ UNCHANGED written
    BY <1>1, <1>5
  <2> HIDE DEF NextPoll, Later, Cap
  <2> QED
    BY <1>2, <1>3, <2>1, <2>2, <2>3, <2>4 DEF LoginTypeOK, LoginInv, LoginPlaces, Codes
<1> QED
  BY <1>4, <1>5

\* and every step of the login.
LEMMA LoginPart ==
  ASSUME LoginTypeOK, LoginInv, LoginNext
  PROVE  LoginTypeOK' /\ LoginInv'
<1> USE LoginAssumption
<1>0. Cap \in Nat
  BY DEF Cap
<1> USE <1>0 DEF LoginTypeOK, LoginInv, LoginPlaces, Codes
<1>1. CASE UserDecides
  BY <1>1 DEF UserDecides
<1>2. CASE LoginStarts
  BY <1>2 DEF LoginStarts
<1>3. CASE FlowStarts
  BY <1>3 DEF FlowStarts
<1>4. CASE FlowFails
  BY <1>4, LoginLeft DEF FlowFails
<1>5. CASE PollAnswered
  BY <1>5, LoginPolls
<1>6. CASE PollLost
  BY <1>6, LoginLeft DEF PollLost
<1>7. CASE PollAgain
  <2>1. Later(Interval) \in 0 .. Cap /\ Later(Interval) <= Timeout + Interval
    BY <1>7, LaterFacts DEF PollAgain
  <2> QED
    BY <1>7, <2>1 DEF PollAgain
<1>8. CASE LoginCancelled
  BY <1>8, LoginLeft DEF LoginCancelled
<1>9. CASE WritesBlock
  BY <1>9 DEF WritesBlock
<1>10. CASE WritesToken
  BY <1>10 DEF WritesToken
<1> QED
  BY <1>1, <1>2, <1>3, <1>4, <1>5, <1>6, <1>7, <1>8, <1>9, <1>10 DEF LoginNext, LoginStep

-----------------------------------------------------------------------------
(* The firewall rule *)

\* The rules of a fixer's program are a number.
LEMMA RuleCount ==
  ASSUME FwTypeOK, NEW f \in Fixer
  PROVE  program[f] \in Program /\ rules[program[f]] \in 0 .. MaxRules /\ rules[program[f]] \in Nat
BY FirewallAssumption DEF FwTypeOK

\* Without rules, each program has none.
LEMMA NoRules ==
  ASSUME rules' = [p \in Program |-> 0]
  PROVE  rules' \in [Program -> 0 .. MaxRules] /\ \A p \in Program : rules'[p] = 0
BY FirewallAssumption

\* New-NetFirewallRule adds one rule, to one program.
LEMMA OneMoreRule ==
  ASSUME FwTypeOK, NEW p \in Program, rules[p] < MaxRules, rules' = [rules EXCEPT ![p] = @ + 1]
  PROVE  /\ rules' \in [Program -> 0 .. MaxRules]
         /\ \A q \in Program : rules'[q] = IF q = p THEN rules[q] + 1 ELSE rules[q]
         /\ \A q \in Program : rules[q] \in Nat
BY FirewallAssumption DEF FwTypeOK

\* A step that leaves the rules alone, starts no script and brings none forward, and
\* believes in a rule only after exit code 0 of a script, keeps what is said of them.
LEMMA RulesAlone ==
  ASSUME FwInv, UNCHANGED <<program, rules, mishap>>,
         \A g \in Fixer : \/ script'[g] = script[g]
                          \/ script'[g] \in {"none", "prompt"}
                          \/ script[g] = "prompt" /\ script'[g] \in {"load", "declined"},
         \A g \in Fixer : fixer'[g] = "added" => fixer[g] = "added" \/ script[g] = "exit 0"
  PROVE  FwInv'
<1>1. \A g \in Fixer : /\ AtWork(g)' => AtWork(g)
                       /\ script'[g] \in {"replace", "removed", "exit 0"} => script'[g] = script[g]
  BY DEF AtWork
<1>2. \A g \in Fixer : SameProgram(g)' <=> SameProgram(g)
  BY DEF SameProgram
<1>3. \A g \in Fixer : mishap = "none" /\ script[g] = "exit 0" => rules[program[g]] > 0
  BY DEF FwInv
<1> QED
  BY <1>1, <1>2, <1>3 DEF FwInv

\* The steps of a fixer outside its script leave the rules alone.
LEMMA FixerPart ==
  ASSUME FwTypeOK, FwInv, NEW f \in Fixer, FixerStep(f)
  PROVE  FwTypeOK' /\ FwInv' /\ rules' = rules /\ mishap' = mishap /\ program' = program
<1> SUFFICES /\ UNCHANGED <<program, rules, mishap>>
             /\ fixer' \in [Fixer -> FixerPlaces] /\ script' \in [Fixer -> ScriptPlaces]
             /\ file' \in {"absent", "partial", "whole"}
             /\ fixer'[f] = "added" => script[f] = "exit 0"
             /\ script'[f] \in {script[f], "none", "prompt"}
             /\ \A g \in Fixer : g # f => fixer'[g] = fixer[g] /\ script'[g] = script[g]
  BY RulesAlone DEF FwTypeOK
<1> USE DEF FwTypeOK, FixerPlaces, ScriptPlaces, ScriptOver, Fixes
<1>1. CASE FixBegins(f)
  BY <1>1 DEF FixBegins
<1>2. CASE Download(f)
  BY <1>2 DEF Download
<1>3. CASE Launch(f)
  BY <1>3 DEF Launch, Unlinks
<1>4. CASE FixReturns(f)
  BY <1>4 DEF FixReturns, Unlinks, FixOutcome
<1>5. CASE FixTimesOut(f)
  BY <1>5 DEF FixTimesOut, Unlinks
<1> QED
  BY <1>1, <1>2, <1>3, <1>4, <1>5 DEF FixerStep

\* When nothing is disturbed, a step of a script takes no rule away from a
\* program for which the rule was added.
LEMMA ScriptPart ==
  ASSUME FwTypeOK, FwInv, NEW f \in Fixer, ScriptStep(f)
  PROVE  /\ FwTypeOK' /\ FwInv'
         /\ fixer' = fixer /\ program' = program
         /\ mishap' = "none" => mishap = "none"
<1> USE DEF FwTypeOK, ScriptPlaces, Scripts, Anyone
<1>1. CASE UserAnswers(f) \/ ScriptForgotten(f)
  <2>1. /\ UNCHANGED <<program, rules, file, fixer, mishap>>
        /\ script' \in [Fixer -> ScriptPlaces]
        /\ \A g \in Fixer : g # f => script'[g] = script[g]
        /\ script'[f] = "none" \/ (script[f] = "prompt" /\ script'[f] \in {"load", "declined"})
    BY <1>1 DEF UserAnswers, ScriptForgotten
  <2> QED
    BY <2>1, RulesAlone
<1>2. CASE ScriptLoads(f)
  <2>1. CASE file = "whole"
    <3>1. /\ UNCHANGED <<program, rules, file, fixer>>
          /\ script[f] = "load" /\ script' \in [Fixer -> ScriptPlaces]
          /\ \A g \in Fixer : g # f => script'[g] = script[g]
          /\ script'[f] = "look"
          /\ mishap' = IF \E g \in Fixer : AtWork(g) THEN "disturbed" ELSE mishap
      BY <1>2, <2>1 DEF ScriptLoads
    <3>2. \A g \in Fixer : g # f => (AtWork(g)' <=> AtWork(g))
      BY <3>1 DEF AtWork
    <3>3. FwTypeOK'
      BY <3>1 DEF Mishaps
    <3>4. mishap' = "disturbed" \/ (mishap' = mishap /\ \A g \in Fixer : ~ AtWork(g))
      BY <3>1
    <3> HIDE DEF FwTypeOK, ScriptPlaces, Scripts, Anyone
    <3> QED
      BY <3>1, <3>2, <3>3, <3>4 DEF FwInv, SameProgram
  <2>2. CASE file # "whole"
    BY <1>2, <2>2 DEF ScriptLoads, FwInv, AtWork, SameProgram
  <2> QED
    BY <2>1, <2>2
<1>3. CASE ScriptLooks(f)
  <2>1. /\ rules' = rules /\ program' = program /\ fixer' = fixer
        /\ mishap' \in Mishaps /\ (mishap' = "disturbed" <=> mishap = "disturbed")
    BY <1>3 DEF ScriptLooks, Mishaps
  <2>2. script[f] = "look" /\ \A g \in Fixer \ {f} : script'[g] = script[g]
    BY <1>3 DEF ScriptLooks
  <2>3. \/ script'[f] = "exit 1"
        \/ script'[f] = "exit 0" /\ rules[program[f]] > 0
        \/ script'[f] \in {"replace", "removed"} /\ (mishap' = "none" => rules[program[f]] = 0)
    BY <1>3 DEF ScriptLooks
  <2>8. mishap' = "none" => mishap = "none"
    BY <1>3 DEF ScriptLooks, Mishaps
  <2>4. script' \in [Fixer -> ScriptPlaces]
    BY <1>3 DEF ScriptLooks
  <2>5. FwTypeOK'
    BY <1>3, <2>1, <2>4 DEF ScriptLooks
  <2>6. \A g \in Fixer : AtWork(g)' => AtWork(g)
    BY <2>2 DEF AtWork
  <2>7. \A g \in Fixer : g # f => script'[g] = script[g]
    BY <2>2
  <2> HIDE DEF FwTypeOK, Anyone, Scripts, ScriptPlaces
  <2> QED
    BY <2>1, <2>3, <2>5, <2>6, <2>7, <2>8 DEF FwInv, SameProgram
<1>4. CASE ScriptRemoves(f)
  <2>1. CASE rules' = rules
    BY <1>4, <2>1 DEF ScriptRemoves, FwInv, AtWork, SameProgram
  <2>2. CASE rules' = [p \in Program |-> 0]
    <3>1. /\ \A p \in Program : rules'[p] = 0
          /\ rules' \in [Program -> 0 .. MaxRules]
      BY <2>2, NoRules
    <3>2. /\ script[f] = "replace" /\ script'[f] = "removed" /\ script' \in [Fixer -> ScriptPlaces]
          /\ \A g \in Fixer \ {f} : script'[g] = script[g]
          /\ program' = program /\ fixer' = fixer /\ mishap' = mishap /\ file' = file
      BY <1>4 DEF ScriptRemoves
    <3>3. FwTypeOK'
      BY <3>1, <3>2
    <3>4. \A g \in Fixer : AtWork(g)' => AtWork(g)
      BY <3>2 DEF AtWork
    <3> HIDE DEF FwTypeOK, Anyone, Scripts, ScriptPlaces
    <3>5. ASSUME mishap # "disturbed", NEW g \in Fixer
          PROVE  script'[g] # "exit 0"
      <4>1. AtWork(f) /\ (script[g] = "exit 0" => AtWork(g))
        BY <3>2 DEF AtWork
      <4> QED
        BY <3>2, <3>5, <4>1 DEF FwInv
    <3>9. ASSUME mishap = "none", NEW g \in Fixer, fixer[g] = "added", SameProgram(g)
          PROVE  FALSE
      <4>1. rules[program[g]] > 0 /\ program[f] = program[g]
        BY <3>9 DEF FwInv, SameProgram
      <4>2. rules[program[f]] = 0
        BY <3>2, <3>9 DEF FwInv
      <4> QED
        BY <4>1, <4>2
    <3>6. \A g \in Fixer : rules'[program'[g]] = 0
      BY <3>1, <3>2 DEF FwTypeOK
    <3>7. \A g \in Fixer : SameProgram(g)' <=> SameProgram(g)
      BY <3>2 DEF SameProgram
    <3>8. \A p \in Program : rules'[p] <= 1
      BY <3>1
    <3> QED
      BY <3>2, <3>3, <3>4, <3>5, <3>6, <3>7, <3>8, <3>9 DEF FwInv
  <2> QED
    BY <1>4, <2>1, <2>2 DEF ScriptRemoves
<1>5. CASE ScriptAdds(f)
  <2>1. CASE Scripts(f, "exit 1") /\ UNCHANGED rules
    BY <1>5, <2>1 DEF ScriptAdds, FwInv, AtWork, SameProgram
  <2>2. CASE /\ Scripts(f, "exit 0") /\ rules[program[f]] < MaxRules
             /\ rules' = [rules EXCEPT ![program[f]] = @ + 1]
    <3>1. /\ \A p \in Program : rules'[p] = IF p = program[f] THEN rules[p] + 1 ELSE rules[p]
          /\ rules' \in [Program -> 0 .. MaxRules]
          /\ \A p \in Program : rules[p] \in Nat
      BY <2>2, RuleCount, OneMoreRule
    <3>2. /\ script[f] = "removed" /\ script'[f] = "exit 0" /\ script' \in [Fixer -> ScriptPlaces]
          /\ \A g \in Fixer \ {f} : script'[g] = script[g]
          /\ program' = program /\ fixer' = fixer /\ mishap' = mishap /\ file' = file
      BY <1>5, <2>2 DEF ScriptAdds
    <3>3. FwTypeOK'
      BY <3>1, <3>2
    <3>4. mishap = "none" => rules[program[f]] = 0
      BY <3>2 DEF FwInv
    <3>5. \A g \in Fixer : AtWork(g)' => AtWork(g)
      BY <3>2 DEF AtWork
    <3>6. ASSUME mishap = "none", NEW g \in Fixer, script'[g] \in {"replace", "removed"}
          PROVE  FALSE
      <4>1. AtWork(f) /\ AtWork(g) /\ g # f
        BY <3>2, <3>6 DEF AtWork
      <4> QED
        BY <3>6, <4>1 DEF FwInv
    <3>7. \A g \in Fixer : rules[program[g]] \in Nat /\ program[g] \in Program
      BY RuleCount
    <3> HIDE DEF FwTypeOK, Anyone, Scripts, ScriptPlaces
    <3>8. \A g \in Fixer : SameProgram(g)' <=> SameProgram(g)
      BY <3>2 DEF SameProgram
    <3>9. ASSUME NEW g \in Fixer, rules[program[g]] > 0
          PROVE  rules'[program'[g]] > 0
      <4>1. /\ program[g] \in Program /\ program'[g] = program[g]
            /\ rules[program[g]] \in Nat
        BY <3>2, RuleCount
      <4>2. \/ rules'[program[g]] = rules[program[g]]
            \/ rules'[program[g]] = rules[program[g]] + 1
        BY <3>1, <4>1
      <4> QED
        BY <3>9, <4>1, <4>2
    <3>10. ASSUME mishap # "disturbed", NEW g \in Fixer, script'[g] = "exit 0"
           PROVE  rules'[program'[g]] > 0
      <4>1. CASE g = f
        <5>1. program[f] \in Program /\ rules[program[f]] \in Nat /\ program' = program
          BY <3>2, RuleCount
        <5>2. rules'[program[f]] = rules[program[f]] + 1
          BY <3>1, <5>1
        <5> QED
          BY <4>1, <5>1, <5>2
      <4>2. CASE g # f
        BY <3>2, <3>9, <3>10, <4>2 DEF FwInv
      <4> QED
        BY <4>1, <4>2
    <3>11. ASSUME mishap = "none", NEW p \in Program
           PROVE  rules'[p] <= 1
      <4>1. rules[p] \in Nat /\ rules[p] <= 1
        BY <3>1, <3>11 DEF FwInv
      <4>2. rules'[p] = IF p = program[f] THEN rules[p] + 1 ELSE rules[p]
        BY <3>1
      <4> QED
        BY <3>4, <3>11, <4>1, <4>2
    <3> QED
      BY <3>2, <3>3, <3>5, <3>6, <3>8, <3>9, <3>10, <3>11 DEF FwInv
  <2> QED
    BY <1>5, <2>1, <2>2 DEF ScriptAdds
<1> QED
  BY <1>1, <1>2, <1>3, <1>4, <1>5 DEF ScriptStep

\* A rule that someone else removes is noted as a disturbance.
LEMMA RemovedPart ==
  ASSUME FwTypeOK, RuleRemoved
  PROVE  FwTypeOK' /\ FwInv' /\ mishap' = "disturbed"
BY NoRules DEF RuleRemoved, FwTypeOK, FwInv, Mishaps

-----------------------------------------------------------------------------
(* The doctors *)

\* What a step means to `had'.
LEMMA ObservesFacts ==
  ASSUME DoctorTypeOK, Observes, NEW f \in Fixer
  PROVE  /\ doctor[f] \in {"ask", "netsh"} => had'[f] = had[f] \cup {rules'[program[f]] > 0}
         /\ doctor[f] = "connect" /\ doctor'[f] = "ask" => had'[f] = {rules[program[f]] > 0}
         /\ doctor[f] = "report" /\ doctor'[f] = "report" => had'[f] = had[f]
         /\ \/ doctor[f] \in {"ask", "netsh"}
            \/ doctor[f] = "connect" /\ doctor'[f] = "ask"
            \/ doctor[f] = "report" /\ doctor'[f] = "report"
            \/ had'[f] = {}
BY DEF Observes

\* What a doctor has seen is a set of answers.
LEMMA HadType ==
  ASSUME DoctorTypeOK, Observes
  PROVE  had' \in [Fixer -> SUBSET BOOLEAN]
<1>1. had' = [f \in Fixer |-> had'[f]]
  BY DEF Observes
<1>2. ASSUME NEW f \in Fixer PROVE had'[f] \in SUBSET BOOLEAN
  <2>1. had[f] \subseteq BOOLEAN
    BY DEF DoctorTypeOK
  <2>2. (rules'[program[f]] > 0) \in BOOLEAN /\ (rules[program[f]] > 0) \in BOOLEAN
    OBVIOUS
  <2>3. \/ had'[f] = had[f] \cup {rules'[program[f]] > 0}
        \/ had'[f] = {rules[program[f]] > 0}
        \/ had'[f] \in {had[f], {}}
    BY ObservesFacts
  <2> QED
    BY <2>1, <2>2, <2>3
<1> QED
  BY <1>1, <1>2

\* What a doctor has heard goes on being what was so during its check.
LEMMA HeardStays ==
  ASSUME DoctorTypeOK, Observes, program' = program, NEW f \in Fixer, Heard(f),
         doctor'[f] = doctor[f], status'[f] = status[f], verdict'[f] = verdict[f],
         misled'[f] = misled[f], netsh'[f] = netsh[f]
  PROVE  Heard(f)'
<1>1. CASE doctor[f] \in {"ask", "netsh"}
  <2>1. had'[f] = had[f] \cup {rules'[program'[f]] > 0}
    BY <1>1, ObservesFacts
  <2> QED
    BY <1>1, <2>1 DEF Heard, Misinformed
<1>2. CASE doctor[f] = "report"
  <2>1. had'[f] = had[f]
    BY <1>2, ObservesFacts
  <2> QED
    BY <1>2, <2>1 DEF Heard, Misinformed
<1>3. CASE doctor[f] \notin {"ask", "netsh", "report"}
  BY <1>3 DEF Heard, Misinformed
<1> QED
  BY <1>1, <1>2, <1>3

\* A doctor whose fixer has added the rule goes on seeing it.
LEMMA AddedPart ==
  ASSUME DoctorTypeOK, Observes, AddedInv, FwInv, FwInv', program' = program,
         mishap' = "none" => mishap = "none",
         \A f \in Fixer : fixer'[f] = "added" => fixer[f] = "added" \/ had'[f] = {}
  PROVE  AddedInv'
<1> SUFFICES ASSUME mishap' = "none", NEW f \in Fixer, fixer'[f] = "added", SameProgram(f)'
             PROVE  FALSE \notin had'[f]
  BY DEF AddedInv
<1>1. CASE fixer[f] # "added"
  BY <1>1
<1>2. CASE fixer[f] = "added"
  <2>1. SameProgram(f)
    BY DEF SameProgram
  <2>2. rules'[program[f]] > 0 /\ rules[program[f]] > 0 /\ FALSE \notin had[f]
    BY <1>2, <2>1 DEF FwInv, AddedInv
  <2>3. CASE doctor[f] \in {"ask", "netsh"}
    BY <2>2, <2>3, ObservesFacts
  <2>4. CASE doctor[f] \notin {"ask", "netsh"}
    BY <2>2, <2>4, ObservesFacts
  <2> QED
    BY <2>3, <2>4
<1> QED
  BY <1>1, <1>2

\* A login, a script or an uninstaller is at work; no doctor moves.
LEMMA OthersPart ==
  ASSUME DoctorTypeOK, HeardInv, AddedInv, FwInv, FwInv', Observes,
         UNCHANGED <<windows, doctor, told, fixer, program>>,
         mishap' = "none" => mishap = "none"
  PROVE  DoctorTypeOK' /\ HeardInv' /\ AddedInv'
<1>1. DoctorTypeOK'
  BY HadType DEF DoctorTypeOK, told
<1>2. HeardInv'
  BY HeardStays DEF HeardInv, told
<1>3. AddedInv'
  BY AddedPart
<1> QED
  BY <1>1, <1>2, <1>3

\* A doctor that runs the fixer keeps the invariant.
LEMMA FixingPart ==
  ASSUME IInv, NEW f \in Fixer, Fixing(f), Observes
  PROVE  IInv'
<1> USE DEF IInv
<1>1. FwTypeOK' /\ FwInv' /\ rules' = rules /\ mishap' = mishap /\ program' = program
  BY FixerPart DEF Fixing
<1>2. LoginTypeOK' /\ LoginInv'
  BY DEF Fixing, loginVars, LoginTypeOK, LoginInv, Cap
<1>3. /\ doctor[f] = "fix" /\ doctor'[f] \in {"fix", "connect", "failed", "crashed"}
      /\ doctor' \in [Fixer -> DoctorPlaces]
      /\ \A g \in Fixer : g # f => doctor'[g] = doctor[g]
      /\ UNCHANGED <<windows, told>>
  BY DEF Fixing, Visits, DoctorTypeOK, DoctorPlaces
<1>4. \A g \in Fixer : g # f => fixer'[g] = fixer[g]
  BY DEF Fixing, FixerStep, FixBegins, Download, Launch, FixReturns, FixTimesOut, Fixes, Unlinks,
         FwTypeOK
<1>5. had'[f] = {}
  BY <1>3, ObservesFacts
<1>6. DoctorTypeOK'
  BY <1>3, HadType DEF DoctorTypeOK, told
<1>7. HeardInv'
  <2>1. Heard(f)'
    BY <1>3, <1>5 DEF HeardInv, Heard, Misinformed, told
  <2>2. \A g \in Fixer : g # f => Heard(g)'
    BY <1>1, <1>3, HeardStays DEF HeardInv, told
  <2> QED
    BY <2>1, <2>2 DEF HeardInv
<1>8. AddedInv'
  BY <1>1, <1>4, <1>5, AddedPart
<1> QED
  BY <1>1, <1>2, <1>6, <1>7, <1>8

\* The steps of a doctor that leave the rule alone.
DoctorAlone(f) ==
  DoctorBegins(f) \/ Connects(f) \/ AsksPowerShell(f) \/ AsksNetshToo(f) \/ Reports(f)

\* The doctor's own steps touch neither the login nor the rules.
LEMMA AloneFacts ==
  ASSUME DoctorTypeOK, NEW f \in Fixer, DoctorAlone(f)
  PROVE  /\ LoginGone \/ UNCHANGED loginVars
         /\ UNCHANGED <<fwVars, windows>>
         /\ doctor' \in [Fixer -> DoctorPlaces]
         /\ status' \in [Fixer -> Statuses]
         /\ verdict' \in [Fixer -> {"none", "yes", "no", "unknown"}]
         /\ misled' \in [Fixer -> BOOLEAN] /\ netsh' \in [Fixer -> Statuses]
         /\ \A g \in Fixer : g # f =>
              /\ doctor'[g] = doctor[g] /\ status'[g] = status[g] /\ verdict'[g] = verdict[g]
              /\ misled'[g] = misled[g] /\ netsh'[g] = netsh[g]
<1> USE DEF DoctorTypeOK, DoctorPlaces, Visits, Statuses, told
<1>1. CASE DoctorBegins(f)
  BY <1>1 DEF DoctorBegins
<1>2. CASE Connects(f)
  BY <1>2 DEF Connects
<1>3. CASE AsksPowerShell(f)
  <2>1. PICK s \in PowerShellSays(program[f]) :
          /\ status' = [status EXCEPT ![f] = s]
          /\ misled' = [misled EXCEPT ![f] = Misleads(s, program[f])]
          /\ IF AsksNetsh(s) THEN Visits(f, "netsh") /\ UNCHANGED verdict
             ELSE Visits(f, "report") /\ verdict' = [verdict EXCEPT ![f] = Verdict(s)]
    BY <1>3 DEF AsksPowerShell
  <2>2. s \in {"OK", "MISSING", "MISMATCH", "ERROR"}
    BY DEF PowerShellSays, RuleState
  <2>3. Verdict(s) \in {"yes", "no", "unknown"}
    BY <2>2 DEF Verdict
  <2>4. Misleads(s, program[f]) \in BOOLEAN
    BY DEF Misleads
  <2>5. UNCHANGED <<loginVars, fwVars, windows, netsh>>
    BY <1>3 DEF AsksPowerShell
  <2>6. status' \in [Fixer -> Statuses] /\ misled' \in [Fixer -> BOOLEAN]
    BY <2>1, <2>2, <2>4
  <2>7. doctor' \in [Fixer -> DoctorPlaces] /\ verdict' \in [Fixer -> {"none", "yes", "no", "unknown"}]
    BY <2>1, <2>3
  <2>8. \A g \in Fixer : g # f =>
          /\ doctor'[g] = doctor[g] /\ status'[g] = status[g] /\ verdict'[g] = verdict[g]
          /\ misled'[g] = misled[g] /\ netsh'[g] = netsh[g]
    BY <2>1, <2>5
  <2> QED
    BY <2>5, <2>6, <2>7, <2>8
<1>4. CASE AsksNetshToo(f)
  <2>1. PICK s \in NetshSays(program[f]) :
          /\ verdict' = [verdict EXCEPT ![f] = Verdict(Merged(status[f], s))]
          /\ netsh' = [netsh EXCEPT ![f] = s]
    BY <1>4 DEF AsksNetshToo
  <2>2. s \in {"OK", "MISSING", "MISMATCH", "ERROR"}
    BY DEF NetshSays, RuleState
  <2>3. Verdict(Merged(status[f], s)) \in {"yes", "no", "unknown"}
    BY <2>2 DEF Verdict, Merged
  <2> QED
    BY <1>4, <2>1, <2>2, <2>3 DEF AsksNetshToo
<1>5. CASE Reports(f)
  BY <1>5 DEF Reports, Forgets
<1> QED
  BY <1>1, <1>2, <1>3, <1>4, <1>5 DEF DoctorAlone

\* The state PowerShell finds says whether there is a rule.
LEMMA RuleStates ==
  ASSUME NEW f \in Fixer
  PROVE  /\ RuleState(program[f]) \in {"OK", "MISSING", "MISMATCH"}
         /\ RuleState(program[f]) = "OK" <=> rules[program[f]] > 0
BY DEF RuleState

\* PowerShell's answer was so during the check,
LEMMA AskHeard ==
  ASSUME DoctorTypeOK, Observes, NEW f \in Fixer, Heard(f), AsksPowerShell(f)
  PROVE  Heard(f)'
<1>1. PICK s \in PowerShellSays(program[f]) :
        /\ status' = [status EXCEPT ![f] = s]
        /\ misled' = [misled EXCEPT ![f] = Misleads(s, program[f])]
        /\ IF AsksNetsh(s) THEN Visits(f, "netsh") /\ UNCHANGED verdict
           ELSE Visits(f, "report") /\ verdict' = [verdict EXCEPT ![f] = Verdict(s)]
  BY DEF AsksPowerShell
<1>2. /\ doctor[f] = "ask" /\ rules' = rules /\ program' = program /\ verdict[f] = "none"
      /\ netsh[f] = "none" /\ netsh' = netsh
  BY DEF AsksPowerShell, fwVars, Heard
<1>3. had'[f] = had[f] \cup {rules[program[f]] > 0} /\ (rules[program[f]] > 0) \in had[f]
  BY <1>2, ObservesFacts DEF Heard
<1>4. /\ s \in {"OK", "MISSING", "MISMATCH", "ERROR"}
      /\ s = "OK" => TRUE \in had'[f]
      /\ s \in {"MISSING", "MISMATCH"} => FALSE \in had'[f] \/ misled'[f]
  <2>1. /\ rules[program[f]] > 0 => TRUE \in had'[f]
        /\ ~ (rules[program[f]] > 0) => FALSE \in had'[f]
    <3> DEFINE has == rules[program[f]] > 0
    <3>1. has \in BOOLEAN /\ has \in had'[f]
      BY <1>3
    <3> HIDE DEF has
    <3>2. /\ has => TRUE \in had'[f]
          /\ ~ has => FALSE \in had'[f]
      BY <3>1
    <3> QED
      BY <3>2 DEF has
  <2>2. misled'[f] = Misleads(s, program[f])
    BY <1>1 DEF DoctorTypeOK
  <2>3. s \in {"OK", "MISSING", "MISMATCH", "ERROR"} /\ (s = "OK" => rules[program[f]] > 0)
    BY RuleStates DEF PowerShellSays
  <2> QED
    BY <2>1, <2>2, <2>3 DEF Misleads
<1>5. CASE AsksNetsh(s)
  <2>1. doctor'[f] = "netsh" /\ status'[f] = s /\ verdict'[f] = "none" /\ netsh'[f] = "none"
    BY <1>1, <1>2, <1>5 DEF Visits, DoctorTypeOK
  <2> QED
    BY <1>2, <1>3, <1>4, <1>5, <2>1 DEF Heard, AsksNetsh
<1>6. CASE ~ AsksNetsh(s)
  <2>1. doctor'[f] = "report" /\ verdict'[f] = Verdict(s)
    BY <1>1, <1>6 DEF Visits, DoctorTypeOK
  <2>2. /\ Verdict(s) = "yes" => s = "OK"
        /\ Verdict(s) = "no" => s \in {"MISSING", "MISMATCH"}
    BY <1>4 DEF Verdict
  <2> QED
    BY <1>2, <1>4, <2>1, <2>2 DEF Heard, Misinformed
<1> QED
  BY <1>5, <1>6

\* and so is its merge with netsh's.
LEMMA NetshHeard ==
  ASSUME DoctorTypeOK, Observes, NEW f \in Fixer, Heard(f), AsksNetshToo(f)
  PROVE  Heard(f)'
<1>1. PICK s \in NetshSays(program[f]) :
        /\ verdict' = [verdict EXCEPT ![f] = Verdict(Merged(status[f], s))]
        /\ netsh' = [netsh EXCEPT ![f] = s]
  BY DEF AsksNetshToo
<1>2. doctor[f] = "netsh" /\ doctor'[f] = "report" /\ rules' = rules /\ program' = program
  BY DEF AsksNetshToo, fwVars, Visits, DoctorTypeOK
<1>3. had'[f] = had[f] \cup {rules[program[f]] > 0}
  BY <1>2, ObservesFacts
<1>4. /\ s \in {"OK", "MISSING", "MISMATCH", "ERROR"}
      /\ s = "OK" => TRUE \in had'[f]
      /\ s \in {"MISSING", "MISMATCH"} => FALSE \in had'[f]
  <2>1. /\ rules[program[f]] > 0 => TRUE \in had'[f]
        /\ ~ (rules[program[f]] > 0) => FALSE \in had'[f]
    <3> DEFINE has == rules[program[f]] > 0
    <3>1. has \in BOOLEAN /\ has \in had'[f]
      BY <1>3
    <3> HIDE DEF has
    <3>2. /\ has => TRUE \in had'[f]
          /\ ~ has => FALSE \in had'[f]
      BY <3>1
    <3> QED
      BY <3>2 DEF has
  <2> QED
    BY <2>1, RuleStates DEF NetshSays
<1>5. /\ status[f] \in {"MISSING", "ERROR"}
      /\ status[f] = "MISSING" => FALSE \in had'[f] \/ misled[f]
  BY <1>2, <1>3 DEF Heard
<1>6. verdict'[f] = Verdict(Merged(status[f], s))
  BY <1>1 DEF DoctorTypeOK
<1>7. /\ Verdict(Merged(status[f], s)) = "yes" => s = "OK"
      /\ Verdict(Merged(status[f], s)) = "no" =>
           s \in {"MISSING", "MISMATCH"} \/ (s = "ERROR" /\ status[f] = "MISSING")
  BY <1>4, <1>5 DEF Verdict, Merged
<1>8. netsh'[f] = s /\ misled' = misled
  BY <1>1 DEF AsksNetshToo, DoctorTypeOK
<1> QED
  BY <1>2, <1>4, <1>5, <1>6, <1>7, <1>8 DEF Heard, Misinformed

\* The doctor's own steps keep the invariant.
LEMMA AlonePart ==
  ASSUME IInv, NEW f \in Fixer, DoctorAlone(f), Observes
  PROVE  IInv'
<1> USE DEF IInv
<1>1. LoginTypeOK' /\ LoginInv'
  <2>1. CASE LoginGone
    BY <2>1, LoginAssumption DEF LoginGone, LoginTypeOK, LoginInv, LoginPlaces, Codes, Cap
  <2>2. CASE UNCHANGED loginVars
    BY <2>2 DEF loginVars, LoginTypeOK, LoginInv, Cap
  <2> QED
    BY <2>1, <2>2, AloneFacts
<1>2. UNCHANGED fwVars
  BY AloneFacts
<1>3. FwTypeOK' /\ FwInv'
  BY <1>2 DEF fwVars, FwTypeOK, FwInv, AtWork, SameProgram
<1>4. DoctorTypeOK'
  BY AloneFacts, HadType DEF DoctorTypeOK, Statuses
<1>5. Heard(f)'
  <2>1. CASE DoctorBegins(f)
    <3>1. /\ doctor[f] = "idle" /\ doctor'[f] \in {"connect", "fix", "failed"}
          /\ verdict' = verdict /\ netsh' = netsh
      BY <2>1 DEF DoctorBegins, Visits, DoctorTypeOK, told
    <3>2. verdict'[f] = "none" /\ netsh'[f] = "none"
      BY <3>1 DEF HeardInv, Heard
    <3> QED
      BY <3>1, <3>2 DEF Heard
  <2>2. CASE Connects(f)
    <3>1. /\ doctor[f] = "connect" /\ doctor'[f] \in {"ask", "report"} /\ verdict'[f] = verdict[f]
          /\ rules' = rules /\ program' = program /\ netsh'[f] = netsh[f]
      BY <2>2 DEF Connects, Visits, DoctorTypeOK, fwVars, told
    <3>2. doctor'[f] = "ask" => had'[f] = {rules[program[f]] > 0}
      BY <3>1, ObservesFacts
    <3> QED
      BY <3>1, <3>2 DEF HeardInv, Heard
  <2>3. CASE AsksPowerShell(f)
    BY <2>3, AskHeard DEF HeardInv
  <2>4. CASE AsksNetshToo(f)
    BY <2>4, NetshHeard DEF HeardInv
  <2>5. CASE Reports(f)
    <3>1. doctor'[f] \in {"passed", "failed"} /\ verdict'[f] = "none" /\ netsh'[f] = "none"
      BY <2>5 DEF Reports, Forgets, Visits, DoctorTypeOK
    <3> QED
      BY <3>1 DEF Heard
  <2> QED
    BY <2>1, <2>2, <2>3, <2>4, <2>5 DEF DoctorAlone
<1>6. HeardInv'
  <2>1. \A g \in Fixer : g # f => Heard(g)'
    BY <1>2, AloneFacts, HeardStays DEF HeardInv, fwVars
  <2> QED
    BY <1>5, <2>1 DEF HeardInv
<1>7. AddedInv'
  BY <1>2, <1>3, AddedPart DEF fwVars
<1> QED
  BY <1>1, <1>3, <1>4, <1>6, <1>7

-----------------------------------------------------------------------------
(* The inductive invariant *)

\* The invariant holds at the start,
LEMMA InitIInv == Init => IInv
<1> SUFFICES ASSUME Init PROVE IInv
  OBVIOUS
<1>1. LoginTypeOK /\ LoginInv
  BY LoginAssumption DEF Init, LoginInit, LoginTypeOK, LoginInv, LoginPlaces, Codes, Cap
<1>2. FwTypeOK /\ FwInv
  <2>1. PICK old \in SUBSET Program : rules = [p \in Program |-> IF p \in old THEN 1 ELSE 0]
    BY DEF Init, FwInit
  <2>2. rules \in [Program -> 0 .. MaxRules] /\ \A p \in Program : rules[p] <= 1
    BY <2>1, FirewallAssumption
  <2>3. \A f \in Fixer : script[f] = "none" /\ fixer[f] = "idle"
    BY DEF Init, FwInit
  <2>4. FwTypeOK
    BY <2>2 DEF Init, FwInit, FwTypeOK, FixerPlaces, ScriptPlaces, Mishaps
  <2> QED
    BY <2>2, <2>3, <2>4 DEF FwInv, AtWork
<1>3. DoctorTypeOK /\ HeardInv /\ AddedInv
  BY DEF Init, DoctorTypeOK, DoctorPlaces, Statuses, HeardInv, Heard, AddedInv
<1> QED
  BY <1>1, <1>2, <1>3 DEF IInv

\* and every step keeps it.
LEMMA NextIInv == IInv /\ [Next]_vars => IInv'
<1> SUFFICES ASSUME IInv, [Next]_vars PROVE IInv'
  OBVIOUS
<1>1. CASE UNCHANGED vars
  <2>1. UNCHANGED <<loginVars, fwVars, doctorVars>>
    BY <1>1 DEF vars
  <2>2. LoginTypeOK' /\ LoginInv'
    BY <2>1 DEF loginVars, IInv, LoginTypeOK, LoginInv, Cap
  <2>3. FwTypeOK' /\ FwInv'
    BY <2>1 DEF fwVars, IInv, FwTypeOK, FwInv, AtWork, SameProgram
  <2>4. DoctorTypeOK' /\ HeardInv' /\ AddedInv'
    BY <2>1 DEF fwVars, doctorVars, told, IInv, DoctorTypeOK, HeardInv, Heard, Misinformed,
                AddedInv, SameProgram
  <2> QED
    BY <2>2, <2>3, <2>4 DEF IInv
<1>2. CASE LoginRuns(LoginNext) /\ Observes
  <2>1. LoginTypeOK' /\ LoginInv'
    BY <1>2, LoginPart DEF LoginRuns, IInv
  <2>2. UNCHANGED <<fwVars, windows, doctor, told>>
    BY <1>2 DEF LoginRuns
  <2>3. FwTypeOK' /\ FwInv'
    BY <2>2 DEF fwVars, IInv, FwTypeOK, FwInv, AtWork, SameProgram
  <2>4. DoctorTypeOK' /\ HeardInv' /\ AddedInv'
    BY <1>2, <2>2, <2>3, OthersPart DEF fwVars, IInv
  <2> QED
    BY <2>1, <2>3, <2>4 DEF IInv
<1>3. CASE (\E f \in Fixer : DoctorBegins(f) \/ DoctorGoesOn(f)) /\ Observes
  BY <1>3, FixingPart, AlonePart DEF DoctorGoesOn, DoctorAlone
<1>4. CASE /\ (\E f \in Fixer : ScriptStep(f)) \/ (RuleRemoved /\ windows)
           /\ UNCHANGED <<loginVars, windows, doctor, told>>
           /\ Observes
  <2>1. LoginTypeOK' /\ LoginInv'
    BY <1>4 DEF loginVars, IInv, LoginTypeOK, LoginInv, Cap
  <2>2. FwTypeOK' /\ FwInv' /\ fixer' = fixer /\ program' = program /\ (mishap' = "none" => mishap = "none")
    <3>1. CASE \E f \in Fixer : ScriptStep(f)
      BY <3>1, ScriptPart DEF IInv
    <3>2. CASE RuleRemoved
      BY <3>2, RemovedPart DEF IInv, RuleRemoved
    <3> QED
      BY <1>4, <3>1, <3>2
  <2>3. DoctorTypeOK' /\ HeardInv' /\ AddedInv'
    BY <1>4, <2>2, OthersPart DEF IInv
  <2> QED
    BY <2>1, <2>2, <2>3 DEF IInv
<1> QED
  BY <1>1, <1>2, <1>3, <1>4 DEF Next

\* So it holds throughout, of the login, the rules and the doctors.
THEOREM Invariance == Spec => []IInv
BY InitIInv, NextIInv, PTL DEF Spec

-----------------------------------------------------------------------------
(* What follows from it *)

\* Every variable keeps its type: a login, a fixer and a doctor are at places
\* of the code, and there are never more rules than the bound.
THEOREM TypeCorrect == Spec => []TypeOK
<1>1. IInv => TypeOK
  BY DEF IInv, TypeOK, DoctorTypeOK
<1> QED
  BY <1>1, Invariance, PTL

\* For any interval, grace, timeout and request limit: poll_device_token sends no
\* poll too late, and _do_login reports what it has written.
THEOREM LoginHonest == Spec => []LoginKeepsItsWord
<1>1. IInv => LoginKeepsItsWord
  BY DEF IInv, LoginInv, LoginKeepsItsWord
<1> QED
  BY <1>1, Invariance, PTL

\* For any number of doctors and programs: a script that was run as a whole and
\* reports success, with no other beside it, leaves its program with its rule, also
\* when one of its queries has failed in silence; and with one rule when none has.
THEOREM RuleIsAdded == Spec => []RuleAdded
<1>1. IInv => RuleAdded
  BY DEF IInv, FwInv, RuleAdded
<1> QED
  BY <1>1, Invariance, PTL

\* What check_firewall_rule says was so during the check, for any number of doctors
\* and scripts that change the rules meanwhile, unless PowerShell missed a rule that
\* was there and netsh did not put it right.
THEOREM VerdictTrue == Spec => []VerdictWasTrue
<1>1. IInv => VerdictWasTrue
  BY DEF IInv, HeardInv, Heard, VerdictWasTrue
<1> QED
  BY <1>1, Invariance, PTL

\* doctor --fix-firewall does not report as missing what its script has added, for
\* any number of doctors, if there was no mishap and PowerShell does not misinform it.
THEOREM FixFound == Spec => []FixedIsFound
<1>1. IInv => FixedIsFound
  BY DEF IInv, HeardInv, Heard, AddedInv, SameProgram, FixedIsFound
<1> QED
  BY <1>1, Invariance, PTL
===============================================================================
