------------------------------ MODULE FirewallRule ------------------------------
(***************************************************************************)
(* The outbound rule of Windows Firewall: `doctor --fix-firewall' downloads *)
(* a script and runs it elevated, after a UAC prompt; the script removes the *)
(* rules of that name and adds one; the status is asked of PowerShell and    *)
(* then of netsh.  Several of these run at once, and share the script file.  *)
(*                                                                           *)
(* A fixer is one call of add_firewall_rule.  The elevated script is no      *)
(* child that subprocess.run could kill, and outlives a timeout.             *)
(***************************************************************************)
EXTENDS Naturals, FiniteSets

CONSTANTS
  Fixer,      \* runs of the doctor
  Program,    \* installed programs
  MaxRules    \* bound: rules of the name there may be for one program

ASSUME FirewallAssumption == MaxRules \in Nat \ {0}

VARIABLES
  program,   \* the program each fixer is, or takes jtunnel to be
  rules,     \* number of rules of the name, for each program
  file,      \* jtunnel-fw.ps1 in the temp directory
  fixer,     \* where each add_firewall_rule is, see FixerPlaces
  script,    \* where the elevated script of each is, see ScriptPlaces
  mishap     \* the worst that has happened to the rules, see Mishaps

fwVars == <<program, rules, file, fixer, script, mishap>>

\* "added" and "believed" are the same to the code: True is returned, after exit
\* code 0 of the script, or of a script that was never or not wholly run.
FixerPlaces ==
  {"idle", "download", "launch", "waiting", "added", "believed", "failed", "crashed"}

Downloading == {"download", "launch"}

\* "removed" is between Remove-NetFirewallRule and New-NetFirewallRule, "replace"
\* before; a script "cut" short has come to the end of its file with exit code 0.
ScriptPlaces ==
  {"none", "prompt", "load", "look", "replace", "removed", "declined", "cut", "exit 0", "exit 1"}

ScriptOver == {"declined", "cut", "exit 0", "exit 1"}

\* "blind": a query of a script failed in silence, and a rule was not seen;
\* "disturbed": two scripts were at work at once, or the rule was removed by hand.
Mishaps == {"none", "blind", "disturbed"}

\* Relies on what it has seen of the rules, or its doctor does.
AtWork(f) == script[f] \in {"look", "replace", "removed", "exit 0"}

Anyone == {p \in Program : rules[p] > 0}

FwTypeOK ==
  /\ program \in [Fixer -> Program]
  /\ rules \in [Program -> 0 .. MaxRules]
  /\ file \in {"absent", "partial", "whole"}
  /\ fixer \in [Fixer -> FixerPlaces]
  /\ script \in [Fixer -> ScriptPlaces]
  /\ mishap \in Mishaps

\* Any rule may be there from an earlier installation.
FwInit ==
  /\ program \in [Fixer -> Program]
  /\ \E old \in SUBSET Program :
       Cardinality(old) <= 1 /\ rules = [p \in Program |-> IF p \in old THEN 1 ELSE 0]
  /\ file = "absent"
  /\ fixer = [f \in Fixer |-> "idle"]
  /\ script = [f \in Fixer |-> "none"]
  /\ mishap = "none"

-----------------------------------------------------------------------------
(* add_firewall_rule *)

Fixes(f, place) == fixer' = [fixer EXCEPT ![f] = place]

FixBegins(f) ==
  /\ fixer[f] = "idle"
  /\ \E place \in {"download", "failed"} : Fixes(f, place)   \* the program may be missing
  /\ UNCHANGED <<program, rules, file, script, mishap>>

\* urlretrieve empties the file and then fills it.  An OSError is a failure, an
\* HTTPException is not caught, and either leaves what the file has.
Download(f) ==
  /\ fixer[f] = "download"
  /\ \/ Fixes(f, "launch") /\ file' = "partial"
     \/ /\ \E place \in {"failed", "crashed"} : Fixes(f, place)
        /\ file' \in {file, "partial"}
  /\ UNCHANGED <<program, rules, script, mishap>>

\* The finally block: the script goes, whoever needs it still.  Windows does not
\* delete a file that another process is writing, which raises out of the block.
Unlinks(f, place) ==
  \/ Fixes(f, place) /\ file' = "absent"
  \/ file = "partial" /\ Fixes(f, "crashed") /\ UNCHANGED file

\* The download ends, and Start-Process asks for approval; or the download fails,
\* or PowerShell does not start.
Launch(f) ==
  /\ fixer[f] = "launch"
  /\ \/ /\ file' = "whole" /\ Fixes(f, "waiting")
        /\ script' = [script EXCEPT ![f] = "prompt"]
     \/ /\ \E place \in {"failed", "crashed"} : Fixes(f, place)
        /\ UNCHANGED <<file, script>>
     \/ Unlinks(f, "failed") /\ UNCHANGED script
  /\ UNCHANGED <<program, rules, mishap>>

\* When Start-Process has failed, as it does when the prompt is declined, $proc is
\* null, and `exit $proc.ExitCode' exits 0.
FixOutcome(over) ==
  CASE over = "exit 0" -> "added"
    [] over \in {"declined", "cut"} -> "believed"
    [] over = "exit 1" -> "failed"

\* Mutant: the exit code is not looked at.
FixReturns_Always(f) ==
  /\ fixer[f] = "waiting" /\ script[f] \in ScriptOver
  /\ Unlinks(f, "added")
  /\ script' = [script EXCEPT ![f] = "none"]
  /\ UNCHANGED <<program, rules, mishap>>

FixReturns(f) ==
  /\ fixer[f] = "waiting" /\ script[f] \in ScriptOver
  /\ Unlinks(f, FixOutcome(script[f]))
  /\ script' = [script EXCEPT ![f] = "none"]
  /\ UNCHANGED <<program, rules, mishap>>

\* Mutant: subprocess.run has no timeout.
FixTimesOut_Never(f) ==
  /\ FALSE
  /\ UNCHANGED fwVars

\* 120 s are over, the prompt may still be there or the script at work.
FixTimesOut(f) ==
  /\ fixer[f] = "waiting" /\ script[f] \notin ScriptOver
  /\ Unlinks(f, "failed")
  /\ UNCHANGED <<program, rules, script, mishap>>

-----------------------------------------------------------------------------
(* windows-firewall.ps1 -Action Add *)

Scripts(f, place) == script' = [script EXCEPT ![f] = place]

UserAnswers(f) ==
  /\ script[f] = "prompt"
  /\ \E place \in {"load", "declined"} : Scripts(f, place)
  /\ UNCHANGED <<program, rules, file, fixer, mishap>>

\* Without a file -File fails.  A file another doctor has emptied, or has only a
\* part of, ends before anything is done, or does not parse.
ScriptLoads(f) ==
  /\ script[f] = "load"
  /\ \/ /\ file = "whole" /\ Scripts(f, "look")
        /\ mishap' = IF \E g \in Fixer : AtWork(g) THEN "disturbed" ELSE mishap
     \/ file = "partial" /\ Scripts(f, "cut") /\ UNCHANGED mishap
     \/ file # "whole" /\ Scripts(f, "exit 1") /\ UNCHANGED mishap
  /\ UNCHANGED <<program, rules, file, fixer>>

\* Mutant: a rule for another program is taken for one for this.
ScriptLooks_AnyRule(f) ==
  /\ script[f] = "look"
  /\ Scripts(f, IF Anyone # {} THEN "exit 0" ELSE "removed")
  /\ UNCHANGED <<program, rules, file, fixer, mishap>>

\* A rule of the name for the program is left as it is.  Both queries run with
\* -ErrorAction SilentlyContinue: when one fails, no rule is seen, or no program of
\* the rules, and the script goes on.
ScriptLooks(f) ==
  /\ script[f] = "look"
  /\ \/ rules[program[f]] > 0 /\ Scripts(f, "exit 0") /\ UNCHANGED mishap
     \/ /\ rules[program[f]] = 0
        /\ Scripts(f, IF Anyone # {} THEN "replace" ELSE "removed")
        /\ UNCHANGED mishap
     \/ /\ Anyone # {} /\ mishap' = IF mishap = "none" THEN "blind" ELSE mishap
        /\ \E place \in {"replace", "removed"} : Scripts(f, place)
     \/ Scripts(f, "exit 1") /\ UNCHANGED mishap     \* the program is missing
  /\ UNCHANGED <<program, rules, file, fixer>>

\* All rules of the name go; an error is ignored.
ScriptRemoves(f) ==
  /\ script[f] = "replace"
  /\ Scripts(f, "removed")
  /\ rules' \in {rules, [p \in Program |-> 0]}
  /\ UNCHANGED <<program, file, fixer, mishap>>

ScriptAdds(f) ==
  LET p == program[f] IN
  /\ script[f] = "removed"
  /\ \/ Scripts(f, "exit 0") /\ rules[p] < MaxRules /\ rules' = [rules EXCEPT ![p] = @ + 1]
     \/ Scripts(f, "exit 1") /\ UNCHANGED rules
  /\ UNCHANGED <<program, file, fixer, mishap>>

\* What the script does once its doctor has gone is seen by nobody.
ScriptForgotten(f) ==
  /\ fixer[f] # "waiting" /\ script[f] \in ScriptOver
  /\ Scripts(f, "none")
  /\ UNCHANGED <<program, rules, file, fixer, mishap>>

\* -Action Remove, as the uninstaller calls it.
RuleRemoved ==
  /\ Anyone # {}
  /\ rules' = [p \in Program |-> 0]
  /\ mishap' = "disturbed"
  /\ UNCHANGED <<program, file, fixer, script>>

FixerStep(f) == FixBegins(f) \/ Download(f) \/ Launch(f) \/ FixReturns(f) \/ FixTimesOut(f)

ScriptStep(f) ==
  \/ UserAnswers(f) \/ ScriptLoads(f) \/ ScriptLooks(f) \/ ScriptRemoves(f) \/ ScriptAdds(f)
  \/ ScriptForgotten(f)

-----------------------------------------------------------------------------
(* The status *)

RuleState(p) ==
  IF rules[p] > 0 THEN "OK" ELSE IF Anyone = {} THEN "MISSING" ELSE "MISMATCH"

\* Either may not start, not end in 15 s, or say nothing one can read.  The queries
\* of PowerShell run with -ErrorAction SilentlyContinue: a rule that one of them
\* fails to find is taken to be missing, or to be for another program.
PowerShellSays(p) ==
  {RuleState(p), "ERROR", "MISSING"} \cup {s \in {"MISMATCH"} : Anyone # {}}
NetshSays(p) == {RuleState(p), "ERROR"}

\* firewall_rule_status once PowerShell has answered: final, or for netsh to say.
AsksNetsh(ps) == ps \in {"MISSING", "ERROR"}
Merged(ps, netsh) == IF netsh = "ERROR" THEN ps ELSE netsh

\* check_firewall_rule.
Verdict(status) == CASE status = "OK" -> "yes"
                     [] status \in {"MISSING", "MISMATCH"} -> "no"
                     [] OTHER -> "unknown"

-----------------------------------------------------------------------------

\* Where a script that was run as a whole reports success, the program has its
\* rule, also when a query of it had failed in silence; and no program gets a
\* second rule but by such a query; unless another script was at work beside it, or
\* the rule was removed.
RuleAdded ==
  /\ mishap # "disturbed" =>
       \A f \in Fixer : script[f] = "exit 0" => rules[program[f]] > 0
  /\ mishap = "none" => \A p \in Program : rules[p] <= 1
===============================================================================
