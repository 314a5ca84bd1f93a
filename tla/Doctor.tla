--------------------------------- MODULE Doctor ---------------------------------
(***************************************************************************)
(* Setting jtunnel up on a machine: a login, and then doctors, which may    *)
(* first fix the firewall rule and then check what the client needs.  A     *)
(* doctor starts when no login is under way: all it reads of one are the two *)
(* files, which it reports without judging them, and no login starts later.  *)
(***************************************************************************)
EXTENDS DeviceLogin, FirewallRule

VARIABLES
  windows,   \* is_windows()
  doctor,    \* where each doctor is, see DoctorPlaces
  status,    \* what PowerShell has said of the rule
  verdict,   \* ok of the firewall check
  misled,    \* PowerShell has missed a rule that was there
  netsh,     \* what netsh has said of it, "none" if it was not asked
  had        \* whether the program had its rule since the firewall check began:
             \* the set of answers

\* What a doctor has been told.
told == <<status, verdict, misled, netsh>>
doctorVars == <<windows, doctor, told, had>>
vars == <<loginVars, fwVars, doctorVars>>

DoctorPlaces == {"idle", "fix", "connect", "ask", "netsh", "report", "passed", "failed", "crashed"}

DoctorEnds == {"passed", "failed", "crashed"}

Statuses == {"none", "OK", "MISSING", "MISMATCH", "ERROR"}

TypeOK ==
  /\ LoginTypeOK
  /\ FwTypeOK
  /\ windows \in BOOLEAN
  /\ doctor \in [Fixer -> DoctorPlaces]
  /\ status \in [Fixer -> Statuses]
  /\ verdict \in [Fixer -> {"none", "yes", "no", "unknown"}]
  /\ misled \in [Fixer -> BOOLEAN]
  /\ netsh \in [Fixer -> Statuses]
  /\ had \in [Fixer -> SUBSET BOOLEAN]

Init ==
  /\ LoginInit
  /\ FwInit
  /\ windows \in BOOLEAN
  /\ doctor = [f \in Fixer |-> "idle"]
  /\ status = [f \in Fixer |-> "none"]
  /\ verdict = [f \in Fixer |-> "none"]
  /\ misled = [f \in Fixer |-> FALSE]
  /\ netsh = [f \in Fixer |-> "none"]
  /\ had = [f \in Fixer |-> {}]

-----------------------------------------------------------------------------

Visits(f, place) == doctor' = [doctor EXCEPT ![f] = place]

\* The memory of the login, if there was one, has gone with its process.
LoginGone == login' = "idle" /\ code' = "none" /\ elapsed' = 0 /\ written' = {}

DoctorBegins(f) ==
  /\ doctor[f] = "idle" /\ login \in {"idle"} \cup LoginEnds
  /\ \E fix \in BOOLEAN :
       IF ~ fix THEN Visits(f, "connect")
       ELSE Visits(f, IF windows THEN "fix" ELSE "failed")
  /\ LoginGone
  /\ UNCHANGED <<fwVars, windows, told>>

\* run_doctor calls add_firewall_rule, and goes on when that has returned True.
Fixing(f) ==
  /\ doctor[f] = "fix"
  /\ FixerStep(f)
  /\ CASE fixer'[f] \in {"added", "believed"} -> Visits(f, "connect")
       [] fixer'[f] \in {"failed", "crashed"} -> Visits(f, fixer'[f])
       [] OTHER -> UNCHANGED doctor
  /\ UNCHANGED <<loginVars, windows, told>>

\* The API, the tunnel server, and the local app if a port is given.
Connects(f) ==
  /\ doctor[f] = "connect"
  /\ Visits(f, IF windows THEN "ask" ELSE "report")
  /\ UNCHANGED <<loginVars, fwVars, windows, told>>

Misleads(s, p) == rules[p] > 0 /\ s \in {"MISSING", "MISMATCH"}

\* Mutant: what PowerShell cannot tell counts as no rule.
AsksPowerShell_Guesses(f) ==
  /\ doctor[f] = "ask"
  /\ \E s \in PowerShellSays(program[f]) :
       /\ status' = [status EXCEPT ![f] = IF s = "ERROR" THEN "MISSING" ELSE s]
       /\ misled' = [misled EXCEPT ![f] = Misleads(s, program[f])]
       /\ IF AsksNetsh(s) THEN Visits(f, "netsh") /\ UNCHANGED verdict
          ELSE Visits(f, "report") /\ verdict' = [verdict EXCEPT ![f] = Verdict(s)]
  /\ UNCHANGED <<loginVars, fwVars, windows, netsh>>

AsksPowerShell(f) ==
  /\ doctor[f] = "ask"
  /\ \E s \in PowerShellSays(program[f]) :
       /\ status' = [status EXCEPT ![f] = s]
       /\ misled' = [misled EXCEPT ![f] = Misleads(s, program[f])]
       /\ IF AsksNetsh(s) THEN Visits(f, "netsh") /\ UNCHANGED verdict
          ELSE Visits(f, "report") /\ verdict' = [verdict EXCEPT ![f] = Verdict(s)]
  /\ UNCHANGED <<loginVars, fwVars, windows, netsh>>

AsksNetshToo(f) ==
  /\ doctor[f] = "netsh"
  /\ \E s \in NetshSays(program[f]) :
       /\ verdict' = [verdict EXCEPT ![f] = Verdict(Merged(status[f], s))]
       /\ netsh' = [netsh EXCEPT ![f] = s]
  /\ Visits(f, "report")
  /\ UNCHANGED <<loginVars, fwVars, windows, status, misled>>

Forgets(f) ==
  /\ status' = [status EXCEPT ![f] = "none"]
  /\ verdict' = [verdict EXCEPT ![f] = "none"]
  /\ misled' = [misled EXCEPT ![f] = FALSE]
  /\ netsh' = [netsh EXCEPT ![f] = "none"]

\* Mutant: the outcome of the last check is the outcome.
Reports_Last(f) ==
  /\ doctor[f] = "report"
  /\ Visits(f, verdict[f])
  /\ Forgets(f)
  /\ UNCHANGED <<loginVars, fwVars, windows>>

\* print_report: all the critical checks must have been passed.
Reports(f) ==
  /\ doctor[f] = "report"
  /\ \E reached \in BOOLEAN :
       Visits(f, IF reached /\ verdict[f] # "no" THEN "passed" ELSE "failed")
  /\ Forgets(f)
  /\ UNCHANGED <<loginVars, fwVars, windows>>

\* What a doctor could have seen of the rule, from the begin of its check on.
Observes ==
  had' = [f \in Fixer |->
            CASE doctor[f] \in {"ask", "netsh"} -> had[f] \cup {rules'[program[f]] > 0}
              [] doctor[f] = "connect" /\ doctor'[f] = "ask" -> {rules[program[f]] > 0}
              [] doctor[f] = "report" /\ doctor'[f] = "report" -> had[f]
              [] OTHER -> {}]

\* Before the first doctor.
LoginRuns(step) ==
  step /\ (\A f \in Fixer : doctor[f] = "idle") /\ UNCHANGED <<fwVars, windows, doctor, told>>

DoctorGoesOn(f) ==
  Fixing(f) \/ Connects(f) \/ AsksPowerShell(f) \/ AsksNetshToo(f) \/ Reports(f)

Next ==
  /\ \/ LoginRuns(LoginNext)
     \/ \E f \in Fixer : DoctorBegins(f) \/ DoctorGoesOn(f)
     \/ /\ (\E f \in Fixer : ScriptStep(f)) \/ (RuleRemoved /\ windows)
        /\ UNCHANGED <<loginVars, windows, doctor, told>>
  /\ Observes

Spec == Init /\ [][Next]_vars

\* A request of the login, a sleep, a probe, a query and the wait for the elevated
\* script have time limits.  The download has none, and nothing is assumed of it, of
\* the user and of the script.
Fairness ==
  /\ WF_vars(LoginRuns(LoginStep) /\ Observes)
  /\ \A f \in Fixer : WF_vars(DoctorGoesOn(f) /\ fixer[f] \notin Downloading /\ Observes)

LiveSpec == Spec /\ Fairness

-----------------------------------------------------------------------------

\* PowerShell has missed a rule that was there, and netsh has not put it right: it
\* said nothing, or was not asked.
Misinformed(f) == misled[f] /\ netsh[f] \in {"none", "ERROR"}

\* The doctor calls the rule right only if it was so at some time during the check,
\* and wrong only if it was that, or a query of PowerShell failed in silence and
\* netsh did not say otherwise; whatever the scripts did meanwhile.
VerdictWasTrue ==
  \A f \in Fixer :
    /\ verdict[f] = "yes" => TRUE \in had[f]
    /\ verdict[f] = "no" => FALSE \in had[f] \/ Misinformed(f)

\* A doctor whose script, run as a whole, has reported the rule does not go on to
\* call it missing, unless it is misinformed, or there was a mishap, or another
\* program has jtunnel.  Of a doctor that merely believes in its rule, after a
\* declined prompt or a script cut short, nothing is said.
FixedIsFound ==
  mishap = "none" =>
    \A f \in Fixer : fixer[f] = "added" /\ (\A g \in Fixer : program[g] = program[f]) =>
      verdict[f] # "no" \/ Misinformed(f)

\* A login and a doctor come to an end, whatever the server answers and whether or
\* not the user ever decides, here or at the UAC prompt; the doctor, if its download
\* does not hang for ever.
CommandsEnd ==
  /\ login # "idle" ~> login \in LoginEnds
  /\ \A f \in Fixer : []<>(fixer[f] \notin Downloading) =>
       (doctor[f] # "idle" ~> doctor[f] \in DoctorEnds)
===============================================================================
