------------------------------ MODULE SavedTunnels ------------------------------
(***************************************************************************)
(* What the CLI keeps in its config directory, and the commands that read   *)
(* and write it: login, logout, delete, set default and expose.  Commands   *)
(* of several processes run at once (a session holds its terminal for days) *)
(* and take no lock; a step is one file read or written.  write_text empties *)
(* the file in one step and fills it in the next.                           *)
(*                                                                          *)
(* A service is its name and its public port: the local port and the URL    *)
(* beside them take no part in any decision.                                *)
(***************************************************************************)
EXTENDS Naturals, Sequences, FiniteSets

CONSTANTS
  Proc,        \* processes of the CLI
  Name,        \* service names, numbered in the order `sorted' puts them
  Block,       \* port blocks the server assigns, each a set of public ports
  MaxBatch,    \* services of one expose (3 in the wizard)
  NoFile,      \* a file that does not exist
  MaxMishaps,  \* bound: kinds of mishap in one run
  MaxCommands  \* bound: commands begun in one run

ASSUME SavedAssumption ==
  /\ IsFiniteSet(Proc)
  /\ Name \subseteq Nat \ {0}
  /\ \A b \in Block : b \subseteq Nat \ {0} /\ b # {}
  /\ MaxBatch \in Nat \ {0}
  /\ NoFile \notin Block \cup {{}}

VARIABLES
  token,       \* device.jwt, as the block its claims name
  config,      \* tunnel.json
  saved,       \* tunnels.json: the public port of each name, or NoPort
  default,     \* preferences.json: the default service, or NoName
  job,         \* what each process is doing
  registered,  \* <<name, port>> the server has ever acknowledged
  mishaps,     \* what has gone wrong so far, see Mishap
  commands     \* number of commands begun so far

files == <<token, config, saved, default>>
vars == <<files, job, registered, mishaps, commands>>

NoPort == 0
NoName == 0
NoBlock == {}     \* claims without a block; a tunnel.json that does not parse
Port == UNION Block
Ports == [Name -> Port \cup {NoPort}]
Nothing == [n \in Name |-> NoPort]
NamesOf(s) == {n \in Name : s[n] # NoPort}
Chosen(seq) == {seq[i] : i \in DOMAIN seq}

\* The names of one expose, in order and without duplicates.
Batch ==
  {b \in UNION {[1 .. k -> Name] : k \in 1 .. MaxBatch} :
     \A i, k \in DOMAIN b : i < k => b[i] # b[k]}

\* "resolve"    the user has chosen what to expose
\* "start"      set_default_service, before a saved start
\* "connect"    tunnel.run checks block and token
\* "register"   waits for the acks; "reconnect" does so after a session
\* "save"       save_active_tunnel loads, "write" writes, "note" sets the default
\* "live"       the session is up
\* "remove", "check", "clear"   delete_active_tunnel, after its load
\* "pick"       set_default_service, from the list menu
\* "block", "token"   _do_login writes one file after the other
\* "signout", "tunnels", "prefs", "unassign"   _do_logout, likewise
Places ==
  {"idle", "resolve", "start", "connect", "register", "reconnect", "save", "write", "note",
   "live", "remove", "check", "clear", "pick", "block", "token",
   "signout", "tunnels", "prefs", "unassign"}

Idle ==
  [at |-> "idle", cut |-> FALSE, first |-> FALSE, batch |-> <<>>, left |-> <<>>,
   copy |-> Nothing, services |-> Nothing, issued |-> NoBlock]

Job ==
  [at : Places,
   cut : BOOLEAN,              \* the file it writes is empty at the moment
   first : BOOLEAN,            \* sets the default before it connects
   batch : Seq(Name),          \* names to expose
   left : Seq(Name),           \* those it has still to save; the name of pick and remove
   copy : Ports,               \* what it loaded from tunnels.json
   services : Ports,           \* what it exposes
   issued : Block \cup {NoBlock}] \* what a login was given

\* "raced"    two processes were at their read-change-write at once
\* "crashed"  a process died, or could not write, at its own
\* "deleted"  a name that a session holds was removed
\* "moved"    a login brought another block while ports of the old one were kept
\* "bare"     a login brought no block
\* "failed"   an expose that had set the default did not connect
Mishap == {"raced", "crashed", "deleted", "moved", "bare", "failed"}

TypeOK ==
  /\ token \in Block \cup {NoBlock, NoFile}
  /\ config \in Block \cup {NoBlock, NoFile}
  /\ saved \in Ports
  /\ default \in Name \cup {NoName}
  /\ job \in [Proc -> Job]
  /\ registered \subseteq Name \X Port
  /\ mishaps \subseteq Mishap
  /\ commands \in Nat

Init ==
  /\ token = NoFile /\ config = NoFile
  /\ saved = Nothing /\ default = NoName
  /\ job = [p \in Proc |-> Idle]
  /\ registered = {}
  /\ mishaps = {}
  /\ commands = 0

-----------------------------------------------------------------------------
(* What the commands read *)

\* tunnel_config_from_token.
TokenBlock == IF token # NoFile THEN token ELSE NoBlock

\* load_tunnel_config: the token is asked only when there is no tunnel.json.
LoadBlock == IF config # NoFile THEN config ELSE TokenBlock

\* get_default_tunnel_entry.
DefaultEntry ==
  IF default # NoName /\ saved[default] # NoPort THEN default
  ELSE IF Cardinality(NamesOf(saved)) = 1 THEN CHOOSE n \in NamesOf(saved) : TRUE
  ELSE NoName

\* Mutant: the block bounds the ports from above only.
PublicPort_AnyPort(port, name, block, active, used) ==
  LET range == {q \in Port : \E last \in block : q <= last}
  IN IF active[name] # NoPort THEN port = active[name]
     ELSE port \in range \ used /\ \A q \in range \ used : port <= q

\* Mutant: a saved name takes the first free port like any other.
PublicPort_NotSticky(port, name, block, active, used) ==
  port \in block \ used /\ \A q \in block \ used : port <= q

\* resolve_public_port: a saved name keeps its port, another one takes the first
\* port of the block that is not in use.
PublicPort(port, name, block, active, used) ==
  IF active[name] # NoPort THEN port = active[name]
  ELSE port \in block \ used /\ \A q \in block \ used : port <= q

\* Mutant: the ports chosen in this batch are not marked as used.
Resolves_UsedOnce(s, batch, block, active) ==
  /\ NamesOf(s) = Chosen(batch)
  /\ \A i \in DOMAIN batch :
       PublicPort(s[batch[i]], batch[i], block, active, {active[n] : n \in NamesOf(active)})

\* resolve_services gives `s': in use is what is saved, or chosen before.
Resolves(s, batch, block, active) ==
  /\ NamesOf(s) = Chosen(batch)
  /\ \A i \in DOMAIN batch :
       PublicPort(s[batch[i]], batch[i], block, active,
                  {active[n] : n \in NamesOf(active)} \cup {s[batch[k]] : k \in 1 .. i - 1})

-----------------------------------------------------------------------------
(* Steps of a process *)

Goes(p, j) ==
  /\ job' = [job EXCEPT ![p] = j]
  /\ UNCHANGED mishaps

\* At its read-change-write: from the load, or from the choice of ports, until
\* the last file is written.
Busy(p) == job[p].at \notin {"idle", "resolve", "reconnect", "live"}

Holds(p) == job[p].at \in {"live", "reconnect"}

Enters(p, j, also) ==
  /\ job' = [job EXCEPT ![p] = j]
  /\ mishaps' = mishaps \cup also \cup {m \in {"raced"} : \E q \in Proc \ {p} : Busy(q)}

-----------------------------------------------------------------------------
(* expose *)

\* _require_auth, then the user's choice from what is saved.
ExposeBegins(p, batch, first) ==
  /\ job[p].at = "idle" /\ token # NoFile
  /\ Goes(p, [Idle EXCEPT !.at = "resolve", !.batch = batch, !.first = first])
  /\ UNCHANGED <<files, registered>>

ExposeNamed(p) == \E n \in Name : ExposeBegins(p, <<n>>, FALSE)

ExposeQuick(p) ==
  \/ NamesOf(saved) # {} /\ DefaultEntry # NoName /\ ExposeBegins(p, <<DefaultEntry>>, TRUE)
  \/ /\ DefaultEntry = NoName
     /\ \/ \E n \in NamesOf(saved) : ExposeBegins(p, <<n>>, TRUE)
        \/ ExposeNamed(p)

\* All that are saved, or some; `_saved_tunnel_mappings' sorts them.
ExposeMulti(p) ==
  \E batch \in Batch :
    /\ Chosen(batch) \subseteq NamesOf(saved)
    /\ \A i, k \in DOMAIN batch : i < k => batch[i] < batch[k]
    /\ ExposeBegins(p, batch, TRUE)

ExposeWizard(p) == \E batch \in Batch : ExposeBegins(p, batch, TRUE)

ExposeListed(p) == \E n \in NamesOf(saved) : ExposeBegins(p, <<n>>, TRUE)

\* What follows once the ports are known: a saved start sets the default first.
AfterResolve(j) == IF j.first THEN "start" ELSE "connect"

Resolve(p) ==
  LET j == job[p]
      fits == {s \in Ports : Resolves(s, j.batch, LoadBlock, saved)}
  IN /\ j.at = "resolve"
     /\ IF LoadBlock = NoBlock \/ fits = {} THEN Goes(p, Idle)
        ELSE \E s \in fits :
               Enters(p, [j EXCEPT !.at = AfterResolve(j), !.services = s], {})
     /\ UNCHANGED <<files, registered>>

\* Mutant: the tunnels are saved before the server has acknowledged them.
Connects_Saves(p) ==
  LET j == job[p] IN
  /\ j.at = "connect" /\ LoadBlock # NoBlock /\ token # NoFile
  /\ Goes(p, [j EXCEPT !.at = "save", !.left = j.batch])
  /\ UNCHANGED <<files, registered>>

\* tunnel.run and TunnelClient read block and token for themselves.
Connects(p) ==
  LET j == job[p] IN
  /\ j.at = "connect" /\ LoadBlock # NoBlock /\ token # NoFile
  /\ Goes(p, [j EXCEPT !.at = "register"])
  /\ UNCHANGED <<files, registered>>

ExposeFails(p) ==
  LET j == job[p] IN
  /\ \/ j.at = "connect" /\ (LoadBlock = NoBlock \/ token = NoFile)
     \/ j.at \in {"register", "reconnect"}
  /\ job' = [job EXCEPT ![p] = Idle]
  /\ mishaps' = mishaps \cup {m \in {"failed"} : j.at # "reconnect" /\ j.first}
  /\ UNCHANGED <<files, registered>>

\* The server has acknowledged the services.
Registered(p) ==
  LET j == job[p] IN
  /\ j.at \in {"register", "reconnect"}
  /\ Enters(p, [j EXCEPT !.at = "save", !.left = j.batch], {})
  /\ registered' = registered \cup {<<n, j.services[n]>> : n \in NamesOf(j.services)}
  /\ UNCHANGED files

SaveLoads(p) ==
  /\ job[p].at = "save"
  /\ Goes(p, [job[p] EXCEPT !.at = "write", !.copy = saved])
  /\ UNCHANGED <<files, registered>>

Disconnects(p) ==
  /\ job[p].at = "live"
  /\ \/ Goes(p, [job[p] EXCEPT !.at = "reconnect"])
     \/ Goes(p, Idle)
  /\ UNCHANGED <<files, registered>>

-----------------------------------------------------------------------------
(* Writing tunnels.json and preferences.json *)

Cut(p) == Goes(p, [job[p] EXCEPT !.cut = TRUE])

\* The last tunnel that is deleted takes the file with it.
CutSaved(p) ==
  LET j == job[p] IN
  /\ j.at \in {"write", "remove"} /\ ~ j.cut
  /\ saved' = Nothing
  /\ IF j.at = "remove" /\ j.copy = Nothing THEN Goes(p, [j EXCEPT !.at = "check"]) ELSE Cut(p)
  /\ UNCHANGED <<token, config, default, registered>>

\* Mutant: the file is rewritten with the one tunnel.
FillSaved_Only(p) ==
  LET j == job[p]
      n == Head(j.left)
  IN /\ j.at \in {"write", "remove"} /\ j.cut
     /\ saved' = IF j.at = "write" THEN [Nothing EXCEPT ![n] = j.services[n]] ELSE j.copy
     /\ Goes(p, [j EXCEPT !.at = IF j.at = "write" THEN "note" ELSE "check",
                          !.cut = FALSE, !.copy = Nothing])
     /\ UNCHANGED <<token, config, default, registered>>

FillSaved(p) ==
  LET j == job[p]
      n == Head(j.left)
  IN /\ j.at \in {"write", "remove"} /\ j.cut
     /\ saved' = IF j.at = "write" THEN [j.copy EXCEPT ![n] = j.services[n]] ELSE j.copy
     /\ Goes(p, [j EXCEPT !.at = IF j.at = "write" THEN "note" ELSE "check",
                          !.cut = FALSE, !.copy = Nothing])
     /\ UNCHANGED <<token, config, default, registered>>

CutDefault(p) ==
  /\ job[p].at \in {"start", "note", "pick"} /\ ~ job[p].cut
  /\ default' = NoName
  /\ Cut(p)
  /\ UNCHANGED <<token, config, saved, registered>>

\* Mutant: the default is kept as its port.
FillDefault_Port(p) ==
  LET j == job[p]
      rest == [j EXCEPT !.cut = FALSE, !.left = IF j.at = "note" THEN Tail(@) ELSE @]
  IN /\ j.at \in {"start", "note", "pick"} /\ j.cut
     /\ default' = IF j.at = "start" THEN j.services[Head(j.batch)] ELSE saved[Head(j.left)]
     /\ \/ j.at = "start" /\ Goes(p, [rest EXCEPT !.at = "connect"])
        \/ j.at = "pick" /\ Goes(p, Idle)
        \/ /\ j.at = "note"
           /\ Goes(p, [rest EXCEPT !.at = IF rest.left = <<>> THEN "live" ELSE "save"])
     /\ UNCHANGED <<token, config, saved, registered>>

FillDefault(p) ==
  LET j == job[p]
      rest == [j EXCEPT !.cut = FALSE, !.left = IF j.at = "note" THEN Tail(@) ELSE @]
  IN /\ j.at \in {"start", "note", "pick"} /\ j.cut
     /\ default' = IF j.at = "start" THEN Head(j.batch) ELSE Head(j.left)
     /\ \/ j.at = "start" /\ Goes(p, [rest EXCEPT !.at = "connect"])
        \/ j.at = "pick" /\ Goes(p, Idle)
        \/ /\ j.at = "note"
           /\ Goes(p, [rest EXCEPT !.at = IF rest.left = <<>> THEN "live" ELSE "save"])
     /\ UNCHANGED <<token, config, saved, registered>>

\* An OSError of the save loop: TunnelClient.run tries a new session.
WriteFails(p) ==
  /\ job[p].at \in {"write", "note"}
  /\ job' = [job EXCEPT ![p] = [@ EXCEPT !.at = "reconnect", !.cut = FALSE,
                                         !.left = <<>>, !.copy = Nothing]]
  /\ mishaps' = mishaps \cup {"crashed"}
  /\ UNCHANGED <<files, registered>>

-----------------------------------------------------------------------------
(* delete and set default *)

DeleteBegins(p, n) ==
  /\ job[p].at = "idle" /\ saved[n] # NoPort
  /\ Enters(p, [Idle EXCEPT !.at = "remove", !.left = <<n>>, !.copy = [saved EXCEPT ![n] = NoPort]],
            {m \in {"deleted"} : \E q \in Proc : Holds(q) /\ n \in NamesOf(job[q].services)})
  /\ UNCHANGED <<files, registered>>

\* Mutant: the default outlives the tunnel it names.
DeleteChecks_Never(p) ==
  /\ job[p].at = "check"
  /\ Goes(p, Idle)
  /\ UNCHANGED <<files, registered>>

DeleteChecks(p) ==
  /\ job[p].at = "check"
  /\ Goes(p, IF default = Head(job[p].left) THEN [job[p] EXCEPT !.at = "clear"] ELSE Idle)
  /\ UNCHANGED <<files, registered>>

DeleteClears(p) ==
  /\ job[p].at = "clear"
  /\ default' = NoName
  /\ Goes(p, Idle)
  /\ UNCHANGED <<token, config, saved, registered>>

SetDefaultBegins(p, n) ==
  /\ job[p].at = "idle" /\ saved[n] # NoPort
  /\ Enters(p, [Idle EXCEPT !.at = "pick", !.left = <<n>>], {})
  /\ UNCHANGED <<files, registered>>

-----------------------------------------------------------------------------
(* login and logout *)

\* poll_device_token has returned a token, with or without the block beside it.
LoginBegins(p, block) ==
  /\ job[p].at = "idle"
  /\ \E place \in {"block", "token"} :
       /\ place = "block" => block # NoBlock
       /\ Enters(p, [Idle EXCEPT !.at = place, !.issued = block],
                 {m \in {"moved"} : LoadBlock # block
                     /\ (saved # Nothing \/ \E q \in Proc : job[q].services # Nothing)}
                 \cup {m \in {"bare"} : place = "token"})
  /\ UNCHANGED <<files, registered>>

LoginWritesBlock(p) ==
  LET j == job[p] IN
  /\ j.at = "block"
  /\ config' = IF j.cut THEN j.issued ELSE NoBlock
  /\ IF j.cut THEN Goes(p, [j EXCEPT !.at = "token", !.cut = FALSE]) ELSE Cut(p)
  /\ UNCHANGED <<token, saved, default, registered>>

\* An empty token is no token.
LoginWritesToken(p) ==
  LET j == job[p] IN
  /\ j.at = "token"
  /\ token' = IF j.cut THEN j.issued ELSE NoFile
  /\ IF j.cut THEN Goes(p, Idle) ELSE Cut(p)
  /\ UNCHANGED <<config, saved, default, registered>>

LogoutBegins(p) ==
  /\ job[p].at = "idle"
  /\ Enters(p, [Idle EXCEPT !.at = "signout"],
            {m \in {"deleted"} : \E q \in Proc : Holds(q)})
  /\ UNCHANGED <<files, registered>>

\* Mutant: logout leaves tunnel.json.
LogoutStep_KeepsBlock(p) ==
  LET j == job[p] IN
  /\ \/ /\ j.at = "signout" /\ token' = NoFile /\ UNCHANGED <<saved, default>>
        /\ Goes(p, [j EXCEPT !.at = "tunnels"])
     \/ /\ j.at = "tunnels" /\ saved' = Nothing /\ UNCHANGED <<token, default>>
        /\ Goes(p, [j EXCEPT !.at = "prefs"])
     \/ /\ j.at = "prefs" /\ default' = NoName /\ UNCHANGED <<token, saved>>
        /\ Goes(p, Idle)
  /\ UNCHANGED <<config, registered>>

LogoutStep(p) ==
  LET j == job[p] IN
  /\ \/ /\ j.at = "signout" /\ token' = NoFile /\ UNCHANGED <<config, saved, default>>
        /\ Goes(p, [j EXCEPT !.at = "tunnels"])
     \/ /\ j.at = "tunnels" /\ saved' = Nothing /\ UNCHANGED <<token, config, default>>
        /\ Goes(p, [j EXCEPT !.at = "prefs"])
     \/ /\ j.at = "prefs" /\ default' = NoName /\ UNCHANGED <<token, config, saved>>
        /\ Goes(p, [j EXCEPT !.at = "unassign"])
     \/ /\ j.at = "unassign" /\ config' = NoFile /\ UNCHANGED <<token, saved, default>>
        /\ Goes(p, Idle)
  /\ UNCHANGED registered

-----------------------------------------------------------------------------

\* The process is killed, or its command ends in an OSError.
Crash(p) ==
  /\ Busy(p)
  /\ job' = [job EXCEPT ![p] = Idle]
  /\ mishaps' = mishaps \cup {"crashed"}
  /\ UNCHANGED <<files, registered>>

ExposeStep(p) ==
  \/ ExposeNamed(p) \/ ExposeQuick(p) \/ ExposeMulti(p) \/ ExposeWizard(p) \/ ExposeListed(p)
  \/ Resolve(p) \/ Connects(p) \/ ExposeFails(p) \/ Registered(p) \/ SaveLoads(p)
  \/ Disconnects(p) \/ WriteFails(p)

FileStep(p) ==
  \/ CutSaved(p) \/ FillSaved(p) \/ CutDefault(p) \/ FillDefault(p)
  \/ LoginWritesBlock(p) \/ LoginWritesToken(p) \/ LogoutStep(p)

CommandStep(p) ==
  \/ \E n \in Name : DeleteBegins(p, n) \/ SetDefaultBegins(p, n)
  \/ DeleteChecks(p) \/ DeleteClears(p)
  \/ \E block \in Block \cup {NoBlock} : LoginBegins(p, block)
  \/ LogoutBegins(p)

Next ==
  /\ \E p \in Proc : ExposeStep(p) \/ FileStep(p) \/ CommandStep(p) \/ Crash(p)
  /\ Cardinality(mishaps') <= MaxMishaps
  /\ commands' = commands + Cardinality({p \in Proc : job[p] = Idle /\ job'[p] # Idle})
  /\ commands' <= MaxCommands

Spec == Init /\ [][Next]_vars

-----------------------------------------------------------------------------
(* Safety *)

Calm(kinds) == mishaps \cap kinds = {}

\* tunnels.json never holds a port for a name that the server has not
\* acknowledged, whatever the processes do to each other: a tunnel that could
\* not be opened is not offered as saved.
SavedWasRegistered ==
  \A n \in NamesOf(saved) : <<n, saved[n]>> \in registered

\* No two names share a public port, in the file or among the running sessions,
\* unless commands overlapped, one died at a write, or a tunnel in use was deleted.
DistinctPorts ==
  Calm({"raced", "crashed", "deleted"}) =>
    \A m, n \in Name : m # n =>
      /\ saved[m] # NoPort => saved[m] # saved[n]
      /\ \A p, q \in Proc :
           job[p].services[m] # NoPort => job[p].services[m] # job[q].services[n]

\* The services of a running session are in the file under their ports, unless
\* the same mishaps: a command that rewrites the file keeps what it does not touch.
LiveIsSaved ==
  Calm({"raced", "crashed", "deleted"}) =>
    \A p \in Proc : Holds(p) /\ (\A q \in Proc : ~ job[q].cut) =>
      \A n \in NamesOf(job[p].services) : saved[n] = job[p].services[n]

\* Saved ports lie in the block the next expose takes its ports from.
InBlock ==
  Calm({"raced", "moved"}) /\ LoadBlock # NoBlock =>
    \A n \in NamesOf(saved) : saved[n] \in LoadBlock

\* Between commands, the block on disk is the one the token is for.
SameAccount ==
  Calm({"raced", "crashed", "bare"}) /\ (\A p \in Proc : ~ Busy(p)) =>
    config = token

\* Between commands, the default is a saved tunnel.
DefaultIsSaved ==
  Calm({"raced", "crashed", "failed"}) /\ (\A p \in Proc : ~ Busy(p)) =>
    default = NoName \/ saved[default] # NoPort

\* Saving never changes the port a name has in the file it rewrites.
StickyKept ==
  [][\A p \in Proc :
       Calm({"raced", "crashed", "deleted"}) /\ job[p].at = "write" /\ job'[p].at = "note" =>
         \A n \in NamesOf(job[p].copy) : saved'[n] = job[p].copy[n]]_vars
===============================================================================
