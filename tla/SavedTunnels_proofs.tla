--------------------------- MODULE SavedTunnels_proofs ---------------------------
(***************************************************************************)
(* Proofs about SavedTunnels for any processes, names, blocks and bounds.   *)
(***************************************************************************)
EXTENDS SavedTunnels, FiniteSetTheorems, TLAPS

Exposing == {"resolve", "start", "connect", "register", "reconnect", "save", "write", "note", "live"}
Saving == {"save", "write", "note"}
Serving == Exposing \ {"resolve"}

\* What a process holds, by its place.
Shape(j) ==
  /\ j.at \in Exposing => j.batch # <<>>
  /\ j.at \in Saving \cup {"pick", "remove", "check", "clear"} => j.left # <<>>
  /\ j.at \notin Serving => j.services = Nothing
  /\ j.at \in Serving => NamesOf(j.services) = Chosen(j.batch)
  /\ j.at \in Saving => Chosen(j.left) \subseteq Chosen(j.batch)
  /\ j.cut => j.at \in {"start", "write", "note", "remove", "pick", "block", "token"}

ShapeInv == \A p \in Proc : Shape(job[p])

\* The ports of `s' have been acknowledged.
Acked(s) == \A n \in Name : s[n] # NoPort => <<n, s[n]>> \in registered

AckedInv ==
  /\ Acked(saved)
  /\ \A p \in Proc : Acked(job[p].copy)
  /\ \A p \in Proc : job[p].at \in Saving => Acked(job[p].services)

\* No command overlapped another one.
AloneInv == "raced" \notin mishaps => \A p, q \in Proc : Busy(p) /\ Busy(q) => p = q

BaseInv == TypeOK /\ ShapeInv /\ AckedInv /\ AloneInv

-----------------------------------------------------------------------------
(* Sequences, ports and jobs *)

\* The services of one command, at least one.
LEMMA BatchSeq ==
  ASSUME NEW b \in Batch
  PROVE  b \in Seq(Name) /\ b # <<>>
<1>1. PICK k \in 1 .. MaxBatch : b \in [1 .. k -> Name]
  BY DEF Batch
<1>2. k \in Nat /\ k >= 1
  BY <1>1, SavedAssumption
<1> QED
  BY <1>1, <1>2

\* The save loop goes to the next service.
LEMMA TailSeq ==
  ASSUME NEW s \in Seq(Name), s # <<>>
  PROVE  /\ Head(s) \in Name /\ Head(s) \in Chosen(s)
         /\ Tail(s) \in Seq(Name)
         /\ Chosen(Tail(s)) \subseteq Chosen(s)
         /\ Chosen(s) \subseteq Chosen(Tail(s)) \cup {Head(s)}
<1>1. Head(s) \in Name /\ Head(s) = s[1] /\ 1 \in DOMAIN s /\ Tail(s) \in Seq(Name)
  OBVIOUS
<1>2. \A i \in DOMAIN Tail(s) : i + 1 \in DOMAIN s /\ Tail(s)[i] = s[i + 1]
  OBVIOUS
<1>3. \A i \in DOMAIN s : i = 1 \/ (i - 1 \in DOMAIN Tail(s) /\ Tail(s)[i - 1] = s[i])
  OBVIOUS
<1>4. Head(s) \in Chosen(s)
  BY <1>1 DEF Chosen
<1>5. Chosen(Tail(s)) \subseteq Chosen(s)
  <2>1. ASSUME NEW i \in DOMAIN Tail(s) PROVE Tail(s)[i] \in Chosen(s)
    BY <1>2 DEF Chosen
  <2> QED
    BY <2>1 DEF Chosen
<1>6. ASSUME NEW i \in DOMAIN s
      PROVE  s[i] \in Chosen(Tail(s)) \cup {Head(s)}
  BY <1>1, <1>3 DEF Chosen
<1>7. Chosen(s) \subseteq Chosen(Tail(s)) \cup {Head(s)}
  BY <1>6 DEF Chosen
<1> QED
  BY <1>1, <1>4, <1>5, <1>7

\* A command about one name.
LEMMA OneSeq ==
  ASSUME NEW n \in Name
  PROVE  <<n>> \in Seq(Name) /\ <<n>> # <<>>
OBVIOUS

\* The empty store has no names.
LEMMA PortFacts ==
  /\ NoPort \notin Port
  /\ Nothing \in Ports
  /\ NamesOf(Nothing) = {}
BY SavedAssumption DEF Port, NoPort, Ports, Nothing, NamesOf

\* A process between commands holds nothing.
LEMMA IdleFacts ==
  /\ Idle \in Job /\ Shape(Idle) /\ Acked(Idle.copy)
  /\ Idle.at = "idle" /\ Idle.services = Nothing /\ Idle.copy = Nothing /\ ~ Idle.cut
BY PortFacts DEF Idle, Job, Places, Shape, Exposing, Saving, Serving, Acked, Nothing

Rest(p) == \A q \in Proc : q # p => job'[q] = job[q]

Typed(p) == job' \in [Proc -> Job] /\ Rest(p)

\* Enters has noted an overlap.
Overlaps(p) == mishaps' = mishaps \cup {m \in {"raced"} : \E q \in Proc \ {p} : Busy(q)}

\* A step that only moves process `p' leaves the others alone.
LEMMA Moves ==
  ASSUME TypeOK, NEW p \in Proc, NEW j \in Job, job' = [job EXCEPT ![p] = j]
  PROVE  job'[p] = j /\ Typed(p)
BY DEF TypeOK, Rest, Typed

\* The types of what a process holds.
LEMMA JobFields ==
  ASSUME TypeOK, NEW p \in Proc
  PROVE  /\ job[p] \in Job
         /\ job[p].at \in Places /\ job[p].cut \in BOOLEAN /\ job[p].first \in BOOLEAN
         /\ job[p].batch \in Seq(Name) /\ job[p].left \in Seq(Name)
         /\ job[p].copy \in Ports /\ job[p].services \in Ports
         /\ job[p].issued \in Block \cup {NoBlock}
BY DEF TypeOK, Job

-----------------------------------------------------------------------------
(* What each step does *)

\* get_default_tunnel gives a name or none.
LEMMA DefaultEntryName ==
  ASSUME TypeOK, NamesOf(saved) # {}
  PROVE  DefaultEntry \in Name \cup {NoName}
<1>1. (CHOOSE n \in NamesOf(saved) : TRUE) \in Name
  BY DEF NamesOf
<1> QED
  BY <1>1 DEF DefaultEntry, TypeOK

\* An expose starts at the resolving of its ports.
LEMMA ExposeBeginsFacts ==
  ASSUME TypeOK, NEW p \in Proc, NEW batch \in Seq(Name), NEW first \in BOOLEAN,
         batch # <<>>, ExposeBegins(p, batch, first)
  PROVE  /\ job[p].at = "idle" /\ job'[p].at = "resolve" /\ ~ job'[p].cut
         /\ job'[p].services = Nothing /\ job'[p].copy = Nothing /\ job'[p].batch # <<>>
         /\ Typed(p)
         /\ UNCHANGED <<files, registered, mishaps>>
<1> DEFINE j == [Idle EXCEPT !.at = "resolve", !.batch = batch, !.first = first]
<1>1. job' = [job EXCEPT ![p] = j]
  BY DEF ExposeBegins, Goes
<1>2. j \in Job /\ j.at = "resolve" /\ ~ j.cut /\ j.services = Nothing /\ j.copy = Nothing /\ j.batch = batch
  BY IdleFacts DEF Job, Places
<1> HIDE DEF j
<1> QED
  BY ZenonT(60), <1>1, <1>2, Moves DEF ExposeBegins, Goes

\* So does every command that exposes, whichever way it was asked for.
LEMMA BeginFacts ==
  ASSUME TypeOK, NEW p \in Proc,
         ExposeNamed(p) \/ ExposeQuick(p) \/ ExposeMulti(p) \/ ExposeWizard(p) \/ ExposeListed(p)
  PROVE  /\ job[p].at = "idle" /\ job'[p].at = "resolve" /\ ~ job'[p].cut
         /\ job'[p].services = Nothing /\ job'[p].copy = Nothing /\ job'[p].batch # <<>>
         /\ Typed(p)
         /\ UNCHANGED <<files, registered, mishaps>>
<1>1. \E batch \in Seq(Name), first \in BOOLEAN : batch # <<>> /\ ExposeBegins(p, batch, first)
  <2>1. CASE ExposeNamed(p)
    BY <2>1, OneSeq DEF ExposeNamed
  <2>2. CASE ExposeQuick(p)
    <3>1. CASE NamesOf(saved) # {} /\ DefaultEntry # NoName /\ ExposeBegins(p, <<DefaultEntry>>, TRUE)
      BY <3>1, OneSeq, DefaultEntryName
    <3>2. CASE \E n \in NamesOf(saved) : ExposeBegins(p, <<n>>, TRUE)
      BY <3>2, OneSeq DEF NamesOf
    <3>3. CASE ExposeNamed(p)
      BY <3>3, OneSeq DEF ExposeNamed
    <3> QED
      BY <2>2, <3>1, <3>2, <3>3 DEF ExposeQuick
  <2>3. CASE ExposeMulti(p)
    BY <2>3, BatchSeq DEF ExposeMulti
  <2>4. CASE ExposeWizard(p)
    BY <2>4, BatchSeq DEF ExposeWizard
  <2>5. CASE ExposeListed(p)
    BY <2>5, OneSeq DEF ExposeListed, NamesOf
  <2> QED
    BY <2>1, <2>2, <2>3, <2>4, <2>5
<1> QED
  BY <1>1, ExposeBeginsFacts

\* A process goes back to its prompt.
LEMMA IdleMoves ==
  ASSUME TypeOK, NEW p \in Proc, job' = [job EXCEPT ![p] = Idle]
  PROVE  job'[p] = Idle /\ Typed(p)
BY IdleFacts, Moves

\* resolve_public_port either ends the command or gives each service its port.
LEMMA ResolveFacts ==
  ASSUME TypeOK, NEW p \in Proc, Resolve(p)
  PROVE  /\ job[p].at = "resolve"
         /\ Typed(p) /\ UNCHANGED <<files, registered>>
         /\ \/ job'[p] = Idle /\ UNCHANGED mishaps
            \/ /\ LoadBlock # NoBlock
               /\ Resolves(job'[p].services, job[p].batch, LoadBlock, saved)
               /\ job'[p].at \in {"start", "connect"} /\ (job'[p].at = "start" <=> job[p].first)
               /\ job'[p].batch = job[p].batch /\ job'[p].first = job[p].first
               /\ job'[p].cut = job[p].cut /\ job'[p].copy = job[p].copy
               /\ Overlaps(p)
<1> DEFINE j == job[p]
           fits == {s \in Ports : Resolves(s, j.batch, LoadBlock, saved)}
<1>1. CASE job' = [job EXCEPT ![p] = Idle] /\ UNCHANGED mishaps
  BY <1>1, IdleMoves, IdleFacts DEF Resolve
<1>2. CASE LoadBlock # NoBlock /\ \E s \in fits :
               Enters(p, [j EXCEPT !.at = AfterResolve(j), !.services = s], {})
  <2>1. PICK s \in fits : Enters(p, [j EXCEPT !.at = AfterResolve(j), !.services = s], {})
    BY <1>2
  <2> DEFINE k == [j EXCEPT !.at = AfterResolve(j), !.services = s]
  <2>2. /\ k \in Job /\ k.at \in {"start", "connect"} /\ (k.at = "start" <=> j.first)
        /\ k.services = s
        /\ k.cut = j.cut /\ k.first = j.first /\ k.batch = j.batch /\ k.copy = j.copy
    BY ZenonT(60), JobFields DEF Job, Places, AfterResolve
  <2>3. job' = [job EXCEPT ![p] = k]
    BY <2>1 DEF Enters
  <2> HIDE DEF k
  <2>4. job'[p] = k /\ Typed(p)
    BY <2>2, <2>3, Moves
  <2>5. Overlaps(p)
    BY <2>1 DEF Enters, Overlaps
  <2> QED
    BY <1>2, <2>2, <2>4, <2>5 DEF Resolve
<1> QED
  BY <1>1, <1>2 DEF Resolve, Goes

\* The handshake is sent.
LEMMA ConnectsFacts ==
  ASSUME TypeOK, NEW p \in Proc, Connects(p)
  PROVE  /\ job[p].at = "connect" /\ Typed(p) /\ UNCHANGED <<files, registered, mishaps>>
         /\ job'[p] = [job[p] EXCEPT !.at = "register"]
<1>1. [job[p] EXCEPT !.at = "register"] \in Job
  BY JobFields DEF Job, Places
<1> QED
  BY <1>1, Moves DEF Connects, Goes

\* A session that could not start ends the command; the default may be left behind.
LEMMA ExposeFailsFacts ==
  ASSUME TypeOK, NEW p \in Proc, ExposeFails(p)
  PROVE  /\ job[p].at \in {"connect", "register", "reconnect"} /\ Typed(p)
         /\ UNCHANGED <<files, registered>>
         /\ job'[p] = Idle /\ mishaps' \in {mishaps, mishaps \cup {"failed"}}
         /\ job[p].at \in {"connect", "register"} /\ job[p].first => "failed" \in mishaps'
BY IdleMoves DEF ExposeFails

\* The server has acknowledged the ports, and the save loop starts.
LEMMA RegisteredFacts ==
  ASSUME TypeOK, NEW p \in Proc, Registered(p)
  PROVE  /\ job[p].at \in {"register", "reconnect"} /\ Typed(p) /\ UNCHANGED files /\ Overlaps(p)
         /\ job'[p] = [job[p] EXCEPT !.at = "save", !.left = job[p].batch]
         /\ registered' =
              registered \cup {<<n, job[p].services[n]>> : n \in NamesOf(job[p].services)}
<1>1. [job[p] EXCEPT !.at = "save", !.left = job[p].batch] \in Job
  BY ZenonT(60), JobFields DEF Job, Places
<1> QED
  BY <1>1, Moves DEF Registered, Enters, Overlaps

\* save_tunnel has read the store it is going to write.
LEMMA SaveLoadsFacts ==
  ASSUME TypeOK, NEW p \in Proc, SaveLoads(p)
  PROVE  /\ job[p].at = "save" /\ Typed(p) /\ UNCHANGED <<files, registered, mishaps>>
         /\ job'[p] = [job[p] EXCEPT !.at = "write", !.copy = saved]
<1>1. [job[p] EXCEPT !.at = "write", !.copy = saved] \in Job
  BY ZenonT(60), JobFields DEF Job, Places, TypeOK
<1> QED
  BY <1>1, Moves DEF SaveLoads, Goes

\* A session that ends: the process reconnects or stops.
LEMMA DisconnectsFacts ==
  ASSUME TypeOK, NEW p \in Proc, Disconnects(p)
  PROVE  /\ job[p].at = "live" /\ Typed(p) /\ UNCHANGED <<files, registered, mishaps>>
         /\ job'[p] \in {Idle, [job[p] EXCEPT !.at = "reconnect"]}
<1>1. [job[p] EXCEPT !.at = "reconnect"] \in Job
  BY JobFields DEF Job, Places
<1> QED
  BY <1>1, Moves, IdleMoves DEF Disconnects, Goes

\* on_registered raises, and the client reconnects without having saved.
LEMMA WriteFailsFacts ==
  ASSUME TypeOK, NEW p \in Proc, WriteFails(p)
  PROVE  /\ job[p].at \in {"write", "note"} /\ Typed(p) /\ UNCHANGED <<files, registered>>
         /\ mishaps' = mishaps \cup {"crashed"}
         /\ job'[p] = [job[p] EXCEPT !.at = "reconnect", !.cut = FALSE, !.left = <<>>, !.copy = Nothing]
<1>0. <<>> \in Seq(Name) /\ "reconnect" \in Places
  BY DEF Places
<1>1. [job[p] EXCEPT !.at = "reconnect", !.cut = FALSE, !.left = <<>>, !.copy = Nothing] \in Job
  BY <1>0, JobFields, PortFacts DEF Job
<1> QED
  BY <1>1, Moves DEF WriteFails

\* Opening tunnels.json to write it empties it; a deletion of the last tunnel
\* unlinks it.
LEMMA CutSavedFacts ==
  ASSUME TypeOK, NEW p \in Proc, CutSaved(p)
  PROVE  /\ job[p].at \in {"write", "remove"} /\ ~ job[p].cut /\ Typed(p)
         /\ UNCHANGED <<token, config, default, registered, mishaps>>
         /\ saved' = Nothing
         /\ job'[p] = IF job[p].at = "remove" /\ job[p].copy = Nothing
                      THEN [job[p] EXCEPT !.at = "check"] ELSE [job[p] EXCEPT !.cut = TRUE]
<1>1. [job[p] EXCEPT !.at = "check"] \in Job /\ [job[p] EXCEPT !.cut = TRUE] \in Job
  BY ZenonT(60), JobFields DEF Job, Places
<1> QED
  BY <1>1, Moves DEF CutSaved, Goes, Cut

\* The copy is written with the new service in it, or without the deleted one.
LEMMA FillSavedFacts ==
  ASSUME TypeOK, NEW p \in Proc, FillSaved(p)
  PROVE  /\ job[p].at \in {"write", "remove"} /\ job[p].cut /\ Typed(p)
         /\ UNCHANGED <<token, config, default, registered, mishaps>>
         /\ saved' = IF job[p].at = "write"
                     THEN [job[p].copy EXCEPT ![Head(job[p].left)] = job[p].services[Head(job[p].left)]]
                     ELSE job[p].copy
         /\ job'[p] = [job[p] EXCEPT !.at = IF job[p].at = "write" THEN "note" ELSE "check",
                                     !.cut = FALSE, !.copy = Nothing]
<1>1. [job[p] EXCEPT !.at = IF job[p].at = "write" THEN "note" ELSE "check",
                     !.cut = FALSE, !.copy = Nothing] \in Job
  BY ZenonT(60), JobFields, PortFacts DEF Job, Places
<1> QED
  BY <1>1, Moves DEF FillSaved, Goes

\* Opening preferences.json to write it empties it.
LEMMA CutDefaultFacts ==
  ASSUME TypeOK, NEW p \in Proc, CutDefault(p)
  PROVE  /\ job[p].at \in {"start", "note", "pick"} /\ ~ job[p].cut /\ Typed(p)
         /\ UNCHANGED <<token, config, saved, registered, mishaps>>
         /\ default' = NoName
         /\ job'[p] = [job[p] EXCEPT !.cut = TRUE]
<1>1. [job[p] EXCEPT !.cut = TRUE] \in Job
  BY JobFields DEF Job
<1> QED
  BY <1>1, Moves DEF CutDefault, Goes, Cut

\* The default is written: by the wizard, by the save loop, or by a command for it.
LEMMA FillDefaultFacts ==
  ASSUME TypeOK, ShapeInv, NEW p \in Proc, FillDefault(p)
  PROVE  /\ job[p].at \in {"start", "note", "pick"} /\ job[p].cut /\ Typed(p)
         /\ UNCHANGED <<token, config, saved, registered, mishaps>>
         /\ default' = IF job[p].at = "start" THEN Head(job[p].batch) ELSE Head(job[p].left)
         /\ job[p].at = "start" => job'[p] = [job[p] EXCEPT !.cut = FALSE, !.at = "connect"]
         /\ job[p].at = "pick" => job'[p] = Idle
         /\ job[p].at = "note" =>
              job'[p] = [job[p] EXCEPT !.cut = FALSE, !.left = Tail(job[p].left),
                                       !.at = IF Tail(job[p].left) = <<>> THEN "live" ELSE "save"]
<1>0. job[p].at \in {"start", "note", "pick"}
  BY DEF FillDefault
<1>1. CASE job[p].at = "start"
  <2>1. [job[p] EXCEPT !.cut = FALSE, !.at = "connect"] \in Job
    BY JobFields DEF Job, Places
  <2>2. job' = [job EXCEPT ![p] = [job[p] EXCEPT !.cut = FALSE, !.at = "connect"]]
    BY <1>1, JobFields DEF FillDefault, Goes, Job
  <2> QED
    BY <1>1, <2>1, <2>2, Moves DEF FillDefault, Goes
<1>2. CASE job[p].at = "pick"
  BY <1>2, IdleMoves DEF FillDefault, Goes
<1>3. CASE job[p].at = "note"
  <2> DEFINE k == [job[p] EXCEPT !.cut = FALSE, !.left = Tail(job[p].left),
                                 !.at = IF Tail(job[p].left) = <<>> THEN "live" ELSE "save"]
  <2>0. job[p].left # <<>> /\ job[p].left \in Seq(Name)
    BY <1>3, JobFields DEF ShapeInv, Shape, Saving
  <2>1. k \in Job
    BY ZenonT(60), <2>0, JobFields, TailSeq DEF Job, Places
  <2>2. job' = [job EXCEPT ![p] = k]
    BY <1>3, JobFields DEF FillDefault, Goes, Job
  <2> HIDE DEF k
  <2>3. job'[p] = k /\ Typed(p)
    BY <2>1, <2>2, Moves
  <2> QED
    BY <1>3, <2>3 DEF FillDefault, Goes, k
<1> QED
  BY <1>0, <1>1, <1>2, <1>3

\* delete_tunnel has read the store without the name; a process that holds the
\* name is noted.
LEMMA DeleteBeginsFacts ==
  ASSUME TypeOK, NEW p \in Proc, NEW n \in Name, DeleteBegins(p, n)
  PROVE  /\ job[p].at = "idle" /\ Typed(p) /\ UNCHANGED <<files, registered>>
         /\ job'[p].at = "remove" /\ ~ job'[p].cut /\ job'[p].left = <<n>>
         /\ job'[p].copy = [saved EXCEPT ![n] = NoPort] /\ job'[p].services = Nothing
         /\ \/ "deleted" \in mishaps'
            \/ \A q \in Proc : Holds(q) => job[q].services[n] = NoPort
         /\ mishaps \subseteq mishaps'
         /\ (\E q \in Proc \ {p} : Busy(q)) => "raced" \in mishaps'
<1> DEFINE c == [saved EXCEPT ![n] = NoPort]
           k == [Idle EXCEPT !.at = "remove", !.left = <<n>>, !.copy = c]
<1>1. c \in Ports
  BY DEF TypeOK, Ports
<1> HIDE DEF c
<1>2. /\ k \in Job /\ k.at = "remove" /\ ~ k.cut /\ k.left = <<n>> /\ k.copy = c
      /\ k.services = Nothing
  BY <1>1, IdleFacts, OneSeq DEF Job, Places
<1>3. job' = [job EXCEPT ![p] = k]
  BY DEF DeleteBegins, Enters, c
<1> HIDE DEF k
<1>4. \/ "deleted" \in mishaps'
      \/ \A q \in Proc : Holds(q) => job[q].services[n] = NoPort
  BY DEF DeleteBegins, Enters, NamesOf
<1>5. mishaps \subseteq mishaps' /\ ((\E q \in Proc \ {p} : Busy(q)) => "raced" \in mishaps')
  BY DEF DeleteBegins, Enters
<1> QED
  BY <1>2, <1>3, <1>4, <1>5, Moves DEF DeleteBegins, c

\* delete_tunnel compares the name with the default,
LEMMA DeleteChecksFacts ==
  ASSUME TypeOK, NEW p \in Proc, DeleteChecks(p)
  PROVE  /\ job[p].at = "check" /\ Typed(p) /\ UNCHANGED <<files, registered, mishaps>>
         /\ job'[p] = IF default = Head(job[p].left) THEN [job[p] EXCEPT !.at = "clear"] ELSE Idle
<1>1. [job[p] EXCEPT !.at = "clear"] \in Job
  BY JobFields DEF Job, Places
<1> QED
  BY <1>1, Moves, IdleMoves DEF DeleteChecks, Goes

\* and removes the default.
LEMMA DeleteClearsFacts ==
  ASSUME TypeOK, NEW p \in Proc, DeleteClears(p)
  PROVE  /\ job[p].at = "clear" /\ Typed(p)
         /\ UNCHANGED <<token, config, saved, registered, mishaps>>
         /\ default' = NoName /\ job'[p] = Idle
BY IdleMoves DEF DeleteClears, Goes

\* set_default_tunnel takes a name that is saved.
LEMMA SetDefaultBeginsFacts ==
  ASSUME TypeOK, NEW p \in Proc, NEW n \in Name, SetDefaultBegins(p, n)
  PROVE  /\ job[p].at = "idle" /\ saved[n] # NoPort /\ Typed(p)
         /\ UNCHANGED <<files, registered>> /\ Overlaps(p)
         /\ job'[p].at = "pick" /\ ~ job'[p].cut /\ job'[p].left = <<n>>
         /\ job'[p].copy = Nothing /\ job'[p].services = Nothing
<1> DEFINE k == [Idle EXCEPT !.at = "pick", !.left = <<n>>]
<1>1. /\ k \in Job /\ k.at = "pick" /\ ~ k.cut /\ k.left = <<n>> /\ k.copy = Nothing
      /\ k.services = Nothing
  BY IdleFacts, OneSeq DEF Job, Places
<1>2. job' = [job EXCEPT ![p] = k]
  BY DEF SetDefaultBegins, Enters
<1> HIDE DEF k
<1>3. Overlaps(p)
  BY DEF SetDefaultBegins, Enters, Overlaps
<1> QED
  BY <1>1, <1>2, <1>3, Moves DEF SetDefaultBegins

\* A login has been issued a token and perhaps a block; a change of block is noted.
LEMMA LoginBeginsFacts ==
  ASSUME TypeOK, NEW p \in Proc, NEW block \in Block \cup {NoBlock}, LoginBegins(p, block)
  PROVE  /\ job[p].at = "idle" /\ Typed(p) /\ UNCHANGED <<files, registered>>
         /\ job'[p].at \in {"block", "token"} /\ (job'[p].at = "block" => block # NoBlock)
         /\ ~ job'[p].cut /\ job'[p].issued = block
         /\ job'[p].copy = Nothing /\ job'[p].services = Nothing
         /\ mishaps \subseteq mishaps'
         /\ (\E q \in Proc \ {p} : Busy(q)) => "raced" \in mishaps'
         /\ job'[p].at = "token" => "bare" \in mishaps'
         /\ \/ "moved" \in mishaps' \/ LoadBlock = block
            \/ saved = Nothing /\ \A q \in Proc : job[q].services = Nothing
<1>1. PICK place \in {"block", "token"} :
        /\ place = "block" => block # NoBlock
        /\ Enters(p, [Idle EXCEPT !.at = place, !.issued = block],
                  {m \in {"moved"} : LoadBlock # block
                      /\ (saved # Nothing \/ \E q \in Proc : job[q].services # Nothing)}
                  \cup {m \in {"bare"} : place = "token"})
  BY DEF LoginBegins
<1> DEFINE k == [Idle EXCEPT !.at = place, !.issued = block]
<1>2. /\ k \in Job /\ k.at = place /\ ~ k.cut /\ k.copy = Nothing /\ k.issued = block
      /\ k.services = Nothing
  BY IdleFacts DEF Job, Places
<1>3. job' = [job EXCEPT ![p] = k]
  BY <1>1 DEF Enters
<1> HIDE DEF k
<1>4. /\ mishaps \subseteq mishaps'
      /\ (\E q \in Proc \ {p} : Busy(q)) => "raced" \in mishaps'
      /\ place = "token" => "bare" \in mishaps'
  BY <1>1 DEF Enters
<1>5. \/ "moved" \in mishaps' \/ LoadBlock = block
      \/ saved = Nothing /\ \A q \in Proc : job[q].services = Nothing
  BY <1>1 DEF Enters
<1> QED
  BY <1>1, <1>2, <1>3, <1>4, <1>5, Moves DEF LoginBegins

\* A logout starts; a process that holds a tunnel is noted.
LEMMA LogoutBeginsFacts ==
  ASSUME TypeOK, NEW p \in Proc, LogoutBegins(p)
  PROVE  /\ job[p].at = "idle" /\ Typed(p) /\ UNCHANGED <<files, registered>>
         /\ job'[p].at = "signout" /\ ~ job'[p].cut
         /\ job'[p].copy = Nothing /\ job'[p].services = Nothing
         /\ mishaps \subseteq mishaps'
         /\ (\E q \in Proc \ {p} : Busy(q)) => "raced" \in mishaps'
         /\ "deleted" \in mishaps' \/ \A q \in Proc : ~ Holds(q)
<1> DEFINE k == [Idle EXCEPT !.at = "signout"]
<1>1. /\ k \in Job /\ k.at = "signout" /\ ~ k.cut /\ k.copy = Nothing /\ k.services = Nothing
  BY IdleFacts DEF Job, Places
<1>2. job' = [job EXCEPT ![p] = k]
  BY DEF LogoutBegins, Enters
<1> HIDE DEF k
<1>3. /\ mishaps \subseteq mishaps'
      /\ (\E q \in Proc \ {p} : Busy(q)) => "raced" \in mishaps'
      /\ "deleted" \in mishaps' \/ \A q \in Proc : ~ Holds(q)
  BY DEF LogoutBegins, Enters
<1> QED
  BY <1>1, <1>2, <1>3, Moves DEF LogoutBegins

\* A login writes the block, then the token, each file emptied first.
LEMMA LoginWritesFacts ==
  ASSUME TypeOK, NEW p \in Proc, LoginWritesBlock(p) \/ LoginWritesToken(p)
  PROVE  /\ job[p].at \in {"block", "token"} /\ Typed(p)
         /\ UNCHANGED <<saved, default, registered, mishaps>>
         /\ job[p].at = "block" =>
              /\ config' = (IF job[p].cut THEN job[p].issued ELSE NoBlock) /\ token' = token
              /\ job'[p] = IF job[p].cut THEN [job[p] EXCEPT !.at = "token", !.cut = FALSE]
                           ELSE [job[p] EXCEPT !.cut = TRUE]
         /\ job[p].at = "token" =>
              /\ token' = (IF job[p].cut THEN job[p].issued ELSE NoFile) /\ config' = config
              /\ job'[p] = IF job[p].cut THEN Idle ELSE [job[p] EXCEPT !.cut = TRUE]
<1>1. [job[p] EXCEPT !.at = "token", !.cut = FALSE] \in Job /\ [job[p] EXCEPT !.cut = TRUE] \in Job
  BY JobFields DEF Job, Places
<1>2. CASE LoginWritesBlock(p)
  BY <1>1, <1>2, Moves DEF LoginWritesBlock, Goes, Cut
<1>3. CASE LoginWritesToken(p)
  BY <1>1, <1>3, Moves, IdleMoves DEF LoginWritesToken, Goes, Cut
<1> QED
  BY <1>2, <1>3

\* A logout removes the four files one by one.
LEMMA LogoutStepFacts ==
  ASSUME TypeOK, NEW p \in Proc, LogoutStep(p)
  PROVE  /\ Typed(p) /\ UNCHANGED <<registered, mishaps>>
         /\ \/ /\ job[p].at = "signout" /\ token' = NoFile /\ UNCHANGED <<config, saved, default>>
               /\ job'[p] = [job[p] EXCEPT !.at = "tunnels"]
            \/ /\ job[p].at = "tunnels" /\ saved' = Nothing /\ UNCHANGED <<token, config, default>>
               /\ job'[p] = [job[p] EXCEPT !.at = "prefs"]
            \/ /\ job[p].at = "prefs" /\ default' = NoName /\ UNCHANGED <<token, config, saved>>
               /\ job'[p] = [job[p] EXCEPT !.at = "unassign"]
            \/ /\ job[p].at = "unassign" /\ config' = NoFile /\ UNCHANGED <<token, saved, default>>
               /\ job'[p] = Idle
<1>1. /\ [job[p] EXCEPT !.at = "tunnels"] \in Job /\ [job[p] EXCEPT !.at = "prefs"] \in Job
      /\ [job[p] EXCEPT !.at = "unassign"] \in Job
  BY JobFields DEF Job, Places
<1> QED
  BY <1>1, Moves, IdleMoves DEF LogoutStep, Goes

\* A process dies in the middle of a command.
LEMMA CrashFacts ==
  ASSUME TypeOK, NEW p \in Proc, Crash(p)
  PROVE  /\ Busy(p) /\ Typed(p) /\ UNCHANGED <<files, registered>> /\ job'[p] = Idle
         /\ mishaps' = mishaps \cup {"crashed"}
BY IdleMoves DEF Crash

ProcStep(p) == ExposeStep(p) \/ FileStep(p) \/ CommandStep(p) \/ Crash(p)

\* The steps that only go on with what the process is at.
LEMMA MishapFacts ==
  ASSUME TypeOK, NEW p \in Proc, ProcStep(p)
  PROVE  mishaps \subseteq mishaps' /\ mishaps' \subseteq Mishap
<1> USE DEF TypeOK, Mishap
<1>1. CASE ExposeStep(p)
  <2>1. CASE ExposeNamed(p) \/ ExposeQuick(p) \/ ExposeMulti(p) \/ ExposeWizard(p) \/ ExposeListed(p)
    BY <2>1, BeginFacts
  <2>2. CASE Resolve(p)
    BY <2>2, ResolveFacts DEF Overlaps
  <2>3. CASE Connects(p) \/ ExposeFails(p) \/ Registered(p)
    BY <2>3, ConnectsFacts, ExposeFailsFacts, RegisteredFacts DEF Overlaps
  <2>4. CASE SaveLoads(p) \/ Disconnects(p) \/ WriteFails(p)
    BY <2>4, SaveLoadsFacts, DisconnectsFacts, WriteFailsFacts
  <2> QED
    BY <1>1, <2>1, <2>2, <2>3, <2>4 DEF ExposeStep
<1>2. CASE FileStep(p)
  <2>1. UNCHANGED mishaps
    BY <1>2 DEF FileStep, CutSaved, FillSaved, CutDefault, FillDefault, LoginWritesBlock,
                LoginWritesToken, LogoutStep, Goes, Cut
  <2> QED
    BY <2>1
<1>3. CASE CommandStep(p)
  BY <1>3 DEF CommandStep, DeleteBegins, SetDefaultBegins, DeleteChecks, DeleteClears, LoginBegins,
              LogoutBegins, Goes, Enters
<1>4. CASE Crash(p)
  BY <1>4 DEF Crash
<1> QED
  BY <1>1, <1>2, <1>3, <1>4 DEF ProcStep

FileTypes ==
  /\ token \in Block \cup {NoBlock, NoFile} /\ config \in Block \cup {NoBlock, NoFile}
  /\ saved \in Ports /\ default \in Name \cup {NoName}
  /\ registered \subseteq Name \X Port

\* What a step of one process has to establish.
LEMMA Gather ==
  ASSUME BaseInv, NEW p \in Proc, Typed(p), FileTypes', commands' \in Nat,
         registered \subseteq registered', mishaps \subseteq mishaps', mishaps' \subseteq Mishap,
         Shape(job'[p]), Acked(saved)', Acked(job[p].copy)',
         job'[p].at \in Saving => Acked(job[p].services)',
         Busy(p)' => \/ Busy(p) \/ "raced" \in mishaps' \/ \A q \in Proc \ {p} : ~ Busy(q)
  PROVE  BaseInv'
<1> USE DEF BaseInv
<1>1. TypeOK'
  BY DEF TypeOK, FileTypes, Typed
<1>2. \A q \in Proc : q # p => job'[q] = job[q]
  BY DEF Typed, Rest
<1>3. ShapeInv'
  BY <1>2 DEF ShapeInv
<1>4. AckedInv'
  <2>1. \A q \in Proc : q # p => Acked(job[q].copy)' /\ (job[q].at \in Saving => Acked(job[q].services)')
    BY <1>2 DEF AckedInv, Acked
  <2> QED
    BY <1>2, <2>1 DEF AckedInv
<1>5. AloneInv'
  <2>1. \A q \in Proc : q # p => (Busy(q)' <=> Busy(q))
    BY <1>2 DEF Busy
  <2> QED
    BY <2>1 DEF AloneInv
<1> QED
  BY <1>1, <1>3, <1>4, <1>5

\* A step that writes no file keeps what the files satisfy.
LEMMA SameFiles ==
  ASSUME BaseInv, UNCHANGED <<files, registered>>
  PROVE  FileTypes' /\ Acked(saved)' /\ registered \subseteq registered'
BY DEF BaseInv, TypeOK, FileTypes, files, AckedInv, Acked

\* An empty store has nothing the server has not acknowledged.
LEMMA AckedNothing == Acked(Nothing)'
BY DEF Acked, Nothing

\* A process that goes idle has nothing left to satisfy.
LEMMA BusyIdle ==
  ASSUME TypeOK, NEW p \in Proc, job'[p] = Idle
  PROVE  ~ Busy(p)' /\ Shape(job'[p]) /\ Acked(job[p].copy)' /\ job'[p].at \notin Saving
BY IdleFacts, AckedNothing DEF Busy, Saving

\* An overlap is noted, or there is none.
LEMMA OverlapFacts ==
  ASSUME NEW p \in Proc, Overlaps(p)
  PROVE  "raced" \in mishaps' \/ \A q \in Proc \ {p} : ~ Busy(q)
BY DEF Overlaps

\* The steps of an expose keep the base invariant.
LEMMA BaseExpose ==
  ASSUME BaseInv, NEW p \in Proc, ExposeStep(p), commands' \in Nat
  PROVE  BaseInv'
<1>0. TypeOK /\ Shape(job[p]) /\ Acked(job[p].copy) /\ (job[p].at \in Saving => Acked(job[p].services))
  BY DEF BaseInv, ShapeInv, AckedInv
<1>m. mishaps \subseteq mishaps' /\ mishaps' \subseteq Mishap
  BY <1>0, MishapFacts DEF ProcStep
<1> USE DEF Shape, Busy, Exposing, Saving, Serving
<1>1. CASE ExposeNamed(p) \/ ExposeQuick(p) \/ ExposeMulti(p) \/ ExposeWizard(p) \/ ExposeListed(p)
  <2>1. Acked(job[p].copy)'
    BY <1>0, <1>1, BeginFacts, AckedNothing
  <2> QED
    BY <1>0, <1>1, <1>m, <2>1, BeginFacts, SameFiles, Gather
<1>2. CASE Resolve(p)
  <2>1. CASE job'[p] = Idle
    BY <1>0, <1>2, <1>m, <2>1, ResolveFacts, BusyIdle, SameFiles, Gather
  <2>2. CASE job'[p] # Idle
    <3>1. /\ Resolves(job'[p].services, job[p].batch, LoadBlock, saved) /\ Overlaps(p)
          /\ job'[p].at \in {"start", "connect"} /\ job'[p].batch = job[p].batch
          /\ job'[p].cut = job[p].cut /\ job'[p].copy = job[p].copy /\ job[p].at = "resolve"
      BY <1>0, <1>2, <2>2, ResolveFacts
    <3>2. Shape(job'[p])
      BY <1>0, <3>1 DEF Resolves
    <3>3. Acked(job[p].copy)'
      BY <1>0, <1>2, <3>1, ResolveFacts DEF Acked
    <3> QED
      BY <1>0, <1>2, <1>m, <3>1, <3>2, <3>3, ResolveFacts, OverlapFacts, SameFiles, Gather
  <2> QED
    BY <2>1, <2>2
<1>3. CASE Connects(p)
  <2>1. Acked(job[p].copy)' /\ Shape(job'[p]) /\ job'[p].at = "register" /\ job[p].at = "connect"
    BY ZenonT(60), <1>0, <1>3, ConnectsFacts, JobFields DEF Acked, Job
  <2> QED
    BY <1>0, <1>3, <1>m, <2>1, ConnectsFacts, SameFiles, Gather
<1>4. CASE ExposeFails(p)
  BY <1>0, <1>4, <1>m, ExposeFailsFacts, BusyIdle, SameFiles, Gather
<1>5. CASE Registered(p)
  <2>1. /\ job'[p].at = "save" /\ job'[p].copy = job[p].copy /\ job'[p].services = job[p].services
        /\ job'[p].left = job[p].batch /\ job'[p].batch = job[p].batch /\ job'[p].cut = job[p].cut
    BY <1>0, <1>5, RegisteredFacts, JobFields DEF Job
  <2>2. registered \subseteq registered' /\ registered' \subseteq Name \X Port
    <3>1. registered' = registered \cup {<<n, job[p].services[n]>> : n \in NamesOf(job[p].services)}
      BY <1>0, <1>5, RegisteredFacts
    <3>2. ASSUME NEW n \in NamesOf(job[p].services)
          PROVE  <<n, job[p].services[n]>> \in Name \X Port
      BY <1>0, JobFields DEF NamesOf, Ports
    <3>3. registered \subseteq Name \X Port
      BY <1>0 DEF TypeOK
    <3> QED
      BY <3>1, <3>2, <3>3
  <2>3. Acked(job[p].services)'
    <3>1. registered' = registered \cup {<<n, job[p].services[n]>> : n \in NamesOf(job[p].services)}
      BY <1>0, <1>5, RegisteredFacts
    <3>2. ASSUME NEW n \in Name, job[p].services[n] # NoPort
          PROVE  <<n, job[p].services[n]>> \in registered'
      <4>1. n \in NamesOf(job[p].services)
        BY <3>2 DEF NamesOf
      <4> QED
        BY <3>1, <4>1
    <3> QED
      BY <2>1, <3>2 DEF Acked
  <2>4. Acked(saved)' /\ Acked(job[p].copy)'
    BY <1>0, <1>5, <2>1, <2>2, RegisteredFacts DEF BaseInv, AckedInv, Acked, files
  <2>5. FileTypes'
    BY <1>0, <1>5, <2>2, RegisteredFacts DEF FileTypes, TypeOK, files
  <2>6. Shape(job'[p])
    BY <1>0, <1>5, <2>1, RegisteredFacts
  <2> QED
    BY <1>0, <1>5, <1>m, <2>1, <2>2, <2>3, <2>4, <2>5, <2>6, RegisteredFacts, OverlapFacts, Gather
<1>6. CASE SaveLoads(p)
  <2>1. /\ job'[p].at = "write" /\ job'[p].copy = saved /\ job'[p].services = job[p].services
        /\ job'[p].left = job[p].left /\ job'[p].batch = job[p].batch /\ job'[p].cut = job[p].cut
        /\ job[p].at = "save"
    BY <1>0, <1>6, SaveLoadsFacts, JobFields DEF Job
  <2>2. Acked(job[p].services)' /\ Acked(job[p].copy)' /\ Shape(job'[p])
    BY <1>0, <1>6, <2>1, SaveLoadsFacts DEF Acked, BaseInv, AckedInv
  <2> QED
    BY <1>0, <1>6, <1>m, <2>1, <2>2, SaveLoadsFacts, SameFiles, Gather
<1>7. CASE Disconnects(p)
  <2>1. CASE job'[p] = Idle
    BY <1>0, <1>7, <1>m, <2>1, DisconnectsFacts, BusyIdle, SameFiles, Gather
  <2>2. CASE job'[p] = [job[p] EXCEPT !.at = "reconnect"]
    <3>1. Acked(job[p].copy)' /\ Shape(job'[p]) /\ job'[p].at = "reconnect"
      BY <1>0, <1>7, <2>2, DisconnectsFacts, JobFields DEF Acked, Job
    <3> QED
      BY <1>0, <1>7, <1>m, <3>1, DisconnectsFacts, SameFiles, Gather
  <2> QED
    BY <1>0, <1>7, <2>1, <2>2, DisconnectsFacts
<1>8. CASE WriteFails(p)
  <2>1. /\ job'[p].at = "reconnect" /\ job'[p].copy = Nothing /\ job'[p].services = job[p].services
        /\ job'[p].batch = job[p].batch /\ ~ job'[p].cut
    BY ZenonT(60), <1>0, <1>8, WriteFailsFacts, JobFields DEF Job
  <2>2. Acked(job[p].copy)' /\ Shape(job'[p])
    BY <1>0, <1>8, <2>1, WriteFailsFacts, AckedNothing
  <2> QED
    BY <1>0, <1>8, <1>m, <2>1, <2>2, WriteFailsFacts, SameFiles, Gather
<1> QED
  BY <1>1, <1>2, <1>3, <1>4, <1>5, <1>6, <1>7, <1>8 DEF ExposeStep

\* So do the writes of tunnels.json and preferences.json,
LEMMA BaseFile ==
  ASSUME BaseInv, NEW p \in Proc, FileStep(p), commands' \in Nat
  PROVE  BaseInv'
<1>0. TypeOK /\ ShapeInv /\ Shape(job[p]) /\ Acked(job[p].copy) /\ Acked(saved)
      /\ (job[p].at \in Saving => Acked(job[p].services))
  BY DEF BaseInv, ShapeInv, AckedInv
<1>m. mishaps \subseteq mishaps' /\ mishaps' \subseteq Mishap
  BY <1>0, MishapFacts DEF ProcStep
<1>b. Busy(p)' => Busy(p) \/ "raced" \in mishaps' \/ \A q \in Proc \ {p} : ~ Busy(q)
  BY DEF FileStep, CutSaved, FillSaved, CutDefault, FillDefault, LoginWritesBlock, LoginWritesToken,
         LogoutStep, Busy
<1>t. FileTypes
  BY <1>0 DEF TypeOK, FileTypes
<1>1. CASE CutSaved(p)
  <2>1. CASE job'[p] = [job[p] EXCEPT !.at = "check"] /\ job[p].at = "remove"
    <3>1. /\ job'[p].at = "check" /\ job'[p].copy = job[p].copy /\ job'[p].services = job[p].services
          /\ job'[p].left = job[p].left /\ ~ job'[p].cut
      BY <1>0, <1>1, <2>1, CutSavedFacts, JobFields DEF Job
    <3>2. Shape(job'[p]) /\ job'[p].at \notin Saving
      BY <1>0, <2>1, <3>1 DEF Shape, Exposing, Saving, Serving
    <3>3. Acked(job[p].copy)' /\ Acked(saved)' /\ FileTypes'
      BY <1>0, <1>1, <1>t, <3>1, CutSavedFacts, AckedNothing, PortFacts DEF Acked, FileTypes
    <3> QED
      BY <1>0, <1>1, <1>m, <1>b, <3>2, <3>3, CutSavedFacts, Gather
  <2>2. CASE job'[p] = [job[p] EXCEPT !.cut = TRUE]
    <3>1. /\ job'[p].at = job[p].at /\ job'[p].copy = job[p].copy /\ job'[p].services = job[p].services
          /\ job'[p].left = job[p].left /\ job'[p].batch = job[p].batch
      BY <1>0, <1>1, <2>2, CutSavedFacts, JobFields DEF Job
    <3>2. Shape(job'[p])
      BY <1>0, <1>1, <3>1, CutSavedFacts DEF Shape, Exposing, Saving, Serving
    <3>3. Acked(job[p].copy)' /\ Acked(saved)' /\ FileTypes'
      BY <1>0, <1>1, <1>t, <3>1, CutSavedFacts, AckedNothing, PortFacts DEF Acked, FileTypes
    <3>4. job'[p].at \in Saving => Acked(job[p].services)'
      BY <1>0, <1>1, <3>1, CutSavedFacts DEF Acked
    <3> QED
      BY <1>0, <1>1, <1>m, <1>b, <3>2, <3>3, <3>4, CutSavedFacts, Gather
  <2> QED
    BY <1>0, <1>1, <2>1, <2>2, CutSavedFacts
<1>2. CASE FillSaved(p)
  <2> DEFINE h == Head(job[p].left)
  <2>1. /\ job'[p].at = (IF job[p].at = "write" THEN "note" ELSE "check") /\ job'[p].copy = Nothing
        /\ job'[p].services = job[p].services /\ ~ job'[p].cut
        /\ job'[p].left = job[p].left /\ job'[p].batch = job[p].batch
        /\ job[p].at \in {"write", "remove"}
    <3>1. /\ job'[p] = [job[p] EXCEPT !.at = IF job[p].at = "write" THEN "note" ELSE "check",
                                      !.cut = FALSE, !.copy = Nothing]
          /\ job[p].at \in {"write", "remove"}
      BY <1>0, <1>2, FillSavedFacts
    <3>2. job[p] \in Job
      BY <1>0, JobFields
    <3> QED
      BY <3>1, <3>2 DEF Job
  <2>2. Shape(job'[p]) /\ job[p].left # <<>>
    BY <1>0, <2>1 DEF Shape, Exposing, Saving, Serving
  <2>3. Acked(job[p].copy)'
    BY <2>1, AckedNothing
  <2>4. h \in Name
    BY <1>0, <2>2, JobFields, TailSeq
  <2>5. saved' = IF job[p].at = "write" THEN [job[p].copy EXCEPT ![h] = job[p].services[h]]
                 ELSE job[p].copy
    BY <1>0, <1>2, FillSavedFacts
  <2> HIDE DEF h
  <2>6. saved' \in Ports
    BY <1>0, <2>4, <2>5, JobFields DEF Ports
  <2>7. FileTypes'
    BY <1>0, <1>2, <1>t, <2>6, FillSavedFacts DEF FileTypes
  <2>8. Acked(saved)'
    <3>1. CASE job[p].at = "write"
      <4>1. \A n \in Name : saved'[n] = IF n = h THEN job[p].services[h] ELSE job[p].copy[n]
        BY <1>0, <2>4, <2>5, <3>1, JobFields DEF Ports
      <4>2. Acked(job[p].services)
        BY <1>0, <3>1 DEF Saving
      <4>3. registered' = registered
        BY <1>0, <1>2, FillSavedFacts
      <4> QED
        BY <1>0, <2>4, <4>1, <4>2, <4>3 DEF Acked
    <3>2. CASE job[p].at = "remove"
      BY <1>0, <1>2, <2>5, <3>2, FillSavedFacts DEF Acked
    <3> QED
      BY <2>1, <3>1, <3>2
  <2>9. job'[p].at \in Saving => Acked(job[p].services)'
    BY <1>0, <1>2, <2>1, FillSavedFacts DEF Acked, Saving
  <2> QED
    BY <1>0, <1>2, <1>m, <1>b, <2>2, <2>3, <2>7, <2>8, <2>9, FillSavedFacts, Gather
<1>3. CASE CutDefault(p)
  <2>1. /\ job'[p].at = job[p].at /\ job'[p].copy = job[p].copy /\ job'[p].services = job[p].services
        /\ job'[p].left = job[p].left /\ job'[p].batch = job[p].batch
        /\ job[p].at \in {"start", "note", "pick"}
    BY <1>0, <1>3, CutDefaultFacts, JobFields DEF Job
  <2>2. Shape(job'[p])
    BY <1>0, <2>1 DEF Shape, Exposing, Saving, Serving
  <2>3. Acked(job[p].copy)' /\ Acked(saved)' /\ FileTypes' /\ (job'[p].at \in Saving => Acked(job[p].services)')
    BY <1>0, <1>3, <1>t, <2>1, CutDefaultFacts DEF Acked, FileTypes
  <2> QED
    BY <1>0, <1>3, <1>m, <1>b, <2>2, <2>3, CutDefaultFacts, Gather
<1>4. CASE FillDefault(p)
  <2>1. job[p].at = "start" => job[p].batch # <<>>
    BY <1>0 DEF Shape, Exposing
  <2>2. job[p].at \in {"note", "pick"} => job[p].left # <<>>
    BY <1>0 DEF Shape, Saving
  <2>3. default' \in Name
    <3>1. CASE job[p].at = "start"
      <4>1. Head(job[p].batch) \in Name
        BY <1>0, <2>1, <3>1, JobFields, TailSeq
      <4> QED
        BY <1>0, <1>4, <3>1, <4>1, FillDefaultFacts
    <3>2. CASE job[p].at \in {"note", "pick"}
      <4>1. Head(job[p].left) \in Name
        BY <1>0, <2>2, <3>2, JobFields, TailSeq
      <4> QED
        BY <1>0, <1>4, <3>2, <4>1, FillDefaultFacts
    <3> QED
      BY <1>0, <1>4, <3>1, <3>2, FillDefaultFacts
  <2>4. FileTypes' /\ Acked(saved)' /\ registered' = registered
    BY <1>0, <1>4, <1>t, <2>3, FillDefaultFacts DEF FileTypes, Acked
  <2>5. CASE job[p].at = "start"
    <3>1. /\ job'[p].at = "connect" /\ ~ job'[p].cut /\ job'[p].copy = job[p].copy
          /\ job'[p].services = job[p].services /\ job'[p].batch = job[p].batch
      BY ZenonT(60), <1>0, <1>4, <2>5, FillDefaultFacts, JobFields DEF Job
    <3>2. Shape(job'[p]) /\ job'[p].at \notin Saving
      BY <1>0, <2>5, <3>1 DEF Shape, Exposing, Saving, Serving
    <3>3. Acked(job[p].copy)'
      BY <1>0, <2>4, <3>1 DEF Acked
    <3> QED
      BY <1>0, <1>4, <1>m, <1>b, <2>4, <3>2, <3>3, FillDefaultFacts, Gather
  <2>6. CASE job[p].at = "pick"
    BY <1>0, <1>4, <1>m, <2>4, <2>6, FillDefaultFacts, BusyIdle, Gather
  <2>7. CASE job[p].at = "note"
    <3>1. /\ job'[p].at = (IF Tail(job[p].left) = <<>> THEN "live" ELSE "save") /\ ~ job'[p].cut
          /\ job'[p].left = Tail(job[p].left) /\ job'[p].batch = job[p].batch
          /\ job'[p].copy = job[p].copy /\ job'[p].services = job[p].services
      BY ZenonT(60), <1>0, <1>4, <2>7, FillDefaultFacts, JobFields DEF Job
    <3>2. Chosen(Tail(job[p].left)) \subseteq Chosen(job[p].left)
      BY <1>0, <2>2, <2>7, JobFields, TailSeq
    <3>3. Shape(job'[p])
      BY <1>0, <2>7, <3>1, <3>2 DEF Shape, Exposing, Saving, Serving
    <3>4. Acked(job[p].copy)' /\ Acked(job[p].services)'
      BY <1>0, <2>4, <2>7, <3>1 DEF Acked, Saving
    <3> QED
      BY <1>0, <1>4, <1>m, <1>b, <2>4, <3>3, <3>4, FillDefaultFacts, Gather
  <2> QED
    BY <1>0, <1>4, <2>5, <2>6, <2>7, FillDefaultFacts
<1>5. CASE LoginWritesBlock(p) \/ LoginWritesToken(p)
  <2>1. FileTypes' /\ Acked(saved)' /\ registered' = registered
    <3>1. /\ token' \in Block \cup {NoBlock, NoFile} /\ config' \in Block \cup {NoBlock, NoFile}
          /\ UNCHANGED <<saved, default, registered>>
      BY <1>0, <1>5, <1>t, LoginWritesFacts, JobFields DEF FileTypes
    <3> QED
      BY <1>0, <1>t, <3>1 DEF FileTypes, Acked
  <2>2. CASE job'[p] = Idle
    BY <1>0, <1>5, <1>m, <2>1, <2>2, LoginWritesFacts, BusyIdle, Gather
  <2>3. CASE job'[p] # Idle
    <3>1. /\ job'[p].at \in {"block", "token"} /\ job[p].at \in {"block", "token"}
          /\ job'[p].copy = job[p].copy /\ job'[p].services = job[p].services
      BY <1>0, <1>5, <2>3, LoginWritesFacts, JobFields DEF Job
    <3>2. Shape(job'[p]) /\ Acked(job[p].copy)' /\ job'[p].at \notin Saving
      BY <1>0, <2>1, <3>1 DEF Shape, Exposing, Saving, Serving, Acked
    <3> QED
      BY <1>0, <1>5, <1>m, <1>b, <2>1, <3>2, LoginWritesFacts, Gather
  <2> QED
    BY <2>2, <2>3
<1>6. CASE LogoutStep(p)
  <2>1. FileTypes' /\ Acked(saved)' /\ registered' = registered
    <3>1. /\ token' \in {token, NoFile} /\ config' \in {config, NoFile}
          /\ saved' \in {saved, Nothing} /\ default' \in {default, NoName}
          /\ registered' = registered
      BY <1>0, <1>6, LogoutStepFacts
    <3> QED
      BY <1>0, <1>t, <3>1, PortFacts, AckedNothing DEF FileTypes, Acked
  <2>2. CASE job'[p] = Idle
    BY <1>0, <1>6, <1>m, <2>1, <2>2, LogoutStepFacts, BusyIdle, Gather
  <2>3. CASE job'[p] # Idle
    <3>1. /\ job'[p].at \in {"tunnels", "prefs", "unassign"}
          /\ job[p].at \in {"signout", "tunnels", "prefs", "unassign"}
          /\ job'[p].copy = job[p].copy /\ job'[p].services = job[p].services
          /\ job'[p].cut = job[p].cut
      BY <1>0, <1>6, <2>3, LogoutStepFacts, JobFields DEF Job
    <3>2. Shape(job'[p]) /\ Acked(job[p].copy)' /\ job'[p].at \notin Saving
      BY <1>0, <2>1, <3>1 DEF Shape, Exposing, Saving, Serving, Acked
    <3> QED
      BY <1>0, <1>6, <1>m, <1>b, <2>1, <3>2, LogoutStepFacts, Gather
  <2> QED
    BY <2>2, <2>3
<1> QED
  BY <1>1, <1>2, <1>3, <1>4, <1>5, <1>6 DEF FileStep

\* and the other commands and a crash.
LEMMA BaseCommand ==
  ASSUME BaseInv, NEW p \in Proc, CommandStep(p) \/ Crash(p), commands' \in Nat
  PROVE  BaseInv'
<1>0. TypeOK /\ ShapeInv /\ Shape(job[p]) /\ Acked(job[p].copy) /\ Acked(saved)
  BY DEF BaseInv, ShapeInv, AckedInv
<1>m. mishaps \subseteq mishaps' /\ mishaps' \subseteq Mishap
  BY <1>0, MishapFacts DEF ProcStep
<1>1. ASSUME NEW n \in Name, DeleteBegins(p, n) PROVE BaseInv'
  <2>1. <<n>> # <<>>
    BY OneSeq
  <2>2. Shape(job'[p]) /\ job'[p].at \notin Saving
    BY <1>0, <1>1, <2>1, DeleteBeginsFacts DEF Shape, Exposing, Saving, Serving
  <2>3. Acked(job[p].copy)'
    <3>1. \A m \in Name : job'[p].copy[m] = IF m = n THEN NoPort ELSE saved[m]
      <4>1. job'[p].copy = [saved EXCEPT ![n] = NoPort]
        BY <1>0, <1>1, DeleteBeginsFacts
      <4>2. saved \in [Name -> Port \cup {NoPort}]
        BY <1>0 DEF TypeOK, Ports
      <4> QED
        BY <4>1, <4>2
    <3> QED
      BY <1>0, <1>1, <3>1, DeleteBeginsFacts DEF Acked
  <2> QED
    BY <1>0, <1>1, <1>m, <2>2, <2>3, DeleteBeginsFacts, SameFiles, Gather
<1>2. ASSUME NEW n \in Name, SetDefaultBegins(p, n) PROVE BaseInv'
  <2>1. <<n>> # <<>>
    BY OneSeq
  <2>2. Shape(job'[p]) /\ job'[p].at \notin Saving
    BY <1>0, <1>2, <2>1, SetDefaultBeginsFacts DEF Shape, Exposing, Saving, Serving
  <2>3. Acked(job[p].copy)'
    BY <1>0, <1>2, SetDefaultBeginsFacts, AckedNothing
  <2> QED
    BY <1>0, <1>2, <1>m, <2>2, <2>3, SetDefaultBeginsFacts, OverlapFacts, SameFiles, Gather
<1>3. CASE DeleteChecks(p)
  <2>1. CASE job'[p] = Idle
    BY <1>0, <1>3, <1>m, <2>1, DeleteChecksFacts, BusyIdle, SameFiles, Gather
  <2>2. CASE job'[p] = [job[p] EXCEPT !.at = "clear"]
    <3>1. /\ job'[p].at = "clear" /\ job'[p].copy = job[p].copy /\ job'[p].services = job[p].services
          /\ job'[p].left = job[p].left /\ job'[p].cut = job[p].cut /\ job[p].at = "check"
      BY <1>0, <1>3, <2>2, DeleteChecksFacts, JobFields DEF Job
    <3>2. Shape(job'[p]) /\ job'[p].at \notin Saving /\ Acked(job[p].copy)'
      BY <1>0, <1>3, <3>1, DeleteChecksFacts DEF Shape, Exposing, Saving, Serving, Acked
    <3>3. Busy(p)
      BY <3>1 DEF Busy
    <3> QED
      BY <1>0, <1>3, <1>m, <3>2, <3>3, DeleteChecksFacts, SameFiles, Gather
  <2> QED
    BY <1>0, <1>3, <2>1, <2>2, DeleteChecksFacts
<1>4. CASE DeleteClears(p)
  <2>1. FileTypes' /\ Acked(saved)' /\ registered' = registered
    BY <1>0, <1>4, DeleteClearsFacts DEF TypeOK, FileTypes, Acked
  <2> QED
    BY <1>0, <1>4, <1>m, <2>1, DeleteClearsFacts, BusyIdle, Gather
<1>5. ASSUME NEW block \in Block \cup {NoBlock}, LoginBegins(p, block) PROVE BaseInv'
  <2>1. Shape(job'[p]) /\ job'[p].at \notin Saving
    BY <1>0, <1>5, LoginBeginsFacts DEF Shape, Exposing, Saving, Serving
  <2>2. Acked(job[p].copy)'
    BY <1>0, <1>5, LoginBeginsFacts, AckedNothing
  <2> QED
    BY <1>0, <1>5, <1>m, <2>1, <2>2, LoginBeginsFacts, SameFiles, Gather
<1>6. CASE LogoutBegins(p)
  <2>1. Shape(job'[p]) /\ job'[p].at \notin Saving
    BY <1>0, <1>6, LogoutBeginsFacts DEF Shape, Exposing, Saving, Serving
  <2>2. Acked(job[p].copy)'
    BY <1>0, <1>6, LogoutBeginsFacts, AckedNothing
  <2> QED
    BY <1>0, <1>6, <1>m, <2>1, <2>2, LogoutBeginsFacts, SameFiles, Gather
<1>7. CASE Crash(p)
  BY <1>0, <1>7, <1>m, CrashFacts, BusyIdle, SameFiles, Gather
<1> QED
  BY <1>1, <1>2, <1>3, <1>4, <1>5, <1>6, <1>7 DEF CommandStep

\* The number of commands counts up.
LEMMA CommandsType ==
  ASSUME commands \in Nat, Next
  PROVE  commands' \in Nat
<1>1. IsFiniteSet({p \in Proc : job[p] = Idle /\ job'[p] # Idle})
  BY SavedAssumption, FS_Subset
<1>2. Cardinality({p \in Proc : job[p] = Idle /\ job'[p] # Idle}) \in Nat
  BY <1>1, FS_CardinalityType
<1> QED
  BY <1>2 DEF Next

\* The base invariant holds at the start,
LEMMA InitBase == Init => BaseInv
<1> SUFFICES ASSUME Init PROVE BaseInv
  OBVIOUS
<1>1. \A p \in Proc : job[p] = Idle
  BY DEF Init
<1>2. TypeOK
  BY PortFacts, IdleFacts DEF Init, TypeOK
<1>3. ShapeInv /\ AloneInv
  BY <1>1, IdleFacts DEF ShapeInv, AloneInv, Busy
<1>4. AckedInv
  BY <1>1, IdleFacts DEF Init, AckedInv, Acked, Nothing, Saving
<1> QED
  BY <1>2, <1>3, <1>4 DEF BaseInv

\* and is kept by every step.
LEMMA NextBase ==
  ASSUME BaseInv, [Next]_vars
  PROVE  BaseInv'
<1>1. CASE Next
  <2>1. commands' \in Nat
    BY <1>1, CommandsType DEF BaseInv, TypeOK
  <2> QED
    BY <1>1, <2>1, BaseExpose, BaseFile, BaseCommand DEF Next
<1>2. CASE UNCHANGED vars
  BY <1>2 DEF vars, files, BaseInv, TypeOK, ShapeInv, Shape, AckedInv, Acked, AloneInv, Busy
<1> QED
  BY <1>1, <1>2

\* So it holds throughout: types, what a process holds by its place, that only
\* acknowledged ports are saved, and who is alone.
THEOREM BaseInvariance == Spec => []BaseInv
BY InitBase, NextBase, PTL DEF Spec

\* Every file and every process keeps its type.
THEOREM TypeCorrect == Spec => []TypeOK
<1>1. BaseInv => TypeOK
  BY DEF BaseInv
<1> QED
  BY <1>1, BaseInvariance, PTL

\* For any number of processes, in any order of reads and writes, with any
\* crashes: tunnels.json holds no port that the server has not acknowledged.
THEOREM OnlyRegisteredSaved == Spec => []SavedWasRegistered
<1>1. BaseInv => SavedWasRegistered
  BY DEF BaseInv, AckedInv, Acked, SavedWasRegistered, NamesOf
<1> QED
  BY <1>1, BaseInvariance, PTL

-----------------------------------------------------------------------------
(* Block and token are of one account *)

Account(p) ==
  /\ job[p].at = "token" => config = job[p].issued
  /\ job[p].at \in {"tunnels", "prefs", "unassign"} => token = NoFile

Signing == {"block", "token", "signout", "tunnels", "prefs", "unassign"}

AccountInv ==
  Calm({"raced", "crashed", "bare"}) =>
    /\ \A p \in Proc : Account(p)
    /\ (\A p \in Proc : job[p].at \notin Signing) => config = token

\* Each step of a login, of a logout and of the others keeps block and token of
\* one account.
LEMMA AccountStep ==
  ASSUME BaseInv, AccountInv, NEW p \in Proc, ProcStep(p)
  PROVE  AccountInv'
<1>0. TypeOK
  BY DEF BaseInv
<1>m. mishaps \subseteq mishaps'
  BY <1>0, MishapFacts
<1> SUFFICES ASSUME Calm({"raced", "crashed", "bare"})'
             PROVE  /\ \A q \in Proc : Account(q)'
                    /\ (\A q \in Proc : job'[q].at \notin Signing) => config' = token'
  BY DEF AccountInv
<1>1. /\ "raced" \notin mishaps' /\ "crashed" \notin mishaps' /\ "bare" \notin mishaps'
      /\ Calm({"raced", "crashed", "bare"})
  BY <1>m DEF Calm
<1>2. /\ \A q \in Proc : Account(q)
      /\ (\A q \in Proc : job[q].at \notin Signing) => config = token
      /\ \A q, r \in Proc : Busy(q) /\ Busy(r) => q = r
  BY <1>1, <1>m DEF AccountInv, BaseInv, AloneInv
<1>3. \A q \in Proc : job[q].at \in Signing => Busy(q)
  BY DEF Signing, Busy
<1>a. ASSUME Rest(p), token' = token, config' = config,
             Account(p)', job[p].at \in Signing <=> job'[p].at \in Signing
      PROVE  /\ \A q \in Proc : Account(q)'
             /\ (\A q \in Proc : job'[q].at \notin Signing) => config' = token'
  BY <1>2, <1>a DEF Rest, Account
<1>b. ASSUME Rest(p), Busy(p), Account(p)', job'[p].at \in Signing \/ config' = token'
      PROVE  /\ \A q \in Proc : Account(q)'
             /\ (\A q \in Proc : job'[q].at \notin Signing) => config' = token'
  <2>1. \A q \in Proc : q # p => Account(q)'
    BY <1>2, <1>3, <1>b DEF Rest, Account, Signing
  <2> QED
    BY <1>b, <2>1
<1>4. CASE ExposeStep(p)
  <2>1. /\ job[p].at \notin Signing /\ job'[p].at \notin Signing
        /\ Rest(p) /\ token' = token /\ config' = config
    <3> USE IdleFacts DEF Signing, files, Typed
    <3>1. CASE ExposeNamed(p) \/ ExposeQuick(p) \/ ExposeMulti(p) \/ ExposeWizard(p) \/ ExposeListed(p)
      BY <1>0, <3>1, BeginFacts
    <3>2. CASE Resolve(p)
      BY <1>0, <3>2, ResolveFacts
    <3>3. CASE Connects(p)
      BY <1>0, <3>3, ConnectsFacts, JobFields DEF Job
    <3>4. CASE ExposeFails(p)
      BY <1>0, <3>4, ExposeFailsFacts
    <3>5. CASE Registered(p)
      BY <1>0, <3>5, RegisteredFacts, JobFields DEF Job
    <3>6. CASE SaveLoads(p)
      BY <1>0, <3>6, SaveLoadsFacts, JobFields DEF Job
    <3>7. CASE Disconnects(p)
      BY <1>0, <3>7, DisconnectsFacts, JobFields DEF Job
    <3>8. CASE WriteFails(p)
      BY <1>0, <1>1, <3>8, WriteFailsFacts
    <3> QED
      BY <1>4, <3>1, <3>2, <3>3, <3>4, <3>5, <3>6, <3>7, <3>8 DEF ExposeStep
  <2>2. Account(p)'
    BY <2>1 DEF Account, Signing
  <2> QED
    BY <1>a, <2>1, <2>2
<1>5. CASE FileStep(p)
  <2>1. CASE CutSaved(p) \/ FillSaved(p) \/ CutDefault(p) \/ FillDefault(p)
    <3>1. job[p].at \notin Signing /\ token' = token /\ config' = config
      BY <2>1 DEF CutSaved, FillSaved, CutDefault, FillDefault, Signing
    <3>2. job'[p].at \notin Signing /\ Rest(p)
      <4> USE IdleFacts DEF Signing, Typed
      <4>1. CASE CutSaved(p)
        BY <1>0, <4>1, CutSavedFacts, JobFields DEF Job
      <4>2. CASE FillSaved(p)
        <5>1. job'[p] = [job[p] EXCEPT !.at = IF job[p].at = "write" THEN "note" ELSE "check",
                                      !.cut = FALSE, !.copy = Nothing] /\ Typed(p)
          BY <1>0, <4>2, FillSavedFacts
        <5>2. job[p] \in Job
          BY <1>0, JobFields
        <5> QED
          BY <5>1, <5>2 DEF Job
      <4>3. CASE CutDefault(p)
        BY <1>0, <4>3, CutDefaultFacts, JobFields DEF Job
      <4>4. CASE FillDefault(p)
        <5>1. job[p] \in Job /\ ShapeInv
          BY <1>0, JobFields DEF BaseInv
        <5>2. /\ job[p].at \in {"start", "note", "pick"} /\ Rest(p)
              /\ job[p].at = "start" => job'[p] = [job[p] EXCEPT !.cut = FALSE, !.at = "connect"]
              /\ job[p].at = "pick" => job'[p] = Idle
              /\ job[p].at = "note" =>
                   job'[p] = [job[p] EXCEPT !.cut = FALSE, !.left = Tail(job[p].left),
                                            !.at = IF Tail(job[p].left) = <<>> THEN "live" ELSE "save"]
          BY <1>0, <4>4, <5>1, FillDefaultFacts
        <5>3. job'[p].at \in {"connect", "idle", "live", "save"}
          BY <5>1, <5>2 DEF Job
        <5> QED
          BY <5>2, <5>3
      <4> QED
        BY <2>1, <4>1, <4>2, <4>3, <4>4
    <3>3. Account(p)'
      BY <3>2 DEF Account, Signing
    <3> QED
      BY <1>a, <3>1, <3>2, <3>3
  <2>2. CASE LoginWritesBlock(p) \/ LoginWritesToken(p)
    <3>1. Busy(p) /\ Rest(p)
      BY <1>0, <2>2, LoginWritesFacts DEF Busy, Typed
    <3>2. job[p].at = "token" => config = job[p].issued
      BY <1>2 DEF Account
    <3>3. Account(p)' /\ (job'[p].at \in Signing \/ config' = token')
      <4>1. CASE job[p].at = "block"
        BY ZenonT(60), <1>0, <2>2, <4>1, LoginWritesFacts, JobFields DEF Job, Account, Signing
      <4>2. CASE job[p].at = "token"
        BY <1>0, <2>2, <3>2, <4>2, LoginWritesFacts, JobFields, IdleFacts DEF Job, Account, Signing
      <4> QED
        BY <1>0, <2>2, <4>1, <4>2, LoginWritesFacts
    <3> QED
      BY <1>b, <3>1, <3>3
  <2>3. CASE LogoutStep(p)
    <3>1. Busy(p) /\ Rest(p)
      BY <1>0, <2>3, LogoutStepFacts DEF Busy, Typed
    <3>2. job[p].at \in {"tunnels", "prefs", "unassign"} => token = NoFile
      BY <1>2 DEF Account
    <3>3. Account(p)' /\ (job'[p].at \in Signing \/ config' = token')
      BY <1>0, <2>3, <3>2, LogoutStepFacts, JobFields, IdleFacts DEF Job, Account, Signing
    <3> QED
      BY <1>b, <3>1, <3>3
  <2> QED
    BY <1>5, <2>1, <2>2, <2>3 DEF FileStep
<1>6. CASE CommandStep(p)
  <2>1. ASSUME NEW n \in Name, DeleteBegins(p, n) \/ SetDefaultBegins(p, n)
        PROVE  /\ job[p].at = "idle" /\ job'[p].at \in {"remove", "pick"} /\ Rest(p)
               /\ token' = token /\ config' = config
    BY <1>0, <2>1, DeleteBeginsFacts, SetDefaultBeginsFacts DEF files, Typed
  <2>2. CASE \E n \in Name : DeleteBegins(p, n) \/ SetDefaultBegins(p, n)
    BY <1>a, <2>1, <2>2 DEF Account, Signing
  <2>3. CASE DeleteChecks(p) \/ DeleteClears(p)
    <3>1. /\ job[p].at \in {"check", "clear"} /\ job'[p].at \in {"clear", "idle"} /\ Rest(p)
          /\ token' = token /\ config' = config
      BY <1>0, <2>3, DeleteChecksFacts, DeleteClearsFacts, JobFields, IdleFacts DEF Job, files, Typed
    <3> QED
      BY <1>a, <3>1 DEF Account, Signing
  <2>4. CASE \E block \in Block \cup {NoBlock} : LoginBegins(p, block)
    <3>1. /\ job'[p].at = "block" /\ Rest(p) /\ token' = token /\ config' = config
      BY <1>0, <1>1, <2>4, LoginBeginsFacts DEF files, Typed
    <3> QED
      BY <1>2, <3>1 DEF Account, Signing, Rest
  <2>5. CASE LogoutBegins(p)
    <3>1. /\ job'[p].at = "signout" /\ Rest(p) /\ token' = token /\ config' = config
      BY <1>0, <2>5, LogoutBeginsFacts DEF files, Typed
    <3> QED
      BY <1>2, <3>1 DEF Account, Signing, Rest
  <2> QED
    BY <1>6, <2>2, <2>3, <2>4, <2>5 DEF CommandStep
<1>7. CASE Crash(p)
  BY <1>0, <1>1, <1>7, CrashFacts
<1> QED
  BY <1>4, <1>5, <1>6, <1>7 DEF ProcStep

\* Between commands tunnel.json and device.jwt are of one login, for any number
\* of processes, as long as commands do not overlap nor die, and logins bring a
\* block.
THEOREM OneAccount == Spec => []SameAccount
<1>1. Init => AccountInv
  BY IdleFacts DEF Init, AccountInv, Account, Signing
<1>2. BaseInv /\ AccountInv /\ [Next]_vars => AccountInv'
  <2>1. CASE UNCHANGED vars
    BY <2>1 DEF vars, files, AccountInv, Account, Calm
  <2> QED
    BY <2>1, AccountStep DEF Next, ProcStep
<1>3. AccountInv => SameAccount
  BY DEF AccountInv, SameAccount, Signing, Busy
<1> QED
  BY <1>1, <1>2, <1>3, BaseInvariance, PTL DEF Spec

-----------------------------------------------------------------------------
(* Ports *)

\* Two stores agree: a port is of one name, a name has one port.
Agree(s, t) ==
  \A m, n \in Name : s[m] # NoPort /\ t[n] # NoPort => (m = n <=> s[m] = t[n])

Within(s, t) == \A n \in Name : s[n] # NoPort => t[n] = s[n]

\* Agreement is symmetric, and inherited by a smaller store.
LEMMA AgreeFacts ==
  /\ \A s, t : Agree(s, t) => Agree(t, s)
  /\ \A t : Agree(Nothing, t) /\ Agree(t, Nothing) /\ Within(Nothing, t)
  /\ \A s, t, u : Agree(s, t) /\ Within(u, t) => Agree(s, u)
BY DEF Agree, Within, Nothing

\* The ports resolved for a batch agree with each other and with the saved ones.
LEMMA ResolvesAgree ==
  ASSUME NEW active \in Ports, NEW s \in Ports, NEW batch \in Seq(Name), NEW block,
         Resolves(s, batch, block, active), Agree(active, active)
  PROVE  Agree(s, active) /\ Agree(s, s)
<1>1. ASSUME NEW m \in Name, s[m] # NoPort
      PROVE  \E i \in DOMAIN batch : m = batch[i]
  BY <1>1 DEF Resolves, NamesOf, Chosen
<1>2. ASSUME NEW i \in DOMAIN batch
      PROVE  /\ active[batch[i]] # NoPort => s[batch[i]] = active[batch[i]]
             /\ active[batch[i]] = NoPort =>
                  /\ \A n \in Name : active[n] # NoPort => s[batch[i]] # active[n]
                  /\ \A k \in 1 .. i - 1 : s[batch[i]] # s[batch[k]]
  <2>1. PublicPort(s[batch[i]], batch[i], block, active,
                   {active[n] : n \in NamesOf(active)} \cup {s[batch[k]] : k \in 1 .. i - 1})
    BY DEF Resolves
  <2>2. CASE active[batch[i]] # NoPort
    BY <2>1, <2>2 DEF PublicPort
  <2>3. CASE active[batch[i]] = NoPort
    <3>1. s[batch[i]] \notin {active[n] : n \in NamesOf(active)} \cup {s[batch[k]] : k \in 1 .. i - 1}
      BY <2>1, <2>3 DEF PublicPort
    <3>2. \A n \in Name : active[n] # NoPort => n \in NamesOf(active)
      BY DEF NamesOf
    <3> QED
      BY <2>3, <3>1, <3>2
  <2> QED
    BY <2>2, <2>3
<1>3. Agree(s, active)
  <2> SUFFICES ASSUME NEW m \in Name, NEW n \in Name, s[m] # NoPort, active[n] # NoPort
               PROVE  m = n <=> s[m] = active[n]
    BY DEF Agree
  <2>1. PICK i \in DOMAIN batch : m = batch[i]
    BY <1>1
  <2>2. CASE active[m] # NoPort
    BY <1>2, <2>1, <2>2 DEF Agree
  <2>3. CASE active[m] = NoPort
    BY <1>2, <2>1, <2>3
  <2> QED
    BY <2>2, <2>3
<1>4. ASSUME NEW i \in DOMAIN batch, NEW k \in DOMAIN batch, i < k, batch[i] # batch[k],
             s[batch[i]] # NoPort, s[batch[k]] # NoPort
      PROVE  s[batch[i]] # s[batch[k]]
  <2>1. i \in 1 .. k - 1 /\ batch[i] \in Name /\ batch[k] \in Name
    BY <1>4
  <2>2. CASE active[batch[k]] = NoPort
    BY <1>2, <2>1, <2>2
  <2>3. CASE active[batch[k]] # NoPort
    <3>1. s[batch[k]] = active[batch[k]]
      BY <1>2, <2>3
    <3> QED
      BY <1>3, <1>4, <2>1, <2>3, <3>1 DEF Agree
  <2> QED
    BY <2>2, <2>3
<1>5. Agree(s, s)
  <2> SUFFICES ASSUME NEW m \in Name, NEW n \in Name, s[m] # NoPort, s[n] # NoPort, m # n
               PROVE  s[m] # s[n]
    BY DEF Agree
  <2>1. PICK i \in DOMAIN batch : m = batch[i]
    BY <1>1
  <2>2. PICK k \in DOMAIN batch : n = batch[k]
    BY <1>1
  <2>3. i \in Nat /\ k \in Nat /\ i # k
    BY <2>1, <2>2
  <2>4. CASE i < k
    BY <1>4, <2>1, <2>2, <2>4
  <2>5. CASE k < i
    BY <1>4, <2>1, <2>2, <2>5
  <2> QED
    BY <2>3, <2>4, <2>5
<1> QED
  BY <1>3, <1>5

-----------------------------------------------------------------------------
(* Commands that do not overlap, none of which dies or deletes what is in use *)

WritesTunnels(j) == j.at \in {"write", "remove"}
Holding(j) == j.at \in {"live", "reconnect"}
LoggingOut(j) == j.at \in {"signout", "tunnels", "prefs", "unassign"}
Quiet(j) == j.at \in {"idle", "resolve", "live", "reconnect"}

\* A store that fits what the processes `js' expose.
Fits(t, js) == Agree(t, t) /\ \A q \in Proc : Agree(js[q].services, t)

\* A store that has what they hold.
Keeps(t, js) == \A q \in Proc : Holding(js[q]) => Within(js[q].services, t)

\* A store that has what `j' has saved so far.
Done(j, t) ==
  \A n \in Name :
    j.services[n] # NoPort /\ (n \notin Chosen(j.left) \/ (j.at = "note" /\ n = Head(j.left))) =>
      t[n] = j.services[n]

\* Of the one process that is busy.
BusyState(j, sv, js) ==
  /\ WritesTunnels(j) => Fits(j.copy, js) /\ Keeps(j.copy, js)
  /\ j.at \in Saving => (j.at = "write" /\ j.cut) \/ Done(j, sv)
  /\ j.at = "write" => Done(j, j.copy)
  /\ LoggingOut(j) => \A q \in Proc : ~ Holding(js[q])

CalmState(sv, js) ==
  /\ Fits(sv, js)
  /\ \A p, q \in Proc : Agree(js[p].services, js[q].services)
  /\ Keeps(sv, js) \/ \E q \in Proc : WritesTunnels(js[q]) /\ js[q].cut
  /\ \A p \in Proc : BusyState(js[p], sv, js)

CalmInv == Calm({"raced", "crashed", "deleted"}) => CalmState(saved, job)

\* What a step has to establish of the process that does it, when no other one
\* is busy.
OneState(p, sv, js) ==
  /\ Fits(sv, js)
  /\ \A q \in Proc : Agree(js[p].services, js[q].services)
  /\ Keeps(sv, js) \/ (WritesTunnels(js[p]) /\ js[p].cut)
  /\ BusyState(js[p], sv, js)

\* A process that is not busy has nothing to satisfy.
LEMMA QuietState ==
  ASSUME NEW j, NEW sv, NEW js, Quiet(j)
  PROVE  BusyState(j, sv, js) /\ ~ WritesTunnels(j)
BY DEF Quiet, BusyState, WritesTunnels, LoggingOut, Saving

\* When all others are quiet, the calm state is about one process,
LEMMA OneOfCalm ==
  ASSUME CalmState(saved, job), NEW p \in Proc, \A q \in Proc : q # p => Quiet(job[q])
  PROVE  OneState(p, saved, job)
BY QuietState DEF CalmState, OneState

\* and follows from what holds of that one.
LEMMA CalmOfOne ==
  ASSUME CalmState(saved, job), NEW p \in Proc, Rest(p),
         \A q \in Proc : q # p => Quiet(job[q]), OneState(p, saved', job')
  PROVE  CalmState(saved', job')
<1>1. \A q \in Proc : q # p => job'[q] = job[q]
  BY DEF Rest
<1>2. \A q \in Proc : q # p => BusyState(job'[q], saved', job')
  BY <1>1, QuietState
<1>3. \A q, r \in Proc : Agree(job'[q].services, job'[r].services)
  <2>1. \A q, r \in Proc : q # p /\ r # p => Agree(job'[q].services, job'[r].services)
    BY <1>1 DEF CalmState
  <2>2. \A q \in Proc : Agree(job'[p].services, job'[q].services) /\ Agree(job'[q].services, job'[p].services)
    BY AgreeFacts DEF OneState
  <2> QED
    BY <2>1, <2>2
<1> QED
  BY <1>2, <1>3 DEF CalmState, OneState

\* What a store has to fit does not grow in a step that exposes nothing new.
LEMMA FitsStays ==
  ASSUME NEW t, NEW p \in Proc, Rest(p), Fits(t, job),
         job'[p].services \in {job[p].services, Nothing}
  PROVE  Fits(t, job')
BY AgreeFacts DEF Fits, Rest

\* Nor does what it has to keep, in a step that holds nothing new.
LEMMA KeepsStays ==
  ASSUME NEW t, NEW p \in Proc, Rest(p), Keeps(t, job),
         Holding(job'[p]) => Holding(job[p]) /\ job'[p].services = job[p].services
  PROVE  Keeps(t, job')
BY DEF Keeps, Rest

\* The exposed services go on agreeing with each other.
LEMMA ServicesStay ==
  ASSUME CalmState(saved, job), NEW p \in Proc, Rest(p),
         job'[p].services \in {job[p].services, Nothing}
  PROVE  \A q, r \in Proc : Agree(job'[q].services, job'[r].services)
BY AgreeFacts DEF CalmState, Rest

\* A step at which the process is not busy, before or after.
LEMMA QuietStep ==
  ASSUME CalmState(saved, job), NEW p \in Proc, Rest(p), Quiet(job[p]), Quiet(job'[p]),
         saved' = saved, job'[p].services \in {job[p].services, Nothing},
         Holding(job'[p]) => Holding(job[p]) /\ job'[p].services = job[p].services
  PROVE  CalmState(saved', job')
<1>1. \A q \in Proc : q # p => job'[q] = job[q]
  BY DEF Rest
<1>2. Fits(saved', job')
  BY FitsStays DEF CalmState
<1>3. Keeps(saved', job') \/ \E q \in Proc : WritesTunnels(job'[q]) /\ job'[q].cut
  BY <1>1, KeepsStays, QuietState DEF CalmState
<1>4. ASSUME NEW q \in Proc, q # p
      PROVE  BusyState(job'[q], saved', job')
  <2>1. BusyState(job[q], saved, job) /\ job'[q] = job[q]
    BY <1>1, <1>4 DEF CalmState
  <2>2. Fits(job[q].copy, job) => Fits(job[q].copy, job')
    BY FitsStays
  <2>3. Keeps(job[q].copy, job) => Keeps(job[q].copy, job')
    BY KeepsStays
  <2>4. (\A r \in Proc : ~ Holding(job[r])) => \A r \in Proc : ~ Holding(job'[r])
    BY <1>1
  <2> QED
    BY <2>1, <2>2, <2>3, <2>4 DEF BusyState
<1> QED
  BY <1>2, <1>3, <1>4, ServicesStay, QuietState DEF CalmState

\* A step of the one busy process that leaves tunnels.json alone.
LEMMA PlainStep ==
  ASSUME CalmState(saved, job), NEW p \in Proc, Rest(p), \A q \in Proc : q # p => Quiet(job[q]),
         saved' = saved, job'[p].services \in {job[p].services, Nothing},
         ~ Holding(job'[p]), ~ WritesTunnels(job'[p]), ~ WritesTunnels(job[p]),
         job'[p].at \in Saving => Done(job'[p], saved),
         LoggingOut(job'[p]) => LoggingOut(job[p]) \/ \A q \in Proc : ~ Holding(job[q])
  PROVE  CalmState(saved', job')
<1>1. OneState(p, saved, job)
  BY OneOfCalm
<1>2. Fits(saved', job') /\ Keeps(saved', job')
  BY <1>1, FitsStays, KeepsStays DEF OneState
<1>3. LoggingOut(job'[p]) => \A q \in Proc : ~ Holding(job'[q])
  BY <1>1 DEF OneState, BusyState, Rest
<1>4. BusyState(job'[p], saved', job')
  BY <1>3 DEF BusyState, WritesTunnels
<1>5. \A q \in Proc : Agree(job'[p].services, job'[q].services)
  BY ServicesStay
<1> QED
  BY <1>2, <1>4, <1>5, CalmOfOne DEF OneState

\* The calm state survives the resolving of ports,
LEMMA CalmResolve ==
  ASSUME TypeOK, CalmState(saved, job), NEW p \in Proc, Resolve(p), job'[p] # Idle,
         \A q \in Proc : q # p => Quiet(job[q]) /\ (~ Holding(job[q]) => job[q].services = Nothing)
  PROVE  CalmState(saved', job')
<1> DEFINE s == job'[p].services
<1>1. /\ Resolves(s, job[p].batch, LoadBlock, saved) /\ Rest(p) /\ saved' = saved
      /\ job[p].at = "resolve" /\ job'[p].at \in {"start", "connect"}
      /\ job' \in [Proc -> Job]
  BY ResolveFacts DEF files, Typed
<1>2. s \in Ports /\ saved \in Ports /\ job[p].batch \in Seq(Name)
  BY <1>1, JobFields DEF Job, TypeOK
<1>3. Fits(saved, job) /\ Keeps(saved, job)
  BY <1>1, QuietState DEF CalmState, Quiet
<1> HIDE DEF s
<1>4. Agree(s, saved) /\ Agree(s, s)
  BY <1>1, <1>2, <1>3, ResolvesAgree DEF Fits
<1>5. \A q \in Proc : q # p => job'[q] = job[q] /\ Within(job[q].services, saved)
  BY <1>1, <1>3, AgreeFacts DEF Keeps, Rest
<1>6. \A q \in Proc : Agree(s, job'[q].services)
  BY <1>4, <1>5, AgreeFacts DEF s
<1>7. Fits(saved', job')
  BY <1>1, <1>3, <1>4, <1>5 DEF Fits, s
<1>8. Keeps(saved', job')
  BY <1>1, <1>3, <1>5 DEF Keeps, Holding
<1>9. BusyState(job'[p], saved', job')
  BY <1>1 DEF BusyState, WritesTunnels, Saving, LoggingOut
<1> QED
  BY <1>1, <1>6, <1>7, <1>8, <1>9, CalmOfOne DEF OneState, s

\* the emptying of tunnels.json,
LEMMA CalmCut ==
  ASSUME TypeOK, CalmState(saved, job), NEW p \in Proc, CutSaved(p),
         \A q \in Proc : q # p => Quiet(job[q])
  PROVE  CalmState(saved', job')
<1>1. /\ job[p].at \in {"write", "remove"} /\ ~ job[p].cut /\ Rest(p) /\ saved' = Nothing
      /\ job'[p] = IF job[p].at = "remove" /\ job[p].copy = Nothing
                   THEN [job[p] EXCEPT !.at = "check"] ELSE [job[p] EXCEPT !.cut = TRUE]
  BY CutSavedFacts DEF Typed
<1>2. job[p] \in Job
  BY JobFields
<1>3. /\ job'[p].services = job[p].services /\ job'[p].copy = job[p].copy
      /\ job'[p].left = job[p].left /\ ~ Holding(job'[p])
      /\ \/ job'[p].at = "check" /\ job[p].copy = Nothing
         \/ job'[p].at = job[p].at /\ job'[p].cut
  BY <1>1, <1>2 DEF Job, Holding
<1>4. BusyState(job[p], saved, job)
  BY OneOfCalm DEF OneState
<1>5. Fits(job[p].copy, job) /\ Keeps(job[p].copy, job)
  BY <1>1, <1>4 DEF BusyState, WritesTunnels
<1>6. Fits(job[p].copy, job') /\ Keeps(job[p].copy, job')
  BY <1>1, <1>3, <1>5, FitsStays, KeepsStays
<1>7. Fits(saved', job')
  BY <1>1, AgreeFacts DEF Fits
<1>8. Keeps(saved', job') \/ (WritesTunnels(job'[p]) /\ job'[p].cut)
  BY <1>1, <1>3, <1>6 DEF WritesTunnels
<1>9. BusyState(job'[p], saved', job')
  <2>1. job[p].at = "write" => Done(job'[p], job'[p].copy)
    BY <1>3, <1>4 DEF BusyState, Done
  <2> QED
    BY <1>1, <1>3, <1>6, <2>1 DEF BusyState, WritesTunnels, Saving, LoggingOut
<1>10. \A q \in Proc : Agree(job'[p].services, job'[q].services)
  BY <1>1, <1>3, ServicesStay
<1> QED
  BY <1>1, <1>7, <1>8, <1>9, <1>10, CalmOfOne DEF OneState

\* A store with one more of the ports a process exposes.
StoresOne(x, t, s, h) ==
  /\ Agree(x, x)
  /\ \A u : Agree(u, t) /\ Agree(u, s) => Agree(u, x)
  /\ \A u : Within(u, t) /\ Agree(s, u) => Within(u, x)
  /\ \A n \in Name : t[n] # NoPort => x[n] = t[n]
  /\ x[h] = s[h]

\* Adding one service to a store that agrees with it changes nothing else.
LEMMA StoreOne ==
  ASSUME NEW t \in Ports, NEW s \in Ports, NEW h \in Name, s[h] # NoPort, Agree(s, s), Agree(s, t),
         Agree(t, t)
  PROVE  StoresOne([t EXCEPT ![h] = s[h]], t, s, h)
<1> DEFINE x == [t EXCEPT ![h] = s[h]]
<1>1. \A n \in Name : x[n] = IF n = h THEN s[h] ELSE t[n]
  BY DEF Ports
<1>2. t[h] # NoPort => t[h] = s[h]
  BY DEF Agree
<1>3. Agree(x, x)
  BY <1>1 DEF Agree
<1>4. \A u : Agree(u, t) /\ Agree(u, s) => Agree(u, x)
  BY <1>1 DEF Agree
<1>5. \A u : Within(u, t) /\ Agree(s, u) => Within(u, x)
  BY <1>1 DEF Agree, Within
<1> HIDE DEF x
<1>6. StoresOne(x, t, s, h)
  BY <1>1, <1>2, <1>3, <1>4, <1>5 DEF StoresOne
<1> QED
  BY <1>6 DEF x

\* The service that the save loop is at has a port.
LEMMA HeadIsExposed ==
  ASSUME TypeOK, ShapeInv, NEW p \in Proc, job[p].at \in Saving
  PROVE  /\ Head(job[p].left) \in Name /\ Head(job[p].left) \in Chosen(job[p].left)
         /\ job[p].services[Head(job[p].left)] # NoPort
<1>1. job[p].left \in Seq(Name) /\ job[p].left # <<>>
  BY JobFields DEF ShapeInv, Shape
<1>2. Head(job[p].left) \in Name /\ Head(job[p].left) \in Chosen(job[p].left)
  BY <1>1, TailSeq
<1>3. Chosen(job[p].left) \subseteq NamesOf(job[p].services)
  BY DEF ShapeInv, Shape, Saving, Serving, Exposing
<1> QED
  BY <1>2, <1>3 DEF NamesOf

\* the writing of tunnels.json, which also keeps every tunnel of the copy,
LEMMA CalmFill ==
  ASSUME TypeOK, ShapeInv, CalmState(saved, job), NEW p \in Proc, FillSaved(p),
         \A q \in Proc : q # p => Quiet(job[q])
  PROVE  /\ CalmState(saved', job')
         /\ job[p].at = "write" => \A n \in NamesOf(job[p].copy) : saved'[n] = job[p].copy[n]
<1> DEFINE j == job[p]
           h == Head(j.left)
<1>1. /\ j.at \in {"write", "remove"} /\ j.cut /\ Rest(p)
      /\ saved' = IF j.at = "write" THEN [j.copy EXCEPT ![h] = j.services[h]] ELSE j.copy
      /\ job'[p] = [j EXCEPT !.at = IF j.at = "write" THEN "note" ELSE "check",
                             !.cut = FALSE, !.copy = Nothing]
  BY FillSavedFacts DEF Typed
<1>2. j \in Job /\ j.copy \in Ports /\ j.services \in Ports
  BY JobFields
<1>3. /\ job'[p].services = j.services /\ job'[p].left = j.left /\ ~ Holding(job'[p])
      /\ job'[p].at = IF j.at = "write" THEN "note" ELSE "check"
  BY <1>1, <1>2 DEF Job, Holding
<1>4. OneState(p, saved, job)
  BY OneOfCalm
<1>5. Fits(j.copy, job) /\ Keeps(j.copy, job)
  BY <1>1, <1>4 DEF OneState, BusyState, WritesTunnels
<1>6. \A q \in Proc : Agree(j.services, job[q].services)
  BY <1>4 DEF OneState
<1>7. j.at = "write" => h \in Name /\ h \in Chosen(j.left) /\ j.services[h] # NoPort
  BY HeadIsExposed DEF Saving
<1>r. \A q \in Proc : q # p => job'[q] = job[q]
  BY <1>1 DEF Rest
<1> HIDE DEF j, h
<1>8. CASE j.at = "write"
  <2>1. /\ Agree(saved', saved')
        /\ \A u : Agree(u, j.copy) /\ Agree(u, j.services) => Agree(u, saved')
        /\ \A u : Within(u, j.copy) /\ Agree(j.services, u) => Within(u, saved')
        /\ \A n \in Name : j.copy[n] # NoPort => saved'[n] = j.copy[n]
        /\ saved'[h] = j.services[h]
    <3>1. Agree(j.services, j.services) /\ Agree(j.services, j.copy) /\ Agree(j.copy, j.copy)
      BY <1>5, <1>6 DEF Fits, j
    <3>2. saved' = [j.copy EXCEPT ![h] = j.services[h]]
      BY <1>1, <1>8
    <3>3. StoresOne([j.copy EXCEPT ![h] = j.services[h]], j.copy, j.services, h)
      BY <1>2, <1>7, <1>8, <3>1, StoreOne
    <3> QED
      BY <3>2, <3>3 DEF StoresOne
  <2>2. Fits(saved', job)
    BY <1>5, <1>6, <2>1, AgreeFacts DEF Fits
  <2>3. Keeps(saved', job)
    BY <1>5, <1>6, <2>1 DEF Keeps
  <2>4. Done(job'[p], saved')
    <3>1. Done(j, j.copy)
      BY <1>4, <1>8 DEF OneState, BusyState, j
    <3>2. \A n \in Name : j.services[n] # NoPort /\ n \notin Chosen(j.left) => saved'[n] = j.services[n]
      BY <2>1, <3>1 DEF Done
    <3> QED
      BY <1>3, <2>1, <3>2 DEF Done, h
  <2>5. Fits(saved', job') /\ Keeps(saved', job')
    BY <1>1, <1>3, <2>2, <2>3, FitsStays, KeepsStays DEF j
  <2>6. BusyState(job'[p], saved', job')
    BY <1>3, <1>8, <2>4 DEF BusyState, WritesTunnels, LoggingOut
  <2>7. \A q \in Proc : Agree(job'[p].services, job'[q].services)
    BY <1>1, <1>3, ServicesStay DEF j
  <2>8. \A n \in NamesOf(j.copy) : saved'[n] = j.copy[n]
    BY <2>1 DEF NamesOf
  <2> QED
    BY <1>1, <2>5, <2>6, <2>7, <2>8, CalmOfOne DEF OneState, j
<1>9. CASE j.at = "remove"
  <2>1. saved' = j.copy
    BY <1>1, <1>9
  <2>2. Fits(saved', job') /\ Keeps(saved', job')
    BY <1>1, <1>3, <1>5, <2>1, FitsStays, KeepsStays DEF j
  <2>3. BusyState(job'[p], saved', job')
    BY <1>3, <1>9 DEF BusyState, WritesTunnels, LoggingOut, Saving
  <2>4. \A q \in Proc : Agree(job'[p].services, job'[q].services)
    BY <1>1, <1>3, ServicesStay DEF j
  <2> QED
    BY <1>1, <1>9, <2>2, <2>3, <2>4, CalmOfOne DEF OneState, j
<1> QED
  BY <1>1, <1>8, <1>9

\* the reading of the store,
LEMMA CalmLoad ==
  ASSUME TypeOK, CalmState(saved, job), NEW p \in Proc, SaveLoads(p),
         \A q \in Proc : q # p => Quiet(job[q])
  PROVE  CalmState(saved', job')
<1>1. /\ job[p].at = "save" /\ Rest(p) /\ saved' = saved
      /\ job'[p] = [job[p] EXCEPT !.at = "write", !.copy = saved]
  BY SaveLoadsFacts DEF Typed, files
<1>2. job[p] \in Job
  BY JobFields
<1>3. /\ job'[p].services = job[p].services /\ job'[p].left = job[p].left
      /\ job'[p].copy = saved /\ job'[p].at = "write" /\ ~ Holding(job'[p])
  BY <1>1, <1>2 DEF Job, Holding
<1>4. OneState(p, saved, job)
  BY OneOfCalm
<1>5. Fits(saved, job') /\ Keeps(saved, job')
  BY <1>1, <1>3, <1>4, FitsStays, KeepsStays DEF OneState, WritesTunnels
<1>6. Done(job'[p], saved)
  BY <1>1, <1>3, <1>4 DEF OneState, BusyState, Saving, Done
<1>7. BusyState(job'[p], saved', job')
  BY <1>1, <1>3, <1>5, <1>6 DEF BusyState, LoggingOut
<1>8. \A q \in Proc : Agree(job'[p].services, job'[q].services)
  BY <1>1, <1>3, ServicesStay
<1> QED
  BY <1>1, <1>5, <1>7, <1>8, CalmOfOne DEF OneState

\* the writing of the default,
LEMMA CalmNote ==
  ASSUME TypeOK, ShapeInv, CalmState(saved, job), NEW p \in Proc, FillDefault(p),
         \A q \in Proc : q # p => Quiet(job[q])
  PROVE  CalmState(saved', job')
<1>0. job[p].at \in {"start", "note", "pick"} /\ Rest(p) /\ saved' = saved
  BY FillDefaultFacts DEF Typed
<1>1. CASE job[p].at \in {"start", "pick"}
  <2>1. /\ job'[p].at \in {"connect", "idle"}
        /\ job'[p].services \in {job[p].services, Nothing}
    BY ZenonT(60), <1>1, FillDefaultFacts, JobFields, IdleFacts DEF Job
  <2> QED
    BY <1>0, <1>1, <2>1, PlainStep DEF Holding, WritesTunnels, Saving, LoggingOut
<1>2. CASE job[p].at = "note"
  <2>0. job[p].left \in Seq(Name) /\ job[p].left # <<>>
    BY <1>2, JobFields DEF ShapeInv, Shape, Saving
  <2>1. /\ job'[p] = [job[p] EXCEPT !.cut = FALSE, !.left = Tail(job[p].left),
                                    !.at = IF Tail(job[p].left) = <<>> THEN "live" ELSE "save"]
        /\ job[p] \in Job
    BY <1>2, FillDefaultFacts, JobFields
  <2>2. /\ job'[p].services = job[p].services /\ job'[p].left = Tail(job[p].left)
        /\ job'[p].at = IF Tail(job[p].left) = <<>> THEN "live" ELSE "save"
    BY <2>1 DEF Job
  <2>3. OneState(p, saved, job)
    BY OneOfCalm
  <2>4. Fits(saved, job') /\ Keeps(saved, job)
    BY <1>0, <1>2, <2>2, <2>3, FitsStays DEF OneState, WritesTunnels
  <2>5. \A n \in Name : job[p].services[n] # NoPort /\ n \notin Chosen(Tail(job[p].left)) =>
           saved[n] = job[p].services[n]
    <3>1. Done(job[p], saved)
      BY <1>2, <2>3 DEF OneState, BusyState, Saving
    <3>2. Chosen(job[p].left) \subseteq Chosen(Tail(job[p].left)) \cup {Head(job[p].left)}
      BY <2>0, TailSeq
    <3> QED
      BY <1>2, <3>1, <3>2 DEF Done
  <2>6. Done(job'[p], saved')
    BY <1>0, <2>2, <2>5 DEF Done
  <2>7. Keeps(saved', job')
    <3>1. CASE Tail(job[p].left) = <<>>
      <4>1. Chosen(Tail(job[p].left)) = {}
        BY <3>1 DEF Chosen
      <4>2. Within(job'[p].services, saved')
        BY <1>0, <2>2, <2>5, <4>1 DEF Within
      <4> QED
        BY <1>0, <2>4, <4>2 DEF Keeps, Rest
    <3>2. CASE Tail(job[p].left) # <<>>
      BY <1>0, <2>2, <2>4, <3>2, KeepsStays DEF Holding
    <3> QED
      BY <3>1, <3>2
  <2>8. BusyState(job'[p], saved', job')
    BY <2>2, <2>6 DEF BusyState, WritesTunnels, LoggingOut
  <2>9. \A q \in Proc : Agree(job'[p].services, job'[q].services)
    BY <1>0, <2>2, ServicesStay
  <2> QED
    BY <1>0, <2>4, <2>7, <2>8, <2>9, CalmOfOne DEF OneState
<1> QED
  BY <1>0, <1>1, <1>2

\* a deletion of what nobody holds,
LEMMA CalmDelete ==
  ASSUME TypeOK, CalmState(saved, job), NEW p \in Proc, NEW n \in Name, DeleteBegins(p, n),
         "deleted" \notin mishaps', \A q \in Proc : q # p => Quiet(job[q])
  PROVE  CalmState(saved', job')
<1> DEFINE c == [saved EXCEPT ![n] = NoPort]
<1>1. /\ job[p].at = "idle" /\ Rest(p) /\ saved' = saved
      /\ job'[p].at = "remove" /\ job'[p].copy = c /\ job'[p].services = Nothing
      /\ \A q \in Proc : Holds(q) => job[q].services[n] = NoPort
  BY DeleteBeginsFacts DEF Typed, files
<1>2. OneState(p, saved, job)
  BY OneOfCalm
<1>3. \A m \in Name : c[m] = IF m = n THEN NoPort ELSE saved[m]
  BY DEF TypeOK, Ports
<1> HIDE DEF c
<1>4. Fits(saved, job) /\ Keeps(saved, job)
  BY <1>1, <1>2 DEF OneState, WritesTunnels
<1>5. Fits(c, job)
  BY <1>3, <1>4 DEF Fits, Agree
<1>6. Keeps(c, job)
  BY <1>1, <1>3, <1>4 DEF Keeps, Within, Holding, Holds
<1>7. Fits(c, job') /\ Keeps(c, job') /\ Fits(saved', job') /\ Keeps(saved', job')
  BY <1>1, <1>4, <1>5, <1>6, FitsStays, KeepsStays DEF Holding
<1>8. BusyState(job'[p], saved', job')
  BY <1>1, <1>7 DEF BusyState, Saving, LoggingOut
<1>9. \A q \in Proc : Agree(job'[p].services, job'[q].services)
  BY <1>1, ServicesStay
<1> QED
  BY <1>1, <1>7, <1>8, <1>9, CalmOfOne DEF OneState

\* and the steps of a logout that nobody holds a tunnel in.
LEMMA CalmLogout ==
  ASSUME TypeOK, CalmState(saved, job), NEW p \in Proc, LogoutStep(p),
         \A q \in Proc : q # p => Quiet(job[q])
  PROVE  CalmState(saved', job')
<1>1. /\ Rest(p) /\ LoggingOut(job[p]) /\ saved' \in {saved, Nothing}
      /\ job'[p].at \in {"tunnels", "prefs", "unassign", "idle"}
      /\ job'[p].services \in {job[p].services, Nothing}
  BY ZenonT(60), LogoutStepFacts, JobFields, IdleFacts DEF Typed, LoggingOut, Job
<1>2. OneState(p, saved, job)
  BY OneOfCalm
<1>3. \A q \in Proc : ~ Holding(job'[q])
  BY <1>1, <1>2 DEF OneState, BusyState, Rest, Holding
<1>4. Keeps(saved', job')
  BY <1>3 DEF Keeps
<1>5. Fits(saved, job')
  BY <1>1, <1>2, FitsStays DEF OneState
<1>6. Fits(saved', job')
  BY <1>1, <1>5, AgreeFacts DEF Fits
<1>7. BusyState(job'[p], saved', job')
  BY <1>1, <1>3 DEF BusyState, WritesTunnels, Saving, LoggingOut
<1>8. \A q \in Proc : Agree(job'[p].services, job'[q].services)
  BY <1>1, ServicesStay
<1> QED
  BY <1>1, <1>4, <1>6, <1>7, <1>8, CalmOfOne DEF OneState

\* Whoever was or gets busy in a calm step is the only one.
LEMMA OthersQuiet ==
  ASSUME BaseInv, NEW p \in Proc, "raced" \notin mishaps, "raced" \notin mishaps',
         \/ Busy(p) \/ "raced" \in mishaps' \/ \A q \in Proc \ {p} : ~ Busy(q)
  PROVE  \A q \in Proc : q # p => Quiet(job[q])
<1>1. \A q \in Proc : q # p => ~ Busy(q)
  BY DEF BaseInv, AloneInv
<1> QED
  BY <1>1 DEF Busy, Quiet

\* So every step of a process keeps it.
LEMMA CalmStep ==
  ASSUME BaseInv, CalmInv, NEW p \in Proc, ProcStep(p)
  PROVE  CalmInv'
<1> SUFFICES ASSUME Calm({"raced", "crashed", "deleted"})' PROVE CalmState(saved', job')
  BY DEF CalmInv, CalmState, Fits, Keeps, BusyState
<1>0. TypeOK /\ ShapeInv /\ Shape(job[p])
  BY DEF BaseInv, ShapeInv
<1>1. mishaps \subseteq mishaps'
  BY <1>0, MishapFacts
<1>2. /\ "raced" \notin mishaps' /\ "crashed" \notin mishaps' /\ "deleted" \notin mishaps'
      /\ "raced" \notin mishaps /\ CalmState(saved, job)
  BY <1>1 DEF Calm, CalmInv
<1>b. Busy(p) => \A q \in Proc : q # p => Quiet(job[q])
  BY <1>2, OthersQuiet
<1> USE IdleFacts DEF Quiet, Holding, WritesTunnels, LoggingOut, files, Typed
<1>3. CASE ExposeStep(p)
  <2>1. CASE ExposeNamed(p) \/ ExposeQuick(p) \/ ExposeMulti(p) \/ ExposeWizard(p) \/ ExposeListed(p)
    BY <1>0, <1>2, <2>1, BeginFacts, QuietStep
  <2>2. CASE Resolve(p)
    <3>1. CASE job'[p] = Idle
      BY <1>0, <1>2, <2>2, <3>1, ResolveFacts, QuietStep
    <3>2. CASE job'[p] # Idle
      <4>1. \A q \in Proc : q # p => Quiet(job[q])
        BY <1>0, <1>2, <2>2, <3>2, ResolveFacts, OverlapFacts, OthersQuiet
      <4>2. \A q \in Proc : q # p /\ ~ Holding(job[q]) => job[q].services = Nothing
        BY <1>0, <4>1 DEF ShapeInv, Shape, Serving, Exposing
      <4> QED
        BY <1>0, <1>2, <2>2, <3>2, <4>1, <4>2, CalmResolve
    <3> QED
      BY <3>1, <3>2
  <2>3. CASE Connects(p)
    <3>1. /\ job[p].at = "connect" /\ job'[p].at = "register" /\ Rest(p) /\ saved' = saved
          /\ job'[p].services = job[p].services
      BY <1>0, <2>3, ConnectsFacts, JobFields DEF Job
    <3> QED
      BY <1>2, <1>b, <3>1, PlainStep DEF Busy, Saving
  <2>4. CASE ExposeFails(p)
    <3>1. /\ job[p].at \in {"connect", "register", "reconnect"} /\ Rest(p) /\ saved' = saved
          /\ job'[p].at = "idle" /\ job'[p].services = Nothing
      BY <1>0, <2>4, ExposeFailsFacts
    <3>2. CASE job[p].at = "reconnect"
      BY <1>2, <3>1, <3>2, QuietStep
    <3>3. CASE job[p].at # "reconnect"
      BY <1>2, <1>b, <3>1, <3>3, PlainStep DEF Busy, Saving
    <3> QED
      BY <3>2, <3>3
  <2>5. CASE Registered(p)
    <3>1. /\ job[p].at \in {"register", "reconnect"} /\ Rest(p) /\ saved' = saved
          /\ job'[p].at = "save" /\ job'[p].services = job[p].services
          /\ job'[p].left = job[p].batch
          /\ \A q \in Proc : q # p => Quiet(job[q])
      <4>1. /\ job[p].at \in {"register", "reconnect"} /\ Rest(p) /\ saved' = saved /\ Overlaps(p)
            /\ job'[p] = [job[p] EXCEPT !.at = "save", !.left = job[p].batch] /\ job[p] \in Job
        BY <1>0, <2>5, RegisteredFacts, JobFields
      <4>2. \A q \in Proc : q # p => Quiet(job[q])
        BY <1>2, <4>1, OverlapFacts, OthersQuiet
      <4> QED
        BY <4>1, <4>2 DEF Job
    <3>2. NamesOf(job[p].services) = Chosen(job[p].batch)
      BY <1>0, <3>1 DEF Shape, Serving, Exposing
    <3>3. Done(job'[p], saved)
      BY <3>1, <3>2 DEF Done, NamesOf
    <3> QED
      BY <1>2, <3>1, <3>3, PlainStep
  <2>6. CASE SaveLoads(p)
    BY <1>0, <1>2, <1>b, <2>6, CalmLoad DEF SaveLoads, Busy
  <2>7. CASE Disconnects(p)
    <3>1. /\ job[p].at = "live" /\ Rest(p) /\ saved' = saved
          /\ \/ job'[p].at = "idle" /\ job'[p].services = Nothing
             \/ job'[p].at = "reconnect" /\ job'[p].services = job[p].services
      BY <1>0, <2>7, DisconnectsFacts, JobFields DEF Job
    <3> QED
      BY <1>2, <3>1, QuietStep
  <2>8. CASE WriteFails(p)
    BY <1>0, <1>2, <2>8, WriteFailsFacts
  <2> QED
    BY <1>3, <2>1, <2>2, <2>3, <2>4, <2>5, <2>6, <2>7, <2>8 DEF ExposeStep
<1>4. CASE FileStep(p)
  <2>0. \A q \in Proc : q # p => Quiet(job[q])
    BY <1>4, <1>b DEF FileStep, CutSaved, FillSaved, CutDefault, FillDefault, LoginWritesBlock,
                      LoginWritesToken, LogoutStep, Busy
  <2>1. CASE CutSaved(p)
    BY <1>0, <1>2, <2>0, <2>1, CalmCut
  <2>2. CASE FillSaved(p)
    BY <1>0, <1>2, <2>0, <2>2, CalmFill
  <2>3. CASE CutDefault(p)
    <3>1. /\ job[p].at \in {"start", "note", "pick"} /\ Rest(p) /\ saved' = saved
          /\ job'[p] = [job[p] EXCEPT !.cut = TRUE] /\ job[p] \in Job
      BY <1>0, <2>3, CutDefaultFacts, JobFields
    <3>2. /\ job'[p].at = job[p].at /\ job'[p].services = job[p].services
          /\ job'[p].left = job[p].left
      BY <3>1 DEF Job
    <3>3. job[p].at = "note" => Done(job[p], saved)
      BY <1>2, <2>0, OneOfCalm DEF OneState, BusyState, Saving
    <3>4. job'[p].at \in Saving => Done(job'[p], saved)
      BY <3>1, <3>2, <3>3 DEF Done, Saving
    <3> QED
      BY <1>2, <2>0, <3>1, <3>2, <3>4, PlainStep
  <2>4. CASE FillDefault(p)
    BY <1>0, <1>2, <2>0, <2>4, CalmNote
  <2>5. CASE LoginWritesBlock(p) \/ LoginWritesToken(p)
    <3>1. /\ job[p].at \in {"block", "token"} /\ Rest(p) /\ saved' = saved
          /\ job'[p].at \in {"block", "token", "idle"}
          /\ job'[p].services \in {job[p].services, Nothing}
      BY ZenonT(60), <1>0, <2>5, LoginWritesFacts, JobFields DEF Job
    <3> QED
      BY <1>2, <2>0, <3>1, PlainStep DEF Saving
  <2>6. CASE LogoutStep(p)
    BY <1>0, <1>2, <2>0, <2>6, CalmLogout
  <2> QED
    BY <1>4, <2>1, <2>2, <2>3, <2>4, <2>5, <2>6 DEF FileStep
<1>5. CASE CommandStep(p)
  <2>1. ASSUME NEW n \in Name, DeleteBegins(p, n) PROVE CalmState(saved', job')
    <3>1. \A q \in Proc : q # p => Quiet(job[q])
      BY <1>0, <1>2, <2>1, DeleteBeginsFacts, OthersQuiet
    <3> QED
      BY <1>0, <1>2, <2>1, <3>1, CalmDelete
  <2>2. ASSUME NEW n \in Name, SetDefaultBegins(p, n) PROVE CalmState(saved', job')
    <3>1. \A q \in Proc : q # p => Quiet(job[q])
      BY <1>0, <1>2, <2>2, SetDefaultBeginsFacts, OverlapFacts, OthersQuiet
    <3>2. /\ job[p].at = "idle" /\ job'[p].at = "pick" /\ Rest(p) /\ saved' = saved
          /\ job'[p].services = Nothing
      BY <1>0, <2>2, SetDefaultBeginsFacts
    <3> QED
      BY <1>2, <3>1, <3>2, PlainStep DEF Saving
  <2>3. CASE DeleteChecks(p) \/ DeleteClears(p)
    <3>1. /\ job[p].at \in {"check", "clear"} /\ Rest(p) /\ saved' = saved
          /\ job'[p].at \in {"clear", "idle"}
          /\ job'[p].services \in {job[p].services, Nothing}
      BY <1>0, <2>3, DeleteChecksFacts, DeleteClearsFacts, JobFields DEF Job
    <3> QED
      BY <1>2, <1>b, <3>1, PlainStep DEF Saving, Busy
  <2>4. ASSUME NEW block \in Block \cup {NoBlock}, LoginBegins(p, block) PROVE CalmState(saved', job')
    <3>1. \A q \in Proc : q # p => Quiet(job[q])
      BY <1>0, <1>2, <2>4, LoginBeginsFacts, OthersQuiet
    <3>2. /\ job[p].at = "idle" /\ job'[p].at \in {"block", "token"} /\ Rest(p) /\ saved' = saved
          /\ job'[p].services = Nothing
      BY <1>0, <2>4, LoginBeginsFacts
    <3> QED
      BY <1>2, <3>1, <3>2, PlainStep DEF Saving
  <2>5. CASE LogoutBegins(p)
    <3>1. \A q \in Proc : q # p => Quiet(job[q])
      BY <1>0, <1>2, <2>5, LogoutBeginsFacts, OthersQuiet
    <3>2. /\ job[p].at = "idle" /\ job'[p].at = "signout" /\ Rest(p) /\ saved' = saved
          /\ job'[p].services = Nothing /\ \A q \in Proc : ~ Holding(job[q])
      BY <1>0, <1>2, <2>5, LogoutBeginsFacts DEF Holds
    <3> QED
      BY <1>2, <3>1, <3>2, PlainStep DEF Saving
  <2> QED
    BY <1>5, <2>1, <2>2, <2>3, <2>4, <2>5 DEF CommandStep
<1>6. CASE Crash(p)
  BY <1>0, <1>2, <1>6, CrashFacts
<1> QED
  BY <1>3, <1>4, <1>5, <1>6 DEF ProcStep

\* Every step of a process changes that process only.
LEMMA StepTyped ==
  ASSUME TypeOK, ShapeInv, NEW p \in Proc, ProcStep(p)
  PROVE  Typed(p)
<1>1. CASE ExposeStep(p)
  BY <1>1, BeginFacts, ResolveFacts, ConnectsFacts, ExposeFailsFacts, RegisteredFacts,
     SaveLoadsFacts, DisconnectsFacts, WriteFailsFacts DEF ExposeStep
<1>2. CASE FileStep(p)
  BY <1>2, CutSavedFacts, FillSavedFacts, CutDefaultFacts, FillDefaultFacts, LoginWritesFacts,
     LogoutStepFacts DEF FileStep
<1>3. CASE CommandStep(p)
  BY <1>3, DeleteBeginsFacts, SetDefaultBeginsFacts, DeleteChecksFacts, DeleteClearsFacts,
     LoginBeginsFacts, LogoutBeginsFacts DEF CommandStep
<1>4. CASE Crash(p)
  BY <1>4, CrashFacts
<1> QED
  BY <1>1, <1>2, <1>3, <1>4 DEF ProcStep

\* Only the writing of tunnels.json leads from the write to the default.
LEMMA OnlyFillNotes ==
  ASSUME TypeOK, ShapeInv, NEW p \in Proc, ProcStep(p), job[p].at = "write", job'[p].at = "note"
  PROVE  FillSaved(p)
<1>1. ~ ExposeStep(p)
  <2>1. CASE ExposeNamed(p) \/ ExposeQuick(p) \/ ExposeMulti(p) \/ ExposeWizard(p) \/ ExposeListed(p)
    BY <2>1, BeginFacts
  <2>2. CASE WriteFails(p)
    BY <2>2, WriteFailsFacts, JobFields DEF Job
  <2> QED
    BY <2>1, <2>2 DEF ExposeStep, Resolve, Connects, ExposeFails, Registered, SaveLoads, Disconnects
<1>2. ~ CommandStep(p)
  BY DEF CommandStep, DeleteBegins, SetDefaultBegins, DeleteChecks, DeleteClears, LoginBegins,
         LogoutBegins
<1>3. ~ Crash(p)
  BY CrashFacts, IdleFacts
<1>4. ~ CutSaved(p)
  <2>1. ASSUME CutSaved(p) PROVE job'[p].at = "write"
    BY <2>1, CutSavedFacts, JobFields DEF Job
  <2> QED
    BY <2>1
<1> QED
  BY <1>1, <1>2, <1>3, <1>4 DEF ProcStep, FileStep, CutDefault, FillDefault, LoginWritesBlock,
     LoginWritesToken, LogoutStep

\* While commands do not overlap, none dies at a write and nothing in use is
\* deleted, the stores and the exposed services agree, and what is held is saved.
THEOREM CalmInvariance == Spec => []CalmInv
<1>1. Init => CalmInv
  <2> SUFFICES ASSUME Init PROVE CalmState(saved, job)
    BY DEF CalmInv
  <2>1. saved = Nothing /\ \A p \in Proc : job[p] = Idle
    BY DEF Init
  <2>2. Fits(saved, job) /\ Keeps(saved, job) /\ \A p, q \in Proc : Agree(job[p].services, job[q].services)
    BY <2>1, IdleFacts, AgreeFacts DEF Fits, Keeps
  <2>3. \A p \in Proc : BusyState(job[p], saved, job)
    BY <2>1, IdleFacts, QuietState DEF Quiet
  <2> QED
    BY <2>2, <2>3 DEF CalmState
<1>2. BaseInv /\ CalmInv /\ [Next]_vars => CalmInv'
  <2>1. CASE UNCHANGED vars
    BY <2>1 DEF vars, files, CalmInv, Calm, CalmState, Fits, Keeps, BusyState
  <2> QED
    BY <2>1, CalmStep DEF Next, ProcStep
<1> QED
  BY <1>1, <1>2, BaseInvariance, PTL DEF Spec

\* resolve_public_port never gives one public port to two names, whatever is
\* saved and exposed, for any block, as long as commands do not overlap or die at
\* a write and nothing in use is deleted.
THEOREM PortsAreDistinct == Spec => []DistinctPorts
<1>1. CalmInv => DistinctPorts
  BY DEF CalmInv, CalmState, Fits, Agree, DistinctPorts
<1> QED
  BY <1>1, CalmInvariance, PTL

\* Under the same conditions, what a session holds stays in tunnels.json under
\* its port, whatever the other commands write.
THEOREM HeldIsSaved == Spec => []LiveIsSaved
<1>1. CalmInv => LiveIsSaved
  <2> SUFFICES ASSUME CalmInv, Calm({"raced", "crashed", "deleted"}), NEW p \in Proc, Holds(p),
                      \A q \in Proc : ~ job[q].cut, NEW n \in NamesOf(job[p].services)
               PROVE  saved[n] = job[p].services[n]
    BY DEF LiveIsSaved
  <2>1. Keeps(saved, job)
    BY DEF CalmInv, CalmState
  <2> QED
    BY <2>1 DEF Keeps, Holding, Holds, Within, NamesOf
<1> QED
  BY <1>1, CalmInvariance, PTL

\* Under the same conditions, save_active_tunnel writes no name under another
\* port than the one it has read.
THEOREM StickyStays == Spec => StickyKept
<1> DEFINE Kept(p) ==
      Calm({"raced", "crashed", "deleted"}) /\ job[p].at = "write" /\ job'[p].at = "note" =>
        \A n \in NamesOf(job[p].copy) : saved'[n] = job[p].copy[n]
<1>1. BaseInv /\ CalmInv /\ [Next]_vars => \A p \in Proc : Kept(p)
  <2> SUFFICES ASSUME BaseInv, CalmInv, [Next]_vars, NEW p \in Proc,
                      Calm({"raced", "crashed", "deleted"}), job[p].at = "write", job'[p].at = "note"
               PROVE  \A n \in NamesOf(job[p].copy) : saved'[n] = job[p].copy[n]
    OBVIOUS
  <2>0. TypeOK /\ ShapeInv /\ CalmState(saved, job)
    BY DEF BaseInv, CalmInv
  <2>1. \A q \in Proc : q # p => Quiet(job[q])
    BY DEF BaseInv, AloneInv, Calm, Busy, Quiet
  <2>2. PICK r \in Proc : ProcStep(r)
    BY DEF Next, ProcStep, vars
  <2>3. r = p
    <3>1. Busy(p) /\ Busy(p)' /\ job'[p] # job[p]
      BY DEF Busy
    <3>2. Typed(r)
      BY <2>0, <2>2, StepTyped DEF BaseInv
    <3> QED
      BY <3>1, <3>2 DEF Typed, Rest
  <2>4. FillSaved(p)
    BY <2>0, <2>2, <2>3, OnlyFillNotes
  <2> QED
    BY <2>0, <2>1, <2>4, CalmFill
<1> QED
  BY <1>1, BaseInvariance, CalmInvariance, PTL DEF Spec, StickyKept

-----------------------------------------------------------------------------
(* The block *)

From(s, b) == \A n \in Name : s[n] # NoPort => s[n] \in b

\* Every port that is saved, exposed or about to be saved is of the block `b'.
PortsIn(b, sv, js) ==
  /\ From(sv, b)
  /\ \A q \in Proc : From(js[q].services, b) /\ (WritesTunnels(js[q]) => From(js[q].copy, b))

\* What a login is about to write, and that a logout has removed the token.
BlockOf(p) ==
  /\ job[p].at = "block" => PortsIn(job[p].issued, saved, job)
  /\ job[p].at = "token" =>
       config # NoFile \/ job[p].issued = NoBlock \/ PortsIn(job[p].issued, saved, job)
  /\ job[p].at \in {"tunnels", "prefs", "unassign"} => token = NoFile

BlockInv ==
  Calm({"raced", "moved"}) =>
    /\ LoadBlock # NoBlock => PortsIn(LoadBlock, saved, job)
    /\ \A p \in Proc : BlockOf(p)

\* No port at all is of every block.
LEMMA FromNothing == \A b : From(Nothing, b)
BY DEF From, Nothing

\* The ports stay those of a block in a step that exposes and copies no other.
LEMMA PortsStay ==
  ASSUME NEW b, NEW p \in Proc, Rest(p), PortsIn(b, saved, job), From(saved', b),
         job'[p].services \in {job[p].services, Nothing},
         WritesTunnels(job'[p]) => From(job'[p].copy, b)
  PROVE  PortsIn(b, saved', job')
BY FromNothing DEF PortsIn, Rest

\* So they do in every step but the resolving of new ones.
LEMMA PortsShrink ==
  ASSUME TypeOK, ShapeInv, NEW p \in Proc, ProcStep(p), ~ Resolve(p), NEW b, PortsIn(b, saved, job)
  PROVE  PortsIn(b, saved', job')
<1>0. job[p] \in Job /\ From(saved, b) /\ From(job[p].services, b) /\ From(Nothing, b)
      /\ (WritesTunnels(job[p]) => From(job[p].copy, b))
  BY JobFields, FromNothing DEF PortsIn
<1>i. Idle.services = Nothing /\ Idle.at = "idle"
  BY IdleFacts
<1> USE DEF WritesTunnels, files, Typed
\* A step that leaves tunnels.json alone and loads nothing from it.
<1>p. ASSUME Rest(p), saved' = saved, job'[p].services \in {job[p].services, Nothing},
             job'[p].at \notin {"write", "remove"}
      PROVE  PortsIn(b, saved', job')
  BY <1>0, <1>p, PortsStay
<1>1. CASE ExposeNamed(p) \/ ExposeQuick(p) \/ ExposeMulti(p) \/ ExposeWizard(p) \/ ExposeListed(p)
  BY <1>1, <1>p, BeginFacts
<1>2. CASE Connects(p)
  <2>1. Rest(p) /\ saved' = saved /\ job'[p] = [job[p] EXCEPT !.at = "register"]
    BY <1>2, ConnectsFacts
  <2>2. job'[p].services = job[p].services /\ job'[p].at = "register"
    BY <1>0, <2>1 DEF Job
  <2> QED
    BY <1>p, <2>1, <2>2
<1>3. CASE Registered(p)
  <2>1. Rest(p) /\ saved' = saved /\ job'[p] = [job[p] EXCEPT !.at = "save", !.left = job[p].batch]
    BY <1>3, RegisteredFacts
  <2>2. job'[p].services = job[p].services /\ job'[p].at = "save"
    BY <1>0, <2>1 DEF Job
  <2> QED
    BY <1>p, <2>1, <2>2
<1>4. CASE SaveLoads(p)
  <2>1. Rest(p) /\ saved' = saved /\ job'[p] = [job[p] EXCEPT !.at = "write", !.copy = saved]
    BY <1>4, SaveLoadsFacts
  <2>2. job'[p].services = job[p].services /\ job'[p].copy = saved
    BY <1>0, <2>1 DEF Job
  <2> QED
    BY <1>0, <2>1, <2>2, PortsStay
<1>5. CASE Disconnects(p)
  <2>1. Rest(p) /\ saved' = saved /\ job'[p] \in {Idle, [job[p] EXCEPT !.at = "reconnect"]}
    BY <1>5, DisconnectsFacts
  <2>2. job'[p].services \in {job[p].services, Nothing} /\ job'[p].at \in {"idle", "reconnect"}
    BY <1>0, <1>i, <2>1 DEF Job
  <2> QED
    BY <1>p, <2>1, <2>2
<1>5a. CASE WriteFails(p)
  <2>1. /\ Rest(p) /\ saved' = saved
        /\ job'[p] = [job[p] EXCEPT !.at = "reconnect", !.cut = FALSE, !.left = <<>>, !.copy = Nothing]
    BY <1>5a, WriteFailsFacts
  <2>2. job'[p].services = job[p].services /\ job'[p].at = "reconnect"
    BY <1>0, <2>1 DEF Job
  <2> QED
    BY <1>p, <2>1, <2>2
<1>5b. CASE ExposeFails(p) \/ DeleteClears(p) \/ Crash(p)
  <2>1. Rest(p) /\ saved' = saved /\ job'[p] = Idle
    BY <1>5b, ExposeFailsFacts, DeleteClearsFacts, CrashFacts
  <2> QED
    BY <1>p, <1>i, <2>1
<1>6. CASE CutSaved(p)
  <2>1. /\ Rest(p) /\ saved' = Nothing /\ job'[p].services = job[p].services
        /\ job'[p].copy = job[p].copy /\ WritesTunnels(job[p])
    BY <1>0, <1>6, CutSavedFacts DEF Job
  <2> QED
    BY <1>0, <2>1, PortsStay
<1>7. CASE FillSaved(p)
  <2> DEFINE h == Head(job[p].left)
  <2>1. /\ Rest(p) /\ job[p].at \in {"write", "remove"}
        /\ saved' = IF job[p].at = "write" THEN [job[p].copy EXCEPT ![h] = job[p].services[h]]
                    ELSE job[p].copy
        /\ job'[p] = [job[p] EXCEPT !.at = IF job[p].at = "write" THEN "note" ELSE "check",
                                    !.cut = FALSE, !.copy = Nothing]
    BY <1>7, FillSavedFacts
  <2>2. job'[p].services = job[p].services /\ job'[p].at \in {"note", "check"}
    BY <1>0, <2>1 DEF Job
  <2>3. job[p].copy \in Ports
    BY JobFields
  <2>4. job[p].at = "write" => h \in Name
    BY HeadIsExposed DEF Saving
  <2> HIDE DEF h
  <2>5. From(saved', b)
    <3>1. CASE job[p].at = "write"
      <4>1. \A n \in Name : saved'[n] = IF n = h THEN job[p].services[h] ELSE job[p].copy[n]
        BY <2>1, <2>3, <2>4, <3>1 DEF Ports
      <4> QED
        BY <1>0, <2>4, <3>1, <4>1 DEF From
    <3>2. CASE job[p].at = "remove"
      BY <1>0, <2>1, <3>2
    <3> QED
      BY <2>1, <3>1, <3>2
  <2> QED
    BY <2>1, <2>2, <2>5, PortsStay
<1>8. CASE CutDefault(p)
  <2>1. /\ Rest(p) /\ saved' = saved /\ job[p].at \in {"start", "note", "pick"}
        /\ job'[p] = [job[p] EXCEPT !.cut = TRUE]
    BY <1>8, CutDefaultFacts
  <2>2. job'[p].services = job[p].services /\ job'[p].at = job[p].at
    BY <1>0, <2>1 DEF Job
  <2> QED
    BY <1>p, <2>1, <2>2
<1>8a. CASE FillDefault(p)
  <2>1. /\ Rest(p) /\ saved' = saved /\ job[p].at \in {"start", "note", "pick"}
        /\ job[p].at = "start" => job'[p] = [job[p] EXCEPT !.cut = FALSE, !.at = "connect"]
        /\ job[p].at = "pick" => job'[p] = Idle
        /\ job[p].at = "note" =>
             job'[p] = [job[p] EXCEPT !.cut = FALSE, !.left = Tail(job[p].left),
                                      !.at = IF Tail(job[p].left) = <<>> THEN "live" ELSE "save"]
    BY <1>8a, FillDefaultFacts
  <2>2. job'[p].services \in {job[p].services, Nothing} /\ job'[p].at \in {"connect", "idle", "live", "save"}
    BY <1>0, <1>i, <2>1 DEF Job
  <2> QED
    BY <1>p, <2>1, <2>2
<1>9. CASE LoginWritesBlock(p) \/ LoginWritesToken(p)
  <2>1. /\ Rest(p) /\ saved' = saved /\ job[p].at \in {"block", "token"}
        /\ \/ job'[p] = Idle \/ job'[p] = [job[p] EXCEPT !.cut = TRUE]
           \/ job'[p] = [job[p] EXCEPT !.at = "token", !.cut = FALSE]
    BY <1>9, LoginWritesFacts
  <2>2. job'[p].services \in {job[p].services, Nothing} /\ job'[p].at \in {"idle", "block", "token"}
    BY <1>0, <1>i, <2>1 DEF Job
  <2> QED
    BY <1>p, <2>1, <2>2
<1>10. CASE LogoutStep(p)
  <2>1. /\ Rest(p) /\ saved' \in {saved, Nothing}
        /\ \/ job'[p] = Idle \/ job'[p] = [job[p] EXCEPT !.at = "tunnels"]
           \/ job'[p] = [job[p] EXCEPT !.at = "prefs"] \/ job'[p] = [job[p] EXCEPT !.at = "unassign"]
    BY <1>10, LogoutStepFacts
  <2>2. /\ job'[p].services \in {job[p].services, Nothing}
        /\ job'[p].at \in {"idle", "tunnels", "prefs", "unassign"}
    BY <1>0, <1>i, <2>1 DEF Job
  <2> QED
    BY <1>0, <2>1, <2>2, PortsStay
<1>11. ASSUME NEW n \in Name, DeleteBegins(p, n) PROVE PortsIn(b, saved', job')
  <2>1. /\ Rest(p) /\ saved' = saved /\ job'[p].services = Nothing
        /\ job'[p].copy = [saved EXCEPT ![n] = NoPort]
    BY <1>11, DeleteBeginsFacts
  <2>2. \A m \in Name : job'[p].copy[m] = IF m = n THEN NoPort ELSE saved[m]
    BY <2>1 DEF TypeOK, Ports
  <2>3. From(job'[p].copy, b)
    BY <1>0, <2>2 DEF From
  <2> QED
    BY <1>0, <2>1, <2>3, PortsStay
<1>12. ASSUME NEW n \in Name, SetDefaultBegins(p, n) PROVE PortsIn(b, saved', job')
  BY <1>0, <1>12, SetDefaultBeginsFacts, PortsStay
<1>13. CASE DeleteChecks(p)
  <2>1. Rest(p) /\ saved' = saved /\ job'[p] \in {Idle, [job[p] EXCEPT !.at = "clear"]}
    BY <1>13, DeleteChecksFacts
  <2>2. job'[p].services \in {job[p].services, Nothing} /\ job'[p].at \in {"idle", "clear"}
    BY <1>0, <1>i, <2>1 DEF Job
  <2> QED
    BY <1>p, <2>1, <2>2
<1>14. ASSUME NEW block \in Block \cup {NoBlock}, LoginBegins(p, block) PROVE PortsIn(b, saved', job')
  BY <1>14, <1>p, LoginBeginsFacts
<1>15. CASE LogoutBegins(p)
  BY <1>15, <1>p, LogoutBeginsFacts
<1> QED
  BY <1>1, <1>2, <1>3, <1>4, <1>5, <1>5a, <1>5b, <1>6, <1>7, <1>8, <1>8a, <1>9, <1>10, <1>11, <1>12,
     <1>13, <1>14, <1>15 DEF ProcStep, ExposeStep, FileStep, CommandStep
\* The block changes only at a login and a logout.
LEMMA BlockStays ==
  ASSUME TypeOK, ShapeInv, NEW p \in Proc, ProcStep(p), ~ LoginWritesBlock(p), ~ LoginWritesToken(p),
         ~ LogoutStep(p), \A block \in Block \cup {NoBlock} : ~ LoginBegins(p, block)
  PROVE  /\ token' = token /\ config' = config /\ Rest(p)
         /\ job'[p].at \notin {"block", "token", "tunnels", "prefs", "unassign"}
<1>0. job[p] \in Job
  BY JobFields
<1>i. Idle.at = "idle"
  BY IdleFacts
<1> USE DEF files, Typed
<1>1. CASE ExposeNamed(p) \/ ExposeQuick(p) \/ ExposeMulti(p) \/ ExposeWizard(p) \/ ExposeListed(p)
  BY <1>1, BeginFacts
<1>2. CASE Resolve(p) \/ ExposeFails(p) \/ DeleteClears(p) \/ Crash(p)
  BY <1>2, <1>i, ResolveFacts, ExposeFailsFacts, DeleteClearsFacts, CrashFacts
<1>3. CASE Connects(p)
  BY <1>0, <1>3, ConnectsFacts DEF Job
<1>4. CASE Registered(p)
  BY <1>0, <1>4, RegisteredFacts DEF Job
<1>5. CASE SaveLoads(p)
  BY <1>0, <1>5, SaveLoadsFacts DEF Job
<1>6. CASE Disconnects(p)
  BY <1>0, <1>6, <1>i, DisconnectsFacts DEF Job
<1>7. CASE WriteFails(p)
  BY ZenonT(60), <1>0, <1>7, WriteFailsFacts DEF Job
<1>8. CASE CutSaved(p)
  BY <1>0, <1>8, CutSavedFacts DEF Job
<1>9. CASE FillSaved(p)
  <2>1. /\ job'[p] = [job[p] EXCEPT !.at = IF job[p].at = "write" THEN "note" ELSE "check",
                                    !.cut = FALSE, !.copy = Nothing]
        /\ Typed(p) /\ UNCHANGED <<token, config>>
    BY <1>9, FillSavedFacts
  <2> QED
    BY <1>0, <2>1 DEF Job
<1>10. CASE CutDefault(p)
  BY <1>0, <1>10, CutDefaultFacts DEF Job
<1>11. CASE FillDefault(p)
  <2>1. /\ job[p].at \in {"start", "note", "pick"} /\ Rest(p) /\ UNCHANGED <<token, config>>
        /\ job[p].at = "start" => job'[p] = [job[p] EXCEPT !.cut = FALSE, !.at = "connect"]
        /\ job[p].at = "pick" => job'[p] = Idle
        /\ job[p].at = "note" =>
             job'[p] = [job[p] EXCEPT !.cut = FALSE, !.left = Tail(job[p].left),
                                      !.at = IF Tail(job[p].left) = <<>> THEN "live" ELSE "save"]
    BY <1>11, FillDefaultFacts
  <2>2. job'[p].at \in {"connect", "idle", "live", "save"}
    BY <1>0, <1>i, <2>1 DEF Job
  <2> QED
    BY <2>1, <2>2
<1>12. ASSUME NEW n \in Name, DeleteBegins(p, n) \/ SetDefaultBegins(p, n)
       PROVE  /\ token' = token /\ config' = config /\ Rest(p)
              /\ job'[p].at \notin {"block", "token", "tunnels", "prefs", "unassign"}
  BY <1>12, DeleteBeginsFacts, SetDefaultBeginsFacts
<1>13. CASE DeleteChecks(p)
  BY <1>0, <1>13, <1>i, DeleteChecksFacts DEF Job
<1>14. CASE LogoutBegins(p)
  BY <1>14, LogoutBeginsFacts
<1> QED
  BY <1>1, <1>2, <1>3, <1>4, <1>5, <1>6, <1>7, <1>8, <1>9, <1>10, <1>11, <1>12, <1>13, <1>14
     DEF ProcStep, ExposeStep, FileStep, CommandStep

\* Ports that an expose chooses are saved ones or of the block.
LEMMA ResolvedIn ==
  ASSUME NEW s, NEW batch, NEW b, Resolves(s, batch, b, saved), From(saved, b)
  PROVE  From(s, b)
<1> SUFFICES ASSUME NEW n \in Name, s[n] # NoPort PROVE s[n] \in b
  BY DEF From
<1>1. PICK i \in DOMAIN batch : n = batch[i]
  BY DEF Resolves, NamesOf, Chosen
<1> DEFINE used == {saved[m] : m \in NamesOf(saved)} \cup {s[batch[k]] : k \in 1 .. i - 1}
<1>2. PublicPort(s[n], n, b, saved, used)
  BY <1>1 DEF Resolves
<1> HIDE DEF used
<1> QED
  BY <1>2 DEF PublicPort, From

\* Each step keeps all ports in the block that is on disk or being written.
LEMMA BlockStep ==
  ASSUME BaseInv, BlockInv, NEW p \in Proc, ProcStep(p)
  PROVE  BlockInv'
<1>0. TypeOK /\ ShapeInv /\ job[p] \in Job /\ NoFile \notin Block \cup {NoBlock}
  BY JobFields, SavedAssumption DEF BaseInv, NoBlock
<1>m. mishaps \subseteq mishaps'
  BY <1>0, MishapFacts
<1> SUFFICES ASSUME Calm({"raced", "moved"})'
             PROVE  /\ LoadBlock' # NoBlock => PortsIn(LoadBlock', saved', job')
                    /\ \A q \in Proc : BlockOf(q)'
  BY DEF BlockInv
<1>1. /\ "raced" \notin mishaps' /\ "raced" \notin mishaps /\ "moved" \notin mishaps'
      /\ LoadBlock # NoBlock => PortsIn(LoadBlock, saved, job)
      /\ \A q \in Proc : BlockOf(q)
  BY <1>m DEF Calm, BlockInv
<1>s. ASSUME ~ Resolve(p), NEW b, PortsIn(b, saved, job) PROVE PortsIn(b, saved', job')
  BY <1>0, <1>s, PortsShrink
<1>q. ASSUME Rest(p), \/ Busy(p) \/ \A q \in Proc \ {p} : ~ Busy(q)
      PROVE  \A q \in Proc : q # p => BlockOf(q)'
  <2>1. \A q \in Proc : q # p => Quiet(job[q])
    BY <1>1, <1>q, OthersQuiet
  <2> QED
    BY <1>q, <2>1 DEF Rest, Quiet, BlockOf
<1>2. CASE Resolve(p)
  <2>1. /\ token' = token /\ config' = config /\ saved' = saved /\ Rest(p)
        /\ job'[p].at \in {"idle", "start", "connect"}
    BY <1>0, <1>2, ResolveFacts, IdleFacts DEF files, Typed
  <2>2. LoadBlock' = LoadBlock
    BY <2>1 DEF LoadBlock, TokenBlock
  <2>3. CASE job'[p] = Idle
    <3>1. ASSUME NEW b, PortsIn(b, saved, job) PROVE PortsIn(b, saved', job')
      BY <2>1, <2>3, <3>1, IdleFacts, PortsStay DEF PortsIn, WritesTunnels
    <3>2. BlockOf(p)'
      BY <2>1 DEF BlockOf
    <3>3. \A q \in Proc : q # p => BlockOf(q)'
      BY <1>1, <2>1, <3>1 DEF BlockOf, Rest
    <3> QED
      BY <1>1, <2>2, <3>1, <3>2, <3>3
  <2>4. CASE job'[p] # Idle
    <3>1. /\ LoadBlock # NoBlock /\ Overlaps(p)
          /\ Resolves(job'[p].services, job[p].batch, LoadBlock, saved)
          /\ job'[p].at \in {"start", "connect"}
      BY <1>0, <1>2, <2>4, ResolveFacts
    <3>2. PortsIn(LoadBlock, saved, job)
      BY <1>1, <3>1
    <3>3. From(job'[p].services, LoadBlock)
      BY <3>1, <3>2, ResolvedIn DEF PortsIn
    <3>4. PortsIn(LoadBlock, saved', job')
      BY <2>1, <3>1, <3>2, <3>3 DEF PortsIn, Rest, WritesTunnels
    <3>5. BlockOf(p)'
      BY <2>1 DEF BlockOf
    <3> QED
      BY <1>1, <1>q, <2>1, <2>2, <3>1, <3>4, <3>5, OverlapFacts
  <2> QED
    BY <2>3, <2>4
<1>3. CASE LoginWritesBlock(p)
  <2>1. /\ job[p].at = "block" /\ Rest(p) /\ token' = token
        /\ config' = IF job[p].cut THEN job[p].issued ELSE NoBlock
        /\ job'[p] = IF job[p].cut THEN [job[p] EXCEPT !.at = "token", !.cut = FALSE]
                     ELSE [job[p] EXCEPT !.cut = TRUE]
    BY <1>0, <1>3, LoginWritesFacts DEF LoginWritesBlock, Typed
  <2>2. job[p].issued # NoFile /\ job'[p].issued = job[p].issued /\ job'[p].at \in {"block", "token"}
    BY <1>0, <2>1 DEF Job
  <2>3. PortsIn(job[p].issued, saved', job')
    BY <1>1, <1>3, <1>s, <2>1 DEF BlockOf, Resolve
  <2>4. LoadBlock' \in {NoBlock, job[p].issued}
    BY <1>0, <2>1, <2>2 DEF LoadBlock
  <2> QED
    BY <1>q, <2>1, <2>2, <2>3, <2>4 DEF Busy, BlockOf
<1>4. CASE LoginWritesToken(p)
  <2>1. /\ job[p].at = "token" /\ Rest(p) /\ config' = config
        /\ token' = IF job[p].cut THEN job[p].issued ELSE NoFile
        /\ job'[p] = IF job[p].cut THEN Idle ELSE [job[p] EXCEPT !.cut = TRUE]
    BY <1>0, <1>4, LoginWritesFacts DEF LoginWritesToken, Typed
  <2>2. /\ job[p].issued # NoFile /\ job'[p].at \in {"idle", "token"}
        /\ job'[p].at = "token" => job'[p].issued = job[p].issued
    BY <1>0, <2>1, IdleFacts DEF Job
  <2>3. ~ Resolve(p)
    BY <2>1 DEF Resolve
  <2>4. config # NoFile \/ job[p].issued = NoBlock \/ PortsIn(job[p].issued, saved', job')
    BY <1>1, <1>s, <2>1, <2>3 DEF BlockOf
  <2>5. BlockOf(p)'
    BY <2>1, <2>2, <2>4 DEF BlockOf
  <2>6. LoadBlock' # NoBlock => PortsIn(LoadBlock', saved', job')
    <3>1. CASE config # NoFile
      BY <1>1, <1>s, <2>1, <2>3, <3>1 DEF LoadBlock
    <3>2. CASE config = NoFile
      BY <2>1, <2>2, <2>4, <3>2 DEF LoadBlock, TokenBlock
    <3> QED
      BY <3>1, <3>2
  <2> QED
    BY <1>q, <2>1, <2>5, <2>6 DEF Busy
<1>5. CASE LogoutStep(p)
  <2>1. /\ Rest(p) /\ Busy(p) /\ ~ Resolve(p)
        /\ \/ token' = NoFile /\ config' = config /\ job'[p] = [job[p] EXCEPT !.at = "tunnels"]
           \/ /\ token = NoFile /\ token' = token /\ config' = config
              /\ \/ job'[p] = [job[p] EXCEPT !.at = "prefs"]
                 \/ job'[p] = [job[p] EXCEPT !.at = "unassign"]
           \/ token = NoFile /\ token' = token /\ config' = NoFile /\ job'[p] = Idle
    BY <1>0, <1>1, <1>5, LogoutStepFacts DEF Typed, Busy, BlockOf, Resolve
  <2>2. job'[p].at \in {"tunnels", "prefs", "unassign", "idle"} /\ token' = NoFile
    BY <1>0, <2>1, IdleFacts DEF Job
  <2>3. LoadBlock' \in {NoBlock, LoadBlock}
    BY <2>1, <2>2 DEF LoadBlock, TokenBlock
  <2>4. BlockOf(p)'
    BY <2>2 DEF BlockOf
  <2> QED
    BY <1>1, <1>q, <1>s, <2>1, <2>3, <2>4
<1>6. ASSUME NEW block \in Block \cup {NoBlock}, LoginBegins(p, block)
      PROVE  /\ LoadBlock' # NoBlock => PortsIn(LoadBlock', saved', job')
             /\ \A q \in Proc : BlockOf(q)'
  <2>1. /\ job[p].at = "idle" /\ Rest(p) /\ token' = token /\ config' = config
        /\ job'[p].at \in {"block", "token"} /\ (job'[p].at = "block" => block # NoBlock)
        /\ job'[p].issued = block
        /\ (\E q \in Proc \ {p} : Busy(q)) => "raced" \in mishaps'
        /\ \/ "moved" \in mishaps' \/ LoadBlock = block
           \/ saved = Nothing /\ \A q \in Proc : job[q].services = Nothing
    BY <1>0, <1>6, LoginBeginsFacts DEF files, Typed
  <2>2. ~ Resolve(p) /\ LoadBlock' = LoadBlock
    BY <2>1 DEF Resolve, LoadBlock, TokenBlock
  <2>3. \A q \in Proc : ~ Busy(q)
    BY <1>1, <2>1 DEF Busy
  <2>4. block = NoBlock \/ PortsIn(block, saved, job)
    <3>1. CASE LoadBlock = block
      BY <1>1, <3>1
    <3>2. CASE saved = Nothing /\ \A q \in Proc : job[q].services = Nothing
      BY <2>3, <3>2, FromNothing DEF PortsIn, WritesTunnels, Busy
    <3> QED
      BY <1>1, <2>1, <3>1, <3>2
  <2>5. block = NoBlock \/ PortsIn(block, saved', job')
    BY <1>s, <2>2, <2>4
  <2>6. BlockOf(p)'
    BY <2>1, <2>5 DEF BlockOf
  <2> QED
    BY <1>1, <1>q, <1>s, <2>1, <2>2, <2>3, <2>6
<1>7. CASE ~ Resolve(p) /\ ~ LoginWritesBlock(p) /\ ~ LoginWritesToken(p) /\ ~ LogoutStep(p)
           /\ \A block \in Block \cup {NoBlock} : ~ LoginBegins(p, block)
  <2>1. /\ token' = token /\ config' = config /\ Rest(p)
        /\ job'[p].at \notin {"block", "token", "tunnels", "prefs", "unassign"}
    BY <1>0, <1>7, BlockStays
  <2>2. LoadBlock' = LoadBlock
    BY <2>1 DEF LoadBlock, TokenBlock
  <2>3. BlockOf(p)'
    BY <2>1 DEF BlockOf
  <2>4. ASSUME NEW q \in Proc, q # p PROVE BlockOf(q)'
    <3>1. job'[q] = job[q] /\ BlockOf(q)
      BY <1>1, <2>1, <2>4 DEF Rest
    <3>2. PortsIn(job[q].issued, saved, job) => PortsIn(job[q].issued, saved', job')
      BY <1>7, <1>s
    <3> QED
      BY <2>1, <3>1, <3>2 DEF BlockOf
  <2> QED
    BY <1>1, <1>7, <1>s, <2>2, <2>3, <2>4
<1> QED
  BY <1>2, <1>3, <1>4, <1>5, <1>6, <1>7

\* What is saved stays in the block that the next expose takes its ports from,
\* whatever is deleted, fails or dies, until a login brings another block.
THEOREM PortsInBlock == Spec => []InBlock
<1>1. Init => BlockInv
  BY IdleFacts, FromNothing DEF Init, BlockInv, BlockOf, PortsIn, WritesTunnels
<1>2. BaseInv /\ BlockInv /\ [Next]_vars => BlockInv'
  <2>1. CASE UNCHANGED vars
    BY <2>1 DEF vars, files, BlockInv, BlockOf, PortsIn, LoadBlock, TokenBlock, Calm
  <2> QED
    BY <2>1, BlockStep DEF Next, ProcStep
<1>3. BlockInv => InBlock
  BY DEF BlockInv, InBlock, Calm, PortsIn, From, NamesOf
<1> QED
  BY <1>1, <1>2, <1>3, BaseInvariance, PTL DEF Spec
-----------------------------------------------------------------------------
(* The default *)

\* The default `d' is one of the tunnels `sv'.
Names(d, sv) == d = NoName \/ sv[d] # NoPort

\* What the default is while the process of `j' is at work: a saved tunnel, or one
\* it is about to save, to delete or to take the default from.
DefaultOf(j, sv, d) ==
  /\ j.at \in {"start", "pick", "block", "token", "signout", "tunnels", "unassign"} => Names(d, sv)
  /\ j.at = "start" => j.first
  /\ j.at \in {"pick", "note"} => sv[Head(j.left)] # NoPort
  /\ j.at \in {"connect", "register"} => Names(d, sv) \/ (j.first /\ d = Head(j.batch))
  /\ j.at \in {"save", "note"} => Names(d, sv) \/ d \in Chosen(j.left)
  /\ j.at = "write" => Names(d, j.copy) \/ d \in Chosen(j.left)
  /\ j.at = "remove" => Names(d, j.copy) \/ d = Head(j.left)
  /\ j.at = "check" => Names(d, sv) \/ d = Head(j.left)

DefaultState(sv, d, js) ==
  /\ \A p \in Proc : DefaultOf(js[p], sv, d)
  /\ (\A p \in Proc : Quiet(js[p])) => Names(d, sv)

DefaultInv == Calm({"raced", "crashed", "failed"}) => DefaultState(saved, default, job)

\* A process that is not busy does not have to answer for the default.
LEMMA QuietDefault ==
  ASSUME NEW j, NEW sv, NEW d, Quiet(j)
  PROVE  DefaultOf(j, sv, d)
BY DEF Quiet, DefaultOf

\* A step of the one process that is busy.
LEMMA DefaultOne ==
  ASSUME NEW p \in Proc, Rest(p), \A q \in Proc : q # p => Quiet(job[q]),
         DefaultOf(job'[p], saved', default'), Quiet(job'[p]) => Names(default', saved')
  PROVE  DefaultState(saved', default', job')
<1>1. \A q \in Proc : q # p => job'[q] = job[q]
  BY DEF Rest
<1>2. \A q \in Proc : q # p => DefaultOf(job'[q], saved', default')
  BY <1>1, QuietDefault
<1> QED
  BY <1>2 DEF DefaultState

\* A step that begins or ends nothing.
LEMMA DefaultSame ==
  ASSUME NEW p \in Proc, Rest(p), saved' = saved, default' = default,
         DefaultState(saved, default, job), Quiet(job[p]), Quiet(job'[p])
  PROVE  DefaultState(saved', default', job')
BY QuietDefault DEF Rest, DefaultState

\* The steps of an expose keep the default a saved tunnel, or about to be one;
LEMMA DefaultExpose ==
  ASSUME BaseInv, DefaultState(saved, default, job), NEW p \in Proc, ExposeStep(p),
         mishaps' \cap {"raced", "crashed", "failed"} = {}
  PROVE  DefaultState(saved', default', job')
<1>0. TypeOK /\ ShapeInv /\ Shape(job[p]) /\ job[p] \in Job /\ DefaultOf(job[p], saved, default)
  BY JobFields DEF BaseInv, ShapeInv, DefaultState
<1>m. /\ "raced" \notin mishaps' /\ "crashed" \notin mishaps' /\ "failed" \notin mishaps'
      /\ "raced" \notin mishaps
  BY <1>0, MishapFacts DEF ProcStep
<1>b. Busy(p) => \A q \in Proc : q # p => Quiet(job[q])
  BY <1>m, OthersQuiet
<1>e. ASSUME Quiet(job[p]), Overlaps(p)
      PROVE  (\A q \in Proc : q # p => Quiet(job[q])) /\ Names(default, saved)
  <2>1. \A q \in Proc : q # p => Quiet(job[q])
    BY <1>m, <1>e, OverlapFacts, OthersQuiet
  <2> QED
    BY <1>e, <2>1 DEF DefaultState
<1>i. Idle.at = "idle" /\ Quiet(Idle)
  BY IdleFacts DEF Quiet
<1> USE DEF Typed, files
<1>1. CASE ExposeNamed(p) \/ ExposeQuick(p) \/ ExposeMulti(p) \/ ExposeWizard(p) \/ ExposeListed(p)
  BY <1>0, <1>1, BeginFacts, DefaultSame DEF Quiet
<1>2. CASE Resolve(p)
  <2>1. /\ job[p].at = "resolve" /\ Quiet(job[p]) /\ Rest(p) /\ saved' = saved /\ default' = default
    BY <1>0, <1>2, ResolveFacts DEF Quiet
  <2>2. CASE job'[p] = Idle
    BY <1>i, <2>1, <2>2, DefaultSame
  <2>3. CASE job'[p] # Idle
    <3>1. /\ job'[p].at \in {"start", "connect"} /\ (job'[p].at = "start" <=> job[p].first)
          /\ job'[p].first = job[p].first /\ Overlaps(p)
      BY <1>0, <1>2, <2>3, ResolveFacts
    <3>2. (\A q \in Proc : q # p => Quiet(job[q])) /\ Names(default, saved)
      BY <1>e, <2>1, <3>1
    <3>3. DefaultOf(job'[p], saved', default')
      BY <2>1, <3>1, <3>2 DEF DefaultOf
    <3> QED
      BY <2>1, <3>2, <3>3, DefaultOne
  <2> QED
    BY <2>2, <2>3
<1>3. CASE Connects(p)
  <2>1. /\ job[p].at = "connect" /\ Rest(p) /\ saved' = saved /\ default' = default
        /\ job'[p] = [job[p] EXCEPT !.at = "register"]
    BY <1>0, <1>3, ConnectsFacts
  <2>2. /\ job'[p].at = "register" /\ job'[p].first = job[p].first /\ job'[p].batch = job[p].batch
    BY <1>0, <2>1 DEF Job
  <2>3. DefaultOf(job'[p], saved', default') /\ ~ Quiet(job'[p]) /\ Busy(p)
    BY <1>0, <2>1, <2>2 DEF DefaultOf, Quiet, Busy
  <2> QED
    BY <1>b, <2>1, <2>3, DefaultOne
<1>4. CASE ExposeFails(p)
  <2>1. /\ job[p].at \in {"connect", "register", "reconnect"} /\ Rest(p) /\ saved' = saved
        /\ default' = default /\ job'[p] = Idle
        /\ job[p].at \in {"connect", "register"} => ~ job[p].first
    BY <1>0, <1>4, <1>m, ExposeFailsFacts
  <2>2. CASE job[p].at = "reconnect"
    BY <1>i, <2>1, <2>2, DefaultSame DEF Quiet
  <2>3. CASE job[p].at \in {"connect", "register"}
    <3>1. Names(default, saved) /\ Busy(p)
      BY <1>0, <2>1, <2>3 DEF DefaultOf, Busy
    <3> QED
      BY <1>b, <1>i, <2>1, <3>1, DefaultOne, QuietDefault
  <2> QED
    BY <2>1, <2>2, <2>3
<1>5. CASE Registered(p)
  <2>1. /\ job[p].at \in {"register", "reconnect"} /\ Rest(p) /\ saved' = saved /\ default' = default
        /\ job'[p] = [job[p] EXCEPT !.at = "save", !.left = job[p].batch] /\ Overlaps(p)
    BY <1>0, <1>5, RegisteredFacts
  <2>2. job'[p].at = "save" /\ job'[p].left = job[p].batch
    BY <1>0, <2>1 DEF Job
  <2>3. job[p].batch \in Seq(Name) /\ job[p].batch # <<>>
    BY <1>0, <2>1, JobFields DEF Shape, Exposing
  <2>4. Head(job[p].batch) \in Chosen(job[p].batch)
    BY <2>3, TailSeq
  <2>5. CASE job[p].at = "register"
    <3>1. DefaultOf(job'[p], saved', default') /\ ~ Quiet(job'[p]) /\ Busy(p)
      BY <1>0, <2>1, <2>2, <2>4, <2>5 DEF DefaultOf, Quiet, Busy
    <3> QED
      BY <1>b, <2>1, <3>1, DefaultOne
  <2>6. CASE job[p].at = "reconnect"
    <3>1. (\A q \in Proc : q # p => Quiet(job[q])) /\ Names(default, saved)
      BY <1>e, <2>1, <2>6 DEF Quiet
    <3>2. DefaultOf(job'[p], saved', default') /\ ~ Quiet(job'[p])
      BY <2>1, <2>2, <3>1 DEF DefaultOf, Quiet
    <3> QED
      BY <2>1, <3>1, <3>2, DefaultOne
  <2> QED
    BY <2>1, <2>5, <2>6
<1>6. CASE SaveLoads(p)
  <2>1. /\ job[p].at = "save" /\ Rest(p) /\ saved' = saved /\ default' = default
        /\ job'[p] = [job[p] EXCEPT !.at = "write", !.copy = saved]
    BY <1>0, <1>6, SaveLoadsFacts
  <2>2. job'[p].at = "write" /\ job'[p].copy = saved /\ job'[p].left = job[p].left
    BY <1>0, <2>1 DEF Job
  <2>3. DefaultOf(job'[p], saved', default') /\ ~ Quiet(job'[p]) /\ Busy(p)
    BY <1>0, <2>1, <2>2 DEF DefaultOf, Quiet, Busy
  <2> QED
    BY <1>b, <2>1, <2>3, DefaultOne
<1>7. CASE Disconnects(p)
  <2>1. /\ job[p].at = "live" /\ Rest(p) /\ saved' = saved /\ default' = default
        /\ job'[p] \in {Idle, [job[p] EXCEPT !.at = "reconnect"]}
    BY <1>0, <1>7, DisconnectsFacts
  <2>2. job'[p].at \in {"idle", "reconnect"}
    BY <1>0, <1>i, <2>1 DEF Job
  <2> QED
    BY <2>1, <2>2, DefaultSame DEF Quiet
<1>8. CASE WriteFails(p)
  BY <1>0, <1>8, <1>m, WriteFailsFacts
<1> QED
  BY <1>1, <1>2, <1>3, <1>4, <1>5, <1>6, <1>7, <1>8 DEF ExposeStep

\* so do the writes of tunnels.json and preferences.json,
LEMMA DefaultFile ==
  ASSUME BaseInv, DefaultState(saved, default, job), NEW p \in Proc, FileStep(p),
         "raced" \notin mishaps, "raced" \notin mishaps'
  PROVE  DefaultState(saved', default', job')
<1>0. TypeOK /\ ShapeInv /\ Shape(job[p]) /\ job[p] \in Job /\ DefaultOf(job[p], saved, default)
      /\ default \in Name \cup {NoName}
  BY JobFields DEF BaseInv, ShapeInv, DefaultState, TypeOK
<1>1. Busy(p)
  BY DEF FileStep, CutSaved, FillSaved, CutDefault, FillDefault, LoginWritesBlock, LoginWritesToken,
         LogoutStep, Busy
<1>b. \A q \in Proc : q # p => Quiet(job[q])
  BY <1>1, OthersQuiet
<1> SUFFICES /\ Rest(p) /\ DefaultOf(job'[p], saved', default')
             /\ Quiet(job'[p]) => Names(default', saved')
  BY <1>b, DefaultOne
<1>i. Idle.at = "idle" /\ Quiet(Idle) /\ \A sv, d : DefaultOf(Idle, sv, d)
  BY IdleFacts, QuietDefault DEF Quiet
<1>n. \A sv : Names(NoName, sv)
  BY DEF Names
<1> USE DEF Typed
<1>2. CASE CutSaved(p)
  <2>1. /\ job[p].at \in {"write", "remove"} /\ Rest(p) /\ default' = default /\ saved' = Nothing
        /\ job'[p] = IF job[p].at = "remove" /\ job[p].copy = Nothing
                     THEN [job[p] EXCEPT !.at = "check"] ELSE [job[p] EXCEPT !.cut = TRUE]
    BY <1>0, <1>2, CutSavedFacts
  <2>2. CASE job[p].at = "remove" /\ job[p].copy = Nothing
    <3>1. job'[p].at = "check" /\ job'[p].left = job[p].left
      BY <1>0, <2>1, <2>2 DEF Job
    <3> QED
      BY <1>0, <2>1, <2>2, <3>1 DEF DefaultOf, Quiet
  <2>3. CASE ~ (job[p].at = "remove" /\ job[p].copy = Nothing)
    <3>1. job'[p].at = job[p].at /\ job'[p].left = job[p].left /\ job'[p].copy = job[p].copy
      BY <1>0, <2>1, <2>3 DEF Job
    <3> QED
      BY <1>0, <2>1, <3>1 DEF DefaultOf, Quiet
  <2> QED
    BY <2>2, <2>3
<1>3. CASE FillSaved(p)
  <2> DEFINE h == Head(job[p].left)
  <2>1. /\ job[p].at \in {"write", "remove"} /\ Rest(p) /\ default' = default
        /\ saved' = IF job[p].at = "write" THEN [job[p].copy EXCEPT ![h] = job[p].services[h]]
                    ELSE job[p].copy
        /\ job'[p] = [job[p] EXCEPT !.at = IF job[p].at = "write" THEN "note" ELSE "check",
                                    !.cut = FALSE, !.copy = Nothing]
    BY <1>0, <1>3, FillSavedFacts
  <2>2. CASE job[p].at = "write"
    <3>1. job'[p].at = "note" /\ job'[p].left = job[p].left
      BY <1>0, <2>1, <2>2 DEF Job
    <3>2. h \in Name /\ job[p].services[h] # NoPort /\ job[p].copy \in Ports
      BY <1>0, <2>2, HeadIsExposed, JobFields DEF Saving
    <3>3. \A n \in Name : saved'[n] = IF n = h THEN job[p].services[h] ELSE job[p].copy[n]
      BY <2>1, <2>2, <3>2 DEF Ports
    <3>4. Names(default, job[p].copy) => Names(default, saved')
      BY <1>0, <3>2, <3>3 DEF Names
    <3>5. Names(default, job[p].copy) \/ default \in Chosen(job[p].left)
      BY <1>0, <2>2 DEF DefaultOf
    <3>6. saved'[h] # NoPort
      BY <3>2, <3>3
    <3> QED
      BY <2>1, <3>1, <3>4, <3>5, <3>6 DEF DefaultOf, Quiet
  <2>3. CASE job[p].at = "remove"
    <3>1. job'[p].at = "check" /\ job'[p].left = job[p].left
      BY <1>0, <2>1, <2>3 DEF Job
    <3> QED
      BY <1>0, <2>1, <2>3, <3>1 DEF DefaultOf, Quiet
  <2> QED
    BY <2>1, <2>2, <2>3
<1>4. CASE CutDefault(p)
  <2>1. /\ job[p].at \in {"start", "note", "pick"} /\ Rest(p) /\ saved' = saved /\ default' = NoName
        /\ job'[p] = [job[p] EXCEPT !.cut = TRUE]
    BY <1>0, <1>4, CutDefaultFacts
  <2>2. job'[p].at = job[p].at /\ job'[p].left = job[p].left /\ job'[p].first = job[p].first
    BY <1>0, <2>1 DEF Job
  <2> QED
    BY <1>0, <1>n, <2>1, <2>2 DEF DefaultOf
<1>5. CASE FillDefault(p)
  <2>1. /\ job[p].at \in {"start", "note", "pick"} /\ Rest(p) /\ saved' = saved
        /\ default' = IF job[p].at = "start" THEN Head(job[p].batch) ELSE Head(job[p].left)
        /\ job[p].at = "start" => job'[p] = [job[p] EXCEPT !.cut = FALSE, !.at = "connect"]
        /\ job[p].at = "pick" => job'[p] = Idle
        /\ job[p].at = "note" =>
             job'[p] = [job[p] EXCEPT !.cut = FALSE, !.left = Tail(job[p].left),
                                      !.at = IF Tail(job[p].left) = <<>> THEN "live" ELSE "save"]
    BY <1>0, <1>5, FillDefaultFacts
  <2>2. CASE job[p].at = "start"
    <3>1. job'[p].at = "connect" /\ job'[p].batch = job[p].batch /\ job'[p].first = job[p].first
      BY <1>0, <2>1, <2>2 DEF Job
    <3>2. job[p].first
      BY <1>0, <2>2 DEF DefaultOf
    <3> QED
      BY <2>1, <2>2, <3>1, <3>2 DEF DefaultOf, Quiet
  <2>3. CASE job[p].at \in {"pick", "note"}
    <3>1. Names(default', saved')
      BY <1>0, <2>1, <2>3 DEF DefaultOf, Names
    <3>2. job'[p].at \in {"idle", "live", "save"}
      BY <1>0, <1>i, <2>1, <2>3 DEF Job
    <3> QED
      BY <2>1, <3>1, <3>2 DEF DefaultOf
  <2> QED
    BY <2>1, <2>2, <2>3
<1>6. CASE LoginWritesBlock(p) \/ LoginWritesToken(p)
  <2>1. /\ job[p].at \in {"block", "token"} /\ Rest(p) /\ saved' = saved /\ default' = default
        /\ \/ job'[p] = Idle \/ job'[p] = [job[p] EXCEPT !.cut = TRUE]
           \/ job'[p] = [job[p] EXCEPT !.at = "token", !.cut = FALSE]
    BY <1>0, <1>6, LoginWritesFacts
  <2>2. job'[p].at \in {"block", "token", "idle"} /\ Names(default, saved)
    BY <1>0, <1>i, <2>1 DEF Job, DefaultOf
  <2> QED
    BY <2>1, <2>2 DEF DefaultOf
<1>7. CASE LogoutStep(p)
  <2>1. /\ Rest(p)
        /\ \/ /\ job[p].at = "signout" /\ saved' = saved /\ default' = default
              /\ job'[p] = [job[p] EXCEPT !.at = "tunnels"]
           \/ job'[p] = [job[p] EXCEPT !.at = "prefs"]
           \/ /\ default' = NoName /\ job'[p] = [job[p] EXCEPT !.at = "unassign"]
           \/ /\ job[p].at = "unassign" /\ saved' = saved /\ default' = default /\ job'[p] = Idle
    BY <1>0, <1>7, LogoutStepFacts
  <2>2. CASE job[p].at = "signout" \/ job[p].at = "unassign"
    <3>1. Names(default, saved)
      BY <1>0, <2>2 DEF DefaultOf
    <3>2. \/ job'[p].at \in {"tunnels", "idle"} /\ Names(default', saved')
          \/ job'[p].at = "prefs" \/ (job'[p].at = "unassign" /\ Names(default', saved'))
      BY <1>0, <1>i, <1>n, <2>1, <3>1 DEF Job
    <3> QED
      BY <2>1, <3>2 DEF DefaultOf, Quiet
  <2>3. CASE ~ (job[p].at = "signout" \/ job[p].at = "unassign")
    <3>1. job'[p].at = "prefs" \/ (job'[p].at = "unassign" /\ Names(default', saved'))
      BY <1>0, <1>n, <2>1, <2>3 DEF Job
    <3> QED
      BY <2>1, <3>1 DEF DefaultOf, Quiet
  <2> QED
    BY <2>2, <2>3
<1> QED
  BY <1>2, <1>3, <1>4, <1>5, <1>6, <1>7 DEF FileStep

\* and the other commands.
LEMMA DefaultCommand ==
  ASSUME BaseInv, DefaultState(saved, default, job), NEW p \in Proc, CommandStep(p),
         "raced" \notin mishaps, "raced" \notin mishaps'
  PROVE  DefaultState(saved', default', job')
<1>0. TypeOK /\ job[p] \in Job /\ DefaultOf(job[p], saved, default) /\ default \in Name \cup {NoName}
      /\ saved \in Ports
  BY JobFields DEF BaseInv, DefaultState, TypeOK
<1>i. Idle.at = "idle" /\ Quiet(Idle) /\ \A sv, d : DefaultOf(Idle, sv, d)
  BY IdleFacts, QuietDefault DEF Quiet
<1> USE DEF Typed, files
\* A command that begins finds every process quiet.
<1>e. ASSUME job[p].at = "idle", \A q \in Proc \ {p} : ~ Busy(q)
      PROVE  (\A q \in Proc : q # p => Quiet(job[q])) /\ Names(default, saved)
  <2>1. \A q \in Proc : Quiet(job[q])
    BY <1>e DEF Quiet, Busy
  <2> QED
    BY <2>1 DEF DefaultState
<1>1. ASSUME NEW n \in Name, DeleteBegins(p, n) PROVE DefaultState(saved', default', job')
  <2>1. /\ job[p].at = "idle" /\ Rest(p) /\ saved' = saved /\ default' = default
        /\ job'[p].at = "remove" /\ job'[p].left = <<n>> /\ job'[p].copy = [saved EXCEPT ![n] = NoPort]
        /\ \A q \in Proc \ {p} : ~ Busy(q)
    BY <1>0, <1>1, DeleteBeginsFacts
  <2>2. default = NoName \/ default = n \/ job'[p].copy[default] = saved[default]
    BY <1>0, <2>1 DEF Ports
  <2>3. Names(default, job'[p].copy) \/ default = Head(job'[p].left)
    BY <1>e, <2>1, <2>2 DEF Names
  <2>4. DefaultOf(job'[p], saved', default') /\ ~ Quiet(job'[p])
    BY <2>1, <2>3 DEF DefaultOf, Quiet
  <2> QED
    BY <1>e, <2>1, <2>4, DefaultOne
<1>2. ASSUME NEW n \in Name, SetDefaultBegins(p, n) PROVE DefaultState(saved', default', job')
  <2>1. /\ job[p].at = "idle" /\ Rest(p) /\ saved' = saved /\ default' = default
        /\ job'[p].at = "pick" /\ job'[p].left = <<n>> /\ saved[n] # NoPort /\ Overlaps(p)
    BY <1>0, <1>2, SetDefaultBeginsFacts
  <2>2. \A q \in Proc \ {p} : ~ Busy(q)
    BY <2>1, OverlapFacts
  <2>3. DefaultOf(job'[p], saved', default') /\ ~ Quiet(job'[p])
    BY <1>e, <2>1, <2>2 DEF DefaultOf, Quiet
  <2> QED
    BY <1>e, <2>1, <2>2, <2>3, DefaultOne
<1>3. CASE DeleteChecks(p)
  <2>1. /\ job[p].at = "check" /\ Rest(p) /\ saved' = saved /\ default' = default
        /\ job'[p] = IF default = Head(job[p].left) THEN [job[p] EXCEPT !.at = "clear"] ELSE Idle
    BY <1>0, <1>3, DeleteChecksFacts
  <2>2. \/ job'[p].at = "clear" \/ (job'[p] = Idle /\ Names(default, saved))
    BY <1>0, <2>1 DEF Job, DefaultOf
  <2>3. DefaultOf(job'[p], saved', default') /\ (Quiet(job'[p]) => Names(default', saved'))
    BY <1>i, <2>1, <2>2 DEF DefaultOf, Quiet
  <2>4. \A q \in Proc : q # p => Quiet(job[q])
    BY <2>1, OthersQuiet DEF Busy
  <2> QED
    BY <2>1, <2>3, <2>4, DefaultOne
<1>4. CASE DeleteClears(p)
  <2>1. job[p].at = "clear" /\ Rest(p) /\ default' = NoName /\ job'[p] = Idle
    BY <1>0, <1>4, DeleteClearsFacts
  <2>2. \A q \in Proc : q # p => Quiet(job[q])
    BY <2>1, OthersQuiet DEF Busy
  <2> QED
    BY <1>i, <2>1, <2>2, DefaultOne DEF Names
<1>5. ASSUME NEW block \in Block \cup {NoBlock}, LoginBegins(p, block)
      PROVE  DefaultState(saved', default', job')
  <2>1. /\ job[p].at = "idle" /\ Rest(p) /\ saved' = saved /\ default' = default
        /\ job'[p].at \in {"block", "token"} /\ \A q \in Proc \ {p} : ~ Busy(q)
    BY <1>0, <1>5, LoginBeginsFacts
  <2>2. DefaultOf(job'[p], saved', default') /\ ~ Quiet(job'[p])
    BY <1>e, <2>1 DEF DefaultOf, Quiet
  <2> QED
    BY <1>e, <2>1, <2>2, DefaultOne
<1>6. CASE LogoutBegins(p)
  <2>1. /\ job[p].at = "idle" /\ Rest(p) /\ saved' = saved /\ default' = default
        /\ job'[p].at = "signout" /\ \A q \in Proc \ {p} : ~ Busy(q)
    BY <1>0, <1>6, LogoutBeginsFacts
  <2>2. DefaultOf(job'[p], saved', default') /\ ~ Quiet(job'[p])
    BY <1>e, <2>1 DEF DefaultOf, Quiet
  <2> QED
    BY <1>e, <2>1, <2>2, DefaultOne
<1> QED
  BY <1>1, <1>2, <1>3, <1>4, <1>5, <1>6 DEF CommandStep

\* So every step of a process does.
LEMMA DefaultStep ==
  ASSUME BaseInv, DefaultInv, NEW p \in Proc, ProcStep(p)
  PROVE  DefaultInv'
<1> SUFFICES ASSUME Calm({"raced", "crashed", "failed"})' PROVE DefaultState(saved', default', job')
  BY DEF DefaultInv, DefaultState
<1>0. TypeOK /\ mishaps \subseteq mishaps'
  BY MishapFacts DEF BaseInv
<1>1. /\ mishaps' \cap {"raced", "crashed", "failed"} = {} /\ "crashed" \notin mishaps'
      /\ "raced" \notin mishaps /\ "raced" \notin mishaps' /\ DefaultState(saved, default, job)
  BY <1>0 DEF Calm, DefaultInv
<1>2. CASE Crash(p)
  BY <1>0, <1>1, <1>2, CrashFacts
<1> QED
  BY <1>1, <1>2, DefaultExpose, DefaultFile, DefaultCommand DEF ProcStep

\* Between commands the default names a saved tunnel, for any number of processes
\* and names, as long as commands do not overlap nor die and a start connects.
THEOREM DefaultStaysSaved == Spec => []DefaultIsSaved
<1>1. Init => DefaultInv
  BY IdleFacts, QuietDefault DEF Init, DefaultInv, DefaultState, Names, Quiet
<1>2. BaseInv /\ DefaultInv /\ [Next]_vars => DefaultInv'
  <2>1. CASE UNCHANGED vars
    BY <2>1 DEF vars, files, DefaultInv, DefaultState, Calm
  <2> QED
    BY <2>1, DefaultStep DEF Next, ProcStep
<1>3. BaseInv /\ DefaultInv => DefaultIsSaved
  <2> SUFFICES ASSUME BaseInv, DefaultInv, Calm({"raced", "crashed", "failed"}), \A p \in Proc : ~ Busy(p)
               PROVE  Names(default, saved)
    BY DEF DefaultIsSaved, Names
  <2>1. \A p \in Proc : Quiet(job[p])
    BY JobFields DEF Busy, Quiet
  <2> QED
    BY <2>1 DEF DefaultInv, DefaultState
<1> QED
  BY <1>1, <1>2, <1>3, BaseInvariance, PTL DEF Spec
===============================================================================
