------------------------------- MODULE TsProject -------------------------------
(***************************************************************************)
(* Type analysis of the projects of a scan (symbolic_ts_project), with the *)
(* native compiler behind a port (symbolic_tsgo) or a Node worker, and the *)
(* observation of the inputs around it (symbolic_ts_inputs).               *)
(*                                                                         *)
(* Everything runs in one process, that of the scan, one port at a time.   *)
(* The compiler is external: it answers a request with one message, fails, *)
(* or says nothing.  A message comes in any pieces; what has arrived of it *)
(* is one of the places in Cut.  A port that is closed sends nothing more, *)
(* but what it sent before stays in the process's mailbox.                 *)
(***************************************************************************)
EXTENDS TypeGraph

CONSTANTS
  Setup,    \* what a run may find: see SetupType
  Tree,     \* states of the files under the root
  NamesOf,  \* the files a compiler finds in a state, which is all a probe sees
  NoTree

Status == {"ok", "partial", "unavailable", "failed"}

\* `config`: the file is there; `native`: resolve/1 finds a compiler; `node`:
\* there is a Node; `report`: what its worker says; `files`: how many of the
\* scanned files are the project's; `utf8`: all of them are UTF-8.
Project == [config : BOOLEAN, native : BOOLEAN, node : BOOLEAN, report : Status,
            files : Nat, utf8 : BOOLEAN, graph : Graph]

\* `capture`: the scan is complete and a candidate is asked for.  From `tree` on,
\* `edits`, `faults` and `cuts` bound what may happen.
SetupType == [enabled : BOOLEAN, capture : BOOLEAN, projects : Seq(Project),
              tree : Tree, edits : Nat, faults : Nat, cuts : Nat]

ASSUME TsAssumption ==
  /\ NoTree \notin Tree /\ DOMAIN NamesOf = Tree
  /\ \A s \in Setup :
       /\ DOMAIN s = {"enabled", "capture", "projects", "tree", "edits", "faults", "cuts"}
       /\ s.enabled \in BOOLEAN /\ s.capture \in BOOLEAN
       /\ s.projects \in Seq(Project) /\ s.tree \in Tree
       /\ {s.edits, s.faults, s.cuts} \subseteq Nat
       /\ \A k \in DOMAIN s.projects :  \* locations are in files
            s.projects[k].files = 0 => s.projects[k].graph.locations = << >>

VARIABLES
  setup,
  tree,      \* the files
  edits, faults, cuts,  \* what has happened so far
  phase,     \* where analyze_safe/3 is
  at,        \* the project it is at
  port,      \* the open port, or NoPort
  opened,    \* ports opened so far: the last one's number
  session,   \* what the process knows of it
  peer,      \* the program behind it
  mail,      \* the process's mailbox
  views,     \* what each project's compiler and read_sources/1 saw
  results,   \* the status of each project
  evidence,  \* how each project came to it
  before, now,  \* the observations: `digest` and `names`
  candidate, \* the digest of the candidate, or NoTree
  summary    \* the aggregate status

vars == <<setup, tree, edits, faults, cuts, phase, at, port, opened, session, peer, mail,
          views, results, evidence, before, now, candidate, summary, graphVars>>
world   == <<setup, tree, edits>>
record  == <<views, results, evidence, before, now, candidate, summary>>
control == <<phase, at>>

NoPort == 0
Phases == {"begin", "before", "projects", "after", "over"}
Probing   == phase \in {"before", "after"} /\ at <= Len(setup.projects)
Analysing == phase = "projects" /\ at <= Len(setup.projects)
Current   == setup.projects[at]
Kind      == IF Probing THEN "probe" ELSE IF Current.native THEN "native" ELSE "node"

NoView  == [compiler |-> NoTree, sources |-> NoTree]
Nothing == [digest |-> NoTree, names |-> << >>]

\* How far an answer has arrived: nothing, or up to somewhere in its array
\* header, type, name and payload, each of the last two with a marker, a length
\* and its bytes.
Cut == 0 .. 8
Unread == 0
InLength == {3, 6}  \* behind a marker, before its length is complete
All == 8

\* Why a session ended: a status it has reported, or an error of
\* worker_error_code/1.
Errors == {"timeout", "output_limit", "worker_start", "worker_crash"}
NotYet == "running"

\* `step` counts the answers taken, `odd` is for the first of a pair of answers
\* when it has the wrong shape, `bent` for what was taken although parts of it
\* are malformed: what the result is made of, or types.  `from` are the ports
\* whose data was taken.
NoSession == [step |-> 0, asked |-> FALSE, got |-> Unread, odd |-> FALSE, bent |-> {}, files |-> 0,
              late |-> FALSE, end |-> NotYet, from |-> {}, sources |-> NoTree]

\* `told`: it owes an answer; `foul`: it has misbehaved.
NoPeer == [running |-> FALSE, told |-> FALSE, sent |-> Unread, foul |-> FALSE,
           compiler |-> NoTree]

Init ==
  /\ setup \in Setup /\ tree = setup.tree
  /\ edits = 0 /\ faults = 0 /\ cuts = 0
  /\ phase = "begin" /\ at = 1
  /\ port = NoPort /\ opened = 0 /\ session = NoSession /\ peer = NoPeer /\ mail = << >>
  /\ views = << >> /\ results = << >> /\ evidence = << >>
  /\ before = Nothing /\ now = Nothing /\ candidate = NoTree /\ summary = "none"
  /\ work = << >> /\ nodes = {} /\ edges = {} /\ truncated = FALSE

------------------------------------------------------------------------------
(* The world *)

Edit ==
  /\ phase # "over" /\ edits < setup.edits
  /\ tree' \in Tree \ {tree} /\ edits' = edits + 1
  /\ UNCHANGED <<setup, faults, cuts, control, port, opened, session, peer, mail, record, graphVars>>

Faulty == faults < setup.faults /\ faults' = faults + 1
Fine   == UNCHANGED faults

------------------------------------------------------------------------------
(* Requests: analyze_port/4, probe_port/4 *)

Opening == <<"initialize", "parseConfigFile", "updateSnapshot", "getSourceFileNames">>
Last == Len(Opening)
Diagnosed == Last + 2 * session.files       \* syntactic and semantic, for every file
Located   == Diagnosed + 2 * session.files  \* types and symbols, for every file

Request == LET step == session.step + 1 IN
  IF step <= Last THEN Opening[step]
  ELSE IF step <= Located THEN IF (step - Last) % 2 = 1 THEN "firstOfPair" ELSE "secondOfPair"
  ELSE IF step = Located + 1 THEN "typeToString" ELSE "childrenOfType"

Waiting == port # NoPort /\ session.end = NotYet

\* The graph is being built, and the next entry of its work list is due.
AtEntry == Waiting /\ Kind = "native" /\ session.step = Located /\ ~session.asked

EndWith(end) == session' = [session EXCEPT !.asked = FALSE, !.end = end]

\* rpc/5.  The program behind the port may have ended.
Ask ==
  /\ Waiting /\ ~session.asked
  /\ AtEntry => \E pos \in Due : ~Skips(Current.graph, pos)
  /\ IF peer.running
     THEN /\ session' = [session EXCEPT !.asked = TRUE, !.got = Unread]
          /\ peer' = [peer EXCEPT !.told = TRUE, !.sent = Unread]
     ELSE EndWith("worker_start") /\ UNCHANGED peer
  /\ UNCHANGED <<world, faults, cuts, control, port, opened, mail, record, graphVars>>

SkipEntry ==
  /\ AtEntry /\ \E pos \in Due : Skip(Current.graph, pos)
  /\ UNCHANGED <<world, faults, cuts, control, port, opened, session, peer, mail, record>>

\* make_result/9 may raise: of a malformed snapshot or diagnostic, and when it
\* turns the place of a diagnostic into bytes of a source that is not UTF-8.
Raises == "result" \in session.bent \/ (~Current.utf8 /\ session.files > 0)

EndGraph ==
  /\ AtEntry /\ work = << >>
  /\ \/ EndWith(IF truncated THEN "partial" ELSE "ok")
     \/ Raises /\ EndWith("worker_crash")
  /\ UNCHANGED <<world, faults, cuts, control, port, opened, peer, mail, record, graphVars>>

------------------------------------------------------------------------------
(* The program behind the port: external *)

Send(kind, to) == mail' = Append(mail, [port |-> port, kind |-> kind, to |-> to])
Alive == port # NoPort /\ peer.running
PeerFrame == UNCHANGED <<world, control, port, opened, record, graphVars>>

\* The compiler reads its project when it is asked for a snapshot.
Reads == IF Kind # "node" /\ Request = "updateSnapshot" /\ peer.sent = Unread
         THEN tree ELSE peer.compiler

\* More of the answer, up to some byte or to its end.
Answer ==
  /\ Alive /\ peer.told
  /\ \E to \in Cut :
       /\ to > peer.sent
       /\ IF to = All THEN UNCHANGED cuts ELSE cuts < setup.cuts /\ cuts' = cuts + 1
       /\ Send("data", to)
       /\ peer' = [peer EXCEPT !.told = (to # All), !.sent = IF to = All THEN Unread ELSE to,
                               !.compiler = Reads]
  /\ Fine /\ UNCHANGED session /\ PeerFrame

\* An answer to another question, an error, a callback, or what is no JSON; one
\* of another shape than the request calls for; or more than ?MAX_MESSAGE_BYTES.
Misanswer ==
  /\ Alive /\ peer.told /\ peer.sent = Unread
  /\ \E kind \in {"refusal", "odd", "flood"} : Send(kind, All)
  /\ peer' = [peer EXCEPT !.told = FALSE, !.foul = TRUE, !.compiler = Reads]
  /\ Faulty /\ UNCHANGED <<cuts, session>> /\ PeerFrame

\* The Node worker ends when it has answered; else it is a failure.
Exit ==
  /\ Alive
  /\ LET done == Kind = "node" /\ ~peer.told IN
       /\ IF done THEN Fine ELSE Faulty
       /\ peer' = [peer EXCEPT !.running = FALSE, !.told = FALSE, !.foul = @ \/ ~done]
  /\ Send("exit", All)
  /\ UNCHANGED <<cuts, session>> /\ PeerFrame

\* The deadline of the session passes.
Expire ==
  /\ Waiting /\ ~session.late
  /\ session' = [session EXCEPT !.late = TRUE]
  /\ UNCHANGED <<faults, cuts, peer, mail>> /\ PeerFrame

------------------------------------------------------------------------------
(* Answers: receive_rpc/5, collect_output/4 *)

\* Mutant of IsOwn: any port's messages are taken.
IsOwn_Any(m) == TRUE

IsOwn(m) == m.port = port

\* The first message of the open port, and the mailbox without it.
IsFirst(k) == k \in DOMAIN mail /\ IsOwn(mail[k]) /\ \A j \in 1 .. (k - 1) : ~IsOwn(mail[j])
Without(k) == SubSeq(mail, 1, k - 1) \o SubSeq(mail, k + 1, Len(mail))

\* A whole answer of port p to the request of this step.
Taken(p) == [session EXCEPT !.asked = FALSE, !.got = Unread, !.step = @ + 1,
                            !.from = @ \union {p}]

\* Of the answers of the opening the compiler's client looks at the shape of all
\* but parseConfigFile's, a probe also not at that of initialize's.  A snapshot
\* and the names of the files may be malformed in a way that does not show.
Refuses   == Request # "parseConfigFile" /\ (Request = "initialize" => Kind = "native")
Tolerates == Request # (IF Kind = "native" THEN "initialize" ELSE "getSourceFileNames")

AcceptOpening(p, odd) ==
  /\ session.step < Last
  /\ LET names == Request = "getSourceFileNames" IN
     \/ odd /\ Refuses /\ EndWith("worker_crash")
     \/ /\ odd => Tolerates
        /\ session' = [Taken(p) EXCEPT
             !.bent = IF odd /\ Request = "updateSnapshot" THEN {"result"} ELSE @,
             !.files = IF names /\ Kind = "native" /\ ~odd THEN Current.files ELSE 0,
             !.end = IF names /\ Kind = "probe" THEN "ok" ELSE NotYet]
  /\ UNCHANGED graphVars

\* What a malformed answer of a pair is about: a symbol is replaced when it is
\* malformed (normalize_symbol/2).
Bends == IF session.step < Diagnosed THEN {"result"}
         ELSE IF Request = "firstOfPair" THEN {"types"} ELSE {}

\* collect_diagnostics/5 and query_locations/6: the shapes of a pair of answers
\* matter when both are there, the shapes of what they list later or never; a
\* type without an id ends the session too, when the graph comes to it.  The
\* sources are read between the two, and with the last types and symbols the
\* graph begins.
AcceptPair(p, odd) ==
  /\ Last <= session.step /\ session.step < Located
  /\ \E wrong \in BOOLEAN :
       LET second == Request = "secondOfPair"
           next == session.step + 1
       IN  /\ wrong => odd
           /\ IF second /\ (wrong \/ session.odd)
              THEN EndWith("worker_crash") /\ UNCHANGED graphVars
              ELSE /\ session' = [Taken(p) EXCEPT
                        !.odd = (wrong /\ ~second),
                        !.bent = IF odd /\ ~wrong THEN @ \union Bends ELSE @,
                        !.sources = IF next = Diagnosed THEN tree ELSE @]
                   /\ IF next # Located THEN UNCHANGED graphVars
                      ELSE \E lost \in SUBSET DOMAIN Current.graph.locations :
                             (lost # {} => "types" \in session.bent) /\ Locate(Current.graph, lost)

\* build_types/10: a type has been named, or its children answered.  A type that
\* came without flags is not asked about.
AcceptType(p, odd) ==
  /\ session.step = Located
  /\ LET g == Current.graph
         named == [Taken(p) EXCEPT !.step = Located]
     IN  \E pos \in Due :
           \/ odd /\ EndWith("worker_crash") /\ UNCHANGED graphVars
           \/ AsksChildren(g, pos) /\ session' = Taken(p) /\ UNCHANGED graphVars
           \/ ~AsksChildren(g, pos) /\ session' = named /\ Visit(g, pos, FALSE, {})
           \/ /\ "types" \in session.bent /\ session' = named
              /\ Visit(g, pos, FALSE, DOMAIN g.kids[TypeAt(g, pos)])

\* type_children_rpc/8: an answer that is no list, one with elements that are no
\* maps or have no flags, one with an element that has no id.
AcceptChildren(p, odd) ==
  /\ session.step = Located + 1
  /\ LET g == Current.graph
         listed == [Taken(p) EXCEPT !.step = Located]
     IN  \E pos \in Due :
           \/ session' = listed /\ Visit(g, pos, odd, {})
           \/ /\ odd /\ session' = [listed EXCEPT !.bent = @ \union {"types"}]
              /\ \E lost \in SUBSET DOMAIN g.kids[TypeAt(g, pos)] : Visit(g, pos, FALSE, lost)
           \/ odd /\ EndWith("worker_crash") /\ UNCHANGED graphVars

Accept(p, odd) ==
  IF session.step < Last THEN AcceptOpening(p, odd)
  ELSE AcceptPair(p, odd) \/ AcceptType(p, odd) \/ AcceptChildren(p, odd)

\* decode_message/1: a buffer that ends between a marker and its length is taken
\* for a bad message, and any other beginning for one that goes on.
Decoded(got) == IF got \in InLength THEN "invalid" ELSE IF got = All THEN "ok" ELSE "more"

Receive ==
  /\ Waiting /\ session.asked /\ Kind # "node"
  /\ \E k \in DOMAIN mail :
       /\ IsFirst(k) /\ mail' = Without(k)
       /\ LET m == mail[k] IN
          CASE m.kind = "flood" -> EndWith("output_limit") /\ UNCHANGED graphVars
            [] m.kind \in {"refusal", "exit"} -> EndWith("worker_crash") /\ UNCHANGED graphVars
            [] m.kind \in {"data", "odd"} ->
                 CASE Decoded(m.to) = "ok" -> Accept(m.port, m.kind = "odd")
                   [] Decoded(m.to) = "more" ->
                        session' = [session EXCEPT !.got = m.to] /\ UNCHANGED graphVars
                   [] Decoded(m.to) = "invalid" ->
                        /\ session' = [session EXCEPT !.asked = FALSE, !.got = m.to,
                                                      !.end = "worker_crash"]
                        /\ UNCHANGED graphVars
  /\ UNCHANGED <<world, faults, cuts, control, port, opened, peer, record>>

\* collect_output/4 and decode_worker_output/1: what a worker has written by the
\* time it ends, whatever it ends with.
ReceiveWorker ==
  /\ Waiting /\ Kind = "node" /\ ~session.late
  /\ \E k \in DOMAIN mail :
       /\ IsFirst(k) /\ mail' = Without(k)
       /\ LET m == mail[k] IN
          CASE m.kind = "flood" -> EndWith("output_limit")
            [] m.kind = "exit" ->
                 EndWith(IF session.got = All /\ ~session.odd THEN Current.report
                         ELSE "worker_crash")
            [] m.kind \in {"data", "odd", "refusal"} ->
                 session' = [session EXCEPT !.got = m.to, !.odd = (m.kind # "data"),
                                            !.from = @ \union {m.port}]
  /\ UNCHANGED <<world, faults, cuts, control, port, opened, peer, record, graphVars>>

\* Mutant of Timeout: the deadline is looked at when a message comes.
Timeout_OnMessage ==
  /\ Waiting /\ session.asked /\ session.late
  /\ \E k \in DOMAIN mail : IsOwn(mail[k])
  /\ EndWith("timeout")
  /\ UNCHANGED <<world, faults, cuts, control, port, opened, peer, mail, record, graphVars>>

\* The compiler's client looks into its mailbox once more, the worker's does not.
Timeout ==
  /\ Waiting /\ session.asked /\ session.late
  /\ Kind = "node" \/ \A k \in DOMAIN mail : ~IsOwn(mail[k])
  /\ EndWith("timeout")
  /\ UNCHANGED <<world, faults, cuts, control, port, opened, peer, mail, record, graphVars>>
------------------------------------------------------------------------------
(* Sessions: symbolic_tsgo:analyze/3 and probe/2, invoke_worker/2 *)

CanStart == port = NoPort /\ (Probing \/ (Analysing /\ Current.config))
HasProgram == Current.native \/ (Current.node /\ ~Probing)

Open ==
  /\ CanStart /\ HasProgram
  /\ opened' = opened + 1 /\ port' = opened'
  /\ peer' = [NoPeer EXCEPT !.running = TRUE, !.told = (Kind = "node")]
  /\ session' = [NoSession EXCEPT !.asked = (Kind = "node")]
  /\ UNCHANGED <<world, faults, cuts, control, mail, record, graphVars>>

\* worker_status/1.
StatusOf(end) == CASE end \in Status -> end
                   [] end = "timeout" -> "unavailable"
                   [] end = "output_limit" -> "partial"
                   [] end \in {"worker_start", "worker_crash"} -> "failed"

\* What is known of a result: that all data was its own program's, that the
\* program named the project's files, that no list of types had a malformed
\* element, and that the graph is whole.
Evidence == [own |-> session.from \subseteq {port}, kind |-> Kind,
             named |-> session.files = Current.files,
             typed |-> "types" \notin session.bent,
             whole |-> IsWhole(Current.graph)]

Result(status, proof, view) ==
  /\ results' = Append(results, status)
  /\ evidence' = Append(evidence, proof)
  /\ views' = Append(views, view)
  /\ at' = at + 1
  /\ UNCHANGED <<phase, before, now, candidate, summary>>

NoEvidence == [own |-> FALSE, kind |-> "none", named |-> FALSE, typed |-> FALSE, whole |-> FALSE]

\* candidate_projects/3: one probe that fails, or an input that is gone or not
\* under the root when it is hashed, leaves no observation.
Observed ==
  /\ now' = [now EXCEPT !.names = Append(@, NamesOf[peer.compiler])] /\ at' = at + 1
  /\ UNCHANGED <<phase, views, results, evidence, before, candidate, summary>>

Unobserved ==
  /\ phase' = (IF phase = "before" THEN "projects" ELSE "over")
  /\ at' = 1 /\ now' = Nothing
  /\ UNCHANGED <<views, results, evidence, before, candidate, summary>>

\* The port is closed, whatever happened: its messages stay.
Close ==
  /\ port # NoPort /\ session.end # NotYet
  /\ port' = NoPort /\ peer' = NoPeer /\ session' = NoSession /\ Clear
  /\ IF Probing
     THEN IF session.end = "ok" /\ Current.config
          THEN (Observed /\ Fine) \/ (Unobserved /\ Faulty)
          ELSE Unobserved /\ Fine
     ELSE /\ Result(StatusOf(session.end), Evidence,
                    [compiler |-> peer.compiler, sources |-> session.sources])
          /\ Fine
  /\ UNCHANGED <<world, cuts, opened, mail>>

\* A probe without a compiler, or whose program does not start.
NoProbe ==
  /\ port = NoPort /\ Probing
  /\ IF Current.native THEN Faulty ELSE Fine
  /\ Unobserved
  /\ UNCHANGED <<world, cuts, port, opened, session, peer, mail, graphVars>>

\* analyze_project/3, run_project_analyzer/4: no configuration, nothing to run,
\* a program that does not start, a request file that cannot be written.
NoAnalysis ==
  /\ port = NoPort /\ Analysing
  /\ \/ ~Current.config /\ Fine /\ Result("failed", NoEvidence, NoView)
     \/ Current.config /\ ~HasProgram /\ Fine /\ Result("unavailable", NoEvidence, NoView)
     \/ Current.config /\ HasProgram /\ Faulty /\ Result("failed", NoEvidence, NoView)
  /\ UNCHANGED <<world, cuts, port, opened, session, peer, mail, graphVars>>

------------------------------------------------------------------------------
(* The analysis of a scan: analyze_safe/3 *)

SessionFrame == UNCHANGED <<port, opened, session, peer, mail, graphVars>>

\* workspace/1: the digest of the files as they are.
Walk == now' = [digest |-> tree, names |-> << >>]

Begin ==
  /\ phase = "begin"
  /\ IF ~setup.enabled
     THEN /\ phase' = "over" /\ summary' = "disabled" /\ Fine /\ UNCHANGED now
     ELSE /\ UNCHANGED summary
          /\ \/ /\ setup.capture /\ setup.projects # << >>
                /\ phase' = "before" /\ Walk /\ Fine
             \/ /\ phase' = "projects" /\ UNCHANGED now
                /\ IF setup.capture /\ setup.projects # << >> THEN Faulty ELSE Fine
  /\ UNCHANGED <<world, cuts, at, views, results, evidence, before, candidate>> /\ SessionFrame

\* begin_observation/2 has probed every project.
EndBefore ==
  /\ phase = "before" /\ at > Len(setup.projects)
  /\ phase' = "projects" /\ at' = 1 /\ before' = now /\ now' = Nothing
  /\ UNCHANGED <<world, faults, cuts, views, results, evidence, candidate, summary>> /\ SessionFrame

\* aggregate_status/1.
Aggregate(statuses) ==
  IF statuses \in {{"ok"}, {"unavailable"}, {"failed"}}
  THEN CHOOSE status \in Status : statuses = {status} ELSE "partial"

ResultSet == {results[k] : k \in DOMAIN results}

\* analyze_projects/3 is done; finish_observation/4 and candidate/3 go on only
\* when every project has something to show.
EndProjects ==
  /\ phase = "projects" /\ at > Len(setup.projects)
  /\ summary' = IF setup.projects = << >> THEN "no_project" ELSE Aggregate(ResultSet)
  /\ LET goesOn == before # Nothing /\ ResultSet \subseteq {"ok", "partial"} IN
       \/ goesOn /\ phase' = "after" /\ at' = 1 /\ Walk /\ Fine
       \/ /\ phase' = "over" /\ UNCHANGED <<at, now>>
          /\ IF goesOn THEN Faulty ELSE Fine
  /\ UNCHANGED <<world, cuts, views, results, evidence, before, candidate>> /\ SessionFrame

\* Mutant of EndAfter: the probes are compared, the workspace is not.
EndAfter_ProbesOnly ==
  /\ phase = "after" /\ at > Len(setup.projects)
  /\ phase' = "over"
  /\ candidate' = (IF now.names = before.names THEN now.digest ELSE NoTree)
  /\ UNCHANGED <<world, faults, cuts, at, views, results, evidence, before, now, summary>>
  /\ SessionFrame

\* finish_observation/4: a candidate only when nothing observed has changed.
EndAfter ==
  /\ phase = "after" /\ at > Len(setup.projects)
  /\ phase' = "over"
  /\ candidate' = (IF now = before THEN now.digest ELSE NoTree)
  /\ UNCHANGED <<world, faults, cuts, at, views, results, evidence, before, now, summary>>
  /\ SessionFrame

\* write_request/1 cannot make its directory: analyze/3 catches it and drops
\* every project's result with it.
Crash ==
  /\ port = NoPort /\ Analysing /\ Current.config /\ Kind = "node" /\ Current.node
  /\ Faulty
  /\ phase' = "over" /\ summary' = "failed"
  /\ results' = << >> /\ evidence' = << >> /\ views' = << >>
  /\ UNCHANGED <<world, cuts, at, before, now, candidate>> /\ SessionFrame

------------------------------------------------------------------------------
Analyse ==
  \/ Begin \/ EndBefore \/ EndProjects \/ EndAfter \/ Crash
  \/ Open \/ Ask \/ SkipEntry \/ EndGraph \/ Receive \/ ReceiveWorker \/ Timeout \/ Close
  \/ NoProbe \/ NoAnalysis

Next == Analyse \/ Answer \/ Misanswer \/ Exit \/ Expire \/ Edit

\* The process goes on whenever it can, and time passes.  Of the programs behind
\* the ports nothing is assumed.
Spec == Init /\ [][Next]_vars /\ WF_vars(Analyse) /\ WF_vars(Expire)
------------------------------------------------------------------------------
(* Properties *)

View == [compiler : Tree \union {NoTree}, sources : Tree \union {NoTree}]
Observation == [digest : Tree \union {NoTree}, names : Seq({NamesOf[t] : t \in Tree})]
Kinds == {"data", "odd", "refusal", "flood", "exit"}

WorldType ==
  /\ setup \in Setup /\ tree \in Tree
  /\ edits \in 0 .. setup.edits /\ faults \in 0 .. setup.faults /\ cuts \in 0 .. setup.cuts
  /\ phase \in Phases /\ at \in 1 .. (Len(setup.projects) + 1)

SessionType ==
  /\ opened \in Nat /\ port \in {NoPort, opened}
  /\ session \in [step : Nat, asked : BOOLEAN, got : Cut, odd : BOOLEAN,
                  bent : SUBSET {"result", "types"}, files : Nat, late : BOOLEAN,
                  end : Status \union Errors \union {NotYet}, from : SUBSET (1 .. opened), sources : Tree \union {NoTree}]
  /\ peer \in [running : BOOLEAN, told : BOOLEAN, sent : Cut, foul : BOOLEAN,
               compiler : Tree \union {NoTree}]
  /\ mail \in Seq([port : 1 .. opened, kind : Kinds, to : Cut])

ResultType ==
  /\ views \in Seq(View) /\ results \in Seq(Status)
  /\ evidence \in Seq([own : BOOLEAN, kind : {"none", "native", "node"}, named : BOOLEAN,
                       typed : BOOLEAN, whole : BOOLEAN])
  /\ candidate \in Tree \union {NoTree}
  /\ summary \in Status \union {"none", "disabled", "no_project"}

TypeOK ==
  /\ WorldType /\ SessionType /\ ResultType
  /\ before \in Observation /\ now \in Observation
  /\ GraphType

\* "ok" is said of a project only when all that was taken came from its own
\* program and, with the native compiler, its type graph is whole: each of the
\* four limits leaves "partial" behind, and so do children that are no list.
\* Two malformed answers pass for "ok": names of files that are no list, which
\* intersect_files/2 takes for a project without files, and a list of types with
\* elements that are no maps, which build_type_graph/5 and type_children_rpc/8
\* drop, or that have no flags.  "ok" is said of the analysis only when it is
\* said of every project.
OkIsWhole ==
  /\ \A k \in DOMAIN results : results[k] = "ok" =>
       /\ evidence[k].own
       /\ evidence[k].kind = "native" /\ evidence[k].named /\ evidence[k].typed =>
            evidence[k].whole
  /\ summary = "ok" =>
       Len(results) = Len(setup.projects) /\ \A k \in DOMAIN results : results[k] = "ok"

\* A session whose program answers what it is asked ends in an error only for
\* its deadline; against the protocol, for a piece of a message that ends
\* between a marker and its length (decode_bin/1); or, at its very end, for a
\* source that is not UTF-8 (utf16_to_byte/4): never for what another session
\* has left in the mailbox.
HonestProgramIsHeard ==
  session.end \in Errors =>
    \/ peer.foul \/ session.late \/ session.got \in InLength
    \/ ~Current.utf8 /\ session.step = Located /\ session.end = "worker_crash"

\* A candidate's digest is of the files every compiler and every reading of the
\* sources saw, unless the files changed and changed back in between: two
\* equal observations around the analysis rule out any single change.
CandidateIsOneTree ==
  candidate # NoTree /\ edits < 2 =>
    \A k \in DOMAIN views : {views[k].compiler, views[k].sources} \subseteq {candidate, NoTree}

\* Whatever the programs behind the ports do, the analysis ends: each session
\* has one deadline from its start, which no message puts off.
AnalysisEnds == <>(phase = "over")
=============================================================================
