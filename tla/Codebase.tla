------------------------------ MODULE Codebase ------------------------------
(***************************************************************************)
(* The MCP server's project cache (symbolic_codebase): one gen_server that *)
(* answers clients from parsed snapshots, the worker that refreshes the    *)
(* configured project after start-up, and what both tell the status        *)
(* tracker (OperationStatus).                                              *)
(*                                                                         *)
(* A snapshot is the version of the source tree it was scanned from; 0 is  *)
(* no snapshot.  The cache handles one message at a time, but a parse, a   *)
(* publication and a proof are several steps, between which the worker,    *)
(* the clients, the tracker and the source tree go on.  The program may    *)
(* end at any moment and start again from the database (FactStore).        *)
(***************************************************************************)
EXTENDS OperationStatus, FiniteSets

CONSTANTS
  Client,    \* callers of the cache: tool workers of symbolic_stdio
  Project,   \* cache keys
  Home,      \* the project configured for the server's directory
  NoProject, \* "undefined": the current project, or none
  Cache,     \* the cache process
  Worker,    \* the start-up refresh process
  MaxEdits,  \* bound: changes of the source trees
  MaxCalls,  \* bound: client calls in one run of the program
  MaxStarts  \* bound: runs of the program

ASSUME CodebaseAssumption ==
  /\ Home \in Project /\ NoProject \notin Project
  /\ Process = {Cache, Worker} /\ Cache # Worker /\ Tracked \in BOOLEAN /\ Nobody \notin Process
  /\ MaxEdits \in Nat /\ MaxCalls \in Nat /\ MaxStarts \in Nat \ {0}

None == 0
Version == 1 .. MaxEdits + 1
MaxOps == MaxCalls + 1
Token == 1 .. MaxOps

VARIABLES
  tree,     \* the version of each project's sources
  disk,     \* the snapshot in Home's database
  caches,   \* the snapshot cached for each project
  current,  \* the project published last
  refresh,  \* is there a refresh job in the cache's state?
  inbox,    \* the cache's mailbox
  job,      \* the message the cache is handling and how far it is
  worker,   \* the refresh worker: its step and its scan
  killed,   \* an exit signal is under way to the worker
  calls,    \* calls made in this run of the program
  waiting,  \* the call each client waits for, or None
  ops,      \* operations begun in this run
  outcome,  \* how each operation really ended
  parsed,   \* the project an explicit parse published last
  starts    \* runs of the program so far

store == <<tree, disk>>
cache == <<caches, current, refresh>>
refresher == <<worker, killed>>
clients == <<calls, waiting>>
history == <<ops, outcome, parsed>>
vars == <<statusVars, store, cache, inbox, job, refresher, clients, history, starts>>

Request == {"parse", "query", "read"}
Call == [op : Request, project : Project \union {NoProject}, client : Client, call : 1 .. MaxCalls]

NotWorking == [step |-> "receive", op |-> "none", project |-> NoProject,
               client |-> Nobody, call |-> None, token |-> NoToken, scan |-> None]
NoWorker == [step |-> "none", scan |-> None, token |-> NoToken, result |-> "none"]
Message(op) == [op |-> op, project |-> NoProject, client |-> Nobody, call |-> None]

------------------------------------------------------------------------------
(* Start of the program: init/1, resume_configured_project, resume_snapshot *)

Served(loaded) == [p \in Project |-> IF p = Home THEN loaded ELSE None]
FirstMail(configured) == IF configured THEN <<Message("start_refresh")>> ELSE <<>>

\* If the settings can be read, the saved snapshot is loaded unless that
\* fails, and the message that starts the refresh is the first in the mailbox.
Boot(loaded, configured) ==
  /\ loaded # None => configured
  /\ caches' = Served(loaded) /\ current' = IF loaded = None THEN NoProject ELSE Home
  /\ inbox' = FirstMail(configured) /\ refresh' = FALSE /\ job' = NotWorking
  /\ worker' = NoWorker /\ killed' = FALSE
  /\ calls' = 0 /\ waiting' = [c \in Client |-> None]
  /\ ops' = 0 /\ outcome' = [t \in Token |-> "none"] /\ parsed' = NoProject
  /\ mail' = [p \in Process |-> <<>>] /\ active' = NoOperation /\ last' = NeverRan

\* The same for the first start.
Init ==
  /\ tree = [p \in Project |-> 1] /\ disk \in {None, 1} /\ starts = 1
  /\ \E loaded \in {None, disk}, configured \in BOOLEAN :
       /\ loaded # None => configured
       /\ caches = Served(loaded) /\ current = IF loaded = None THEN NoProject ELSE Home
       /\ inbox = FirstMail(configured)
  /\ refresh = FALSE /\ job = NotWorking
  /\ worker = NoWorker /\ killed = FALSE
  /\ calls = 0 /\ waiting = [c \in Client |-> None]
  /\ ops = 0 /\ outcome = [t \in Token |-> "none"] /\ parsed = NoProject
  /\ StatusInit

\* The program ends (stdin closed, or killed) and is started again.  A write
\* in progress leaves the old database, the new one or none: Snapshot.
Restart ==
  /\ starts < MaxStarts /\ starts' = starts + 1
  /\ disk' \in IF job.step = "persist" /\ job.project = Home
               THEN {disk, job.scan, None} ELSE {disk}
  /\ \E loaded \in {None, disk'}, configured \in BOOLEAN : Boot(loaded, configured)
  /\ UNCHANGED tree

\* Somebody edits a project.
Edit(p) ==
  /\ tree[p] <= MaxEdits
  /\ tree' = [tree EXCEPT ![p] = @ + 1]
  /\ UNCHANGED <<statusVars, disk, cache, inbox, job, refresher, clients, history, starts>>

------------------------------------------------------------------------------
(* Clients: gen_server:call/3 *)

Ask(c, op, p) ==
  /\ (p = NoProject) = (op = "read") \/ op = "query"
  /\ waiting[c] = None /\ calls < MaxCalls
  /\ calls' = calls + 1
  /\ waiting' = [waiting EXCEPT ![c] = calls']
  /\ inbox' = Append(inbox, [op |-> op, project |-> p, client |-> c, call |-> calls'])
  /\ UNCHANGED <<statusVars, store, cache, job, refresher, history, starts>>

\* query, ask, facts and overview wait for seconds, parse for ever; the
\* request of a client that gave up stays in the mailbox.
GiveUp(c) ==
  /\ waiting[c] # None
  /\ \/ \E i \in DOMAIN inbox : inbox[i].call = waiting[c] /\ inbox[i].op # "parse"
     \/ job.call = waiting[c] /\ job.op # "parse"
  /\ waiting' = [waiting EXCEPT ![c] = None]
  /\ UNCHANGED <<statusVars, store, cache, inbox, job, refresher, calls, history, starts>>

\* A reply to a call its client no longer waits for is dropped.
Reply(c, call) ==
  waiting' = [d \in Client |-> IF d = c /\ waiting[d] = call THEN None ELSE waiting[d]]

------------------------------------------------------------------------------
(* The cache takes a message *)

Receives(op) == job = NotWorking /\ inbox # <<>> /\ Head(inbox).op = op

\* Mutant of CancelRefresh: the worker is killed but the job is kept.
CancelRefresh_KeepsJob ==
  /\ refresh' = refresh
  /\ killed' = (killed \/ refresh)

\* cancel_refresh/1
CancelRefresh ==
  /\ refresh' = FALSE
  /\ killed' = (killed \/ refresh)

\* cancel_refresh/1 drops the worker's one 'DOWN' with demonitor(flush).
Flushed(q) ==
  IF \E i \in DOMAIN q : q[i].op = "down"
  THEN LET i == CHOOSE i \in DOMAIN q : q[i].op = "down"
       IN  SubSeq(q, 1, i - 1) \o SubSeq(q, i + 1, Len(q))
  ELSE q

\* A parse call supersedes the refresh, whatever its own project is.
\* Without a project it is Home's.
BeginParse ==
  /\ Receives("parse")
  /\ LET m == Head(inbox)
         p == IF m.project = NoProject THEN Home ELSE m.project
     IN  /\ job' = [step |-> "scan", op |-> "parse", project |-> p,
                    client |-> m.client, call |-> m.call, token |-> ops + 1, scan |-> None]
         /\ CancelRefresh
         /\ inbox' = IF refresh THEN Flushed(Tail(inbox)) ELSE Tail(inbox)
         /\ Post(Cache, (IF refresh THEN <<Cancelled(Worker)>> ELSE <<>>)
                        \o <<Started(ops + 1, "parse"), Phase(ops + 1, "extracting")>>)
  /\ ops' = ops + 1
  /\ outcome' = [t \in Token |->
       CASE t = ops + 1 -> "running"
         [] refresh /\ t = worker.token /\ outcome[t] = "running" -> "superseded"
         [] OTHER -> outcome[t]]
  /\ UNCHANGED <<active, last, store, caches, current, worker, clients, parsed, starts>>

\* resolve_cache_entry/2
EntryOf(p) == IF p = NoProject
              THEN IF current = NoProject THEN None ELSE caches[current]
              ELSE caches[p]

BeginQuery ==
  /\ Receives("query")
  /\ LET m == Head(inbox)
     IN  /\ job' = [step |-> "prove", op |-> "query", project |-> m.project,
                    client |-> m.client, call |-> m.call, token |-> ops + 1, scan |-> None]
         /\ inbox' = Tail(inbox)
         /\ Post(Cache, <<Started(ops + 1, "query")>>)
  /\ ops' = ops + 1
  /\ outcome' = [outcome EXCEPT ![ops + 1] = "running"]
  /\ UNCHANGED <<active, last, store, cache, refresher, clients, parsed, starts>>

\* Answers of ask, facts and overview change nothing and are not tracked.
Read ==
  /\ Receives("read")
  /\ Reply(Head(inbox).client, Head(inbox).call)
  /\ inbox' = Tail(inbox)
  /\ UNCHANGED <<statusVars, store, cache, job, refresher, calls, history, starts>>

StartRefresh ==
  /\ Receives("start_refresh")
  /\ inbox' = Tail(inbox)
  /\ refresh' = TRUE
  /\ worker' = [NoWorker EXCEPT !.step = "spawned"]
  /\ UNCHANGED <<statusVars, store, caches, current, job, killed, clients,
                 history, starts>>

\* Mutant of TakeResult: a failed refresh is dropped without telling its worker.
TakeResult_Silent ==
  /\ Receives("refresh_result") /\ refresh
  /\ inbox' = Tail(inbox)
  /\ refresh' = FALSE
  /\ worker.result = "ok" => job' = [NotWorking EXCEPT !.step = "load", !.op = "refresh",
         !.project = Home, !.token = worker.token, !.scan = worker.scan]
  /\ worker.result = "error" => job' = job
  /\ UNCHANGED <<statusVars, store, caches, current, worker, killed, clients, history, starts>>

\* The result of the refresh the cache still has: it is published like a
\* parse, from the loading step on, or it is dropped.  The phases go to the
\* tracker without a token and are never shown.
TakeResult ==
  /\ Receives("refresh_result") /\ refresh
  /\ inbox' = Tail(inbox)
  /\ refresh' = FALSE
  /\ \/ /\ worker.result = "ok"
        /\ job' = [NotWorking EXCEPT !.step = "load", !.op = "refresh", !.project = Home,
                                     !.token = worker.token, !.scan = worker.scan]
        /\ Post(Cache, <<Phase(NoToken, "loading")>>)
        /\ UNCHANGED <<outcome, worker>>
     \/ /\ worker.result = "error"
        /\ outcome' = [outcome EXCEPT ![worker.token] = "failed"]
        /\ worker' = [worker EXCEPT !.result = "told_failed"]
        /\ UNCHANGED <<mail, job>>
  /\ UNCHANGED <<active, last, store, caches, current, killed, clients, ops,
                 parsed, starts>>

\* A result whose sender is not the worker of the cache's job.
DropResult ==
  /\ Receives("refresh_result") /\ ~refresh
  /\ inbox' = Tail(inbox)
  /\ UNCHANGED <<statusVars, store, cache, job, refresher, clients, history, starts>>

\* Mutant of TakeDown: the job of a dead worker is kept.
TakeDown_KeepsJob ==
  /\ Receives("down") /\ refresh
  /\ inbox' = Tail(inbox)
  /\ UNCHANGED <<statusVars, store, cache, job, refresher, clients, history, starts>>

\* The worker died without a result.
TakeDown ==
  /\ Receives("down") /\ refresh
  /\ inbox' = Tail(inbox)
  /\ refresh' = FALSE
  /\ UNCHANGED <<statusVars, store, caches, current, job, refresher, clients,
                 history, starts>>

------------------------------------------------------------------------------
(* The cache goes on with the message it is handling *)

\* Mutants of EndJob: a failure is not reported to the tracker; the outcome
\* reported is always success; a failure is not answered.
EndJob_Quiet(result) ==
  /\ job' = NotWorking
  /\ outcome' = [outcome EXCEPT ![job.token] = result]
  /\ Reply(job.client, job.call)
  /\ IF result = "succeeded" THEN Post(Cache, <<Finished(job.token, result)>>) ELSE mail' = mail
  /\ worker' = IF job.op = "refresh" THEN [worker EXCEPT !.result = "told_ok"] ELSE worker

EndJob_AlwaysOk(result) ==
  /\ job' = NotWorking
  /\ outcome' = [outcome EXCEPT ![job.token] = result]
  /\ Reply(job.client, job.call)
  /\ IF job.op # "refresh" THEN Post(Cache, <<Finished(job.token, "succeeded")>>) ELSE mail' = mail
  /\ worker' = IF job.op = "refresh" THEN [worker EXCEPT !.result = "told_ok"] ELSE worker

EndJob_NoReply(result) ==
  /\ job' = NotWorking
  /\ outcome' = [outcome EXCEPT ![job.token] = result]
  /\ IF result = "succeeded" THEN Reply(job.client, job.call) ELSE waiting' = waiting
  /\ mail' = mail
  /\ worker' = IF job.op = "refresh" THEN [worker EXCEPT !.result = "told_ok"] ELSE worker

\* The result of a parse or a publication: reply to the client and tell the
\* tracker, or tell the worker, which does.
EndJob(result) ==
  /\ job' = NotWorking
  /\ outcome' = [outcome EXCEPT ![job.token] = result]
  /\ IF job.op = "refresh"
     THEN /\ worker' = [worker EXCEPT !.result = IF result = "succeeded" THEN "told_ok"
                                                                         ELSE "told_failed"]
          /\ UNCHANGED <<mail, waiting>>
     ELSE /\ Post(Cache, <<Finished(job.token, result)>>)
          /\ Reply(job.client, job.call)
          /\ UNCHANGED worker

\* Any step of a parse or of a publication may return an error or raise
\* (safely/2): the state of before is kept.
FailJob ==
  /\ job.step \in {"scan", "load", "persist", "publish"}
  /\ EndJob("failed")
  /\ UNCHANGED <<active, last, store, cache, inbox, killed, calls, ops, parsed, starts>>

\* symbolic_parse and symbolic_ts_project, in the cache process.
Scan ==
  /\ job.step = "scan"
  /\ job' = [job EXCEPT !.step = "load", !.scan = tree[job.project]]
  /\ UNCHANGED <<statusVars, store, cache, inbox, refresher, clients, history, starts>>

\* Mutant of Load: the database is not written.
Load_NotSaved ==
  /\ job.step = "load"
  /\ job' = [job EXCEPT !.step = "publish"]
  /\ UNCHANGED <<statusVars, store, cache, inbox, refresher, clients, history, starts>>

Load ==
  /\ job.step = "load"
  /\ job' = [job EXCEPT !.step = IF job.project = Home THEN "persist" ELSE "publish"]
  /\ UNCHANGED <<statusVars, store, cache, inbox, refresher, clients, history, starts>>

\* write_bundle/4 replaced the database.
Persist ==
  /\ job.step = "persist"
  /\ disk' = job.scan
  /\ job' = [job EXCEPT !.step = "publish"]
  /\ UNCHANGED <<statusVars, tree, cache, inbox, refresher, clients, history, starts>>

Publish ==
  /\ job.step = "publish"
  /\ caches' = [caches EXCEPT ![job.project] = job.scan]
  /\ current' = job.project
  /\ parsed' = IF job.op = "parse" THEN job.project ELSE parsed
  /\ EndJob("succeeded")
  /\ UNCHANGED <<active, last, store, refresh, inbox, killed, calls, ops, starts>>

\* A proof succeeds, fails, crashes or is killed after ten seconds; the
\* cached state is copied to it and never replaced.
Prove ==
  /\ job.step = "prove"
  /\ \E result \in IF EntryOf(job.project) = None THEN {"failed"} ELSE {"succeeded", "failed"} :
       EndJob(result)
  /\ UNCHANGED <<active, last, store, cache, inbox, killed, calls, ops, parsed, starts>>

------------------------------------------------------------------------------
(* The refresh worker *)

Alive == worker.step \notin {"none", "dead"}

WorkerStart ==
  /\ worker.step = "spawned"
  /\ worker' = [worker EXCEPT !.step = "scan", !.token = ops + 1]
  /\ ops' = ops + 1
  /\ outcome' = [outcome EXCEPT ![ops + 1] = IF killed THEN "superseded" ELSE "running"]
  /\ Post(Worker, <<Started(ops + 1, "parse"), Phase(ops + 1, "extracting")>>)
  /\ UNCHANGED <<active, last, store, cache, inbox, job, killed, clients, parsed, starts>>

\* A scan that skipped a file, or a failed analysis, is an error here.
WorkerScan ==
  /\ worker.step = "scan"
  /\ \E result \in {"ok", "error"} :
       worker' = [worker EXCEPT !.step = "scanned", !.result = result, !.scan = tree[Home]]
  /\ UNCHANGED <<statusVars, store, cache, inbox, job, killed, clients, history, starts>>

WorkerSend ==
  /\ worker.step = "scanned"
  /\ worker' = [worker EXCEPT !.step = "sent"]
  /\ inbox' = Append(inbox, Message("refresh_result"))
  /\ UNCHANGED <<statusVars, store, cache, job, killed, clients, history, starts>>

\* The message refresh_published.
WorkerFinish ==
  /\ worker.step = "sent" /\ worker.result \in {"told_ok", "told_failed"}
  /\ worker' = [worker EXCEPT !.step = "dead"]
  /\ Post(Worker, <<Finished(worker.token, IF worker.result = "told_ok" THEN "succeeded"
                                                                       ELSE "failed")>>)
  /\ UNCHANGED <<active, last, store, cache, inbox, job, killed, clients, history, starts>>

\* Mutant of WorkerDies: the worker is linked to the cache, not monitored.
WorkerDies_Linked ==
  /\ Alive /\ (killed \/ worker.step \in {"spawned", "scan", "scanned"})
  /\ worker' = [worker EXCEPT !.step = "dead"]
  /\ inbox' = Append(inbox, Message("exit"))
  /\ UNCHANGED <<statusVars, store, cache, job, killed, clients, history, starts>>

\* The worker ends before its result is out: on the exit signal, or on its own.
\* The cache's monitor, if it still has one, puts 'DOWN' in the mailbox.
WorkerDies ==
  /\ Alive /\ (killed \/ worker.step \in {"spawned", "scan", "scanned"})
  /\ worker' = [worker EXCEPT !.step = "dead"]
  /\ inbox' = IF refresh THEN Append(inbox, Message("down")) ELSE inbox
  /\ outcome' = [t \in Token |-> IF t = worker.token /\ outcome[t] = "running"
                                 THEN "crashed" ELSE outcome[t]]
  /\ UNCHANGED <<statusVars, store, cache, job, killed, clients, ops, parsed, starts>>

------------------------------------------------------------------------------

CacheStep ==
  \/ BeginParse \/ BeginQuery \/ Read \/ StartRefresh \/ TakeResult \/ DropResult \/ TakeDown
  \/ FailJob \/ Scan \/ Load \/ Persist \/ Publish \/ Prove

WorkerStep == WorkerStart \/ WorkerScan \/ WorkerSend \/ WorkerFinish

\* Only the worker dies while its monitors watch: the cache outlives its
\* operations or takes the whole program down with it.
TrackerStep ==
  /\ Observe(IF worker.step = "dead" THEN {Worker} ELSE {})
  /\ UNCHANGED <<store, cache, inbox, job, refresher, clients, history, starts>>

Next ==
  \/ CacheStep \/ WorkerStep \/ WorkerDies \/ TrackerStep
  \/ \E c \in Client : GiveUp(c) \/ \E op \in Request, p \in Project \union {NoProject} : Ask(c, op, p)
  \/ \E p \in Project : Edit(p)
  \/ Restart

\* Every process that can run does, exit signals arrive, casts arrive.
Fairness ==
  /\ WF_vars(CacheStep) /\ WF_vars(WorkerStep) /\ WF_vars(TrackerStep)
  /\ WF_vars(killed /\ WorkerDies)

Spec == Init /\ [][Next]_vars /\ Fairness

------------------------------------------------------------------------------
(* Properties *)

\* The values of the variables.
TypeOK ==
  /\ tree \in [Project -> Version] /\ disk \in Version \union {None}
  /\ caches \in [Project -> Version \union {None}]
  /\ current \in Project \union {NoProject} /\ refresh \in BOOLEAN
  /\ \A i \in DOMAIN inbox : inbox[i] \in Call \union
       {Message(op) : op \in {"start_refresh", "refresh_result", "down"}}
  /\ job.project \in Project \union {NoProject} /\ job.scan \in Version \union {None}
  /\ job.step \in {"receive", "scan", "load", "persist", "publish", "prove"}
  /\ worker.step \in {"none", "spawned", "scan", "scanned", "sent", "dead"}
  /\ worker.token \in Token \union {NoToken} /\ killed \in BOOLEAN
  /\ waiting \in [Client -> 0 .. calls] /\ calls \in 0 .. MaxCalls
  /\ ops \in 0 .. MaxOps /\ starts \in 1 .. MaxStarts
  /\ outcome \in [Token -> {"none", "running", "succeeded", "failed", "superseded", "crashed"}]
  /\ parsed \in Project \union {NoProject}

\* What is served for a project, and what is in the database, is never
\* replaced by a scan of older sources: a refresh that began before an
\* explicit parse does not publish after it, and a restart resumes nothing
\* older than was served.  (The database itself may be lost.)
SnapshotsNeverGoBack ==
  [][/\ \A p \in Project : caches'[p] = None \/ caches'[p] >= caches[p]
     /\ disk' = None \/ disk' >= disk]_vars

\* "undefined means whichever directory was most recently parsed
\* successfully": a refresh never moves the default away from it.
CurrentIsLastParsed == parsed # NoProject => current = parsed

\* What is served for the configured project is in its database, or
\* something newer is: a crash never makes answers go back to older sources.
ServedIsSaved == caches[Home] # None => disk >= caches[Home]

\* overview's refreshing "reports whether it is still active": while the
\* cache holds a refresh job its worker runs or has a message in the mailbox.
RefreshingIsLive ==
  refresh => Alive \/ \E i \in DOMAIN inbox : inbox[i].op = "down"

Told == worker.step = "sent" /\ worker.result \in {"told_ok", "told_failed"}

\* Every cast and signal has been sent and has arrived.
Settled ==
  /\ \A p \in Process : mail[p] = <<>>
  /\ ~Told /\ ~(killed /\ Alive) /\ ~(active.owner = Worker /\ worker.step = "dead")

\* The tracker never goes on showing an operation that has ended, whichever
\* way it did: success, error, crash, kill.
NoGhostOperation == (Settled /\ ~Idle) => outcome[active.token] = "running"

\* The outcome shown of the last operation is the one it had.  (A cancelled
\* refresh may be shown as crashed, see the README, and the other way round.)
LastOutcomeIsTrue ==
  last # NeverRan =>
    \/ last.outcome = outcome[last.operation.token]
    \/ {last.outcome, outcome[last.operation.token]} = {"superseded", "crashed"}

\* Every call is answered, unless its client gave up: nothing a client, the
\* worker or the tracker does can block the cache for ever.
\* (A client has one call at a time.)
EveryCallIsAnswered == \A c \in Client : []<>(waiting[c] = None)

\* The refresh worker ends: it does not wait for ever for refresh_published.
RefreshEnds == []<>~Alive

\* An operation shown as active is completed in the end, whatever becomes of
\* its owner and of the casts that are dropped.
StatusSettles == []<>Idle

\* "The cache process names that worker so the tracker can retire it before
\* starting the explicit operation": the parse that superseded a refresh is
\* shown while it is under way.
ExplicitParseIsShown ==
  (Settled /\ job.op = "parse" /\ worker.token # NoToken
   /\ worker.step = "dead" /\ outcome[worker.token] = "superseded")
    => active.token = job.token

==============================================================================
