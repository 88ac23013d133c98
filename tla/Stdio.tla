-------------------------------- MODULE Stdio --------------------------------
(***************************************************************************)
(* The MCP transport (symbolic_stdio): a reader process forwards the lines *)
(* of stdin, the adapter process answers them, and every tools/call runs   *)
(* in a worker of its own that the adapter monitors.                       *)
(*                                                                         *)
(* Lines are numbered; a worker has the number of its line.  The adapter's *)
(* mailbox is not a queue here but what each sender has under way: the     *)
(* lines taken + 1 .. sent in their order, then the end of input, and one  *)
(* result or 'DOWN' per worker.  Different senders' messages arrive in any *)
(* order, so the adapter takes any of these next.                          *)
(***************************************************************************)
EXTENDS Naturals, FiniteSets

CONSTANTS
  Id,          \* ids a client may give its requests
  Tool,        \* tools register_tools/0 adds
  NoTool,      \* a name that is not a tool's
  MaxInFlight, \* ?MAX_IN_FLIGHT
  MaxLines     \* bound: lines of input

ASSUME StdioAssumption ==
  NoTool \notin Tool /\ MaxInFlight \in Nat \ {0} /\ MaxLines \in Nat

Line == 1 .. MaxLines

\* "call" is a tools/call; "simple" is any other line that is answered at
\* once (initialize, tools/list, an error); "notice" is not answered.
Call == [kind : {"call"}, id : Id, tool : Tool \union {NoTool}]
Other == [kind : {"simple", "notice"}, id : {NoTool}, tool : {NoTool}]
Unread == [kind |-> "notice", id |-> NoTool, tool |-> NoTool]

VARIABLES
  tools,    \* tools registered
  reader,   \* the reader process: "off", "reading", "eof" or "failed"
  line,     \* what each line is
  sent,     \* lines the reader has forwarded
  taken,    \* lines the adapter has dispatched
  workers,  \* the adapter's workers map: the lines whose worker it awaits
  ids,      \* the adapter's ids map: which worker an id in flight belongs to
  process,  \* each worker process: "none", "running", "replied", "crashed", "gone"
  stopping, \* end of input seen, draining
  adapter,  \* "up", "normal" (stopped at end of input) or "failed"
  answers,  \* responses written for each line
  refused   \* lines answered "Tool not found"

vars == <<tools, reader, line, sent, taken, workers, ids, process, stopping,
          adapter, answers, refused>>

NoWorker == 0

Init ==
  /\ tools = {} /\ reader = "off" /\ sent = 0 /\ taken = 0
  /\ line = [n \in Line |-> Unread]
  /\ workers = {} /\ ids = [i \in Id |-> NoWorker]
  /\ process = [n \in Line |-> "none"]
  /\ stopping = FALSE /\ adapter = "up"
  /\ answers = [n \in Line |-> 0] /\ refused = {}

------------------------------------------------------------------------------
(* Start: symbolic_serve:run/0 registers the tools, then begins reading *)

AddTool(t) ==
  /\ adapter = "up" /\ t \notin tools
  /\ tools' = tools \union {t}
  /\ UNCHANGED <<reader, line, sent, taken, workers, ids, process, stopping,
                 adapter, answers, refused>>

BeginReading ==
  /\ adapter = "up" /\ reader = "off" /\ tools = Tool
  /\ reader' = "reading"
  /\ UNCHANGED <<tools, line, sent, taken, workers, ids, process, stopping,
                 adapter, answers, refused>>

------------------------------------------------------------------------------
(* The reader: read_lines/1 *)

ReadLine(request) ==
  /\ reader = "reading" /\ sent < MaxLines
  /\ sent' = sent + 1
  /\ line' = [line EXCEPT ![sent + 1] = request]
  /\ UNCHANGED <<tools, reader, taken, workers, ids, process, stopping,
                 adapter, answers, refused>>

\* The client closes its end, or reading fails.
EndInput ==
  /\ reader = "reading"
  /\ reader' \in {"eof", "failed"}
  /\ UNCHANGED <<tools, line, sent, taken, workers, ids, process, stopping,
                 adapter, answers, refused>>

------------------------------------------------------------------------------
(* The adapter: dispatch/2 and start_tool/4 *)

Respond(n) == answers' = [answers EXCEPT ![n] = @ + 1]

\* Mutants of TakesCall: the limit is off by one; an id in flight is not
\* looked up.
TakesCall_OneMore(n) ==
  /\ line[n].kind = "call" /\ ids[line[n].id] = NoWorker
  /\ Cardinality(workers) <= MaxInFlight /\ line[n].tool \in tools

TakesCall_AnyId(n) ==
  line[n].kind = "call" /\ Cardinality(workers) < MaxInFlight /\ line[n].tool \in tools

\* A call gets a worker unless its id is in flight, the limit is reached or
\* its tool is unknown.
TakesCall(n) ==
  /\ line[n].kind = "call"
  /\ ids[line[n].id] = NoWorker
  /\ Cardinality(workers) < MaxInFlight
  /\ line[n].tool \in tools

NextLine == taken + 1

StartTool ==
  /\ adapter = "up" /\ taken < sent
  /\ TakesCall(NextLine)
  /\ taken' = NextLine
  /\ workers' = workers \union {NextLine}
  /\ ids' = [ids EXCEPT ![line[NextLine].id] = NextLine]
  /\ process' = [process EXCEPT ![NextLine] = "running"]
  /\ UNCHANGED <<tools, reader, line, sent, stopping, adapter, answers, refused>>

RespondAtOnce ==
  /\ adapter = "up" /\ taken < sent
  /\ ~TakesCall(NextLine)
  /\ taken' = NextLine
  /\ IF line[NextLine].kind = "notice" THEN UNCHANGED answers ELSE Respond(NextLine)
  /\ refused' = IF /\ line[NextLine].kind = "call"
                   /\ ids[line[NextLine].id] = NoWorker
                   /\ Cardinality(workers) < MaxInFlight
                THEN refused \union {NextLine} ELSE refused
  /\ UNCHANGED <<tools, reader, line, sent, workers, ids, process, stopping, adapter>>

------------------------------------------------------------------------------
(* Workers *)

\* The handler returned, or raised and was caught: one tool_result is sent.
WorkerReplies(n) ==
  /\ process[n] = "running"
  /\ process' = [process EXCEPT ![n] = "replied"]
  /\ UNCHANGED <<tools, reader, line, sent, taken, workers, ids, stopping,
                 adapter, answers, refused>>

\* The process is killed: only its 'DOWN' arrives.
WorkerCrashes(n) ==
  /\ process[n] = "running"
  /\ process' = [process EXCEPT ![n] = "crashed"]
  /\ UNCHANGED <<tools, reader, line, sent, taken, workers, ids, stopping,
                 adapter, answers, refused>>

\* Mutant of Settle: the end of input is forgotten.
Settle_NoStop(n) ==
  /\ workers' = workers \ {n}
  /\ ids' = [ids EXCEPT ![line[n].id] = NoWorker]
  /\ UNCHANGED adapter

\* settle/3: the worker is forgotten; the last one ends a draining adapter.
Settle(n) ==
  /\ workers' = workers \ {n}
  /\ ids' = [ids EXCEPT ![line[n].id] = NoWorker]
  /\ adapter' = IF stopping /\ workers = {n} THEN "normal" ELSE adapter

\* Mutant of TakeResult: the monitor is kept, so that 'DOWN' follows.
TakeResult_KeepsMonitor(n) ==
  /\ adapter = "up" /\ process[n] = "replied" /\ n \in workers
  /\ process' = [process EXCEPT ![n] = "crashed"]
  /\ Respond(n)
  /\ UNCHANGED <<tools, reader, line, sent, taken, stopping, refused, workers, ids, adapter>>

\* tool_result of a worker still awaited; demonitor(flush) drops its 'DOWN'.
TakeResult(n) ==
  /\ adapter = "up" /\ process[n] = "replied" /\ n \in workers
  /\ process' = [process EXCEPT ![n] = "gone"]
  /\ Respond(n) /\ Settle(n)
  /\ UNCHANGED <<tools, reader, line, sent, taken, stopping, refused>>

\* Mutant of TakeDown: a 'DOWN' is dropped.
TakeDown_Dropped(n) ==
  /\ adapter = "up" /\ process[n] = "crashed" /\ n \in workers
  /\ process' = [process EXCEPT ![n] = "gone"]
  /\ UNCHANGED <<tools, reader, line, sent, taken, workers, ids, adapter, answers,
                 stopping, refused>>

\* 'DOWN' without a result: the adapter answers in the worker's place.
TakeDown(n) ==
  /\ adapter = "up" /\ process[n] = "crashed" /\ n \in workers
  /\ process' = [process EXCEPT ![n] = "gone"]
  /\ Respond(n) /\ Settle(n)
  /\ UNCHANGED <<tools, reader, line, sent, taken, stopping, refused>>

------------------------------------------------------------------------------
(* The end *)

\* terminate/2 kills the workers that are left.
Kill == process' = [n \in Line |-> IF n \in workers THEN "gone" ELSE process[n]]

\* Mutant of TakeEof: the adapter stops without draining.
TakeEof_NoDrain ==
  /\ adapter = "up" /\ reader = "eof" /\ taken = sent /\ ~stopping
  /\ adapter' = "normal" /\ stopping' = stopping /\ Kill
  /\ UNCHANGED <<tools, reader, line, sent, taken, workers, ids, answers, refused>>

\* input_eof, which follows every line: stop, or drain first.
TakeEof ==
  /\ adapter = "up" /\ reader = "eof" /\ taken = sent /\ ~stopping
  /\ IF workers = {} THEN adapter' = "normal" /\ UNCHANGED stopping
                     ELSE stopping' = TRUE /\ UNCHANGED adapter
  /\ UNCHANGED <<tools, reader, line, sent, taken, workers, ids, process, answers, refused>>

\* The reader failed, or a write to stdout did: responses may be lost.
Fail ==
  /\ adapter = "up"
  /\ \/ reader = "failed" /\ taken = sent
     \/ \E n \in Line : n \in workers /\ process[n] \in {"replied", "crashed"}
     \/ taken < sent /\ ~TakesCall(NextLine) /\ line[NextLine].kind # "notice"
  /\ adapter' = "failed" /\ Kill
  /\ UNCHANGED <<tools, reader, line, sent, taken, workers, ids, stopping, answers, refused>>

TakeMessage == StartTool \/ RespondAtOnce \/ TakeEof
Deliver(n) == TakeResult(n) \/ TakeDown(n)

Next ==
  \/ \E t \in Tool : AddTool(t)
  \/ \E request \in Call \union Other : ReadLine(request)
  \/ BeginReading \/ EndInput
  \/ TakeMessage
  \/ \E n \in Line : WorkerReplies(n) \/ WorkerCrashes(n) \/ Deliver(n)
  \/ Fail

\* The adapter takes every message in the end; every handler returns.
Fairness ==
  /\ WF_vars(TakeMessage)
  /\ \A n \in Line : WF_vars(WorkerReplies(n)) /\ WF_vars(Deliver(n))

Spec == Init /\ [][Next]_vars /\ Fairness

------------------------------------------------------------------------------
(* Properties *)

\* The values of the variables; at most MaxInFlight workers are awaited.
TypeOK ==
  /\ tools \subseteq Tool /\ reader \in {"off", "reading", "eof", "failed"}
  /\ line \in [Line -> Call \union Other]
  /\ sent \in 0 .. MaxLines /\ taken \in 0 .. sent
  /\ workers \subseteq 1 .. taken /\ Cardinality(workers) <= MaxInFlight
  /\ ids \in [Id -> 0 .. taken]
  /\ process \in [Line -> {"none", "running", "replied", "crashed", "gone"}]
  /\ stopping \in BOOLEAN /\ adapter \in {"up", "normal", "failed"}
  /\ answers \in [Line -> Nat] /\ refused \subseteq 1 .. taken

\* A line is answered at most once, whether its worker's result or its death
\* is seen first, and an id refused as a duplicate included.
OneResponse == \A n \in Line : answers[n] <= 1

\* The two maps of the adapter agree: the ids in flight are those of the
\* awaited workers, and no two of those share one.  (A worker left out of
\* ids could be given a second request with its id.)
IdsAreWorkers ==
  \A i \in Id :
    /\ ids[i] # NoWorker => ids[i] \in workers /\ line[ids[i]].id = i
    /\ \A n \in workers : line[n].id = i => ids[i] = n

\* "Stop only when no tool worker is in flight, so responses for requests the
\* client already sent are not lost": an adapter that stops at the end of
\* input has answered every line but the notices.
NothingLostAtEof ==
  adapter = "normal" =>
    /\ taken = sent
    /\ \A n \in 1 .. sent : line[n].kind # "notice" => answers[n] = 1

\* No request for a registered tool is told that there is no such tool: the
\* reader starts only after registration.
KnownToolIsFound == \A n \in refused : line[n].tool = NoTool

\* Every line read is answered in the end, or the transport failed.
EveryLineIsAnswered ==
  \A n \in Line : (sent >= n /\ line[n].kind # "notice")
                    ~> (answers[n] = 1 \/ adapter = "failed")

\* After the end of input the adapter stops.
StopsAfterEof == reader = "eof" ~> adapter # "up"

==============================================================================
