----------------------------- MODULE StdioProofs -----------------------------
(***************************************************************************)
(* Proofs about Stdio for every set of ids and tools, every limit of       *)
(* workers and every number of lines.                                      *)
(***************************************************************************)
EXTENDS Stdio, FiniteSetTheorems, TLAPS

Awaited == {"running", "replied", "crashed"}

\* Exactly the lines dispatched, not awaited and not notices have a response.
Answered ==
  \A n \in Line :
    answers[n] = IF n <= taken /\ n \notin workers /\ line[n].kind # "notice" THEN 1 ELSE 0

\* A worker awaited by a running adapter has a message to come; a worker is
\* of a call.
WorkersLive ==
  \A n \in workers : /\ line[n].kind = "call"
                     /\ adapter = "up" => process[n] \in Awaited

\* Nothing is read before every tool is there.
ReadingStarted ==
  /\ reader # "off" => tools = Tool
  /\ reader = "off" => sent = 0

\* The end of input comes after every line, and the last worker after that
\* stops the adapter.
Draining ==
  /\ stopping => taken = sent /\ reader = "eof"
  /\ stopping /\ adapter = "up" => workers # {}
  /\ adapter = "normal" => taken = sent /\ workers = {} /\ reader = "eof"

IInv ==
  /\ TypeOK /\ IsFiniteSet(workers)
  /\ Answered /\ IdsAreWorkers /\ WorkersLive /\ ReadingStarted /\ Draining
  /\ KnownToolIsFound

LEMMA InitInv == Init => IInv
  <1> SUFFICES ASSUME Init PROVE IInv OBVIOUS
  <1> USE StdioAssumption DEF Init, NoWorker, Line
  <1>1. TypeOK
    <2>1. Cardinality(workers) <= MaxInFlight /\ workers \subseteq 1 .. taken
      BY FS_EmptySet
    <2>2. Unread \in Other
      BY DEF Unread, Other
    <2>3. line \in [Line -> Call \union Other]
      BY <2>2
    <2>4. sent \in 0 .. MaxLines /\ taken \in 0 .. sent /\ ids \in [Id -> 0 .. taken]
      OBVIOUS
    <2> QED BY <2>1, <2>3, <2>4 DEF TypeOK
  <1>2. IsFiniteSet(workers)
    BY FS_EmptySet
  <1>3. Answered /\ WorkersLive /\ ReadingStarted /\ Draining
    BY DEF Answered, WorkersLive, ReadingStarted, Draining, Unread
  <1>4. IdsAreWorkers /\ KnownToolIsFound
    BY DEF IdsAreWorkers, KnownToolIsFound
  <1> QED BY <1>1, <1>2, <1>3, <1>4 DEF IInv

\* A line that is dispatched was not read or answered before.
LEMMA NextLineIsNew ==
  ASSUME IInv, taken < sent
  PROVE  /\ NextLine \in Line /\ NextLine \notin workers /\ answers[NextLine] = 0
         /\ NextLine \in 1 .. sent /\ ~stopping /\ adapter # "normal" /\ reader # "off"
  <1>1. /\ MaxLines \in Nat /\ sent \in 0 .. MaxLines /\ taken \in 0 .. sent
        /\ workers \subseteq 1 .. taken
    BY StdioAssumption DEF IInv, TypeOK
  <1>2. NextLine \in 1 .. sent /\ NextLine \in Line /\ NextLine > taken
    BY <1>1 DEF NextLine, Line
  <1>3. NextLine \notin workers
    BY <1>1, <1>2
  <1>4. answers[NextLine] = 0
    BY <1>1, <1>2 DEF IInv, Answered
  <1>5. ~stopping /\ adapter # "normal" /\ reader # "off"
    BY <1>1 DEF IInv, Draining, ReadingStarted
  <1> QED BY <1>2, <1>3, <1>4, <1>5

LEMMA StartToolInv ==
  ASSUME IInv, StartTool PROVE IInv'
  <1> USE StdioAssumption DEF StartTool, TakesCall, IInv, Line
  <1> DEFINE k == NextLine
  <1>0. /\ k \in Line /\ k \notin workers /\ answers[k] = 0 /\ k \in 1 .. sent
        /\ ~stopping /\ reader # "off" /\ k = taken + 1 /\ taken' = k
    BY NextLineIsNew DEF NextLine
  <1>a. IsFiniteSet(workers') /\ Cardinality(workers') <= MaxInFlight
    <2>1. Cardinality(workers) \in Nat
      BY FS_CardinalityType
    <2>2. IsFiniteSet(workers \union {k}) /\ Cardinality(workers \union {k}) = Cardinality(workers) + 1
      BY <1>0, FS_AddElement
    <2>3. workers' = workers \union {k} /\ Cardinality(workers) < MaxInFlight
      OBVIOUS
    <2> HIDE DEF k
    <2> QED BY <2>1, <2>2, <2>3
  <1>b. line[k].id \in Id
    BY <1>0 DEF TypeOK, Call, Other
  <1> HIDE DEF k
  <1>1. TypeOK'
    <2>1. workers' \subseteq 1 .. taken' /\ refused' \subseteq 1 .. taken'
      BY <1>0 DEF TypeOK, k
    <2>2. ids' \in [Id -> 0 .. taken']
      BY <1>0, <1>b DEF TypeOK, k
    <2>3. process' \in [Line -> {"none", "running", "replied", "crashed", "gone"}]
      BY <1>0 DEF TypeOK, k
    <2>4. taken' \in 0 .. sent'
      BY <1>0 DEF TypeOK, k
    <2> QED BY <1>a, <2>1, <2>2, <2>3, <2>4 DEF TypeOK
  <1>2. Answered'
    BY <1>0 DEF Answered, TypeOK, k
  <1>3. IdsAreWorkers'
    BY <1>0, <1>b DEF IdsAreWorkers, TypeOK, k, NoWorker
  <1>4. WorkersLive'
    BY <1>0 DEF WorkersLive, TypeOK, k, Awaited
  <1>5. ReadingStarted' /\ Draining'
    BY <1>0 DEF ReadingStarted, Draining, k
  <1>6. KnownToolIsFound'
    BY DEF KnownToolIsFound
  <1> QED BY <1>a, <1>1, <1>2, <1>3, <1>4, <1>5, <1>6

LEMMA RespondAtOnceInv ==
  ASSUME IInv, RespondAtOnce PROVE IInv'
  <1> USE StdioAssumption DEF RespondAtOnce, IInv, Line
  <1> DEFINE k == NextLine
  <1>0. /\ k \in Line /\ k \notin workers /\ answers[k] = 0 /\ k \in 1 .. sent
        /\ ~stopping /\ reader # "off" /\ k = taken + 1 /\ taken' = k
    BY NextLineIsNew DEF NextLine
  <1>a. answers' = IF line[k].kind = "notice" THEN answers ELSE [answers EXCEPT ![k] = 1]
    BY <1>0 DEF Respond
  <1>b. /\ refused' \subseteq refused \union {k}
        /\ k \in refused' /\ k \notin refused => line[k].tool \notin Tool
    BY <1>0 DEF TakesCall, ReadingStarted
  <1>c. refused \subseteq 1 .. taken /\ k \notin refused
    BY <1>0 DEF TypeOK
  <1>d. line[k].tool \notin Tool => line[k].tool = NoTool
    BY <1>0 DEF TypeOK, Call, Other
  <1> HIDE DEF k
  <1>1. TypeOK'
    <2>1. workers' \subseteq 1 .. taken' /\ refused' \subseteq 1 .. taken'
      BY <1>0, <1>b, <1>c DEF TypeOK
    <2>2. ids' \in [Id -> 0 .. taken'] /\ taken' \in 0 .. sent'
      BY <1>0 DEF TypeOK
    <2>3. answers' \in [Line -> Nat]
      BY <1>0, <1>a DEF TypeOK
    <2> QED BY <2>1, <2>2, <2>3 DEF TypeOK
  <1>2. Answered'
    BY <1>0, <1>a DEF Answered, TypeOK
  <1>3. IdsAreWorkers' /\ WorkersLive'
    BY DEF IdsAreWorkers, WorkersLive
  <1>4. ReadingStarted' /\ Draining'
    BY <1>0 DEF ReadingStarted, Draining, TypeOK
  <1>5. KnownToolIsFound'
    BY <1>b, <1>c, <1>d DEF KnownToolIsFound
  <1> QED BY <1>1, <1>2, <1>3, <1>4, <1>5

\* A worker's answer, whether it is its result or the adapter's own.
LEMMA DeliverInv ==
  ASSUME IInv, NEW n \in Line, Deliver(n) PROVE IInv'
  <1> USE StdioAssumption DEF IInv, Line
  <1>0. /\ n \in workers /\ adapter = "up"
        /\ process' = [process EXCEPT ![n] = "gone"]
        /\ answers' = [answers EXCEPT ![n] = @ + 1]
        /\ workers' = workers \ {n}
        /\ ids' = [ids EXCEPT ![line[n].id] = NoWorker]
        /\ adapter' = IF stopping /\ workers = {n} THEN "normal" ELSE adapter
        /\ UNCHANGED <<tools, reader, line, sent, taken, stopping, refused>>
    BY DEF Deliver, TakeResult, TakeDown, Respond, Settle
  <1>1. TypeOK' /\ IsFiniteSet(workers')
    <2>1. IsFiniteSet(workers') /\ Cardinality(workers') <= Cardinality(workers)
      BY <1>0, FS_Subset
    <2>2. Cardinality(workers) \in Nat /\ Cardinality(workers') \in Nat
      BY <2>1, FS_CardinalityType
    <2>3. Cardinality(workers') <= MaxInFlight
      BY <2>1, <2>2 DEF TypeOK
    <2>4. ids' \in [Id -> 0 .. taken']
      <3>1. NoWorker \in 0 .. taken /\ ids \in [Id -> 0 .. taken] /\ taken' = taken
        BY <1>0 DEF TypeOK, NoWorker
      <3> QED BY <1>0, <3>1
    <2>5. answers' \in [Line -> Nat]
      BY <1>0 DEF TypeOK
    <2> QED BY <1>0, <2>1, <2>3, <2>4, <2>5 DEF TypeOK
  <1>2. Answered'
    <2>1. n <= taken /\ line[n].kind # "notice"
      BY <1>0 DEF TypeOK, WorkersLive
    <2> QED BY <1>0, <2>1 DEF Answered, TypeOK
  <1>3. IdsAreWorkers'
    <2> SUFFICES ASSUME NEW i \in Id
                 PROVE  /\ ids'[i] # NoWorker => ids'[i] \in workers' /\ line[ids'[i]].id = i
                        /\ \A m \in workers' : line[m].id = i => ids'[i] = m
      BY <1>0 DEF IdsAreWorkers
    <2>1. CASE i = line[n].id
      BY <1>0, <2>1 DEF IdsAreWorkers, TypeOK
    <2>2. CASE i # line[n].id
      BY <1>0, <2>2 DEF IdsAreWorkers, TypeOK
    <2> QED BY <2>1, <2>2
  <1>4. WorkersLive'
    BY <1>0 DEF WorkersLive, TypeOK, Awaited
  <1>5. ReadingStarted' /\ Draining' /\ KnownToolIsFound'
    BY <1>0 DEF ReadingStarted, Draining, KnownToolIsFound
  <1> QED BY <1>1, <1>2, <1>3, <1>4, <1>5

\* The steps of the reader, of a worker on its own and of the start and end.
LEMMA ReadLineInv ==
  ASSUME IInv, NEW request \in Call \union Other, ReadLine(request) PROVE IInv'
  <1> USE StdioAssumption DEF ReadLine, IInv, Line
  <1>1. TypeOK'
    BY DEF TypeOK
  <1>2. Answered'
    BY DEF Answered, TypeOK
  <1>3. IdsAreWorkers' /\ WorkersLive'
    <2>1. \A n \in workers : line'[n] = line[n]
      BY DEF TypeOK
    <2>2. \A i \in Id : ids[i] # NoWorker => ids[i] \in workers
      BY DEF IdsAreWorkers
    <2> QED BY <2>1, <2>2 DEF IdsAreWorkers, WorkersLive
  <1>4. ReadingStarted' /\ Draining'
    BY DEF ReadingStarted, Draining, TypeOK
  <1>5. KnownToolIsFound'
    BY DEF KnownToolIsFound, TypeOK
  <1> QED BY <1>1, <1>2, <1>3, <1>4, <1>5

LEMMA OtherStepsInv ==
  ASSUME IInv,
         \/ \E t \in Tool : AddTool(t)
         \/ BeginReading \/ EndInput \/ TakeEof \/ Fail
         \/ \E n \in Line : WorkerReplies(n) \/ WorkerCrashes(n)
         \/ UNCHANGED vars
  PROVE  IInv'
  <1> USE StdioAssumption DEF IInv
  <1>0. /\ UNCHANGED <<line, sent, taken, workers, ids, answers, refused>>
        /\ tools \subseteq tools' /\ tools' \subseteq Tool
    BY DEF AddTool, BeginReading, EndInput, TakeEof, Fail, WorkerReplies, WorkerCrashes, vars,
           TypeOK
  <1>1. /\ process' \in [Line -> {"none", "running", "replied", "crashed", "gone"}]
        /\ reader' \in {"off", "reading", "eof", "failed"}
        /\ stopping' \in BOOLEAN /\ adapter' \in {"up", "normal", "failed"}
    BY DEF TypeOK, AddTool, BeginReading, EndInput, TakeEof, Fail, Kill, WorkerReplies,
           WorkerCrashes, vars
  <1>2. TypeOK' /\ IsFiniteSet(workers')
    BY <1>0, <1>1 DEF TypeOK
  <1>3. Answered' /\ IdsAreWorkers' /\ KnownToolIsFound'
    BY <1>0 DEF Answered, IdsAreWorkers, KnownToolIsFound
  <1>4. WorkersLive'
    BY <1>0 DEF WorkersLive, Awaited, TypeOK, Line, AddTool, BeginReading, EndInput, TakeEof, Fail,
           WorkerReplies, WorkerCrashes, vars
  <1>5. ReadingStarted'
    BY <1>0 DEF ReadingStarted, TypeOK, AddTool, BeginReading, EndInput, TakeEof, Fail,
           WorkerReplies, WorkerCrashes, vars
  <1>6. Draining'
    BY <1>0 DEF Draining, TypeOK, AddTool, BeginReading, EndInput, TakeEof, Fail,
           WorkerReplies, WorkerCrashes, vars
  <1> QED BY <1>2, <1>3, <1>4, <1>5, <1>6

THEOREM Invariance == Spec => []IInv
  <1>1. Init => IInv
    BY InitInv
  <1>2. IInv /\ [Next]_vars => IInv'
    BY StartToolInv, RespondAtOnceInv, DeliverInv, ReadLineInv, OtherStepsInv
       DEF Next, TakeMessage
  <1> QED BY <1>1, <1>2, PTL DEF Spec

\* The variables keep their types and no more than MaxInFlight tool workers
\* are awaited at a time.
THEOREM TypeCorrect == Spec => []TypeOK
  BY Invariance, PTL DEF IInv

\* symbolic_stdio never answers a line twice, in whatever order results,
\* deaths, lines and the end of input reach the adapter.
THEOREM AnsweredOnce == Spec => []OneResponse
  <1>1. IInv => OneResponse
    BY DEF IInv, Answered, OneResponse
  <1> QED BY <1>1, Invariance, PTL

\* The adapter that stops at the end of input has answered every line.
THEOREM DrainedAtEof == Spec => []NothingLostAtEof
  <1>1. IInv => NothingLostAtEof
    BY StdioAssumption DEF IInv, TypeOK, Answered, Draining, NothingLostAtEof, Line
  <1> QED BY <1>1, Invariance, PTL

\* The workers and ids maps of the adapter never disagree.
THEOREM MapsAgree == Spec => []IdsAreWorkers
  BY Invariance, PTL DEF IInv

\* A request that names a registered tool finds it.
THEOREM ToolsAreThere == Spec => []KnownToolIsFound
  BY Invariance, PTL DEF IInv
==============================================================================
