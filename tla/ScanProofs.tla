------------------------------ MODULE ScanProofs ------------------------------
(***************************************************************************)
(* Theorems about Scan, for any tree, rules, languages and bounds: a       *)
(* report speaks of the files it should and of nothing else, no facts are  *)
(* kept under a hash that is not theirs unless the file changed at least   *)
(* twice, and what is reported of a file is that file's and current,       *)
(* although results cross scans and come from a cache.                     *)
(***************************************************************************)
EXTENDS Scan, DiscoveryProofs, TLAPS

Facts == [content : Nat, doc : Nat, code : Nat]
Entry == [hash : Nat, facts : Facts, moved : Nat]
Steps == Running \union {"none", "sent", "crashed"}
WorkerState == [step : Steps, doomed : BOOLEAN, entry : Entry, bytes : Nat, since : Nat,
                facts : Facts, failed : BOOLEAN]
Result == [facts : Facts, failed : BOOLEAN, entry : Entry]

\* The part of the types the theorems need, without the bounds.
Types ==
  /\ disk \in [SourceFile -> Nat] /\ edits \in [SourceFile -> Nat]
  /\ began \in [SourceFile -> Nat] /\ build \in [Language -> Nat]
  /\ cache.entry \in [SourceFile -> Entry]
  /\ worker \in [Worker -> WorkerState]
  /\ results \in Seq(Result) /\ scan \in Nat

\* Between scans there are no results.
IdleIsEmpty == phase = "idle" => results = << >>

\* Whatever may end up in the cache names the bytes its facts are of.
CacheNames  == \A f \in SourceFile : HashNamesFacts(cache.entry[f])
ResultsName == \A i \in DOMAIN results : ~results[i].failed => HashNamesFacts(results[i].entry)

\* While a file is extracted its content is what the worker read unless the
\* file has changed since.
ReadIsCurrent(w) ==
  worker[w].step = "extracting" =>
    /\ worker[w].since <= edits[w[2]]
    /\ edits[w[2]] = worker[w].since => disk[w[2]] = worker[w].bytes

\* Facts of other bytes took one change, and the bytes' return another.
ChangeIsCounted(w) ==
  (worker[w].step = "rereading" /\ ~worker[w].failed) =>
    /\ worker[w].since <= edits[w[2]]
    /\ worker[w].facts.content # worker[w].bytes =>
         /\ worker[w].since + 1 <= edits[w[2]]
         /\ disk[w[2]] = worker[w].bytes => worker[w].since + 2 <= edits[w[2]]

Sound(w) == HashNamesFacts(worker[w].entry) /\ ReadIsCurrent(w) /\ ChangeIsCounted(w)

WorkersAreSound == \A w \in Worker : Sound(w)

IInv ==
  /\ Types /\ IdleIsEmpty
  /\ CacheNames /\ ResultsName /\ WorkersAreSound

------------------------------------------------------------------------------
(* What the building blocks give *)

\* No facts, no entry and no worker are of their types and name nothing false.
LEMMA NothingIsFine ==
  /\ NoFacts \in Facts /\ NoEntry \in Entry /\ NoWorker \in WorkerState
  /\ HashNamesFacts(NoEntry) /\ HashNamesFacts(NoWorker.entry)
  /\ NoWorker.step = "none"
<1>1. NoFacts \in Facts
  BY DEF NoFacts, Gone, Facts
<1>2. NoEntry \in Entry /\ HashNamesFacts(NoEntry)
  BY <1>1 DEF NoEntry, NoFacts, Gone, Entry, HashNamesFacts
<1>3. NoWorker \in WorkerState
  BY <1>1, <1>2 DEF NoWorker, WorkerState, Steps, Gone
<1>4. QED
  BY <1>1, <1>2, <1>3 DEF NoWorker

\* An extractor always makes facts (ts_extract:file/1).
LEMMA ExtractionIsFacts ==
  ASSUME Types, NEW f \in SourceFile
  PROVE  Extraction(f) \in Facts
<1>1. LanguageOf[f] \in Language /\ (Docs[f] = NoFile \/ Docs[f] \in SourceFile)
  BY ScanAssumption
<1>2. QED
  BY <1>1 DEF Types, Extraction, Facts, Gone

\* Another build's cache is one of no entries (symbolic_file_cache:read/1).
LEMMA LoadedNames ==
  ASSUME Types, CacheNames, NEW f \in SourceFile
  PROVE  Loaded[f] \in Entry /\ HashNamesFacts(Loaded[f])
BY NothingIsFine DEF Types, CacheNames, Loaded

\* A scan that ends leaves no results.
LEMMA EndEmpties ==
  ASSUME End
  PROVE  /\ results' \in Seq(Result) /\ began' \in [SourceFile -> Nat] /\ scan' = scan
         /\ IdleIsEmpty' /\ ResultsName'
BY DEF End, Unedited, IdleIsEmpty, ResultsName

\* A worker nothing happens to stays sound while its file stays as it is.
LEMMA SameWorker ==
  ASSUME NEW w \in Worker, Sound(w), worker'[w] = worker[w], UNCHANGED <<disk, edits>>
  PROVE  Sound(w)'
BY DEF Sound, ReadIsCurrent, ChangeIsCounted, HashNamesFacts

\* A worker that is not extracting is sound with its entry.
LEMMA RestingWorker ==
  ASSUME NEW w \in Worker, worker'[w].step \notin {"extracting", "rereading"},
         HashNamesFacts(worker'[w].entry)
  PROVE  Sound(w)'
BY DEF Sound, ReadIsCurrent, ChangeIsCounted, HashNamesFacts

\* One worker's step leaves the others sound.
LEMMA OthersStaySound ==
  ASSUME Types, WorkersAreSound, UNCHANGED <<disk, edits>>,
         NEW w \in Worker, NEW new \in WorkerState, worker' = [worker EXCEPT ![w] = new]
  PROVE  /\ worker' \in [Worker -> WorkerState] /\ worker'[w] = new
         /\ \A v \in Worker \ {w} : Sound(v)'
<1>1. worker' \in [Worker -> WorkerState] /\ worker'[w] = new
  BY DEF Types
<1>2. ASSUME NEW v \in Worker \ {w} PROVE Sound(v)'
  <2>1. worker'[v] = worker[v]
    BY DEF Types
  <2>2. QED
    BY <2>1, SameWorker DEF WorkersAreSound
<1>3. QED
  BY <1>1, <1>2

\* A worker that sends its result is of its type and sound.
LEMMA SendIsSound ==
  ASSUME Types, WorkersAreSound, UNCHANGED <<disk, edits>>,
         NEW w \in Worker, NEW facts \in Facts, NEW failed \in BOOLEAN, NEW entry \in Entry,
         HashNamesFacts(entry), Send(w, facts, failed, entry)
  PROVE  worker' \in [Worker -> WorkerState] /\ WorkersAreSound'
<1> DEFINE sent == [worker[w] EXCEPT !.step = "sent", !.facts = facts, !.failed = failed,
                                    !.entry = entry]
<1>1. worker[w] \in WorkerState
  BY DEF Types
<1>2. sent \in WorkerState /\ sent.step = "sent" /\ sent.entry = entry
  BY <1>1 DEF WorkerState, Steps
<1>3. worker' = [worker EXCEPT ![w] = sent]
  BY DEF Send
<1> HIDE DEF sent
<1>4. /\ worker' \in [Worker -> WorkerState] /\ worker'[w] = sent
      /\ \A v \in Worker \ {w} : Sound(v)'
  BY <1>2, <1>3, OthersStaySound
<1>5. Sound(w)'
  BY <1>2, <1>4, RestingWorker
<1>6. QED
  BY <1>4, <1>5 DEF WorkersAreSound

\* A step of a worker changes nothing else the invariant speaks of.
LEMMA WorkerStep ==
  ASSUME IInv, UNCHANGED <<world, cache, parent>>,
         worker' \in [Worker -> WorkerState], WorkersAreSound'
  PROVE  IInv'
<1> USE DEF IInv, world, parent
<1>1. Types' /\ IdleIsEmpty'
  BY DEF Types, IdleIsEmpty
<1>2. CacheNames' /\ ResultsName'
  BY DEF CacheNames, ResultsName, HashNamesFacts
<1>3. QED
  BY <1>1, <1>2

------------------------------------------------------------------------------
(* One lemma for each step *)

\* A worker that reads its file sends its entry, sends an error or begins
\* (symbolic_parse:extract_cached/2).
LEMMA ReadBytesKeeps ==
  ASSUME IInv, NEW w \in Worker, ReadBytes(w)
  PROVE  IInv'
<1> DEFINE f == w[2]
           known == worker[w].entry
<1>1. f \in SourceFile /\ worker[w] \in WorkerState /\ disk[f] \in Nat /\ edits[f] \in Nat
  BY DEF IInv, Types, Worker
<1>2. known \in Entry /\ known.facts \in Facts /\ HashNamesFacts(known)
  BY <1>1 DEF IInv, WorkersAreSound, Sound, WorkerState, Entry
<1>3. UNCHANGED <<world, cache, parent>> /\ UNCHANGED <<disk, edits>>
  BY DEF ReadBytes, world
<1>4. CASE Send(w, NoFacts, TRUE, NoEntry)
  BY <1>3, <1>4, NothingIsFine, SendIsSound, WorkerStep DEF IInv
<1>5. CASE Send(w, known.facts, FALSE, known)
  BY <1>2, <1>3, <1>5, SendIsSound, WorkerStep DEF IInv
<1>6. CASE worker' = [worker EXCEPT ![w] = [@ EXCEPT !.step = "extracting", !.bytes = disk[f],
                                                    !.since = edits[f]]]
  <2> DEFINE new == [worker[w] EXCEPT !.step = "extracting", !.bytes = disk[f],
                                      !.since = edits[f]]
  <2>1. /\ new \in WorkerState /\ new.step = "extracting" /\ new.entry = known
        /\ new.bytes = disk[f] /\ new.since = edits[f]
    BY <1>1 DEF WorkerState, Steps, Running
  <2>2. worker' = [worker EXCEPT ![w] = new]
    BY <1>6
  <2> HIDE DEF new
  <2>3. /\ worker' \in [Worker -> WorkerState] /\ worker'[w] = new
        /\ \A v \in Worker \ {w} : Sound(v)'
    BY <1>3, <2>1, <2>2, OthersStaySound DEF IInv
  <2>4. HashNamesFacts(worker'[w].entry)
    BY <1>2, <2>1, <2>3
  <2>5. Sound(w)'
    BY <1>1, <1>3, <2>1, <2>3, <2>4
       DEF Sound, ReadIsCurrent, ChangeIsCounted, HashNamesFacts
  <2>6. QED
    BY <1>3, <2>3, <2>5, WorkerStep DEF WorkersAreSound
<1>7. QED
  BY <1>4, <1>5, <1>6 DEF ReadBytes

\* An extraction is of what the file is then; if that is not what was read, the
\* file has changed (symbolic_parse:extract_cached/2).
LEMMA ExtractKeeps ==
  ASSUME IInv, NEW w \in Worker, Extract(w)
  PROVE  IInv'
<1> DEFINE f == w[2]
           me == worker[w]
           failing == [me EXCEPT !.step = "rereading", !.failed = TRUE]
           done == [me EXCEPT !.step = "rereading", !.facts = Extraction(f)]
<1>1. f \in SourceFile /\ me \in WorkerState /\ disk[f] \in Nat /\ edits[f] \in Nat
  BY DEF IInv, Types, Worker
<1>2. UNCHANGED <<world, cache, parent>> /\ UNCHANGED <<disk, edits>>
  BY DEF Extract, world
<1>3. HashNamesFacts(me.entry) /\ me.since <= edits[f] /\ (edits[f] = me.since => disk[f] = me.bytes)
  BY DEF IInv, WorkersAreSound, Sound, ReadIsCurrent, Extract
<1>4. Extraction(f) \in Facts /\ Extraction(f).content = disk[f]
  BY <1>1, ExtractionIsFacts DEF IInv, Extraction
<1>5. /\ failing \in WorkerState /\ failing.step = "rereading" /\ failing.failed = TRUE
      /\ failing.entry = me.entry
  BY <1>1 DEF WorkerState, Steps, Running
<1>6. /\ done \in WorkerState /\ done.step = "rereading" /\ done.facts = Extraction(f)
      /\ done.entry = me.entry /\ done.bytes = me.bytes /\ done.since = me.since
  BY <1>1, <1>4 DEF WorkerState, Steps, Running
<1>7. worker' = [worker EXCEPT ![w] = failing] \/ worker' = [worker EXCEPT ![w] = done]
  BY DEF Extract
<1>8. me.since \in Nat /\ me.bytes \in Nat
  BY <1>1 DEF WorkerState
<1> HIDE DEF failing, done
<1>9. CASE worker' = [worker EXCEPT ![w] = failing]
  <2>1. /\ worker' \in [Worker -> WorkerState] /\ worker'[w] = failing
        /\ \A v \in Worker \ {w} : Sound(v)'
    BY <1>2, <1>5, <1>9, OthersStaySound DEF IInv
  <2>2. Sound(w)'
    BY <1>3, <1>5, <2>1 DEF Sound, ReadIsCurrent, ChangeIsCounted, HashNamesFacts
  <2>3. QED
    BY <1>2, <2>1, <2>2, WorkerStep DEF WorkersAreSound
<1>10. CASE worker' = [worker EXCEPT ![w] = done]
  <2>1. /\ worker' \in [Worker -> WorkerState] /\ worker'[w] = done
        /\ \A v \in Worker \ {w} : Sound(v)'
    BY <1>2, <1>6, <1>10, OthersStaySound DEF IInv
  <2>2. HashNamesFacts(worker'[w].entry) /\ ReadIsCurrent(w)'
    BY <1>3, <1>6, <2>1 DEF ReadIsCurrent, HashNamesFacts
  <2>3. disk[f] # me.bytes => me.since + 1 <= edits[f]
    BY <1>1, <1>3, <1>8
  <2>4. ChangeIsCounted(w)'
    BY <1>2, <1>3, <1>4, <1>6, <2>1, <2>3 DEF ChangeIsCounted
  <2>5. QED
    BY <1>2, <2>1, <2>2, <2>4, WorkerStep DEF WorkersAreSound, Sound, HashNamesFacts
<1>11. QED
  BY <1>7, <1>9, <1>10

\* An entry is made only of a file whose bytes are again what was read, so that
\* other facts cost two changes (symbolic_parse:extract_cached/2).
LEMMA RereadKeeps ==
  ASSUME IInv, NEW w \in Worker, Reread(w)
  PROVE  IInv'
<1> DEFINE f == w[2]
           me == worker[w]
           entry == [hash |-> me.bytes, facts |-> me.facts, moved |-> edits[f] - me.since]
<1>1. /\ me \in WorkerState /\ me.facts \in Facts /\ me.bytes \in Nat /\ me.since \in Nat
      /\ edits[f] \in Nat
  BY DEF IInv, Types, Worker, WorkerState
<1>2. UNCHANGED <<world, cache, parent>> /\ UNCHANGED <<disk, edits>>
  BY DEF Reread, world
<1>3. CASE Send(w, me.facts, TRUE, NoEntry)
  BY <1>1, <1>2, <1>3, NothingIsFine, SendIsSound, WorkerStep DEF IInv
<1>4. CASE Send(w, NoFacts, TRUE, NoEntry)
  BY <1>2, <1>4, NothingIsFine, SendIsSound, WorkerStep DEF IInv
<1>5. CASE ~me.failed /\ disk[f] = me.bytes /\ Send(w, me.facts, FALSE, entry)
  <2>1. /\ me.since <= edits[f]
        /\ me.facts.content # me.bytes => me.since + 2 <= edits[f]
    BY <1>5 DEF IInv, WorkersAreSound, Sound, ChangeIsCounted, Reread
  <2>2. entry \in Entry
    BY <1>1, <2>1 DEF Entry
  <2>3. HashNamesFacts(entry)
    BY <1>1, <2>1 DEF HashNamesFacts
  <2> HIDE DEF entry
  <2>4. QED
    BY <1>1, <1>2, <1>5, <2>2, <2>3, SendIsSound, WorkerStep DEF IInv
<1>6. QED
  BY <1>3, <1>4, <1>5 DEF Reread

\* A worker that dies, crashed or killed, leaves nothing that could be kept.
LEMMA CrashOrDieKeeps ==
  ASSUME IInv, NEW w \in Worker, Crash(w) \/ Die(w)
  PROVE  IInv'
<1> DEFINE crashed == [worker[w] EXCEPT !.step = "crashed"]
<1>1. worker[w] \in WorkerState /\ HashNamesFacts(worker[w].entry)
  BY DEF IInv, Types, WorkersAreSound, Sound
<1>2. UNCHANGED <<world, cache, parent>> /\ UNCHANGED <<disk, edits>>
  BY DEF Crash, Die, world
<1>3. crashed \in WorkerState /\ crashed.step = "crashed" /\ crashed.entry = worker[w].entry
  BY <1>1 DEF WorkerState, Steps
<1>4. PICK new \in {crashed, NoWorker} : worker' = [worker EXCEPT ![w] = new]
  BY DEF Crash, Die
<1> HIDE DEF crashed
<1>5. new \in WorkerState /\ new.step \notin {"extracting", "rereading"} /\ HashNamesFacts(new.entry)
  BY <1>1, <1>3, NothingIsFine
<1>6. /\ worker' \in [Worker -> WorkerState] /\ worker'[w] = new
      /\ \A v \in Worker \ {w} : Sound(v)'
  BY <1>2, <1>4, <1>5, OthersStaySound DEF IInv
<1>7. Sound(w)'
  BY <1>5, <1>6, RestingWorker
<1>8. QED
  BY <1>2, <1>6, <1>7, WorkerStep DEF WorkersAreSound

\* An edit is counted for every worker of the file.
LEMMA EditKeeps ==
  ASSUME IInv, NEW f \in SourceFile, Edit(f)
  PROVE  IInv'
<1>1. UNCHANGED <<layout, build, cache, parent, worker, faults>>
  BY DEF Edit
<1>2. /\ disk' \in [SourceFile -> Nat] /\ edits' = [edits EXCEPT ![f] = @ + 1]
      /\ edits' \in [SourceFile -> Nat]
      /\ \A g \in SourceFile \ {f} : disk'[g] = disk[g] /\ edits'[g] = edits[g]
      /\ edits'[f] = edits[f] + 1
  <2>1. PICK content \in Gone .. MaxContent : disk' = [disk EXCEPT ![f] = content]
    BY DEF Edit
  <2>2. content \in Nat
    BY ScanAssumption DEF Gone
  <2>3. QED
    BY <2>1, <2>2 DEF Edit, IInv, Types
<1>3. Types' /\ IdleIsEmpty'
  BY <1>1, <1>2 DEF IInv, parent, Types, IdleIsEmpty
<1>4. CacheNames' /\ ResultsName'
  BY <1>1 DEF IInv, parent, CacheNames, ResultsName, HashNamesFacts
<1>5. ASSUME NEW w \in Worker PROVE Sound(w)'
  <2>1. /\ w[2] \in SourceFile /\ edits[w[2]] \in Nat
        /\ worker[w].since \in Nat /\ worker'[w] = worker[w]
    BY <1>1 DEF IInv, Types, Worker, WorkerState
  <2>2. Sound(w)
    BY DEF IInv, WorkersAreSound
  <2>3. HashNamesFacts(worker'[w].entry)
    BY <2>1, <2>2 DEF Sound
  <2>4. ReadIsCurrent(w)'
    BY <1>2, <2>1, <2>2 DEF Sound, ReadIsCurrent
  <2>5. ChangeIsCounted(w)'
    BY <1>2, <2>1, <2>2 DEF Sound, ChangeIsCounted
  <2>6. QED
    BY <2>3, <2>4, <2>5 DEF Sound, HashNamesFacts
<1>6. QED
  BY <1>3, <1>4, <1>5 DEF IInv, WorkersAreSound

\* Workers nothing happens to, or that are not extracting, are sound together.
LEMMA NoneExtracts ==
  ASSUME Types, WorkersAreSound, UNCHANGED <<disk, edits>>,
         NEW new \in [Worker -> WorkerState], worker' = new,
         \A w \in Worker : \/ new[w] = worker[w]
                           \/ /\ new[w].step \notin {"extracting", "rereading"}
                              /\ HashNamesFacts(new[w].entry)
  PROVE  WorkersAreSound'
<1>1. ASSUME NEW w \in Worker PROVE Sound(w)'
  <2>1. CASE worker'[w] = worker[w]
    BY <2>1, SameWorker DEF WorkersAreSound
  <2>2. CASE /\ worker'[w].step \notin {"extracting", "rereading"}
             /\ HashNamesFacts(worker'[w].entry)
    BY <2>2, RestingWorker
  <2>3. QED
    BY <2>1, <2>2
<1>2. QED
  BY <1>1 DEF WorkersAreSound

\* No workers at all are sound (a killed refresh, another program).
LEMMA NoWorkersAreSound ==
  ASSUME Types, WorkersAreSound, UNCHANGED <<disk, edits>>, worker' = [w \in Worker |-> NoWorker]
  PROVE  worker' \in [Worker -> WorkerState] /\ WorkersAreSound'
<1> DEFINE new == [w \in Worker |-> NoWorker]
<1>1. new \in [Worker -> WorkerState]
  BY NothingIsFine
<1>2. \A w \in Worker : new[w].step \notin {"extracting", "rereading"} /\ HashNamesFacts(new[w].entry)
  BY NothingIsFine
<1> HIDE DEF new
<1>3. worker' = new
  BY DEF new
<1>4. QED
  BY <1>1, <1>2, <1>3, NoneExtracts

\* The end of a scan that changes neither files, cache nor what workers know.
LEMMA EndKeeps ==
  ASSUME IInv, End, UNCHANGED <<disk, edits, cache>>, build' \in [Language -> Nat],
         worker' \in [Worker -> WorkerState], WorkersAreSound'
  PROVE  IInv'
<1>1. CacheNames'
  BY DEF IInv, CacheNames, HashNamesFacts
<1>2. QED
  BY <1>1, EndEmpties DEF IInv, Types

\* A scan begins with no results, whatever it finds (symbolic_parse:scan_each/2).
LEMMA BeginKeeps ==
  ASSUME IInv, Begin
  PROVE  IInv'
<1>1. UNCHANGED <<disk, edits, build, cache, worker, results>> /\ phase = "idle"
      /\ scan' = scan + 1 /\ (began' = began \/ began' = edits)
  BY DEF Begin, ScanEach, Extracting, world
<1>2. results = << >> /\ results' = << >>
  BY <1>1 DEF IInv, IdleIsEmpty
<1>3. Types' /\ IdleIsEmpty' /\ ResultsName'
  BY <1>1, <1>2 DEF IInv, Types, IdleIsEmpty, ResultsName
<1>4. CacheNames'
  BY <1>1 DEF IInv, CacheNames, HashNamesFacts
<1>5. WorkersAreSound'
  BY <1>1, SameWorker DEF IInv, WorkersAreSound
<1>6. QED
  BY <1>3, <1>4, <1>5 DEF IInv

\* A new worker knows its file's entry of the cache and nothing else
\* (symbolic_parse:parallel_map/2).
LEMMA StartBatchKeeps ==
  ASSUME IInv, StartBatch
  PROVE  IInv'
<1> DEFINE Given(w) == w[1] = scan /\ \E i \in started + 1 .. BatchEnd : files[i] = w[2]
           fresh(w) == [NoWorker EXCEPT !.step = "reading", !.entry = Loaded[w[2]]]
           new == [w \in Worker |-> IF Given(w) THEN fresh(w) ELSE worker[w]]
<1>1. UNCHANGED <<world, cache, scan, phase, began, due, unseen, files, results, faults>>
  BY DEF StartBatch
<1>2. worker' = new
  BY DEF StartBatch
<1>3. ASSUME NEW w \in Worker
      PROVE  fresh(w) \in WorkerState /\ fresh(w).step = "reading" /\ HashNamesFacts(fresh(w).entry)
  <2>1. w[2] \in SourceFile
    BY DEF Worker
  <2>2. Loaded[w[2]] \in Entry /\ HashNamesFacts(Loaded[w[2]])
    BY <2>1, LoadedNames DEF IInv
  <2>3. NoWorker \in WorkerState
    BY NothingIsFine
  <2>4. fresh(w) \in WorkerState /\ fresh(w).step = "reading" /\ fresh(w).entry = Loaded[w[2]]
    BY <2>2, <2>3 DEF WorkerState, Steps, Running
  <2>5. QED
    BY <2>2, <2>4
<1> HIDE DEF fresh, Given
<1>4. new \in [Worker -> WorkerState]
  BY <1>3 DEF IInv, Types
<1>5. \A w \in Worker : \/ new[w] = worker[w]
                        \/ /\ new[w].step \notin {"extracting", "rereading"}
                           /\ HashNamesFacts(new[w].entry)
  BY <1>3
<1> HIDE DEF new
<1>6. WorkersAreSound'
  BY <1>1, <1>2, <1>4, <1>5, NoneExtracts DEF IInv, world
<1>7. Types' /\ IdleIsEmpty'
  BY <1>1, <1>2, <1>4 DEF IInv, world, Types, IdleIsEmpty
<1>8. CacheNames' /\ ResultsName'
  BY <1>1 DEF IInv, CacheNames, ResultsName, HashNamesFacts
<1>9. QED
  BY <1>6, <1>7, <1>8 DEF IInv

\* What is collected is the awaited worker's, and names its bytes
\* (symbolic_parse:parallel_collect/3).
LEMMA CollectKeeps ==
  ASSUME IInv, Collect
  PROVE  IInv'
<1>1. PICK w \in Worker :
        /\ w = Awaited /\ worker' = [worker EXCEPT ![w] = NoWorker]
        /\ results' = Append(results, [facts |-> worker[w].facts, failed |-> worker[w].failed,
                                       entry |-> worker[w].entry])
  BY DEF Collect, CollectFrom
<1> DEFINE r == [facts |-> worker[w].facts, failed |-> worker[w].failed, entry |-> worker[w].entry]
<1>2. UNCHANGED <<world, cache, scan, phase, began, due, unseen, files, started, faults>>
      /\ phase = "extracting" /\ UNCHANGED <<disk, edits>>
  BY DEF Collect, world
<1>3. worker[w] \in WorkerState /\ HashNamesFacts(worker[w].entry)
  BY DEF IInv, Types, WorkersAreSound, Sound
<1>4. r \in Result /\ HashNamesFacts(r.entry)
  BY <1>1, <1>3 DEF WorkerState, Result
<1> HIDE DEF r
<1>5. results \in Seq(Result) /\ results' = Append(results, r)
  BY <1>1 DEF IInv, Types, r
<1>6. /\ results' \in Seq(Result) /\ Len(results') = Len(results) + 1
      /\ \A i \in DOMAIN results' : \/ i \in DOMAIN results /\ results'[i] = results[i]
                                    \/ i = Len(results) + 1 /\ results'[i] = r
  BY <1>4, <1>5
<1>7. ResultsName'
  BY <1>2, <1>4, <1>6 DEF IInv, ResultsName, HashNamesFacts
<1>8. worker' \in [Worker -> WorkerState] /\ WorkersAreSound'
  <2>1. /\ worker' \in [Worker -> WorkerState] /\ worker'[w] = NoWorker
        /\ \A v \in Worker \ {w} : Sound(v)'
    BY <1>1, <1>2, NothingIsFine, OthersStaySound DEF IInv
  <2>2. Sound(w)'
    BY <2>1, NothingIsFine, RestingWorker
  <2>3. QED
    BY <2>1, <2>2 DEF WorkersAreSound
<1>9. Types' /\ IdleIsEmpty'
  BY <1>2, <1>6, <1>8 DEF IInv, world, Types, IdleIsEmpty
<1>10. CacheNames'
  BY <1>2 DEF IInv, CacheNames, HashNamesFacts
<1>11. QED
  BY <1>7, <1>8, <1>9, <1>10 DEF IInv

\* Workers marked by the kill of their batch are as sound as they were
\* (symbolic_parse:parallel_collect/3).
LEMMA CollectCrashKeeps ==
  ASSUME IInv, CollectCrash
  PROVE  IInv'
<1> DEFINE doomed(w) == [worker[w] EXCEPT !.doomed = TRUE]
           new == [w \in Worker |->
                    IF w[1] # scan THEN worker[w]
                    ELSE IF worker[w].step \in Running THEN doomed(w) ELSE NoWorker]
<1>1. UNCHANGED <<world, cache>> /\ UNCHANGED <<disk, edits>> /\ End
  BY DEF CollectCrash, world
<1>2. worker' = new
  BY DEF CollectCrash
<1>3. ASSUME NEW w \in Worker
      PROVE  /\ doomed(w) \in WorkerState /\ doomed(w).step = worker[w].step
             /\ doomed(w).entry = worker[w].entry /\ doomed(w).bytes = worker[w].bytes
             /\ doomed(w).since = worker[w].since /\ doomed(w).facts = worker[w].facts
             /\ doomed(w).failed = worker[w].failed
  <2>1. worker[w] \in WorkerState
    BY DEF IInv, Types
  <2>2. QED
    BY <2>1 DEF WorkerState
<1> HIDE DEF doomed
<1>4. new \in [Worker -> WorkerState]
  BY <1>3, NothingIsFine DEF IInv, Types
<1>5. \A w \in Worker : new[w] \in {worker[w], doomed(w), NoWorker}
  OBVIOUS
<1> HIDE DEF new
<1>6. ASSUME NEW w \in Worker PROVE Sound(w)'
  <2>1. Sound(w)
    BY DEF IInv, WorkersAreSound
  <2>2. CASE worker'[w] = worker[w]
    BY <1>1, <2>1, <2>2, SameWorker
  <2>3. CASE worker'[w] = doomed(w)
    BY <1>1, <1>3, <2>1, <2>3 DEF Sound, ReadIsCurrent, ChangeIsCounted, HashNamesFacts
  <2>4. CASE worker'[w] = NoWorker
    BY <2>4, NothingIsFine, RestingWorker
  <2>5. QED
    BY <1>2, <1>5, <2>2, <2>3, <2>4
<1>7. build' \in [Language -> Nat]
  BY <1>1 DEF IInv, Types, world
<1>8. QED
  BY <1>1, <1>2, <1>4, <1>6, <1>7, EndKeeps DEF WorkersAreSound

\* What is saved are the entries of results that name their bytes
\* (symbolic_parse:cache_entries/1).
LEMMA PublishKeeps ==
  ASSUME IInv, Publish
  PROVE  IInv'
<1> DEFINE entry(f) == IF \E i \in DOMAIN results : files[i] = f /\ ~results[i].failed
                       THEN results[CHOOSE i \in DOMAIN results :
                                      files[i] = f /\ ~results[i].failed].entry
                       ELSE NoEntry
<1>1. UNCHANGED <<world, worker, faults>> /\ UNCHANGED <<disk, edits, build>> /\ End
  BY DEF Publish, world
<1>2. cache'.entry = [f \in SourceFile |-> entry(f)]
  BY DEF Publish
<1>3. ASSUME NEW f \in SourceFile PROVE entry(f) \in Entry /\ HashNamesFacts(entry(f))
  <2>1. CASE \E i \in DOMAIN results : files[i] = f /\ ~results[i].failed
    <3> DEFINE i == CHOOSE j \in DOMAIN results : files[j] = f /\ ~results[j].failed
    <3>1. i \in DOMAIN results /\ ~results[i].failed
      BY <2>1
    <3>2. entry(f) = results[i].entry
      BY <2>1
    <3> HIDE DEF i
    <3>3. results[i] \in Result
      BY <3>1 DEF IInv, Types
    <3>4. QED
      BY <3>1, <3>2, <3>3 DEF IInv, ResultsName, Result
  <2>2. CASE ~ \E i \in DOMAIN results : files[i] = f /\ ~results[i].failed
    BY <2>2, NothingIsFine
  <2>3. QED
    BY <2>1, <2>2
<1> HIDE DEF entry
<1>4. cache'.entry \in [SourceFile -> Entry] /\ CacheNames'
  BY <1>2, <1>3 DEF CacheNames, HashNamesFacts
<1>5. WorkersAreSound'
  BY <1>1, SameWorker DEF IInv, WorkersAreSound
<1>6. QED
  BY <1>1, <1>4, <1>5, EndEmpties DEF IInv, Types

\* A scan that ends without a report leaves the cache (symbolic_parse,
\* symbolic_codebase:cancel_refresh/1, another program).
LEMMA UnreportedEndKeeps ==
  ASSUME IInv, PublishFails \/ Cancel \/ Restart
  PROVE  IInv'
<1>1. UNCHANGED <<disk, edits, cache>> /\ End
  BY DEF PublishFails, Cancel, Restart, world
<1>2. build' \in [Language -> Nat]
  BY DEF IInv, Types, PublishFails, Cancel, Restart, world
<1>3. worker' \in [Worker -> WorkerState] /\ WorkersAreSound'
  <2>1. CASE worker' = [w \in Worker |-> NoWorker]
    BY <1>1, <2>1, NoWorkersAreSound DEF IInv
  <2>2. CASE worker' = worker
    BY <1>1, <2>2, SameWorker DEF IInv, Types, WorkersAreSound
  <2>3. QED
    BY <2>1, <2>2 DEF PublishFails, Cancel, Restart
<1>4. QED
  BY <1>1, <1>2, <1>3, EndKeeps

\* The invariant holds of a program's start.
LEMMA InitHolds == Init => IInv
<1> SUFFICES ASSUME Init PROVE IInv
  OBVIOUS
<1>1. /\ disk \in [SourceFile -> Nat] /\ edits \in [SourceFile -> Nat]
      /\ began \in [SourceFile -> Nat]
      /\ build \in [Language -> Nat] /\ results = << >> /\ scan = 0
      /\ cache.entry = [f \in SourceFile |-> NoEntry]
      /\ worker = [w \in Worker |-> NoWorker]
  BY DEF Init, Unedited
<1>2. Types
  BY <1>1, NothingIsFine DEF Types
<1>3. IdleIsEmpty /\ ResultsName
  BY <1>1 DEF IdleIsEmpty, ResultsName
<1>4. CacheNames
  BY <1>1, NothingIsFine DEF CacheNames
<1>5. WorkersAreSound
  BY <1>1, NothingIsFine DEF WorkersAreSound, Sound, ReadIsCurrent, ChangeIsCounted
<1>6. QED
  BY <1>2, <1>3, <1>4, <1>5 DEF IInv

\* Every step keeps the invariant.
LEMMA StepKeeps == IInv /\ [Next]_vars => IInv'
<1> SUFFICES ASSUME IInv, [Next]_vars PROVE IInv'
  OBVIOUS
<1>1. CASE Begin
  BY <1>1, BeginKeeps
<1>2. CASE StartBatch
  BY <1>2, StartBatchKeeps
<1>3. CASE Collect
  BY <1>3, CollectKeeps
<1>4. CASE CollectCrash
  BY <1>4, CollectCrashKeeps
<1>5. CASE Publish
  BY <1>5, PublishKeeps
<1>6. CASE PublishFails \/ Cancel \/ Restart
  BY <1>6, UnreportedEndKeeps
<1>7. CASE \E f \in SourceFile : Edit(f)
  BY <1>7, EditKeeps
<1>8. CASE \E w \in Worker : Working(w)
  BY <1>8, ReadBytesKeeps, ExtractKeeps, RereadKeeps, CrashOrDieKeeps DEF Working
<1>9. CASE EditLayout \/ UNCHANGED vars
  <2>1. UNCHANGED <<disk, edits, build, cache, parent, worker>>
    BY <1>9 DEF EditLayout, vars, parent
  <2>2. Types' /\ IdleIsEmpty'
    BY <2>1 DEF IInv, parent, Types, IdleIsEmpty
  <2>3. CacheNames' /\ ResultsName'
    BY <2>1 DEF IInv, parent, CacheNames, ResultsName, HashNamesFacts
  <2>4. WorkersAreSound'
    BY <2>1, SameWorker DEF IInv, WorkersAreSound
  <2>5. QED
    BY <2>2, <2>3, <2>4 DEF IInv
<1>10. QED
  BY <1>1, <1>2, <1>3, <1>4, <1>5, <1>6, <1>7, <1>8, <1>9 DEF Next, Scanning

------------------------------------------------------------------------------
(* The invariant of a scan's facts *)

\* An edit during the scan is one more than there were when it began.
BeganBefore == phase = "extracting" => \A f \in SourceFile : began[f] <= edits[f]

\* A scan to come has no workers yet.
NobodyAhead == \A w \in Worker : w[1] > scan => worker[w].step = "none"

\* An entry of the cache is of the build the cache says it is.
CacheIsOfItsVersion ==
  \A f \in SourceFile :
    (cache.entry[f].hash # Gone /\ LanguageOf[f] \in Hashed) =>
      cache.entry[f].facts.code = cache.version[LanguageOf[f]]

\* Facts by the running build's extractor, if version/0 takes it into account.
OfBuild(facts, f) == LanguageOf[f] \in Hashed => facts.code = build[LanguageOf[f]]

EntryOfBuild(entry, f) == entry.hash # Gone => OfBuild(entry.facts, f)

\* Facts of what is on disk, or the file changed twice while they were made.
OfNow(facts, entry, f) == facts.content = disk[f] \/ entry.moved >= 2

\* A file has not changed since the running scan began.
Still(f) == f \in SourceFile /\ phase = "extracting" /\ began[f] = edits[f]

WorkerIsCurrent(w) ==
  LET me == worker[w] IN
  /\ EntryOfBuild(me.entry, w[2])
  /\ (me.step \in {"rereading", "sent"} /\ ~me.failed) =>
       /\ OfBuild(me.facts, w[2])
       /\ (Still(w[2]) /\ w[1] = scan) =>
            \/ me.facts.content = disk[w[2]]
            \/ me.step = "sent" /\ me.entry.moved >= 2

ResultIsCurrent(i) ==
  ~results[i].failed =>
    /\ EntryOfBuild(results[i].entry, files[i]) /\ OfBuild(results[i].facts, files[i])
    /\ Still(files[i]) => OfNow(results[i].facts, results[i].entry, files[i])

Current ==
  /\ BeganBefore /\ NobodyAhead /\ CacheIsOfItsVersion
  /\ \A w \in Worker : WorkerIsCurrent(w)
  /\ \A i \in DOMAIN results : ResultIsCurrent(i)

\* A worker nothing happens to is as current as it was, if its scan is.
LEMMA SameWorkerIsCurrent ==
  ASSUME NEW w \in Worker, WorkerIsCurrent(w), worker'[w] = worker[w],
         UNCHANGED <<disk, build>>, Still(w[2])' /\ w[1] = scan' => Still(w[2]) /\ w[1] = scan
  PROVE  WorkerIsCurrent(w)'
BY DEF WorkerIsCurrent, EntryOfBuild, OfBuild

\* A worker that knows nothing is current.
LEMMA NoWorkerIsCurrent ==
  ASSUME NEW w \in Worker, worker'[w] = NoWorker
  PROVE  WorkerIsCurrent(w)'
BY DEF WorkerIsCurrent, EntryOfBuild, OfBuild, NoWorker, NoEntry

\* A step of one worker, that says nothing stale, disturbs nothing else.
LEMMA WorkerStepIsCurrent ==
  ASSUME IInv, Current, UNCHANGED <<world, cache, parent>>, NEW w \in Worker, NEW new,
         worker' = [worker EXCEPT ![w] = new], worker[w].step # "none" \/ new.step = "none",
         WorkerIsCurrent(w)'
  PROVE  Current'
<1> USE DEF world, parent
<1>1. BeganBefore' /\ CacheIsOfItsVersion' /\ (\A f : Still(f)' <=> Still(f))
  BY DEF Current, BeganBefore, CacheIsOfItsVersion, Still
<1>2. worker'[w] = new /\ \A v \in Worker \ {w} : worker'[v] = worker[v]
  BY DEF IInv, Types
<1>3. NobodyAhead'
  BY <1>2 DEF Current, NobodyAhead
<1>4. ASSUME NEW v \in Worker PROVE WorkerIsCurrent(v)'
  BY <1>1, <1>2, SameWorkerIsCurrent DEF Current
<1>5. ASSUME NEW i \in DOMAIN results' PROVE ResultIsCurrent(i)'
  BY <1>1 DEF Current, ResultIsCurrent, EntryOfBuild, OfBuild, OfNow
<1>6. QED
  BY <1>1, <1>3, <1>4, <1>5 DEF Current

\* A worker that sends says nothing stale if what it sends is not.
LEMMA SendIsCurrent ==
  ASSUME IInv, Current, UNCHANGED <<world, cache, parent>>, NEW w \in Worker,
         worker[w].step # "none",
         NEW facts, NEW failed, NEW entry, Send(w, facts, failed, entry),
         EntryOfBuild(entry, w[2]),
         ~failed => /\ OfBuild(facts, w[2])
                    /\ Still(w[2]) /\ w[1] = scan => OfNow(facts, entry, w[2])
  PROVE  Current'
<1> DEFINE sent == [worker[w] EXCEPT !.step = "sent", !.facts = facts, !.failed = failed,
                                    !.entry = entry]
<1>1. worker[w] \in WorkerState
  BY DEF IInv, Types
<1>2. /\ sent.step = "sent" /\ sent.entry = entry /\ sent.facts = facts /\ sent.failed = failed
  BY <1>1 DEF WorkerState
<1>3. worker' = [worker EXCEPT ![w] = sent]
  BY DEF Send
<1> HIDE DEF sent
<1>4. worker'[w] = sent
  BY <1>3 DEF IInv, Types
<1>5. WorkerIsCurrent(w)'
  BY <1>2, <1>4
     DEF WorkerIsCurrent, EntryOfBuild, OfBuild, OfNow, Still, world, parent
<1>6. QED
  BY <1>3, <1>5, WorkerStepIsCurrent

\* What another build has cached is not loaded (symbolic_file_cache:read/1).
LEMMA LoadedIsOfBuild ==
  ASSUME Current, NEW f \in SourceFile
  PROVE  EntryOfBuild(Loaded[f], f)
<1>1. CASE cache.version = Version
  BY <1>1 DEF Current, CacheIsOfItsVersion, EntryOfBuild, OfBuild, Loaded, Version
<1>2. CASE cache.version # Version
  BY <1>2 DEF EntryOfBuild, Loaded, NoEntry
<1>3. QED
  BY <1>1, <1>2

\* A cached entry is sent only for the bytes it was made of
\* (symbolic_parse:extract_cached/2).
LEMMA ReadBytesIsCurrent ==
  ASSUME IInv, Current, NEW w \in Worker, ReadBytes(w)
  PROVE  Current'
<1> DEFINE f == w[2]
           known == worker[w].entry
<1>1. /\ UNCHANGED <<world, cache, parent>> /\ worker[w].step = "reading"
      /\ worker[w] \in WorkerState
  BY DEF ReadBytes, IInv, Types
<1>2. EntryOfBuild(known, f) /\ HashNamesFacts(known)
  BY DEF Current, WorkerIsCurrent, IInv, WorkersAreSound, Sound
<1>3. EntryOfBuild(NoEntry, f)
  BY DEF EntryOfBuild, NoEntry
<1>4. CASE Send(w, NoFacts, TRUE, NoEntry)
  BY <1>1, <1>3, <1>4, SendIsCurrent
<1>5. CASE Readable(f) /\ known.hash = disk[f] /\ Send(w, known.facts, FALSE, known)
  <2>1. OfBuild(known.facts, f) /\ OfNow(known.facts, known, f)
    BY <1>2, <1>5 DEF EntryOfBuild, HashNamesFacts, OfNow, Readable
  <2>2. QED
    BY <1>1, <1>2, <1>5, <2>1, SendIsCurrent
<1>6. CASE worker' = [worker EXCEPT ![w] = [@ EXCEPT !.step = "extracting", !.bytes = disk[f],
                                                    !.since = edits[f]]]
  <2> DEFINE new == [worker[w] EXCEPT !.step = "extracting", !.bytes = disk[f],
                                      !.since = edits[f]]
  <2>1. new.step = "extracting" /\ new.entry = known
    BY <1>1 DEF WorkerState
  <2>2. worker' = [worker EXCEPT ![w] = new]
    BY <1>6
  <2> HIDE DEF new
  <2>3. worker'[w] = new
    BY <2>2 DEF IInv, Types
  <2>4. WorkerIsCurrent(w)'
    BY <1>1, <1>2, <2>1, <2>3 DEF WorkerIsCurrent, EntryOfBuild, OfBuild, world
  <2>5. QED
    BY <1>1, <2>2, <2>4, WorkerStepIsCurrent
<1>7. QED
  BY <1>4, <1>5, <1>6 DEF ReadBytes

\* An extractor reads what is on disk and is of this build (ts_extract:file/1).
LEMMA ExtractIsCurrent ==
  ASSUME IInv, Current, NEW w \in Worker, Extract(w)
  PROVE  Current'
<1> DEFINE me == worker[w]
           failing == [me EXCEPT !.step = "rereading", !.failed = TRUE]
           done == [me EXCEPT !.step = "rereading", !.facts = Extraction(w[2])]
<1>1. UNCHANGED <<world, cache, parent>> /\ me.step = "extracting" /\ me \in WorkerState
  BY DEF Extract, IInv, Types
<1>2. EntryOfBuild(me.entry, w[2])
  BY DEF Current, WorkerIsCurrent
<1>3. failing.failed = TRUE /\ failing.entry = me.entry
  BY <1>1 DEF WorkerState
<1>4. /\ done.step = "rereading" /\ done.entry = me.entry
      /\ done.facts.content = disk[w[2]] /\ done.facts.code = build[LanguageOf[w[2]]]
  BY <1>1 DEF WorkerState, Extraction
<1>5. PICK new \in {failing, done} : worker' = [worker EXCEPT ![w] = new]
  BY DEF Extract
<1> HIDE DEF failing, done
<1>6. worker'[w] = new
  BY <1>5 DEF IInv, Types
<1>7. WorkerIsCurrent(w)'
  BY <1>1, <1>2, <1>3, <1>4, <1>5, <1>6 DEF WorkerIsCurrent, EntryOfBuild, OfBuild, world
<1>8. QED
  BY <1>1, <1>5, <1>7, WorkerStepIsCurrent

\* What is sent after an extraction is what was extracted
\* (symbolic_parse:extract_cached/2).
LEMMA RereadIsCurrent ==
  ASSUME IInv, Current, NEW w \in Worker, Reread(w)
  PROVE  Current'
<1> DEFINE f == w[2]
           me == worker[w]
           entry == [hash |-> me.bytes, facts |-> me.facts, moved |-> edits[f] - me.since]
<1>1. UNCHANGED <<world, cache, parent>> /\ me.step = "rereading"
  BY DEF Reread
<1>2. EntryOfBuild(NoEntry, f)
  BY DEF EntryOfBuild, NoEntry
<1>3. CASE Send(w, me.facts, TRUE, NoEntry) \/ Send(w, NoFacts, TRUE, NoEntry)
  BY <1>1, <1>2, <1>3, SendIsCurrent
<1>4. CASE ~me.failed /\ Send(w, me.facts, FALSE, entry)
  <2>1. OfBuild(me.facts, f) /\ (Still(w[2]) /\ w[1] = scan => me.facts.content = disk[f])
    BY <1>1, <1>4 DEF Current, WorkerIsCurrent
  <2>2. EntryOfBuild(entry, f)
    BY <2>1 DEF EntryOfBuild
  <2>3. Still(w[2]) /\ w[1] = scan => OfNow(me.facts, entry, f)
    BY <2>1 DEF OfNow
  <2> HIDE DEF entry
  <2>4. QED
    BY <1>1, <1>4, <2>1, <2>2, <2>3, SendIsCurrent
<1>5. QED
  BY <1>3, <1>4 DEF Reread

\* A worker that dies sends nothing.
LEMMA CrashOrDieIsCurrent ==
  ASSUME IInv, Current, NEW w \in Worker, Crash(w) \/ Die(w)
  PROVE  Current'
<1> DEFINE crashed == [worker[w] EXCEPT !.step = "crashed"]
<1>1. /\ UNCHANGED <<world, cache, parent>> /\ worker[w].step # "none"
      /\ worker[w] \in WorkerState /\ EntryOfBuild(worker[w].entry, w[2])
  BY DEF Crash, Die, Running, IInv, Types, Current, WorkerIsCurrent
<1>2. crashed.step = "crashed" /\ crashed.entry = worker[w].entry
  BY <1>1 DEF WorkerState
<1>3. PICK new \in {crashed, NoWorker} : worker' = [worker EXCEPT ![w] = new]
  BY DEF Crash, Die
<1> HIDE DEF crashed
<1>4. worker'[w] = new
  BY <1>3 DEF IInv, Types
<1>5. WorkerIsCurrent(w)'
  <2>1. CASE new = NoWorker
    BY <1>4, <2>1, NoWorkerIsCurrent
  <2>2. CASE new = crashed
    BY <1>1, <1>2, <1>4, <2>2 DEF WorkerIsCurrent, EntryOfBuild, OfBuild, world
  <2>3. QED
    BY <1>3, <2>1, <2>2
<1>6. QED
  BY <1>1, <1>3, <1>5, WorkerStepIsCurrent

\* After an edit the running scan promises nothing of that file's content.
LEMMA EditIsCurrent ==
  ASSUME IInv, Current, NEW f \in SourceFile, Edit(f)
  PROVE  Current'
<1>1. UNCHANGED <<layout, build, cache, parent, worker, faults>>
  BY DEF Edit
<1>2. edits[f] \in Nat /\ edits'[f] = edits[f] + 1
      /\ \A g \in SourceFile \ {f} : edits'[g] = edits[g]
  BY DEF Edit, IInv, Types
<1>3. BeganBefore'
  <2>1. ASSUME NEW g \in SourceFile, began[g] <= edits[g] PROVE began[g] <= edits'[g]
    <3>1. began[g] \in Nat /\ edits[g] \in Nat
      BY DEF IInv, Types
    <3>2. edits'[g] = edits[g] \/ edits'[g] = edits[g] + 1
      BY <1>2
    <3>3. QED
      BY <2>1, <3>1, <3>2
  <2>2. QED
    BY <1>1, <2>1 DEF Current, BeganBefore, parent
<1>4. /\ ~Still(f)'
      /\ \A g \in SourceFile \ {f} : disk'[g] = disk[g] /\ (Still(g)' => Still(g))
  <2>1. phase = "extracting" => began[f] <= edits[f]
    BY DEF Current, BeganBefore
  <2>2. phase = "extracting" => began[f] # edits'[f]
    BY <1>2, <2>1 DEF IInv, Types
  <2>3. \A g \in SourceFile \ {f} : disk'[g] = disk[g]
    BY DEF Edit, IInv, Types
  <2>4. QED
    BY <1>1, <1>2, <2>2, <2>3 DEF Still, parent
<1>5. NobodyAhead' /\ CacheIsOfItsVersion'
  BY <1>1 DEF Current, NobodyAhead, CacheIsOfItsVersion, parent
<1>6. ASSUME NEW w \in Worker PROVE WorkerIsCurrent(w)'
  BY <1>1, <1>4 DEF Current, WorkerIsCurrent, EntryOfBuild, OfBuild, Worker, Still, parent
<1>7. ASSUME NEW i \in DOMAIN results' PROVE ResultIsCurrent(i)'
  BY <1>1, <1>4 DEF Current, ResultIsCurrent, EntryOfBuild, OfBuild, OfNow, Still, parent
<1>8. QED
  BY <1>3, <1>5, <1>6, <1>7 DEF Current

\* An ended scan promises nothing of its workers' contents and has no results.
LEMMA EndIsCurrent ==
  ASSUME IInv, Current, End, CacheIsOfItsVersion',
         \A w \in Worker : \/ worker'[w] = NoWorker
                           \/ UNCHANGED build /\ WorkerIsCurrent(w) /\ worker'[w] = worker[w]
                           \/ /\ UNCHANGED build /\ WorkerIsCurrent(w)
                              /\ worker'[w] = [worker[w] EXCEPT !.doomed = TRUE]
  PROVE  Current'
<1>1. phase' = "idle" /\ results' = << >> /\ UNCHANGED scan
  BY DEF End
<1>2. BeganBefore' /\ (\A f : ~Still(f)') /\ \A i \in DOMAIN results' : ResultIsCurrent(i)'
  BY <1>1 DEF BeganBefore, Still
<1>3. ASSUME NEW w \in Worker
      PROVE  /\ worker'[w] = NoWorker
                \/ /\ UNCHANGED build /\ WorkerIsCurrent(w)
                   /\ worker'[w].step = worker[w].step /\ worker'[w].entry = worker[w].entry
                   /\ worker'[w].facts = worker[w].facts /\ worker'[w].failed = worker[w].failed
  BY DEF IInv, Types, WorkerState
<1>4. NobodyAhead'
  BY <1>1, <1>3, NothingIsFine DEF Current, NobodyAhead
<1>5. ASSUME NEW w \in Worker PROVE WorkerIsCurrent(w)'
  <2>1. CASE worker'[w] = NoWorker
    BY <2>1, NoWorkerIsCurrent
  <2>2. CASE worker'[w] # NoWorker
    BY <1>2, <1>3, <2>2 DEF WorkerIsCurrent, EntryOfBuild, OfBuild
  <2>3. QED
    BY <2>1, <2>2
<1>6. QED
  BY <1>2, <1>4, <1>5 DEF Current

\* The workers of earlier scans are not the new scan's (symbolic_parse:scan_report/2).
LEMMA BeginIsCurrent ==
  ASSUME IInv, Current, Begin
  PROVE  Current'
<1>1. /\ UNCHANGED <<disk, edits, build, cache, worker, results>> /\ phase = "idle"
      /\ scan' = scan + 1 /\ (phase' = "idle" \/ began' = edits)
  BY DEF Begin, ScanEach, Extracting, world
<1>2. BeganBefore'
  BY <1>1 DEF BeganBefore, IInv, Types
<1>3. CacheIsOfItsVersion'
  BY <1>1 DEF Current, CacheIsOfItsVersion
<1>4. ASSUME NEW w \in Worker
      PROVE  /\ w[1] > scan' => w[1] > scan
             /\ w[1] = scan' => w[1] > scan
  <2>1. w[1] \in Int /\ scan \in Int
    BY DEF IInv, Types, Worker
  <2>2. QED
    BY <1>1, <2>1
<1>5. NobodyAhead'
  BY <1>1, <1>4 DEF Current, NobodyAhead
<1>6. ASSUME NEW w \in Worker PROVE WorkerIsCurrent(w)'
  <2>1. CASE w[1] = scan'
    <3>1. worker'[w].step = "none"
      BY <1>1, <1>4, <2>1 DEF Current, NobodyAhead
    <3>2. EntryOfBuild(worker[w].entry, w[2])
      BY DEF Current, WorkerIsCurrent
    <3>3. QED
      BY <1>1, <3>1, <3>2 DEF WorkerIsCurrent, EntryOfBuild, OfBuild
  <2>2. CASE w[1] # scan'
    BY <1>1, <2>2, SameWorkerIsCurrent DEF Current
  <2>3. QED
    BY <2>1, <2>2
<1>7. results' = << >>
  BY <1>1 DEF IInv, IdleIsEmpty
<1>8. QED
  BY <1>2, <1>3, <1>5, <1>6, <1>7 DEF Current

\* A new worker is given an entry of this build (symbolic_parse:parallel_map/2).
LEMMA StartBatchIsCurrent ==
  ASSUME IInv, Current, StartBatch
  PROVE  Current'
<1> DEFINE Given(w) == w[1] = scan /\ \E i \in started + 1 .. BatchEnd : files[i] = w[2]
           fresh(w) == [NoWorker EXCEPT !.step = "reading", !.entry = Loaded[w[2]]]
<1>1. UNCHANGED <<world, cache, scan, phase, began, due, unseen, files, results, faults>>
  BY DEF StartBatch
<1>2. ASSUME NEW w \in Worker
      PROVE  worker'[w] = worker[w] \/ (w[1] = scan /\ worker'[w] = fresh(w))
  <2>1. worker'[w] = IF Given(w) THEN fresh(w) ELSE worker[w]
    BY DEF StartBatch
  <2> HIDE DEF fresh
  <2>2. QED
    BY <2>1
<1>3. ASSUME NEW w \in Worker
      PROVE  fresh(w).step = "reading" /\ fresh(w).entry = Loaded[w[2]]
  BY DEF NoWorker
<1> HIDE DEF fresh
<1>4. BeganBefore' /\ CacheIsOfItsVersion' /\ (\A f : Still(f)' <=> Still(f))
  BY <1>1 DEF Current, BeganBefore, CacheIsOfItsVersion, Still, world
<1>5. NobodyAhead'
  <2>1. \A w \in Worker : w[1] > scan => w[1] # scan
    BY DEF IInv, Types, Worker
  <2>2. QED
    BY <1>1, <1>2, <2>1 DEF Current, NobodyAhead
<1>6. ASSUME NEW w \in Worker PROVE WorkerIsCurrent(w)'
  <2>1. CASE worker'[w] = worker[w]
    BY <1>1, <1>4, <2>1, SameWorkerIsCurrent DEF Current, world
  <2>2. CASE worker'[w] = fresh(w)
    <3>1. EntryOfBuild(Loaded[w[2]], w[2])
      BY LoadedIsOfBuild DEF Worker
    <3>2. QED
      BY <1>1, <1>3, <2>2, <3>1 DEF WorkerIsCurrent, EntryOfBuild, OfBuild, world
  <2>3. QED
    BY <1>2, <2>1, <2>2
<1>7. ASSUME NEW i \in DOMAIN results' PROVE ResultIsCurrent(i)'
  BY <1>1, <1>4 DEF Current, ResultIsCurrent, EntryOfBuild, OfBuild, OfNow, world
<1>8. QED
  BY <1>4, <1>5, <1>6, <1>7 DEF Current

\* What is collected is as current as its worker (symbolic_parse:parallel_collect/3).
LEMMA CollectIsCurrent ==
  ASSUME IInv, Current, Collect
  PROVE  Current'
<1>1. PICK w \in Worker :
        /\ w = Awaited /\ worker' = [worker EXCEPT ![w] = NoWorker] /\ worker[w].step = "sent"
        /\ results' = Append(results, [facts |-> worker[w].facts, failed |-> worker[w].failed,
                                       entry |-> worker[w].entry])
  BY DEF Collect, CollectFrom
<1> DEFINE r == [facts |-> worker[w].facts, failed |-> worker[w].failed, entry |-> worker[w].entry]
<1>2. UNCHANGED <<disk, edits, build, cache, scan, phase, began, due, unseen, files, started>>
  BY DEF Collect, world
<1>3. /\ r.facts = worker[w].facts /\ r.failed = worker[w].failed /\ r.entry = worker[w].entry
      /\ w[1] = scan /\ w[2] = files[Len(results) + 1]
  BY <1>1 DEF Awaited
<1>4. results \in Seq(Result) /\ results' = Append(results, r)
  BY <1>1 DEF IInv, Types
<1> HIDE DEF r
<1>5. /\ Len(results') = Len(results) + 1 
      /\ \A i \in DOMAIN results' : \/ i \in DOMAIN results /\ results'[i] = results[i]
                                    \/ i = Len(results) + 1 /\ results'[i] = r
  BY <1>4
<1>6. BeganBefore' /\ CacheIsOfItsVersion' /\ (\A f : Still(f)' <=> Still(f))
  BY <1>2 DEF Current, BeganBefore, CacheIsOfItsVersion, Still
<1>7. worker'[w] = NoWorker /\ \A v \in Worker \ {w} : worker'[v] = worker[v]
  BY <1>1 DEF IInv, Types
<1>8. NobodyAhead'
  BY <1>2, <1>7, NothingIsFine DEF Current, NobodyAhead
<1>9. ASSUME NEW v \in Worker PROVE WorkerIsCurrent(v)'
  BY <1>2, <1>6, <1>7, SameWorkerIsCurrent, NoWorkerIsCurrent DEF Current
<1>10. ASSUME NEW i \in DOMAIN results' PROVE ResultIsCurrent(i)'
  <2>1. CASE i \in DOMAIN results /\ results'[i] = results[i]
    BY <1>2, <1>6, <2>1 DEF Current, ResultIsCurrent, EntryOfBuild, OfBuild, OfNow
  <2>2. CASE i = Len(results) + 1 /\ results'[i] = r
    <3>1. WorkerIsCurrent(w)
      BY DEF Current
    <3>2. QED
      BY <1>1, <1>2, <1>3, <1>6, <2>2, <3>1
         DEF WorkerIsCurrent, ResultIsCurrent, EntryOfBuild, OfBuild, OfNow
  <2>3. QED
    BY <1>5, <2>1, <2>2
<1>11. QED
  BY <1>6, <1>8, <1>9, <1>10 DEF Current

\* A crash leaves workers of no scan (symbolic_parse:parallel_collect/3).
LEMMA CollectCrashIsCurrent ==
  ASSUME IInv, Current, CollectCrash
  PROVE  Current'
<1>1. UNCHANGED <<build, cache>> /\ End
  BY DEF CollectCrash, world
<1>2. CacheIsOfItsVersion'
  BY <1>1 DEF Current, CacheIsOfItsVersion
<1>3. ASSUME NEW w \in Worker
      PROVE  \/ worker'[w] = NoWorker
             \/ UNCHANGED build /\ WorkerIsCurrent(w) /\ worker'[w] = worker[w]
             \/ /\ UNCHANGED build /\ WorkerIsCurrent(w)
                /\ worker'[w] = [worker[w] EXCEPT !.doomed = TRUE]
  <2>1. WorkerIsCurrent(w)
    BY DEF Current
  <2>2. worker'[w] = IF w[1] # scan THEN worker[w]
                     ELSE IF worker[w].step \in Running THEN [worker[w] EXCEPT !.doomed = TRUE]
                     ELSE NoWorker
    BY DEF CollectCrash
  <2>3. QED
    BY <1>1, <2>1, <2>2
<1>4. QED
  BY <1>1, <1>2, <1>3, EndIsCurrent

\* What is saved is of this build (symbolic_file_cache:write/2).
LEMMA PublishIsCurrent ==
  ASSUME IInv, Current, Publish
  PROVE  Current'
<1> DEFINE entry(f) == IF \E i \in DOMAIN results : files[i] = f /\ ~results[i].failed
                       THEN results[CHOOSE i \in DOMAIN results :
                                      files[i] = f /\ ~results[i].failed].entry
                       ELSE NoEntry
<1>1. UNCHANGED <<build, worker>> /\ End
  BY DEF Publish, world
<1>2. cache'.entry = [f \in SourceFile |-> entry(f)] /\ cache'.version = Version
  BY DEF Publish
<1>3. ASSUME NEW f \in SourceFile PROVE EntryOfBuild(entry(f), f)
  <2>1. CASE \E i \in DOMAIN results : files[i] = f /\ ~results[i].failed
    <3> DEFINE i == CHOOSE j \in DOMAIN results : files[j] = f /\ ~results[j].failed
    <3>1. i \in DOMAIN results /\ files[i] = f /\ ~results[i].failed
      BY <2>1
    <3>2. entry(f) = results[i].entry
      BY <2>1
    <3> HIDE DEF i, entry
    <3>3. ResultIsCurrent(i)
      BY <3>1 DEF Current
    <3>4. QED
      BY <3>1, <3>2, <3>3 DEF ResultIsCurrent
  <2>2. CASE ~ \E i \in DOMAIN results : files[i] = f /\ ~results[i].failed
    BY <2>2 DEF EntryOfBuild, NoEntry
  <2>3. QED
    BY <2>1, <2>2
<1> HIDE DEF entry
<1>4. CacheIsOfItsVersion'
  BY <1>2, <1>3 DEF CacheIsOfItsVersion, EntryOfBuild, OfBuild, Version
<1>5. QED
  BY <1>1, <1>4, EndIsCurrent DEF Current

\* What ends without a report leaves the cache, and another build no workers.
LEMMA UnreportedEndIsCurrent ==
  ASSUME IInv, Current, PublishFails \/ Cancel \/ Restart
  PROVE  Current'
<1>1. UNCHANGED cache /\ End
  BY DEF PublishFails, Cancel, Restart, world
<1>2. CacheIsOfItsVersion'
  BY <1>1 DEF Current, CacheIsOfItsVersion
<1>3. ASSUME NEW w \in Worker
      PROVE  worker'[w] = NoWorker \/ (UNCHANGED build /\ worker'[w] = worker[w])
  BY DEF PublishFails, Cancel, Restart, world
<1>4. QED
  BY <1>1, <1>2, <1>3, EndIsCurrent DEF Current

\* A program starts with no facts.
LEMMA InitIsCurrent == Init => Current
<1> SUFFICES ASSUME Init PROVE Current
  OBVIOUS
<1>1. /\ phase = "idle" /\ results = << >> /\ cache.entry = [f \in SourceFile |-> NoEntry]
      /\ worker = [w \in Worker |-> NoWorker]
  BY DEF Init
<1>2. BeganBefore /\ NobodyAhead /\ CacheIsOfItsVersion
  BY <1>1, NothingIsFine DEF BeganBefore, NobodyAhead, CacheIsOfItsVersion, NoEntry
<1>3. \A w \in Worker : WorkerIsCurrent(w)
  BY <1>1 DEF WorkerIsCurrent, EntryOfBuild, OfBuild, NoWorker, NoEntry
<1>4. QED
  BY <1>1, <1>2, <1>3 DEF Current

\* Every step leaves facts as current as the scan they are of.
LEMMA StepIsCurrent == IInv /\ Current /\ [Next]_vars => Current'
<1> SUFFICES ASSUME IInv, Current, [Next]_vars PROVE Current'
  OBVIOUS
<1>1. CASE Scanning
  BY <1>1, BeginIsCurrent, StartBatchIsCurrent, CollectIsCurrent, CollectCrashIsCurrent,
     PublishIsCurrent, UnreportedEndIsCurrent DEF Scanning
<1>2. CASE Cancel \/ Restart
  BY <1>2, UnreportedEndIsCurrent
<1>3. CASE \E f \in SourceFile : Edit(f)
  BY <1>3, EditIsCurrent
<1>4. CASE \E w \in Worker : Working(w)
  BY <1>4, ReadBytesIsCurrent, ExtractIsCurrent, RereadIsCurrent, CrashOrDieIsCurrent DEF Working
<1>5. CASE EditLayout \/ UNCHANGED vars
  <2>1. UNCHANGED <<disk, edits, build, cache, parent, worker>>
    BY <1>5 DEF EditLayout, vars, parent
  <2>2. BeganBefore' /\ NobodyAhead' /\ CacheIsOfItsVersion' /\ (\A f : Still(f)' <=> Still(f))
    BY <2>1 DEF Current, BeganBefore, NobodyAhead, CacheIsOfItsVersion, Still, parent
  <2>3. ASSUME NEW w \in Worker PROVE WorkerIsCurrent(w)'
    BY <2>1, <2>2, SameWorkerIsCurrent DEF Current, parent
  <2>4. ASSUME NEW i \in DOMAIN results' PROVE ResultIsCurrent(i)'
    BY <2>1, <2>2 DEF Current, ResultIsCurrent, EntryOfBuild, OfBuild, OfNow, parent
  <2>5. QED
    BY <2>2, <2>3, <2>4 DEF Current
<1>6. QED
  BY <1>1, <1>2, <1>3, <1>4, <1>5 DEF Next

------------------------------------------------------------------------------
(* What a scan speaks of *)

\* A scan that extracts has the files it should look at, each once, but for those
\* below a directory it could not inspect.
HasItsFiles ==
  /\ layout \in Layout /\ files \in Distinct(SourceFile)
  /\ due \subseteq SourceFile /\ unseen \subseteq Directory /\ ToSet(files) \subseteq due
  /\ \A f \in due \ ToSet(files) : \E dir \in unseen : IsStrictPrefix(dir, f)

\* Of no files there is nothing to look at.
LEMMA NoFilesAreDue ==
  << >> \in Distinct(SourceFile) /\ ToSet(<< >>) = {} /\ << >> \in Seq(SourceFile)
BY DEF Distinct, IsInjective, ToSet

LEMMA InitHasItsFiles == Init => HasItsFiles
BY NoFilesAreDue DEF Init, HasItsFiles

\* What is discovered is what is due then (symbolic_parse:scan_each/2); nothing
\* else gives a scan files.
LEMMA StepHasItsFiles == HasItsFiles /\ [Next]_vars => HasItsFiles'
<1> SUFFICES ASSUME HasItsFiles, [Next]_vars PROVE HasItsFiles'
  OBVIOUS
<1>1. CASE Begin
  <2>1. PICK fault \in Fault :
          ScanEach(Discovered(layout.roots, Present, layout.ignore, fault), fault)
    <3>1. Faults \union {NoFault} \subseteq Fault
      BY ScanAssumption DEF Fault
    <3>2. QED
      BY <1>1, <3>1 DEF Begin
  <2>2. /\ layout.roots \in Seq(Seq(STRING)) /\ layout.ignore \in Ignore
        /\ Present \in SUBSET SourceFile /\ layout' = layout
    BY <1>1, ScanAssumption DEF HasItsFiles, Present, Begin, world
  <2> DEFINE found == Discovered(layout.roots, Present, layout.ignore, fault)
             legible == Legible(layout.ignore, fault)
             all == Due(layout.roots, Present, legible, {})
             some == Due(layout.roots, Present, legible, Unseen(fault))
  <2>3. Failed \notin ToSet(found) => ToSet(found) = some /\ found \in Distinct(SourceFile)
    BY <2>2, DiscoveredIsDue
  <2>4. /\ some \subseteq all
        /\ \A f \in all \ some :
             f \in SourceFile /\ \E dir \in Unseen(fault) : IsStrictPrefix(dir, f)
    <3> HIDE DEF legible
    <3>1. QED
      BY <2>2, UnseenHideWhatIsBelow
  <2>5. \/ UNCHANGED <<files, due, unseen>>
        \/ /\ Failed \notin ToSet(found) /\ files' = found
           /\ due' = all /\ unseen' = Unseen(fault)
    BY <2>1 DEF ScanEach, Extracting
  <2>6. Unseen(fault) \subseteq Directory
    BY DEF Unseen
  <2>7. found \in Distinct(SourceFile) => ToSet(found) \subseteq SourceFile
    <3> HIDE DEF found
    <3>1. QED
      BY DEF Distinct, ToSet
  <2> HIDE DEF found, all, some
  <2>8. CASE UNCHANGED <<files, due, unseen>>
    BY <2>2, <2>8 DEF HasItsFiles
  <2>9. CASE /\ Failed \notin ToSet(found) /\ files' = found
             /\ due' = all /\ unseen' = Unseen(fault)
    BY <2>2, <2>3, <2>4, <2>6, <2>7, <2>9 DEF HasItsFiles
  <2>10. QED
    BY <2>5, <2>8, <2>9
<1>2. CASE End /\ UNCHANGED layout
  BY <1>2, NoFilesAreDue DEF End, HasItsFiles
<1>3. CASE UNCHANGED <<files, due, unseen>> /\ layout' \in Layout
  BY <1>3 DEF HasItsFiles
<1>4. \/ Begin
      \/ End /\ UNCHANGED layout
      \/ UNCHANGED <<files, due, unseen>> /\ layout' \in Layout
  <2>1. CASE CollectCrash \/ Publish \/ PublishFails \/ Cancel \/ Restart
    BY <2>1 DEF CollectCrash, Publish, PublishFails, Cancel, Restart, world
  <2>2. CASE StartBatch \/ Collect \/ EditLayout \/ UNCHANGED vars
    BY <2>2 DEF HasItsFiles, StartBatch, Collect, EditLayout, vars, world, parent
  <2>3. CASE \E f \in SourceFile : Edit(f)
    BY <2>3 DEF HasItsFiles, Edit, parent
  <2>4. CASE \E w \in Worker : Working(w)
    BY <2>4 DEF HasItsFiles, Working, ReadBytes, Extract, Reread, Crash, Die, world, parent
  <2>5. QED
    BY <2>1, <2>2, <2>3, <2>4 DEF Next, Scanning
<1>5. QED
  BY <1>1, <1>2, <1>3, <1>4

------------------------------------------------------------------------------
(* Types, with the bounds *)

ResultType == [facts : FactsType, failed : BOOLEAN, entry : EntryType]

WorldIsOfType ==
  /\ disk \in [SourceFile -> Gone .. MaxContent] /\ edits \in [SourceFile -> 0 .. MaxEdits]
  /\ build \in [Language -> 0 .. MaxBuilds] /\ faults \in 0 .. MaxFaults
  /\ cache.version \in [Hashed -> 0 .. MaxBuilds] /\ cache.entry \in [SourceFile -> EntryType]

\* Between scans there is nothing; within one, results, workers and files are
\* in step.
ScanIsOfType ==
  /\ scan \in 0 .. MaxScans /\ phase \in {"idle", "extracting"}
  /\ began \in [SourceFile -> 0 .. MaxEdits]
  /\ results \in Seq(ResultType) /\ started \in Nat /\ files \in Seq(SourceFile)
  /\ Len(results) <= started /\ started <= Len(files)
  /\ phase = "idle" => files = << >>

WorkersAreOfType == worker \in [Worker -> WorkerType]

Bounded == WorldIsOfType /\ ScanIsOfType /\ WorkersAreOfType

LEMMA BoundsAreNumbers ==
  /\ MaxContent \in Nat /\ MaxScans \in Nat /\ MaxEdits \in Nat /\ MaxFaults \in Nat
  /\ MaxBuilds \in Nat /\ MaxContent # 0 /\ Limit \in Nat
BY ScanAssumption

\* No facts, no entry and no worker are of their types.
LEMMA NothingIsOfType == NoFacts \in FactsType /\ NoEntry \in EntryType /\ NoWorker \in WorkerType
<1>1. NoFacts \in FactsType
  BY BoundsAreNumbers DEF NoFacts, FactsType, Gone
<1>2. NoEntry \in EntryType
  BY <1>1, BoundsAreNumbers DEF NoEntry, EntryType, Gone
<1>3. QED
  BY <1>1, <1>2, BoundsAreNumbers DEF NoWorker, WorkerType, Gone

\* A scan that ends leaves nothing.
LEMMA EndIsOfType ==
  ASSUME ScanIsOfType, End
  PROVE  ScanIsOfType'
<1>1. << >> \in Seq(ResultType) /\ << >> \in Seq(SourceFile) /\ Len(<< >>) = 0
  OBVIOUS
<1>2. Unedited \in [SourceFile -> 0 .. MaxEdits]
  BY BoundsAreNumbers DEF Unedited
<1>3. QED
  BY <1>1, <1>2 DEF ScanIsOfType, End

\* An entry of the cache is of its type, of whatever build it is.
LEMMA LoadedIsOfType ==
  ASSUME WorldIsOfType, NEW f \in SourceFile
  PROVE  Loaded[f] \in EntryType
BY NothingIsOfType DEF WorldIsOfType, Loaded

\* So are the facts of an extraction.
LEMMA ExtractionIsOfType ==
  ASSUME WorldIsOfType, NEW f \in SourceFile
  PROVE  Extraction(f) \in FactsType
<1>1. LanguageOf[f] \in Language /\ (Docs[f] = NoFile \/ Docs[f] \in SourceFile)
  BY ScanAssumption
<1>2. Gone \in Gone .. MaxContent
  BY BoundsAreNumbers DEF Gone
<1>3. QED
  BY <1>1, <1>2 DEF WorldIsOfType, Extraction, FactsType

\* A file that is read or is not read leaves the number of failures in bounds.
LEMMA ReadingIsOfType ==
  ASSUME WorldIsOfType, NEW f, Unreadable(f) \/ Readable(f),
         UNCHANGED <<disk, edits, build, cache>>
  PROVE  WorldIsOfType'
<1>1. faults' \in 0 .. MaxFaults
  BY BoundsAreNumbers DEF WorldIsOfType, Unreadable, Readable
<1>2. QED
  BY <1>1 DEF WorldIsOfType

\* One worker's step.
LEMMA SendIsOfType ==
  ASSUME WorkersAreOfType, NEW w \in Worker, NEW facts \in FactsType, NEW failed \in BOOLEAN,
         NEW entry \in EntryType, Send(w, facts, failed, entry)
  PROVE  WorkersAreOfType'
<1>1. worker[w] \in WorkerType
  BY DEF WorkersAreOfType
<1>2. [worker[w] EXCEPT !.step = "sent", !.facts = facts, !.failed = failed, !.entry = entry]
        \in WorkerType
  BY <1>1 DEF WorkerType
<1>3. QED
  BY <1>2 DEF Send, WorkersAreOfType

LEMMA WorkingIsOfType ==
  ASSUME IInv, Bounded, NEW w \in Worker, Working(w)
  PROVE  Bounded'
<1> DEFINE f == w[2]
           me == worker[w]
<1>1. /\ f \in SourceFile /\ me \in WorkerType /\ disk[f] \in Gone .. MaxContent
      /\ edits[f] \in 0 .. MaxEdits
  BY DEF Worker, Bounded, WorkersAreOfType, WorldIsOfType
<1>2. me.facts \in FactsType /\ me.entry \in EntryType /\ me.entry.facts \in FactsType
  BY <1>1 DEF WorkerType, EntryType
<1>3. /\ UNCHANGED <<disk, edits, build, cache, scan, phase, began, files, started, results>>
  BY DEF Working, ReadBytes, Extract, Reread, Crash, Die, world, parent
<1>4. ScanIsOfType'
  BY <1>3 DEF Bounded, ScanIsOfType
<1>5. WorldIsOfType'
  <2>1. CASE Unreadable(f) \/ Readable(f)
    BY <1>3, <2>1, ReadingIsOfType DEF Bounded
  <2>2. CASE Crash(w) \/ Die(w)
    <3>1. faults' \in 0 .. MaxFaults
      BY <2>2, BoundsAreNumbers DEF Crash, Die, Bounded, WorldIsOfType
    <3>2. QED
      BY <1>3, <3>1 DEF Bounded, WorldIsOfType
  <2>3. QED
    BY <2>1, <2>2 DEF Working, ReadBytes, Extract, Reread
<1>6. WorkersAreOfType'
  <2>1. CASE ReadBytes(w)
    <3>1. CASE Send(w, NoFacts, TRUE, NoEntry)
      BY <3>1, NothingIsOfType, SendIsOfType DEF Bounded
    <3>2. CASE Send(w, me.entry.facts, FALSE, me.entry)
      BY <1>2, <3>2, SendIsOfType DEF Bounded
    <3>3. CASE worker' = [worker EXCEPT ![w] = [@ EXCEPT !.step = "extracting",
                                                  !.bytes = disk[f], !.since = edits[f]]]
      <4>1. [me EXCEPT !.step = "extracting", !.bytes = disk[f], !.since = edits[f]] \in WorkerType
        BY <1>1 DEF WorkerType, Running
      <4>2. QED
        BY <3>3, <4>1 DEF Bounded, WorkersAreOfType
    <3>4. QED
      BY <2>1, <3>1, <3>2, <3>3 DEF ReadBytes
  <2>2. CASE Extract(w)
    <3>1. /\ [me EXCEPT !.step = "rereading", !.failed = TRUE] \in WorkerType
          /\ [me EXCEPT !.step = "rereading", !.facts = Extraction(f)] \in WorkerType
      BY <1>1, ExtractionIsOfType DEF WorkerType, Running, Bounded
    <3>2. QED
      BY <2>2, <3>1 DEF Extract, Bounded, WorkersAreOfType
  <2>3. CASE Reread(w)
    <3> DEFINE entry == [hash |-> me.bytes, facts |-> me.facts, moved |-> edits[f] - me.since]
    <3>1. CASE Send(w, me.facts, TRUE, NoEntry) \/ Send(w, NoFacts, TRUE, NoEntry)
      BY <1>2, <3>1, NothingIsOfType, SendIsOfType DEF Bounded
    <3>2. CASE ~me.failed /\ Send(w, me.facts, FALSE, entry)
      <4>1. me.since <= edits[f]
        BY <2>3, <3>2 DEF IInv, WorkersAreSound, Sound, ChangeIsCounted, Reread
      <4>2. me.since \in 0 .. MaxEdits /\ me.bytes \in Gone .. MaxContent
        BY <1>1 DEF WorkerType
      <4>3. edits[f] - me.since \in 0 .. MaxEdits
        BY <1>1, <4>1, <4>2, BoundsAreNumbers
      <4>4. entry \in EntryType
        BY <1>2, <4>2, <4>3 DEF EntryType
      <4> HIDE DEF entry
      <4>5. QED
        BY <1>2, <3>2, <4>4, SendIsOfType DEF Bounded
    <3>3. QED
      BY <2>3, <3>1, <3>2 DEF Reread
  <2>4. CASE Crash(w) \/ Die(w)
    <3>1. [me EXCEPT !.step = "crashed"] \in WorkerType
      BY <1>1 DEF WorkerType
    <3>2. QED
      BY <2>4, <3>1, NothingIsOfType DEF Crash, Die, Bounded, WorkersAreOfType
  <2>5. QED
    BY <2>1, <2>2, <2>3, <2>4 DEF Working
<1>7. QED
  BY <1>4, <1>5, <1>6 DEF Bounded

\* The actions of the world.
LEMMA WorldStepIsOfType ==
  ASSUME Bounded, EditLayout \/ (\E f \in SourceFile : Edit(f)) \/ UNCHANGED vars
  PROVE  Bounded'
<1>1. CASE EditLayout \/ UNCHANGED vars
  BY <1>1 DEF EditLayout, vars, parent, Bounded, WorldIsOfType, ScanIsOfType, WorkersAreOfType
<1>2. ASSUME NEW f \in SourceFile, Edit(f) PROVE Bounded'
  <2>1. UNCHANGED <<build, cache, scan, phase, began, files, started, results, worker, faults>>
    BY <1>2 DEF Edit, parent
  <2>2. PICK content \in Gone .. MaxContent : disk' = [disk EXCEPT ![f] = content]
    BY <1>2 DEF Edit
  <2>3. disk' \in [SourceFile -> Gone .. MaxContent]
    BY <2>2 DEF Bounded, WorldIsOfType
  <2>4. edits[f] + 1 \in 0 .. MaxEdits /\ edits' = [edits EXCEPT ![f] = edits[f] + 1]
    BY <1>2, BoundsAreNumbers DEF Edit, Bounded, WorldIsOfType
  <2>5. edits' \in [SourceFile -> 0 .. MaxEdits]
    BY <2>4 DEF Bounded, WorldIsOfType
  <2>6. QED
    BY <2>1, <2>3, <2>5 DEF Bounded, WorldIsOfType, ScanIsOfType, WorkersAreOfType
<1>3. QED
  BY <1>1, <1>2

\* The start of a scan (symbolic_parse:scan_each/2).
LEMMA BeginIsOfType ==
  ASSUME IInv, HasItsFiles', Bounded, Begin
  PROVE  Bounded'
<1>1. /\ UNCHANGED <<disk, edits, build, cache, started, results, worker>>
      /\ phase = "idle" /\ scan < MaxScans /\ scan' = scan + 1
  BY DEF Begin, world
<1>2. faults' \in 0 .. MaxFaults
  BY BoundsAreNumbers DEF Begin, Bounded, WorldIsOfType
<1>3. /\ phase' \in {"idle", "extracting"}
      /\ phase' = "idle" => files' = files
      /\ began' = began \/ began' = edits
  BY <1>1 DEF Begin, ScanEach, Extracting
<1>4. files' \in Seq(SourceFile) /\ Len(files') \in Nat
  BY DEF HasItsFiles, Distinct
<1>5. files = << >> /\ started = 0 /\ Len(results) = 0
  <2>1. files = << >> /\ results = << >>
    BY <1>1 DEF Bounded, ScanIsOfType, IInv, IdleIsEmpty
  <2>2. started \in Nat /\ started <= 0
    BY <2>1 DEF Bounded, ScanIsOfType
  <2>3. QED
    BY <2>1, <2>2
<1>6. scan' \in 0 .. MaxScans
  BY <1>1, BoundsAreNumbers DEF Bounded, ScanIsOfType
<1>7. Len(results') <= started' /\ started' <= Len(files')
  BY <1>1, <1>4, <1>5
<1>8. ScanIsOfType'
  BY <1>1, <1>3, <1>4, <1>5, <1>6, <1>7 DEF Bounded, ScanIsOfType, WorldIsOfType
<1>9. QED
  BY <1>1, <1>2, <1>8 DEF Bounded, WorldIsOfType, WorkersAreOfType

\* No batch goes beyond the files (symbolic_parse:parallel_map/2).
LEMMA StartBatchIsOfType ==
  ASSUME Bounded, StartBatch
  PROVE  Bounded'
<1>1. /\ UNCHANGED <<disk, edits, build, cache, scan, phase, began, files, results, faults>>
      /\ Len(results) = started /\ started < Len(files) /\ started' = BatchEnd
  BY DEF StartBatch, world
<1>2. started \in Nat /\ Len(files) \in Nat
  BY DEF Bounded, ScanIsOfType
<1>3. started' \in Nat /\ started <= started' /\ started' <= Len(files)
  BY <1>1, <1>2, BoundsAreNumbers DEF BatchEnd
<1>4. ScanIsOfType'
  BY <1>1, <1>3 DEF Bounded, ScanIsOfType
<1>5. ASSUME NEW w \in Worker
      PROVE  [NoWorker EXCEPT !.step = "reading", !.entry = Loaded[w[2]]] \in WorkerType
  <2>1. Loaded[w[2]] \in EntryType
    BY LoadedIsOfType DEF Bounded, Worker
  <2>2. QED
    BY <2>1, NothingIsOfType DEF WorkerType, Running
<1>6. WorkersAreOfType'
  BY <1>5 DEF StartBatch, Bounded, WorkersAreOfType
<1>7. QED
  BY <1>1, <1>4, <1>6 DEF Bounded, WorldIsOfType

\* No more is collected than was started (symbolic_parse:parallel_collect/3).
LEMMA CollectIsOfType ==
  ASSUME Bounded, Collect
  PROVE  Bounded'
<1>1. PICK w \in Worker :
        /\ worker' = [worker EXCEPT ![w] = NoWorker]
        /\ results' = Append(results, [facts |-> worker[w].facts, failed |-> worker[w].failed,
                                       entry |-> worker[w].entry])
  BY DEF Collect
<1> DEFINE r == [facts |-> worker[w].facts, failed |-> worker[w].failed, entry |-> worker[w].entry]
<1>2. /\ UNCHANGED <<disk, edits, build, cache, scan, phase, began, files, started, faults>>
      /\ Len(results) < started
  BY DEF Collect, world
<1>3. r \in ResultType
  BY DEF Bounded, WorkersAreOfType, WorkerType, ResultType
<1> HIDE DEF r
<1>4. results \in Seq(ResultType) /\ started \in Nat /\ results' = Append(results, r)
  BY <1>1 DEF Bounded, ScanIsOfType, r
<1>5. results' \in Seq(ResultType) /\ Len(results') <= started
  BY <1>2, <1>3, <1>4
<1>6. ScanIsOfType'
  BY <1>2, <1>5 DEF Bounded, ScanIsOfType
<1>7. WorkersAreOfType'
  BY <1>1, NothingIsOfType DEF Bounded, WorkersAreOfType
<1>8. QED
  BY <1>2, <1>6, <1>7 DEF Bounded, WorldIsOfType

\* The version of the cache is the build's (symbolic_file_cache:version/0).
LEMMA VersionIsOfType ==
  ASSUME WorldIsOfType
  PROVE  Version \in [Hashed -> 0 .. MaxBuilds]
BY ScanAssumption DEF WorldIsOfType, Version

\* What a scan leaves behind when it ends.
LEMMA EndingIsOfType ==
  ASSUME Bounded, Publish \/ PublishFails \/ CollectCrash \/ Cancel \/ Restart
  PROVE  Bounded'
<1>1. End /\ UNCHANGED <<disk, edits>>
  BY DEF Publish, PublishFails, CollectCrash, Cancel, Restart, world
<1>2. ScanIsOfType'
  BY <1>1, EndIsOfType DEF Bounded
<1>3. WorkersAreOfType'
  <2>1. CASE CollectCrash
    <3>1. \A w \in Worker : [worker[w] EXCEPT !.doomed = TRUE] \in WorkerType
      BY DEF Bounded, WorkersAreOfType, WorkerType
    <3>2. QED
      BY <2>1, <3>1, NothingIsOfType DEF CollectCrash, Bounded, WorkersAreOfType
  <2>2. CASE ~CollectCrash
    BY <2>2, NothingIsOfType
       DEF Publish, PublishFails, Cancel, Restart, Bounded, WorkersAreOfType
  <2>3. QED
    BY <2>1, <2>2
<1>4. build' \in [Language -> 0 .. MaxBuilds]
  <2>1. CASE Restart
    <3>1. PICK l \in Language : build[l] < MaxBuilds /\ build' = [build EXCEPT ![l] = @ + 1]
      BY <2>1 DEF Restart
    <3>2. build[l] + 1 \in 0 .. MaxBuilds
      BY <3>1, BoundsAreNumbers DEF Bounded, WorldIsOfType
    <3>3. QED
      BY <3>1, <3>2 DEF Bounded, WorldIsOfType
  <2>2. CASE ~Restart
    BY <2>2 DEF Publish, PublishFails, CollectCrash, Cancel, world, Bounded, WorldIsOfType
  <2>3. QED
    BY <2>1, <2>2
<1>5. faults' \in 0 .. MaxFaults
  BY BoundsAreNumbers
     DEF Publish, PublishFails, CollectCrash, Cancel, Restart, Bounded, WorldIsOfType
<1>6. cache'.version \in [Hashed -> 0 .. MaxBuilds] /\ cache'.entry \in [SourceFile -> EntryType]
  <2>1. CASE Publish
    <3> DEFINE entry(f) == IF \E i \in DOMAIN results : files[i] = f /\ ~results[i].failed
                           THEN results[CHOOSE i \in DOMAIN results :
                                          files[i] = f /\ ~results[i].failed].entry
                           ELSE NoEntry
    <3>1. cache' = [version |-> Version, entry |-> [f \in SourceFile |-> entry(f)]]
      BY <2>1 DEF Publish
    <3>2. \A i \in DOMAIN results : results[i].entry \in EntryType
      <4>1. \A i \in DOMAIN results : results[i] \in ResultType
        BY DEF Bounded, ScanIsOfType
      <4>2. QED
        BY <4>1 DEF ResultType
    <3>3. \A f \in SourceFile : entry(f) \in EntryType
      BY <3>2, NothingIsOfType
    <3> HIDE DEF entry
    <3>4. QED
      BY <3>1, <3>3, VersionIsOfType DEF Bounded
  <2>2. CASE ~Publish
    BY <2>2 DEF PublishFails, CollectCrash, Cancel, Restart, Bounded, WorldIsOfType
  <2>3. QED
    BY <2>1, <2>2
<1>7. QED
  BY <1>1, <1>2, <1>3, <1>4, <1>5, <1>6 DEF Bounded, WorldIsOfType

\* The types hold of a program's start.
LEMMA InitIsOfType == Init => Bounded
<1> SUFFICES ASSUME Init PROVE Bounded
  OBVIOUS
<1>1. 1 \in Gone .. MaxContent /\ 0 \in 0 .. MaxEdits /\ 0 \in 0 .. MaxBuilds
      /\ 0 \in 0 .. MaxFaults /\ 0 \in 0 .. MaxScans
  BY BoundsAreNumbers DEF Gone
<1>2. Unedited \in [SourceFile -> 0 .. MaxEdits]
  BY <1>1 DEF Unedited
<1>3. disk \in [SourceFile -> Gone .. MaxContent] /\ build \in [Language -> 0 .. MaxBuilds]
  BY <1>1 DEF Init
<1>4. Version \in [Hashed -> 0 .. MaxBuilds]
  BY <1>3, ScanAssumption DEF Version
<1>5. WorldIsOfType
  BY <1>1, <1>2, <1>3, <1>4, NothingIsOfType DEF Init, WorldIsOfType
<1>6. << >> \in Seq(ResultType) /\ << >> \in Seq(SourceFile) /\ Len(<< >>) = 0
  OBVIOUS
<1>7. ScanIsOfType
  BY <1>1, <1>2, <1>6 DEF Init, ScanIsOfType
<1>8. WorkersAreOfType
  BY NothingIsOfType DEF Init, WorkersAreOfType
<1>9. QED
  BY <1>5, <1>7, <1>8 DEF Bounded

\* Every step keeps them.
LEMMA StepIsOfType == IInv /\ HasItsFiles' /\ Bounded /\ [Next]_vars => Bounded'
<1> SUFFICES ASSUME IInv, HasItsFiles', Bounded, [Next]_vars PROVE Bounded'
  OBVIOUS
<1>1. CASE Begin
  BY <1>1, BeginIsOfType
<1>2. CASE StartBatch
  BY <1>2, StartBatchIsOfType
<1>3. CASE Collect
  BY <1>3, CollectIsOfType
<1>4. CASE Publish \/ PublishFails \/ CollectCrash \/ Cancel \/ Restart
  BY <1>4, EndingIsOfType
<1>5. CASE EditLayout \/ (\E f \in SourceFile : Edit(f)) \/ UNCHANGED vars
  BY <1>5, WorldStepIsOfType
<1>6. CASE \E w \in Worker : Working(w)
  BY <1>6, WorkingIsOfType
<1>7. QED
  BY <1>1, <1>2, <1>3, <1>4, <1>5, <1>6 DEF Next, Scanning

------------------------------------------------------------------------------
(* Theorems *)

\* The invariant holds in every state of every run.
THEOREM Invariant == Spec => []IInv
BY InitHolds, StepKeeps, PTL DEF Spec

\* No facts are reported or saved under a hash that is not their bytes' unless
\* the file changed twice while it was extracted (symbolic_parse:extract_cached/2).
THEOREM FactsAreOfTheirHash == Spec => []OneChangeIsCaught
<1>1. IInv => OneChangeIsCaught
  BY DEF IInv, CacheNames, ResultsName, OneChangeIsCaught
<1>2. QED
  BY <1>1, Invariant, PTL

\* A scan that is given files has those the documentation promises at that
\* moment, of any tree and any rules, each once (symbolic_parse:scan_each/2,
\* walk/3, symbolic_gitignore:ignored_scopes/3).
LEMMA ScansHaveTheirFiles == Spec => []HasItsFiles
BY InitHasItsFiles, StepHasItsFiles, PTL DEF Spec

\* So has every report: nothing is there twice, and nothing is missing but what
\* is below a directory that could not be inspected.
THEOREM ReportsAreWhole == Spec => []NothingIsMissing
<1>1. HasItsFiles => NothingIsMissing
  BY DistinctCounts DEF HasItsFiles, NothingIsMissing
<1>2. QED
  BY <1>1, ScansHaveTheirFiles, PTL

\* A report says of every file what this build's extractor would say, and of one
\* that did not change meanwhile what it would say now, the cache and the
\* results of other files and scans notwithstanding (symbolic_parse:extract_cached/2,
\* parallel_collect/3, symbolic_file_cache:version/0).
THEOREM ReportsAreCurrent == Spec => []ReportIsCurrent
<1>1. Spec => []Current
  BY InitHolds, StepKeeps, InitIsCurrent, StepIsCurrent, PTL DEF Spec
<1>2. IInv /\ Current /\ HasItsFiles => ReportIsCurrent
  <2> SUFFICES ASSUME IInv, Current, HasItsFiles, Reported, NEW i \in DOMAIN results,
                      ~results[i].failed
               PROVE  /\ began[files[i]] = edits[files[i]] =>
                           \/ results[i].facts.content = Extraction(files[i]).content
                           \/ results[i].entry.moved >= 2
                      /\ LanguageOf[files[i]] \in Hashed =>
                           results[i].facts.code = Extraction(files[i]).code
    BY DEF ReportIsCurrent
  <2>1. files \in Seq(SourceFile) /\ results \in Seq(Result) /\ Len(results) = Len(files)
    BY DEF HasItsFiles, Distinct, IInv, Types, Reported
  <2>2. files[i] \in SourceFile
    BY <2>1
  <2>3. ResultIsCurrent(i) /\ (began[files[i]] = edits[files[i]] => Still(files[i]))
    BY <2>2 DEF Current, Still, Reported
  <2>4. QED
    BY <2>3 DEF ResultIsCurrent, OfBuild, OfNow, Extraction
<1>3. QED
  BY <1>1, <1>2, Invariant, ScansHaveTheirFiles, PTL

\* Every variable has its type, and results, workers and files are in step.
THEOREM TypeCorrect == Spec => []TypeOK
<1>1. HasItsFiles /\ Bounded => TypeOK
  <2> SUFFICES ASSUME HasItsFiles, Bounded PROVE TypeOK
    OBVIOUS
  <2>1. ToSet(files) \subseteq SourceFile
    BY DEF Bounded, ScanIsOfType, ToSet
  <2>2. QED
    BY <2>1 DEF HasItsFiles, Bounded, WorldIsOfType, ScanIsOfType, WorkersAreOfType, TypeOK
<1>2. Spec => [](HasItsFiles /\ Bounded)
  BY Invariant, InitHasItsFiles, StepHasItsFiles, InitIsOfType, StepIsOfType, PTL DEF Spec
<1>3. QED
  BY <1>1, <1>2, PTL
===============================================================================
