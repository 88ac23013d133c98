-------------------------------- MODULE Scan --------------------------------
(***************************************************************************)
(* Scans of a project (symbolic_parse): discover the files, extract them   *)
(* in batches of worker processes with a per-file cache, and hand the      *)
(* report to what persists it.  The files change while a scan runs; a      *)
(* worker, the scanning process or the program may die; the next program   *)
(* may be another build.                                                   *)
(*                                                                         *)
(* A file's content is a number and so is its hash: SHA-256 tells any two  *)
(* contents apart.  The facts of a file are what they were made from: its  *)
(* content, that of the file a -moduledoc({file, ...}) names, and the      *)
(* build of its language's extractor.  The cache is the database's sidecar *)
(* or the memory of the project's entry; both come with the build they     *)
(* were written by.                                                        *)
(***************************************************************************)
EXTENDS Discovery

CONSTANTS
  Layout,      \* what a run may find: records of `roots` and `ignore`
  Docs,        \* the file a source's facts are also made from, or NoFile
  NoFile,
  Language,
  LanguageOf,  \* the language of a source file
  Hashed,      \* the languages whose extractor version/0 takes into account
  Limit,       \* ?MAX_SCAN_WORKERS
  Edited,      \* bound: the files that change
  Faults,      \* bound: the calls of a discovery that may fail
  MaxContent, MaxScans, MaxEdits, MaxFaults, MaxBuilds  \* bounds

ASSUME ScanAssumption ==
  /\ Layout \subseteq [roots : Seq(Seq(STRING)), ignore : Ignore]
  /\ Docs \in [SourceFile -> SourceFile \union {NoFile}]
  /\ LanguageOf \in [SourceFile -> Language] /\ Hashed \subseteq Language
  /\ Limit \in Nat \ {0} /\ Edited \subseteq SourceFile /\ Faults \subseteq Fault
  /\ {MaxContent, MaxScans, MaxEdits, MaxFaults, MaxBuilds} \subseteq Nat /\ MaxContent # 0

VARIABLES
  disk,    \* the content of each source file, or Gone
  edits,   \* how often each file has changed
  layout,  \* the configured paths and the ignore rules
  build,   \* the build of each language's extractor
  cache,   \* the per-file cache: `version` and `entry`
  scan,    \* the number of the last scan
  phase,   \* "idle" or "extracting"
  began,   \* the edits of each file made before this scan began
  due,     \* the files this scan should look at
  unseen,  \* the directories it could not inspect, and took for files
  files,   \* the files it discovered
  started, \* how many of them have been given a worker
  results, \* what parallel_collect/3 has returned, in order
  worker,  \* the workers of every scan
  faults   \* failures so far

vars == <<disk, edits, layout, build, cache, scan, phase, began, due, unseen,
          files, started, results, worker, faults>>
world  == <<disk, edits, layout, build>>
parent == <<scan, phase, began, due, unseen, files, started, results>>

Gone    == 0
Present == {f \in SourceFile : disk[f] # Gone}
Unedited == [f \in SourceFile |-> 0]

NoFacts == [content |-> Gone, doc |-> Gone, code |-> 0]
NoEntry == [hash |-> Gone, facts |-> NoFacts, moved |-> 0]
NoWorker == [step |-> "none", doomed |-> FALSE, entry |-> NoEntry, bytes |-> Gone,
             since |-> 0, facts |-> NoFacts, failed |-> FALSE]
Worker == (1 .. MaxScans) \X SourceFile

\* What ts_extract:file/1 makes of a file now.
Extraction(f) == [content |-> disk[f],
                  doc     |-> IF Docs[f] = NoFile THEN Gone ELSE disk[Docs[f]],
                  code    |-> build[LanguageOf[f]]]

\* symbolic_file_cache:version/0.
Version == [l \in Hashed |-> build[l]]

\* Mutant of Loaded: the sidecar's version is not compared.
Loaded_AnyVersion == cache.entry

\* Another build's cache is a cache of nothing.
Loaded == IF cache.version = Version THEN cache.entry ELSE [f \in SourceFile |-> NoEntry]

Init ==
  /\ disk = [f \in SourceFile |-> 1] /\ edits = Unedited
  /\ layout \in Layout
  /\ build = [l \in Language |-> 0]
  /\ cache = [version |-> Version, entry |-> [f \in SourceFile |-> NoEntry]]
  /\ scan = 0 /\ phase = "idle" /\ began = Unedited
  /\ due = {} /\ unseen = {} /\ files = << >>
  /\ started = 0 /\ results = << >>
  /\ worker = [w \in Worker |-> NoWorker] /\ faults = 0

\* Nothing of a scan outlives it but its report.
End == /\ phase' = "idle" /\ began' = Unedited /\ due' = {} /\ unseen' = {} /\ files' = << >>
       /\ started' = 0 /\ results' = << >> /\ UNCHANGED scan

------------------------------------------------------------------------------
(* The world: editors, and the start of another program *)

Edit(f) ==
  /\ f \in Edited /\ edits[f] < MaxEdits
  /\ \E content \in (Gone .. MaxContent) \ {disk[f]} : disk' = [disk EXCEPT ![f] = content]
  /\ edits' = [edits EXCEPT ![f] = @ + 1]
  /\ UNCHANGED <<layout, build, cache, parent, worker, faults>>

\* The rules or the configured paths change between two scans.
EditLayout ==
  /\ phase = "idle" /\ scan > 0 /\ scan < MaxScans
  /\ layout' \in Layout \ {layout}
  /\ UNCHANGED <<disk, edits, build, cache, parent, worker, faults>>

\* The program ends with everything it runs and the next is another build, with
\* a new extractor.
Restart ==
  /\ scan > 0 /\ scan < MaxScans
  /\ \E l \in Language : build[l] < MaxBuilds /\ build' = [build EXCEPT ![l] = @ + 1]
  /\ End /\ worker' = [w \in Worker |-> NoWorker]
  /\ UNCHANGED <<disk, edits, layout, cache, faults>>

------------------------------------------------------------------------------
(* A worker: extract_cached/2 *)

\* The worker sends its result and ends.
Send(w, facts, failed, entry) ==
  worker' = [worker EXCEPT ![w] = [@ EXCEPT !.step = "sent", !.facts = facts,
                                            !.failed = failed, !.entry = entry]]

\* A file cannot be read when it is gone, or for a reason of the system's.
Unreadable(f) ==
  \/ disk[f] = Gone /\ UNCHANGED faults
  \/ disk[f] # Gone /\ faults < MaxFaults /\ faults' = faults + 1

Readable(f) == disk[f] # Gone /\ UNCHANGED faults

ReadBytes(w) ==
  LET f == w[2]  known == worker[w].entry IN
  /\ worker[w].step = "reading"
  /\ \/ Unreadable(f) /\ Send(w, NoFacts, TRUE, NoEntry)
     \/ Readable(f) /\ known.hash = disk[f] /\ Send(w, known.facts, FALSE, known)
     \/ /\ Readable(f) /\ known.hash # disk[f]
        /\ worker' = [worker EXCEPT ![w] = [@ EXCEPT !.step = "extracting", !.bytes = disk[f],
                                                     !.since = edits[f]]]
  /\ UNCHANGED <<world, cache, parent>>

\* The extractor reads the file itself; whatever it raises, on a file it cannot
\* read or one it cannot parse, is caught.
Extract(w) ==
  /\ worker[w].step = "extracting"
  /\ \/ /\ Unreadable(w[2])
        /\ worker' = [worker EXCEPT ![w] = [@ EXCEPT !.step = "rereading", !.failed = TRUE]]
     \/ /\ Readable(w[2])
        /\ worker' = [worker EXCEPT ![w] = [@ EXCEPT !.step = "rereading",
                                                     !.facts = Extraction(w[2])]]
  /\ UNCHANGED <<world, cache, parent>>

\* Mutant of Reread: the bytes are not compared with what was read before.
Reread_Trusting(w) ==
  LET f == w[2]  me == worker[w] IN
  /\ me.step = "rereading"
  /\ \/ Unreadable(f) /\ Send(w, me.facts, TRUE, NoEntry)
     \/ Readable(f) /\ me.failed /\ Send(w, me.facts, TRUE, NoEntry)
     \/ /\ Readable(f) /\ ~me.failed
        /\ Send(w, me.facts, FALSE, [hash |-> me.bytes, facts |-> me.facts,
                                     moved |-> edits[f] - me.since])
  /\ UNCHANGED <<world, cache, parent>>

\* What changed while it was extracted is neither reported nor cached.
Reread(w) ==
  LET f == w[2]  me == worker[w] IN
  /\ me.step = "rereading"
  /\ \/ Unreadable(f) /\ Send(w, me.facts, TRUE, NoEntry)
     \/ Readable(f) /\ me.failed /\ Send(w, me.facts, TRUE, NoEntry)
     \/ Readable(f) /\ ~me.failed /\ disk[f] # me.bytes /\ Send(w, NoFacts, TRUE, NoEntry)
     \/ /\ Readable(f) /\ ~me.failed /\ disk[f] = me.bytes
        /\ Send(w, me.facts, FALSE, [hash |-> me.bytes, facts |-> me.facts,
                                     moved |-> edits[f] - me.since])
  /\ UNCHANGED <<world, cache, parent>>

Running == {"reading", "extracting", "rereading"}

\* Something the per-file rescue does not catch.
Crash(w) ==
  /\ worker[w].step \in Running /\ faults < MaxFaults
  /\ faults' = faults + 1 /\ worker' = [worker EXCEPT ![w].step = "crashed"]
  /\ UNCHANGED <<world, cache, parent>>

\* The kill of an abandoned batch arrives; until then its workers go on.
Die(w) ==
  /\ worker[w].doomed /\ worker[w].step \in Running
  /\ worker' = [worker EXCEPT ![w] = NoWorker]
  /\ UNCHANGED <<world, cache, parent, faults>>

------------------------------------------------------------------------------
(* The scanning process *)

\* A scan of these files begins.
Extracting(found, fault) ==
  /\ phase' = "extracting" /\ files' = found /\ began' = edits /\ unseen' = Unseen(fault)
  /\ due' = Due(layout.roots, Present, Legible(layout.ignore, fault), {})

\* Mutant of ScanEach: a path that cannot be walked counts as an empty one.
ScanEach_Skips(found, fault) == Extracting(SelectSeq(found, LAMBDA f : f # Failed), fault)

\* Mutant of ScanEach: what a walk threw is taken for a file.
ScanEach_Keeps(found, fault) == Extracting(found, fault)

\* One path that cannot be walked ends the scan.
ScanEach(found, fault) ==
  \/ Failed \in ToSet(found) /\ UNCHANGED <<phase, files, began, due, unseen>>
  \/ Failed \notin ToSet(found) /\ Extracting(found, fault)

\* A scan begins by discovering its files.
Begin ==
  /\ phase = "idle" /\ scan < MaxScans
  /\ scan' = scan + 1
  /\ \E fault \in Faults \union {NoFault} :
       /\ fault # NoFault => faults < MaxFaults
       /\ faults' = IF fault = NoFault THEN faults ELSE faults + 1
       /\ ScanEach(Discovered(layout.roots, Present, layout.ignore, fault), fault)
  /\ UNCHANGED <<world, cache, started, results, worker>>

BatchEnd == IF Len(files) < started + Limit THEN Len(files) ELSE started + Limit

\* The next eight, once the last ones are collected; each is given its own
\* entry of the cache.
StartBatch ==
  /\ phase = "extracting" /\ Len(results) = started /\ started < Len(files)
  /\ started' = BatchEnd
  /\ worker' = [w \in Worker |->
       IF w[1] = scan /\ \E i \in started + 1 .. BatchEnd : files[i] = w[2]
       THEN [NoWorker EXCEPT !.step = "reading", !.entry = Loaded[w[2]]]
       ELSE worker[w]]
  /\ UNCHANGED <<world, cache, scan, phase, began, due, unseen, files, results, faults>>

Awaited == <<scan, files[Len(results) + 1]>>

\* Mutant of CollectFrom: any result in the mailbox will do.
CollectFrom_Any == {w \in Worker : worker[w].step = "sent"}

CollectFrom == {Awaited}

Collect ==
  /\ phase = "extracting" /\ Len(results) < started
  /\ \E w \in CollectFrom \intersect Worker :
       /\ worker[w].step = "sent"
       /\ results' = Append(results, [facts |-> worker[w].facts, failed |-> worker[w].failed,
                                      entry |-> worker[w].entry])
       /\ worker' = [worker EXCEPT ![w] = NoWorker]
  /\ UNCHANGED <<world, cache, scan, phase, began, due, unseen, files, started, faults>>

\* Mutant of CollectCrash: the 'DOWN' of a worker is not received.
CollectCrash_Deaf ==
  /\ phase = "extracting" /\ Len(results) < started /\ worker[Awaited].step = "crashed"
  /\ UNCHANGED vars

\* The batch is killed and what it has sent is flushed; the crash is raised.
CollectCrash ==
  /\ phase = "extracting" /\ Len(results) < started /\ worker[Awaited].step = "crashed"
  /\ End
  /\ worker' = [w \in Worker |->
       IF w[1] # scan THEN worker[w]
       ELSE IF worker[w].step \in Running THEN [worker[w] EXCEPT !.doomed = TRUE] ELSE NoWorker]
  /\ UNCHANGED <<world, cache, faults>>

\* A refresh is killed.  Its workers run on, but read files and answer nobody.
Cancel ==
  /\ phase = "extracting" /\ End
  /\ worker' = [w \in Worker |-> NoWorker]
  /\ UNCHANGED <<world, cache, faults>>

Reported == phase = "extracting" /\ Len(results) = Len(files)

\* The report is analysed and saved, its entries with it.
Publish ==
  /\ Reported /\ End
  /\ cache' = [version |-> Version,
               entry |-> [f \in SourceFile |->
                 IF \E i \in DOMAIN results : files[i] = f /\ ~results[i].failed
                 THEN results[CHOOSE i \in DOMAIN results : files[i] = f /\ ~results[i].failed].entry
                 ELSE NoEntry]]
  /\ UNCHANGED <<world, worker, faults>>

\* Analysing, loading or saving it fails.
PublishFails ==
  /\ Reported /\ faults < MaxFaults /\ End
  /\ faults' = faults + 1
  /\ UNCHANGED <<world, cache, worker>>

Scanning == Begin \/ StartBatch \/ Collect \/ CollectCrash \/ Publish \/ PublishFails
Working(w) == ReadBytes(w) \/ Extract(w) \/ Reread(w) \/ Crash(w) \/ Die(w)

Next ==
  \/ Scanning \/ Cancel \/ EditLayout \/ Restart
  \/ \E f \in SourceFile : Edit(f)
  \/ \E w \in Worker : Working(w)

\* While the scanning process or a worker has something to do, one of them does
\* it; extraction returns.
Progress ==
  \/ StartBatch \/ Collect \/ CollectCrash \/ Publish
  \/ \E w \in Worker : ReadBytes(w) \/ Extract(w) \/ Reread(w) \/ Die(w)

Spec == Init /\ [][Next]_vars /\ WF_vars(Progress)

------------------------------------------------------------------------------
(* Properties *)

FactsType == [content : Gone .. MaxContent, doc : Gone .. MaxContent, code : 0 .. MaxBuilds]
EntryType == [hash : Gone .. MaxContent, facts : FactsType, moved : 0 .. MaxEdits]
WorkerType == [step : Running \union {"none", "sent", "crashed"}, doomed : BOOLEAN,
               entry : EntryType, bytes : Gone .. MaxContent, since : 0 .. MaxEdits,
               facts : FactsType, failed : BOOLEAN]

\* Every variable has its type, and results, workers and files are in step.
TypeOK ==
  /\ disk \in [SourceFile -> Gone .. MaxContent] /\ edits \in [SourceFile -> 0 .. MaxEdits]
  /\ layout \in Layout /\ build \in [Language -> 0 .. MaxBuilds]
  /\ cache.version \in [Hashed -> 0 .. MaxBuilds] /\ cache.entry \in [SourceFile -> EntryType]
  /\ scan \in 0 .. MaxScans /\ phase \in {"idle", "extracting"}
  /\ began \in [SourceFile -> 0 .. MaxEdits] /\ due \subseteq SourceFile
  /\ unseen \subseteq Directory /\ ToSet(files) \subseteq SourceFile
  /\ Len(results) <= started /\ started <= Len(files)
  /\ worker \in [Worker -> WorkerType] /\ faults \in 0 .. MaxFaults

\* A report speaks of the files the documentation promises: those of the
\* configured paths that no legible rule, link or deletion takes away, each
\* once.  None is lost because a directory could not be listed or paths overlap,
\* and none but those below a directory that could not be inspected, which the
\* walk takes for a file (scan_each/2, walk/3, walk_entry/4, ignored/4).
NothingIsMissing ==
  Reported => /\ ToSet(files) \subseteq due /\ Cardinality(ToSet(files)) = Len(files)
              /\ \A f \in due \ ToSet(files) : \E dir \in unseen : IsStrictPrefix(dir, f)

\* Facts reported or cached under a hash are those of the bytes it is the hash
\* of, unless the file changed twice while it was extracted, away and back
\* (extract_cached/2 reads it before and after).
HashNamesFacts(entry) == entry.facts.content = entry.hash \/ entry.moved >= 2

OneChangeIsCaught ==
  /\ \A f \in SourceFile : HashNamesFacts(cache.entry[f])
  /\ \A i \in DOMAIN results : ~results[i].failed => HashNamesFacts(results[i].entry)

\* What a scan reports of a file is what extracting that file would give, by the
\* extractor of this build if version/0 takes it into account, and of its bytes
\* if it does not change during the scan (but for OneChangeIsCaught's case):
\* neither the cache nor what other workers, of this scan or of one that crashed
\* or was cancelled, have sent gets in between (parallel_map/2: "same order as
\* Items").
ReportIsCurrent ==
  Reported =>
    \A i \in DOMAIN results :
      LET f == files[i]  facts == results[i].facts  now == Extraction(f) IN
      ~results[i].failed =>
        /\ began[f] = edits[f] => facts.content = now.content \/ results[i].entry.moved >= 2
        /\ LanguageOf[f] \in Hashed => facts.code = now.code

\* symbolic_file_cache says of itself: "This is an optimization, never a source
\* of query facts on its own."  So a scan during which nothing changes reports
\* what it would without a cache.
CacheIsOnlyAnOptimization ==
  (Reported /\ began = edits) =>
    \A i \in DOMAIN results : ~results[i].failed => results[i].facts = Extraction(files[i])

\* Every scan ends, with a report or an error.
ScanEnds == []<>(phase = "idle")
=============================================================================
