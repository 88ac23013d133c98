------------------------------ MODULE FactStore ------------------------------
(***************************************************************************)
(* The persisted fact snapshot of symbolic_fact_store: the DETS database,  *)
(* its scan metadata, the per-file extraction cache and the text index.    *)
(*                                                                         *)
(* One writer replaces the snapshot: either by write_bundle/4 (stage every *)
(* file, move the old ones aside, rename the new ones in, roll back on an  *)
(* error) or by the older in-place write/2.  Every file operation is a     *)
(* step of its own; any of them may fail, and the program may die between  *)
(* any two of them.  A file's content is the number of the write that      *)
(* produced it; 0 is an absent file.                                       *)
(***************************************************************************)
EXTENDS Naturals, FiniteSets

CONSTANTS
  MaxGen,       \* bound: writes in a behaviour
  MaxFailures,  \* bound: file operations that return an error
  MaxCrashes,   \* bound: deaths of the writing program
  MaxClock,     \* bound: seconds of the file system clock
  Direct,       \* do callers of the in-place write/2 exist?
  UndoMayFail   \* may the deletes and renames of a rollback fail themselves?

ASSUME FactStoreAssumption ==
  /\ MaxGen \in Nat /\ MaxFailures \in Nat
  /\ MaxCrashes \in Nat /\ MaxClock \in Nat
  /\ Direct \in BOOLEAN /\ UndoMayFail \in BOOLEAN

\* The bundle's files in the order of the Pairs list, which is the order in
\* which they are moved aside and installed.
DB    == 1
META  == 2
CACHE == 3
Piece == {DB, META, CACHE}

Gen     == 0 .. MaxGen
NoFile  == 0
Kind    == {"none", "plain", "cached", "direct"}
Control == {"idle", "stage_db", "stage_meta", "stage_cache", "backup",
            "install", "undo", "restore", "discard", "prune", "index",
            "cleanup", "direct_db", "direct_meta", "direct_cache"}
Outcome == {"none", "ok", "error", "crashed"}

VARIABLES
  final,      \* the files readers open
  stage,      \* the ".stage.N" files
  backup,     \* the ".backup.N" files
  idx,        \* the ".text_idx" file: what it describes and its mtime
  kind,       \* how each generation was written
  mtime,      \* mtime of each generation's database; a rename keeps it
  clock,
  gen,        \* the last write begun
  pc,         \* the writer's next step
  at,         \* the bundle file backup_files or install_files is at
  saved,      \* files moved aside by this write
  installed,  \* files renamed in by this write
  outcome,    \* how the last write ended
  before,     \* the files readers saw when this write began
  failures,
  crashes

disk == <<final, stage, backup, idx>>
volatile == <<pc, at, saved, installed>>
history == <<kind, mtime, clock, gen, before>>
vars == <<disk, volatile, history, outcome, failures, crashes>>

AllAbsent == [p \in Piece |-> NoFile]

Init ==
  /\ final = AllAbsent /\ stage = AllAbsent /\ backup = AllAbsent
  /\ idx = [gen |-> NoFile, time |-> 0]
  /\ kind = [g \in Gen |-> "none"]
  /\ mtime = [g \in Gen |-> 0]
  /\ clock = 0 /\ gen = 0
  /\ pc = "idle" /\ at = DB /\ saved = {} /\ installed = {}
  /\ outcome = "none" /\ before = AllAbsent
  /\ failures = 0 /\ crashes = 0

\* Mutant of Last: the cache is left out of the Pairs list.
Last_NoCache == META

\* The last file of the bundle being written: the cache is one of its files
\* only when the caller gave one.
Last == IF kind[gen] = "cached" THEN CACHE ELSE META

Goto(step) == pc' = step

\* A file operation returns {error, Reason}.
Fails == failures < MaxFailures /\ failures' = failures + 1
Works == failures' = failures

Highest(S) == CHOOSE p \in S : \A q \in S : q <= p

------------------------------------------------------------------------------
(* write_bundle/4: staging *)

Begin(k) ==
  /\ pc = "idle" /\ gen < MaxGen
  /\ k \in {"plain", "cached"} \union (IF Direct THEN {"direct"} ELSE {})
  /\ gen' = gen + 1
  /\ kind' = [kind EXCEPT ![gen + 1] = k]
  /\ before' = final
  /\ outcome' = "none"
  /\ Goto(IF k = "direct" THEN "direct_db" ELSE "stage_db")
  /\ UNCHANGED <<disk, at, saved, installed, mtime, clock, failures, crashes>>

\* A failed stage raises; the catch clause turns it into an error reply and
\* nothing a reader can see has changed.
StageFails == /\ Fails
              /\ outcome' = "error"
              /\ Goto("cleanup")

StageDb ==
  /\ pc = "stage_db"
  /\ mtime' = [mtime EXCEPT ![gen] = clock]
  /\ \/ /\ Works /\ Goto("stage_meta") /\ UNCHANGED outcome
        /\ stage' = [stage EXCEPT ![DB] = gen, ![META] = NoFile, ![CACHE] = NoFile]
     \/ /\ StageFails
        /\ \E g \in {stage[DB], gen} : stage' = [stage EXCEPT ![DB] = g]
  /\ UNCHANGED <<final, backup, idx, at, saved, installed, kind, clock, gen,
                 before, crashes>>

StageMeta ==
  /\ pc = "stage_meta"
  /\ \/ /\ Works /\ UNCHANGED outcome
        /\ stage' = [stage EXCEPT ![META] = gen]
        /\ Goto(IF kind[gen] = "cached" THEN "stage_cache" ELSE "backup")
     \/ StageFails /\ UNCHANGED stage
  /\ UNCHANGED <<final, backup, idx, at, saved, installed, history, crashes>>

StageCache ==
  /\ pc = "stage_cache"
  /\ \/ /\ Works /\ UNCHANGED outcome
        /\ stage' = [stage EXCEPT ![CACHE] = gen]
        /\ Goto("backup")
     \/ StageFails /\ UNCHANGED stage
  /\ UNCHANGED <<final, backup, idx, at, saved, installed, history, crashes>>

------------------------------------------------------------------------------
(* replace_bundle/1: move the old files aside, rename the new ones in *)

\* Mutant of Advance: the position is not reset for the next phase.
Advance_PastEnd(phase) ==
  at' = at + 1 /\ IF at = Last THEN Goto(phase) ELSE UNCHANGED pc

\* Go on to the next file of the bundle, or to the next phase after the last.
Advance(phase) ==
  IF at = Last THEN at' = DB /\ Goto(phase) ELSE at' = at + 1 /\ UNCHANGED pc

BackupFile ==
  /\ pc = "backup"
  /\ \/ /\ final[at] = NoFile
        /\ Works /\ Advance("install")
        /\ UNCHANGED <<final, backup, saved, outcome>>
     \/ /\ final[at] # NoFile
        /\ Works /\ Advance("install")
        /\ backup' = [backup EXCEPT ![at] = final[at]]
        /\ final' = [final EXCEPT ![at] = NoFile]
        /\ saved' = saved \union {at}
        /\ UNCHANGED outcome
     \/ /\ Fails
        /\ Goto("restore") /\ at' = DB /\ outcome' = "error"
        /\ UNCHANGED <<final, backup, saved>>
  /\ UNCHANGED <<stage, idx, installed, history, crashes>>

InstallFile ==
  /\ pc = "install"
  /\ \/ /\ Works /\ Advance("discard")
        /\ final' = [final EXCEPT ![at] = stage[at]]
        /\ stage' = [stage EXCEPT ![at] = NoFile]
        /\ installed' = installed \union {at}
        /\ UNCHANGED outcome
     \/ /\ Fails
        /\ Goto("undo") /\ at' = DB /\ outcome' = "error"
        /\ UNCHANGED <<final, stage, installed>>
  /\ UNCHANGED <<backup, idx, saved, history, crashes>>

\* Mutant of UndoInstall: the rollback only renames the backups back.
UndoInstall_Skips ==
  /\ pc = "undo" /\ Works /\ Goto("restore") /\ installed' = {}
  /\ UNCHANGED <<final, stage, backup, idx, at, saved, history, outcome, crashes>>

\* Rollback, first half: delete what was installed, the last file first.
UndoInstall ==
  /\ pc = "undo"
  /\ \/ /\ installed = {}
        /\ Works /\ Goto("restore")
        /\ UNCHANGED <<final, installed>>
     \/ /\ installed # {}
        /\ installed' = installed \ {Highest(installed)}
        /\ \/ Works /\ final' = [final EXCEPT ![Highest(installed)] = NoFile]
           \/ UndoMayFail /\ Fails /\ UNCHANGED final
        /\ UNCHANGED pc
  /\ UNCHANGED <<stage, backup, idx, at, saved, history, outcome, crashes>>

\* Rollback, second half: rename the backups back, the last file first; the
\* result of each rename is ignored.
RestoreBackup ==
  /\ pc = "restore"
  /\ \/ /\ saved = {}
        /\ Works /\ Goto("cleanup")
        /\ UNCHANGED <<final, backup, saved>>
     \/ /\ saved # {}
        /\ saved' = saved \ {Highest(saved)}
        /\ LET p == Highest(saved)
           IN  \/ /\ Works
                  /\ final' = [final EXCEPT ![p] = backup[p]]
                  /\ backup' = [backup EXCEPT ![p] = NoFile]
               \/ UndoMayFail /\ Fails /\ UNCHANGED <<final, backup>>
        /\ UNCHANGED pc
  /\ UNCHANGED <<stage, idx, at, installed, history, outcome, crashes>>

------------------------------------------------------------------------------
(* write_bundle/4: after the commit *)

\* Failed deletes leave garbage that nothing reads again.
DiscardBackups ==
  /\ pc = "discard" /\ Goto("prune")
  /\ \E kept \in SUBSET saved :
       backup' = [p \in Piece |-> IF p \in saved \ kept THEN NoFile ELSE backup[p]]
  /\ saved' = {} /\ installed' = {}
  /\ UNCHANGED <<final, stage, idx, at, history, outcome, failures, crashes>>

\* A bundle without a cache deletes the cache of the one before it.
PruneCache ==
  /\ pc = "prune" /\ Goto("index")
  /\ \/ kind[gen] = "cached" /\ Works /\ UNCHANGED final
     \/ kind[gen] = "plain" /\ Works /\ final' = [final EXCEPT ![CACHE] = NoFile]
     \/ kind[gen] = "plain" /\ Fails /\ UNCHANGED final
  /\ UNCHANGED <<stage, backup, idx, at, saved, installed, history, outcome, crashes>>

\* The text index is best effort: a failed write deletes it, and if that
\* fails too the old one stays.  It is written after the rename, so with
\* the clock of now and not of the staging.
WriteIndex ==
  /\ pc = "index" /\ Goto("cleanup") /\ outcome' = "ok"
  /\ \/ Works /\ idx' = [gen |-> gen, time |-> clock]
     \/ Fails /\ idx' \in {[gen |-> NoFile, time |-> 0], idx}
  /\ UNCHANGED <<final, stage, backup, at, saved, installed, history, crashes>>

\* The after clause of write_bundle/4, on every path.
CleanStage ==
  /\ pc = "cleanup" /\ Goto("idle")
  /\ stage' \in {AllAbsent, stage}
  /\ UNCHANGED <<final, backup, idx, at, saved, installed, history, outcome,
                 failures, crashes>>

------------------------------------------------------------------------------
(* write/2: the database is rewritten in place, then its metadata and its  *)
(* cache are deleted                                                       *)

\* The old facts are deleted before the new ones are inserted, so an insert
\* that raises has already replaced the old database.
DirectDb ==
  /\ pc = "direct_db"
  /\ mtime' = [mtime EXCEPT ![gen] = clock]
  /\ \/ /\ Works /\ Goto("direct_meta") /\ UNCHANGED outcome
        /\ final' = [final EXCEPT ![DB] = gen]
     \/ /\ Fails /\ Goto("idle") /\ outcome' = "error"
        /\ \E g \in {final[DB], gen} : final' = [final EXCEPT ![DB] = g]
  /\ UNCHANGED <<stage, backup, idx, at, saved, installed, kind, clock, gen,
                 before, crashes>>

\* delete_metadata/1 matches on ok: an error other than enoent raises here.
DirectMeta ==
  /\ pc = "direct_meta"
  /\ \/ /\ Works /\ Goto("direct_cache") /\ UNCHANGED outcome
        /\ final' = [final EXCEPT ![META] = NoFile]
     \/ Fails /\ Goto("idle") /\ outcome' = "error" /\ UNCHANGED final
  /\ UNCHANGED <<stage, backup, idx, at, saved, installed, history, crashes>>

DirectCache ==
  /\ pc = "direct_cache" /\ Goto("idle") /\ outcome' = "ok"
  /\ \/ Works /\ final' = [final EXCEPT ![CACHE] = NoFile]
     \/ Fails /\ UNCHANGED final
  /\ UNCHANGED <<stage, backup, idx, at, saved, installed, history, crashes>>

------------------------------------------------------------------------------
(* The environment: death of the program, and the clock *)

\* Files stay as they are.  Nothing looks for a ".backup.N" file at start.
Crash ==
  /\ pc # "idle" /\ crashes < MaxCrashes
  /\ crashes' = crashes + 1
  /\ pc' = "idle" /\ at' = DB /\ saved' = {} /\ installed' = {}
  /\ outcome' = "crashed"
  /\ UNCHANGED <<disk, history, failures>>

Tick ==
  /\ clock < MaxClock
  /\ clock' = clock + 1
  /\ UNCHANGED <<disk, volatile, kind, mtime, gen, before, outcome, failures, crashes>>

Next ==
  \/ \E k \in Kind : Begin(k)
  \/ StageDb \/ StageMeta \/ StageCache
  \/ BackupFile \/ InstallFile \/ UndoInstall \/ RestoreBackup
  \/ DiscardBackups \/ PruneCache \/ WriteIndex \/ CleanStage
  \/ DirectDb \/ DirectMeta \/ DirectCache
  \/ Crash \/ Tick

Spec == Init /\ [][Next]_vars

------------------------------------------------------------------------------
(* What readers make of the files *)

\* symbolic_codebase:resume_snapshot/3: the pair is used when the database
\* is a regular file and its metadata can be read.
PairPresent == final[DB] # NoFile /\ final[META] # NoFile

\* symbolic_file_cache:load/1: the sidecar is trusted when its id is the one
\* the committed metadata names; a generation's id is its number.
CacheTrusted ==
  /\ final[META] # NoFile /\ kind[final[META]] = "cached"
  /\ final[CACHE] = final[META]

\* Mutant of IndexUsed: any index that decodes is used.
IndexUsed_AnyAge == final[DB] # NoFile /\ idx.gen # NoFile

\* symbolic_search:cached_index/1: the index is used when it is at least as
\* new as the database.
IndexUsed ==
  /\ final[DB] # NoFile /\ idx.gen # NoFile
  /\ idx.time >= mtime[final[DB]]

------------------------------------------------------------------------------
(* Properties *)

\* The values of the variables.
TypeOK ==
  /\ final \in [Piece -> Gen] /\ stage \in [Piece -> Gen]
  /\ backup \in [Piece -> Gen] /\ before \in [Piece -> Gen]
  /\ idx \in [gen : Gen, time : 0 .. MaxClock]
  /\ kind \in [Gen -> Kind] /\ mtime \in [Gen -> 0 .. MaxClock]
  /\ clock \in 0 .. MaxClock /\ gen \in Gen
  /\ pc \in Control /\ at \in Piece
  /\ saved \subseteq Piece /\ installed \subseteq Piece
  /\ outcome \in Outcome
  /\ failures \in 0 .. MaxFailures /\ crashes \in 0 .. MaxCrashes

\* "A failed stage or rename leaves the previous database/metadata pair
\* intact": when write_bundle/4 returns an error, all three files are those
\* it found, whichever operation failed and however far it had come.
FailedWriteKeepsPrevious ==
  (pc = "idle" /\ outcome = "error" /\ kind[gen] # "direct") => final = before

\* "A failed stage or rename leaves the previous database/metadata pair
\* intact", of a pair that was there: the comment knows no failing rename of
\* the rollback's own, whose result restore_backups/1 ignores.
PreviousPairIntact ==
  (pc = "idle" /\ outcome = "error" /\ kind[gen] # "direct"
     /\ before[DB] # NoFile /\ before[META] # NoFile) =>
    final[DB] = before[DB] /\ final[META] = before[META]

\* A database that a bundle wrote never stands beside the metadata of
\* another write, between any two steps and after a crash between them: the
\* order of the moves makes one of the two absent all the while they differ.
NoTornPair ==
  (PairPresent /\ kind[final[DB]] # "direct") => final[DB] = final[META]

\* A bundle that reported ok is on disk as a whole: the pair, the cache if
\* the caller gave one (and no older cache is trusted if not).
CommittedBundleIsWhole ==
  (pc = "idle" /\ outcome = "ok" /\ kind[gen] # "direct") =>
    /\ final[DB] = gen /\ final[META] = gen
    /\ CacheTrusted <=> kind[gen] = "cached"

\* The freshness rule of the text index can be wrong by one second and no
\* more: an index that is used and describes another database was written
\* in the very second that database is stamped with.
StaleIndexOnlyWithinASecond ==
  (IndexUsed /\ idx.gen # final[DB]) => idx.time = mtime[final[DB]]

------------------------------------------------------------------------------
(* Refinement of Snapshot *)

\* The promise is about bundles: facts written in place have no generation.
PairOf(files) ==
  IF files[DB] # NoFile /\ files[META] # NoFile /\ kind[files[DB]] # "direct"
  THEN files[DB] ELSE 0

Replacing == pc \in {"backup", "install", "undo", "restore"}

Fallback == IF Replacing /\ PairOf(final) # PairOf(before) THEN PairOf(before) ELSE 0

Promise == INSTANCE Snapshot WITH
  visible <- PairOf(final), fallback <- Fallback,
  settled <- ~Replacing, issued <- gen

\* A program that starts at any moment, a crash before included, resumes one
\* generation as a whole or none (resume_snapshot/3 over write_bundle/4).
KeepsPromise == Promise!Spec

==============================================================================
