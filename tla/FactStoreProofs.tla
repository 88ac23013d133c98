--------------------------- MODULE FactStoreProofs ---------------------------
(***************************************************************************)
(* Proofs about FactStore for every number of writes, failures and         *)
(* crashes.                                                                *)
(***************************************************************************)
EXTENDS FactStore, TLAPS

\* The types the invariant needs: nothing is bounded by the model's limits.
Types ==
  /\ final \in [Piece -> Gen] /\ before \in [Piece -> Gen]
  /\ stage \in [Piece -> Gen] /\ backup \in [Piece -> Gen]
  /\ kind \in [Gen -> Kind] /\ gen \in Gen
  /\ pc \in Control /\ at \in Piece
  /\ saved \subseteq Piece /\ installed \subseteq Piece

\* Nobody sees a write before it has begun.
NothingAhead ==
  /\ \A p \in Piece : final[p] <= gen /\ before[p] <= gen
  /\ gen = 0 => pc = "idle"

Staging    == {"stage_db", "stage_meta", "stage_cache"}
DirectStep == {"direct_db", "direct_meta", "direct_cache"}
Bundling   == Staging \union {"backup", "install", "undo", "restore",
                              "discard", "prune", "index"}

KindMatches ==
  /\ pc \in Bundling => kind[gen] \in {"plain", "cached"}
  /\ pc \in DirectStep => kind[gen] = "direct"

\* The pair a reader finds in files is one bundle's, or a direct write's.
Whole(files) ==
  (files[DB] # NoFile /\ files[META] # NoFile /\ kind[files[DB]] # "direct")
    => files[DB] = files[META]

Bundle == {p \in Piece : p <= Last}

\* Where the files are while a write is under way.
StagingInv ==
  /\ pc \in Staging => final = before /\ saved = {} /\ installed = {} /\ at = DB
  /\ pc \in {"stage_meta", "stage_cache"} => stage[DB] = gen
  /\ pc = "stage_cache" => stage[META] = gen /\ kind[gen] = "cached"

BackupInv ==
  pc = "backup" =>
    /\ at \in Bundle /\ installed = {}
    /\ saved = {p \in Piece : p < at /\ before[p] # NoFile}
    /\ \A p \in Piece : final[p] = IF p < at THEN NoFile ELSE before[p]
    /\ \A p \in saved : backup[p] = before[p]
    /\ \A p \in Bundle : stage[p] = gen

\* Every file of the bundle was moved aside; those in `installed` are new.
Moved ==
  /\ installed \subseteq Bundle
  /\ META \in installed => DB \in installed
  /\ saved = {p \in Bundle : before[p] # NoFile}
  /\ \A p \in Piece : p \notin Bundle => final[p] = before[p]
  /\ \A p \in {DB, META} : final[p] = IF p \in installed THEN gen ELSE NoFile
  /\ \A p \in Bundle \ installed : final[p] = NoFile
  /\ \A p \in saved : backup[p] = before[p]

InstallInv ==
  pc = "install" =>
    /\ at \in Bundle /\ Moved
    /\ installed = {p \in Piece : p < at}
    /\ \A p \in Bundle : at <= p => stage[p] = gen

UndoInv == pc = "undo" => Moved

RestoreInv ==
  pc = "restore" =>
    /\ installed = {}
    /\ \A p \in Piece : final[p] = IF p \in saved THEN NoFile ELSE before[p]
    /\ \A p \in saved : backup[p] = before[p]

Committed == final[DB] = gen /\ final[META] = gen

RestInv ==
  /\ pc \in {"discard", "prune", "index"} => Committed
  /\ pc \in {"cleanup", "idle"} => saved = {} /\ installed = {} /\ at = DB
  /\ pc \in {"prune", "index"} \union DirectStep =>
       saved = {} /\ installed = {}
  /\ pc # "install" /\ pc # "backup" => at = DB
  /\ pc \in {"undo", "restore"} => outcome = "error"
  /\ pc = "cleanup" => outcome \in {"ok", "error"} /\ kind[gen] # "direct"
  /\ outcome = "error" => pc \in {"undo", "restore", "cleanup", "idle"}
  /\ (outcome = "error" /\ pc \in {"cleanup", "idle"} /\ kind[gen] # "direct")
        => final = before

IInv ==
  /\ Types /\ NothingAhead /\ KindMatches
  /\ Whole(final) /\ Whole(before)
  /\ StagingInv /\ BackupInv /\ InstallInv /\ UndoInv /\ RestoreInv /\ RestInv

------------------------------------------------------------------------------

\* Highest(S) is the greatest member of a nonempty set of bundle files.
LEMMA HighestInSet ==
  ASSUME NEW S \in SUBSET Piece, S # {}
  PROVE  Highest(S) \in S /\ \A q \in S : q <= Highest(S)
<1>1. \E p \in S : \A q \in S : q <= p
  <2>1. CASE CACHE \in S
    BY <2>1 DEF Piece, DB, META, CACHE
  <2>2. CASE CACHE \notin S /\ META \in S
    BY <2>2 DEF Piece, DB, META, CACHE
  <2>3. CASE CACHE \notin S /\ META \notin S
    <3>1. \A q \in S : q = DB
      BY <2>3 DEF Piece
    <3>2. DB \in S
      BY <3>1
    <3> QED BY <3>1, <3>2 DEF DB
  <2> QED BY <2>1, <2>2, <2>3
<1> QED BY <1>1 DEF Highest

\* The invariant holds when the program first starts.
LEMMA InitInv == Init => IInv
<1> SUFFICES ASSUME Init PROVE IInv
  OBVIOUS
<1> USE FactStoreAssumption DEF Init, AllAbsent, DB, META, CACHE, Piece, Gen, NoFile
<1>1. Types
  BY DEF Types, Control, Kind
<1>2. NothingAhead /\ KindMatches /\ Whole(final) /\ Whole(before)
  BY DEF NothingAhead, KindMatches, Bundling, Staging, DirectStep, Whole
<1>3. StagingInv /\ BackupInv /\ InstallInv /\ UndoInv /\ RestoreInv /\ RestInv
  BY DEF StagingInv, Staging, BackupInv, InstallInv, UndoInv, RestoreInv,
         RestInv, DirectStep
<1> QED BY <1>1, <1>2, <1>3 DEF IInv

------------------------------------------------------------------------------
(* One lemma per action.  A step preserves the invariant provided the      *)
(* rollback's own operations work.                                         *)

LEMMA BeginInv ==
  ASSUME IInv, NEW k \in Kind, Begin(k)
  PROVE  IInv'
<1> USE FactStoreAssumption
    DEF DB, META, CACHE, Piece, Gen, NoFile, Kind, Goto, disk
<1>0. kind' = [kind EXCEPT ![gen + 1] = k] /\ gen' = gen + 1 /\ gen + 1 \in Gen
      /\ before' = final /\ final' = final /\ pc = "idle"
      /\ pc' = (IF k = "direct" THEN "direct_db" ELSE "stage_db")
      /\ k \in {"plain", "cached", "direct"}
  BY DEF Begin, IInv, Types
<1>1. Types'
  BY DEF Begin, IInv, Types, Control
<1>2. NothingAhead'
  BY <1>0 DEF IInv, Types, NothingAhead
<1>3. KindMatches'
  BY <1>0 DEF IInv, Types, KindMatches, Bundling, Staging, DirectStep
<1>4. \A g \in Gen : g <= gen => kind'[g] = kind[g]
  BY <1>0 DEF IInv, Types
<1>5. Whole(final)' /\ Whole(before)'
  BY <1>0, <1>4 DEF IInv, Types, NothingAhead, Whole
<1>6. StagingInv' /\ BackupInv' /\ InstallInv' /\ UndoInv' /\ RestoreInv'
  BY <1>0 DEF Begin, IInv, RestInv, StagingInv, Staging, BackupInv, InstallInv,
              UndoInv, RestoreInv
<1>7. RestInv'
  BY <1>0 DEF Begin, IInv, RestInv, DirectStep
<1> QED BY <1>1, <1>2, <1>3, <1>5, <1>6, <1>7 DEF IInv

LEMMA StageDbInv ==
  ASSUME IInv, StageDb
  PROVE  IInv'
<1> USE FactStoreAssumption
    DEF DB, META, CACHE, Piece, Gen, NoFile, Kind, Goto, Works, Fails, StageFails,
        StageDb
<1>1. Types'
  <2>a. stage \in [Piece -> Gen] /\ gen \in Gen /\ NoFile \in Gen
    BY DEF IInv, Types
  <2>1. stage' \in [Piece -> Gen]
    BY <2>a
  <2> QED BY <2>1 DEF IInv, Types, Control
<1>2. NothingAhead' /\ KindMatches' /\ Whole(final)' /\ Whole(before)'
  BY DEF IInv, Types, NothingAhead, KindMatches, Bundling, Staging, DirectStep, Whole
<1>3. StagingInv'
  BY DEF IInv, Types, StagingInv, Staging
<1>4. BackupInv' /\ InstallInv' /\ UndoInv' /\ RestoreInv'
  BY DEF BackupInv, InstallInv, UndoInv, RestoreInv
<1>5. RestInv'
  BY DEF IInv, RestInv, StagingInv, Staging, KindMatches, Bundling, DirectStep
<1> QED BY <1>1, <1>2, <1>3, <1>4, <1>5 DEF IInv

LEMMA StageMetaInv ==
  ASSUME IInv, StageMeta
  PROVE  IInv'
<1> USE FactStoreAssumption
    DEF DB, META, CACHE, Piece, Gen, NoFile, Kind, Goto, Works, Fails, StageFails,
        StageMeta, history
<1>1. Types'
  <2>1. stage' \in [Piece -> Gen]
    BY DEF IInv, Types
  <2> QED BY <2>1 DEF IInv, Types, Control
<1>2. NothingAhead' /\ KindMatches' /\ Whole(final)' /\ Whole(before)'
  BY DEF IInv, Types, NothingAhead, KindMatches, Bundling, Staging, DirectStep, Whole
<1>3. StagingInv'
  BY DEF IInv, Types, StagingInv, Staging
<1>4. BackupInv'
  <2> SUFFICES ASSUME pc' = "backup" PROVE BackupInv'
    BY DEF BackupInv
  <2>1. kind[gen] = "plain" /\ Last = META /\ Last' = META
    BY DEF IInv, KindMatches, Bundling, Staging, Last
  <2>2. stage'[DB] = gen /\ stage'[META] = gen
    BY DEF IInv, Types, StagingInv
  <2>3. saved' = {} /\ installed' = {} /\ at' = DB /\ final' = before'
    BY DEF IInv, StagingInv, Staging
  <2>4. saved' = {p \in Piece : p < at' /\ before'[p] # NoFile}
    BY <2>3
  <2> QED BY <2>1, <2>2, <2>3, <2>4 DEF BackupInv, Bundle
<1>5. InstallInv' /\ UndoInv' /\ RestoreInv'
  BY DEF InstallInv, UndoInv, RestoreInv
<1>6. RestInv'
  BY DEF IInv, RestInv, StagingInv, Staging, KindMatches, Bundling, DirectStep
<1> QED BY <1>1, <1>2, <1>3, <1>4, <1>5, <1>6 DEF IInv

LEMMA StageCacheInv ==
  ASSUME IInv, StageCache
  PROVE  IInv'
<1> USE FactStoreAssumption
    DEF DB, META, CACHE, Piece, Gen, NoFile, Kind, Goto, Works, Fails, StageFails,
        StageCache, history
<1>1. Types'
  <2>1. stage' \in [Piece -> Gen]
    BY DEF IInv, Types
  <2> QED BY <2>1 DEF IInv, Types, Control
<1>2. NothingAhead' /\ KindMatches' /\ Whole(final)' /\ Whole(before)'
  BY DEF IInv, Types, NothingAhead, KindMatches, Bundling, Staging, DirectStep, Whole
<1>3. StagingInv'
  BY DEF IInv, Types, StagingInv, Staging
<1>4. BackupInv'
  <2> SUFFICES ASSUME pc' = "backup" PROVE BackupInv'
    BY DEF BackupInv
  <2>1. \A p \in Piece : stage'[p] = gen
    BY DEF IInv, Types, StagingInv
  <2>2. Last' = CACHE
    BY DEF IInv, StagingInv, Last
  <2>3. saved' = {} /\ installed' = {} /\ at' = DB /\ final' = before'
    BY DEF IInv, StagingInv, Staging
  <2>4. saved' = {p \in Piece : p < at' /\ before'[p] # NoFile}
    BY <2>3
  <2> QED BY <2>1, <2>2, <2>3, <2>4 DEF BackupInv, Bundle
<1>5. InstallInv' /\ UndoInv' /\ RestoreInv'
  BY DEF InstallInv, UndoInv, RestoreInv
<1>6. RestInv'
  BY DEF IInv, RestInv, StagingInv, Staging, KindMatches, Bundling, DirectStep
<1> QED BY <1>1, <1>2, <1>3, <1>4, <1>5, <1>6 DEF IInv

LEMMA BackupFileInv ==
  ASSUME IInv, BackupFile
  PROVE  IInv'
<1> USE FactStoreAssumption
    DEF DB, META, CACHE, Piece, Gen, NoFile, Kind, history
<1>0. /\ Types /\ BackupInv /\ NothingAhead /\ KindMatches /\ RestInv
      /\ Whole(final) /\ Whole(before) /\ pc = "backup"
      /\ kind[gen] \in {"plain", "cached"} /\ Last' = Last /\ Last \in {META, CACHE}
      /\ stage' = stage /\ before' = before /\ kind' = kind /\ gen' = gen
      /\ installed' = installed /\ installed = {} /\ at \in Piece /\ at <= Last
  BY DEF IInv, BackupFile, KindMatches, Bundling, Last, Types, BackupInv, Bundle
\* What the step does to the files.
<1>1. CASE Fails /\ Goto("restore") /\ at' = DB /\ outcome' = "error"
           /\ UNCHANGED <<final, backup, saved>>
  <2> USE <1>0, <1>1 DEF Goto
  <2>1. Types'
    BY DEF Types, Control
  <2>2. NothingAhead' /\ KindMatches' /\ Whole(final)' /\ Whole(before)'
    BY DEF NothingAhead, KindMatches, Bundling, DirectStep, Whole
  <2>3. RestoreInv'
    BY DEF Types, BackupInv, RestoreInv
  <2>4. StagingInv' /\ BackupInv' /\ InstallInv' /\ UndoInv'
    BY DEF StagingInv, Staging, BackupInv, InstallInv, UndoInv
  <2>5. RestInv'
    BY DEF RestInv, DirectStep
  <2> QED BY <2>1, <2>2, <2>3, <2>4, <2>5 DEF IInv
<1>2. CASE /\ Advance("install") /\ outcome' = outcome
           /\ \/ final[at] = NoFile /\ UNCHANGED <<final, backup, saved>>
              \/ /\ final[at] # NoFile
                 /\ backup' = [backup EXCEPT ![at] = final[at]]
                 /\ final' = [final EXCEPT ![at] = NoFile]
                 /\ saved' = saved \union {at}
  <2> USE <1>0
  <2>0. Advance("install") /\ outcome' = outcome
    BY <1>2
  <2>1. /\ final' \in [Piece -> Gen] /\ backup' \in [Piece -> Gen]
        /\ saved' \subseteq Piece
    <3>1. /\ final \in [Piece -> Gen] /\ backup \in [Piece -> Gen]
          /\ final[at] \in Gen /\ NoFile \in Gen /\ saved \subseteq Piece
      BY DEF Types
    <3>2. final' \in [Piece -> Gen]
      BY <1>2, <3>1
    <3>3. backup' \in [Piece -> Gen]
      BY <1>2, <3>1
    <3> QED BY <1>2, <3>1, <3>2, <3>3
  <2>2. /\ \A p \in Piece : final'[p] = IF p <= at THEN NoFile ELSE before[p]
        /\ saved' = {p \in Piece : p <= at /\ before[p] # NoFile}
        /\ \A p \in saved' : backup'[p] = before[p]
    <3>0. /\ \A p \in Piece : final[p] = IF p < at THEN NoFile ELSE before[p]
          /\ saved = {p \in Piece : p < at /\ before[p] # NoFile}
          /\ \A p \in saved : backup[p] = before[p]
          /\ final \in [Piece -> Gen] /\ backup \in [Piece -> Gen]
      BY DEF Types, BackupInv
    <3>1. CASE final[at] = NoFile /\ UNCHANGED <<final, backup, saved>>
      <4>1. before[at] = NoFile
        BY <3>0, <3>1
      <4>2. \A p \in Piece : final'[p] = IF p <= at THEN NoFile ELSE before[p]
        BY <3>0, <3>1, <4>1
      <4>3. saved' = {p \in Piece : p <= at /\ before[p] # NoFile}
        BY <3>0, <3>1, <4>1
      <4> QED BY <3>0, <3>1, <4>2, <4>3
    <3>2. CASE /\ final[at] # NoFile
               /\ backup' = [backup EXCEPT ![at] = final[at]]
               /\ final' = [final EXCEPT ![at] = NoFile]
               /\ saved' = saved \union {at}
      <4>1. before[at] = final[at]
        BY <3>0, <3>2
      <4>2. \A p \in Piece : final'[p] = IF p <= at THEN NoFile ELSE before[p]
        BY <3>0, <3>2
      <4>3. saved' = {p \in Piece : p <= at /\ before[p] # NoFile}
        BY <3>0, <3>2, <4>1
      <4>4. \A p \in saved' : backup'[p] = before[p]
        BY <3>0, <3>2, <4>1
      <4> QED BY <4>2, <4>3, <4>4
    <3> QED BY <1>2, <3>1, <3>2
  <2>3. \/ at = Last /\ at' = DB /\ pc' = "install"
        \/ at < Last /\ at' = at + 1 /\ pc' = "backup"
    BY <2>0 DEF Advance, Goto
  <2>4. Types'
    <3>1. at' \in Piece /\ pc' \in Control
      BY <2>3 DEF Control
    <3> QED BY <2>1, <3>1 DEF Types
  <2>5. NothingAhead' /\ KindMatches'
    BY <2>2, <2>3 DEF NothingAhead, KindMatches, Bundling, DirectStep, Types
  <2>6. Whole(final)' /\ Whole(before)'
    BY <2>2 DEF Whole, Types
  <2>7. BackupInv'
    BY <2>2, <2>3 DEF BackupInv, Bundle
  <2>8. InstallInv'
    <3> SUFFICES ASSUME at = Last, at' = DB, pc' = "install" PROVE InstallInv'
      BY <2>3 DEF InstallInv
    <3>1. Moved'
      BY <2>2 DEF Moved, Bundle
    <3> QED BY <3>1 DEF InstallInv, Bundle, BackupInv
  <2>9. StagingInv' /\ UndoInv' /\ RestoreInv' /\ RestInv'
    BY <2>0, <2>3 DEF StagingInv, Staging, UndoInv, RestoreInv, RestInv, DirectStep
  <2> QED BY <2>4, <2>5, <2>6, <2>7, <2>8, <2>9 DEF IInv
<1> QED BY <1>1, <1>2 DEF BackupFile

LEMMA InstallFileInv ==
  ASSUME IInv, InstallFile
  PROVE  IInv'
<1> USE FactStoreAssumption
    DEF DB, META, CACHE, Piece, Gen, NoFile, Kind, history
<1>0. /\ Types /\ InstallInv /\ Moved /\ NothingAhead /\ KindMatches /\ RestInv
      /\ Whole(final) /\ Whole(before) /\ pc = "install"
      /\ kind[gen] \in {"plain", "cached"} /\ Last' = Last /\ Last \in {META, CACHE}
      /\ before' = before /\ kind' = kind /\ gen' = gen /\ saved' = saved
      /\ backup' = backup /\ at \in Piece /\ at <= Last
  BY DEF IInv, InstallFile, KindMatches, Bundling, Last, Types, InstallInv, Bundle
<1>1. CASE Fails /\ Goto("undo") /\ at' = DB /\ outcome' = "error"
           /\ UNCHANGED <<final, stage, installed>>
  <2> USE <1>0, <1>1 DEF Goto
  <2>1. Types'
    BY DEF Types, Control
  <2>2. NothingAhead' /\ KindMatches' /\ Whole(final)' /\ Whole(before)'
    BY DEF NothingAhead, KindMatches, Bundling, DirectStep, Whole
  <2>3. UndoInv'
    BY DEF Moved, Bundle, UndoInv
  <2>4. StagingInv' /\ BackupInv' /\ InstallInv' /\ RestoreInv'
    BY DEF StagingInv, Staging, BackupInv, InstallInv, RestoreInv
  <2>5. RestInv'
    BY DEF RestInv, DirectStep
  <2> QED BY <2>1, <2>2, <2>3, <2>4, <2>5 DEF IInv
<1>2. CASE /\ Advance("discard") /\ outcome' = outcome
           /\ final' = [final EXCEPT ![at] = stage[at]]
           /\ stage' = [stage EXCEPT ![at] = NoFile]
           /\ installed' = installed \union {at}
  <2> USE <1>0
  <2>0. /\ stage[at] = gen /\ installed = {p \in Piece : p < at}
        /\ \A p \in Bundle : at <= p => stage[p] = gen
    BY DEF InstallInv, Bundle
  <2>1. /\ final' \in [Piece -> Gen] /\ stage' \in [Piece -> Gen]
        /\ installed' = {p \in Piece : p <= at}
    <3>1. /\ final \in [Piece -> Gen] /\ stage \in [Piece -> Gen]
          /\ stage[at] \in Gen /\ NoFile \in Gen
      BY DEF Types
    <3>2. final' \in [Piece -> Gen]
      BY <1>2, <3>1
    <3>3. stage' \in [Piece -> Gen]
      BY <1>2, <3>1
    <3> QED BY <1>2, <2>0, <3>2, <3>3
  <2>2. /\ \A p \in Piece : final'[p] = IF p = at THEN gen ELSE final[p]
        /\ \A p \in Piece : p # at => stage'[p] = stage[p]
    BY <1>2, <2>0 DEF Types
  <2>3. \/ at = Last /\ at' = DB /\ pc' = "discard"
        \/ at < Last /\ at' = at + 1 /\ pc' = "install"
    BY <1>2 DEF Advance, Goto
  <2>4. Types'
    <3>1. at' \in Piece /\ pc' \in Control
      BY <2>3 DEF Control
    <3> QED BY <2>1, <3>1 DEF Types
  <2>5. NothingAhead' /\ KindMatches'
    BY <2>2, <2>3 DEF NothingAhead, KindMatches, Bundling, DirectStep, Types
  <2>6. Whole(final)' /\ Whole(before)'
    <3>1. \A p \in {DB, META} : final'[p] \in {gen, NoFile}
      BY <2>2 DEF Moved
    <3> QED BY <3>1 DEF Whole, NoFile
  <2>7. InstallInv'
    <3> SUFFICES ASSUME at < Last, at' = at + 1, pc' = "install" PROVE InstallInv'
      BY <2>3 DEF InstallInv
    <3>1. Bundle' = Bundle
      BY DEF Bundle
    <3>2. installed' \subseteq Bundle' /\ (META \in installed' => DB \in installed')
      BY <2>1, <3>1 DEF Bundle
    <3>3. /\ \A p \in Piece : p \notin Bundle => final'[p] = before[p]
          /\ \A p \in {DB, META} : final'[p] = IF p \in installed' THEN gen ELSE NoFile
          /\ \A p \in Bundle \ installed' : final'[p] = NoFile
      BY <2>0, <2>1, <2>2 DEF Moved, Bundle
    <3>4. Moved'
      BY <3>1, <3>2, <3>3 DEF Moved
    <3>5. \A p \in Bundle' : at' <= p => stage'[p] = gen
      BY <2>0, <2>2, <3>1 DEF Bundle
    <3>6. at' \in Bundle' /\ installed' = {p \in Piece : p < at'}
      BY <2>1, <3>1 DEF Bundle
    <3> QED BY <3>4, <3>5, <3>6 DEF InstallInv
  <2>8. at = Last => Committed'
    BY <2>0, <2>2 DEF Committed, Moved
  <2>9. StagingInv' /\ BackupInv' /\ UndoInv' /\ RestoreInv' /\ RestInv'
    BY <1>2, <2>3, <2>8 DEF StagingInv, Staging, BackupInv, UndoInv, RestoreInv,
                          RestInv, DirectStep
  <2> QED BY <2>4, <2>5, <2>6, <2>7, <2>9 DEF IInv
<1> QED BY <1>1, <1>2 DEF InstallFile

LEMMA UndoInstallInv ==
  ASSUME IInv, UndoInstall, ~UndoMayFail
  PROVE  IInv'
<1> USE FactStoreAssumption
    DEF DB, META, CACHE, Piece, Gen, NoFile, Kind, history
<1>0. /\ Types /\ Moved /\ NothingAhead /\ KindMatches /\ RestInv
      /\ Whole(final) /\ Whole(before) /\ pc = "undo"
      /\ kind[gen] \in {"plain", "cached"} /\ Last' = Last /\ Last \in {META, CACHE}
      /\ before' = before /\ kind' = kind /\ gen' = gen /\ saved' = saved
      /\ backup' = backup /\ stage' = stage /\ at' = at /\ outcome' = outcome
      /\ Bundle' = Bundle
  BY DEF IInv, UndoInstall, KindMatches, Bundling, Last, Types, UndoInv, Bundle
<1>1. CASE installed = {} /\ Goto("restore") /\ UNCHANGED <<final, installed>>
  <2> USE <1>0, <1>1 DEF Goto
  <2>1. Types'
    BY DEF Types, Control
  <2>2. NothingAhead' /\ KindMatches' /\ Whole(final)' /\ Whole(before)'
    BY DEF NothingAhead, KindMatches, Bundling, DirectStep, Whole
  <2>3. RestoreInv'
    <3>1. \A p \in Bundle : final[p] = NoFile
      BY DEF Moved
    <3>2. \A p \in Piece : final[p] = IF p \in saved THEN NoFile ELSE before[p]
      BY <3>1 DEF Moved, Bundle
    <3> QED BY <3>2 DEF Moved, RestoreInv
  <2>4. StagingInv' /\ BackupInv' /\ InstallInv' /\ UndoInv'
    BY DEF StagingInv, Staging, BackupInv, InstallInv, UndoInv
  <2>5. RestInv'
    BY DEF RestInv, DirectStep
  <2> QED BY <2>1, <2>2, <2>3, <2>4, <2>5 DEF IInv
<1>2. CASE /\ installed # {} /\ UNCHANGED pc
           /\ installed' = installed \ {Highest(installed)}
           /\ final' = [final EXCEPT ![Highest(installed)] = NoFile]
  <2> DEFINE top == Highest(installed)
  <2>0. top \in installed /\ (\A q \in installed : q <= top) /\ top \in Piece
    BY <1>0, <1>2, HighestInSet DEF Types
  <2> HIDE DEF top
  <2> USE <1>0, <1>2, <2>0
  <2>1. installed' = installed \ {top} /\ final' = [final EXCEPT ![top] = NoFile]
    BY DEF top
  <2>2. Types'
    <3>1. final' \in [Piece -> Gen]
      BY <2>1 DEF Types
    <3> QED BY <2>1, <3>1 DEF Types
  <2>3. \A p \in Piece : final'[p] = IF p = top THEN NoFile ELSE final[p]
    BY <2>1 DEF Types
  <2>4. NothingAhead' /\ KindMatches'
    BY <2>3 DEF NothingAhead, KindMatches, Bundling, DirectStep, Types
  <2>5. UndoInv'
    <3>1. META \in installed' => DB \in installed'
      BY <2>1 DEF Moved
    <3>2. /\ \A p \in Piece : p \notin Bundle => final'[p] = before[p]
          /\ \A p \in {DB, META} : final'[p] = IF p \in installed' THEN gen ELSE NoFile
          /\ \A p \in Bundle \ installed' : final'[p] = NoFile
      BY <2>1, <2>3 DEF Moved
    <3> QED BY <2>1, <3>1, <3>2 DEF Moved, UndoInv
  <2>6. Whole(final)' /\ Whole(before)'
    BY <2>3 DEF Whole, Moved
  <2>7. StagingInv' /\ BackupInv' /\ InstallInv' /\ RestoreInv' /\ RestInv'
    BY DEF StagingInv, Staging, BackupInv, InstallInv, RestoreInv, RestInv, DirectStep
  <2> QED BY <2>2, <2>4, <2>5, <2>6, <2>7 DEF IInv
<1> QED BY <1>1, <1>2 DEF UndoInstall

LEMMA RestoreBackupInv ==
  ASSUME IInv, RestoreBackup, ~UndoMayFail
  PROVE  IInv'
<1> USE FactStoreAssumption
    DEF DB, META, CACHE, Piece, Gen, NoFile, Kind, history
<1>0. /\ Types /\ RestoreInv /\ NothingAhead /\ KindMatches /\ RestInv
      /\ Whole(final) /\ Whole(before) /\ pc = "restore"
      /\ kind[gen] \in {"plain", "cached"}
      /\ before' = before /\ kind' = kind /\ gen' = gen /\ installed' = installed
      /\ stage' = stage /\ at' = at /\ outcome' = outcome
  BY DEF IInv, RestoreBackup, KindMatches, Bundling
<1>1. CASE saved = {} /\ Goto("cleanup") /\ UNCHANGED <<final, backup, saved>>
  <2> USE <1>0, <1>1 DEF Goto
  <2>1. Types'
    BY DEF Types, Control
  <2>2. NothingAhead' /\ KindMatches' /\ Whole(final)' /\ Whole(before)'
    BY DEF NothingAhead, KindMatches, Bundling, DirectStep, Whole
  <2>3. final = before
    <3>1. final \in [Piece -> Gen] /\ before \in [Piece -> Gen]
      BY DEF Types
    <3>2. \A p \in Piece : final[p] = before[p]
      BY DEF RestoreInv
    <3> QED BY <3>1, <3>2
  <2>4. StagingInv' /\ BackupInv' /\ InstallInv' /\ UndoInv' /\ RestoreInv'
    BY DEF StagingInv, Staging, BackupInv, InstallInv, UndoInv, RestoreInv
  <2>5. RestInv'
    BY <2>3 DEF RestInv, DirectStep, RestoreInv
  <2> QED BY <2>1, <2>2, <2>4, <2>5 DEF IInv
<1>2. CASE /\ saved # {} /\ UNCHANGED pc /\ saved' = saved \ {Highest(saved)}
           /\ final' = [final EXCEPT ![Highest(saved)] = backup[Highest(saved)]]
           /\ backup' = [backup EXCEPT ![Highest(saved)] = NoFile]
  <2> DEFINE top == Highest(saved)
  <2>0. top \in saved /\ top \in Piece
    BY <1>0, <1>2, HighestInSet DEF Types
  <2> HIDE DEF top
  <2> USE <1>0, <1>2, <2>0
  <2>1. /\ saved' = saved \ {top} /\ final' = [final EXCEPT ![top] = backup[top]]
        /\ backup' = [backup EXCEPT ![top] = NoFile]
    BY DEF top
  <2>2. Types'
    <3>1. /\ final \in [Piece -> Gen] /\ backup \in [Piece -> Gen]
          /\ backup[top] \in Gen /\ NoFile \in Gen
      BY DEF Types
    <3>2. final' \in [Piece -> Gen] /\ backup' \in [Piece -> Gen]
      BY <2>1, <3>1
    <3> QED BY <2>1, <3>2 DEF Types
  <2>3. \A p \in Piece : final'[p] = IF p = top THEN before[p] ELSE final[p]
    BY <2>1 DEF Types, RestoreInv
  <2>4. NothingAhead' /\ KindMatches'
    BY <2>3 DEF NothingAhead, KindMatches, Bundling, DirectStep, Types
  <2>5. RestoreInv'
    <3>1. \A p \in saved' : backup'[p] = before[p]
      BY <2>1 DEF Types, RestoreInv
    <3>2. \A p \in Piece : final'[p] = IF p \in saved' THEN NoFile ELSE before[p]
      BY <2>1, <2>3 DEF RestoreInv
    <3> QED BY <3>1, <3>2 DEF RestoreInv
  <2>6. Whole(final)' /\ Whole(before)'
    BY <2>3 DEF Whole, RestoreInv
  <2>7. StagingInv' /\ BackupInv' /\ InstallInv' /\ UndoInv' /\ RestInv'
    BY DEF StagingInv, Staging, BackupInv, InstallInv, UndoInv, RestInv, DirectStep
  <2> QED BY <2>2, <2>4, <2>5, <2>6, <2>7 DEF IInv
<1> QED BY <1>1, <1>2 DEF RestoreBackup

LEMMA DiscardBackupsInv ==
  ASSUME IInv, DiscardBackups
  PROVE  IInv'
<1> USE FactStoreAssumption
    DEF DB, META, CACHE, Piece, Gen, NoFile, Kind, Goto, history, DiscardBackups
<1>1. Types'
  <2>1. PICK kept \in SUBSET saved :
          backup' = [p \in Piece |-> IF p \in saved \ kept THEN NoFile ELSE backup[p]]
    OBVIOUS
  <2>2. backup' \in [Piece -> Gen]
    BY <2>1 DEF IInv, Types
  <2> QED BY <2>2 DEF IInv, Types, Control
<1>2. NothingAhead' /\ KindMatches' /\ Whole(final)' /\ Whole(before)'
  BY DEF IInv, NothingAhead, KindMatches, Bundling, DirectStep, Whole
<1>3. StagingInv' /\ BackupInv' /\ InstallInv' /\ UndoInv' /\ RestoreInv'
  BY DEF StagingInv, Staging, BackupInv, InstallInv, UndoInv, RestoreInv
<1>4. RestInv'
  BY DEF IInv, RestInv, DirectStep, Committed
<1> QED BY <1>1, <1>2, <1>3, <1>4 DEF IInv

LEMMA PruneCacheInv ==
  ASSUME IInv, PruneCache
  PROVE  IInv'
<1> USE FactStoreAssumption
    DEF DB, META, CACHE, Piece, Gen, NoFile, Kind, Goto, history, PruneCache
<1>0. final \in [Piece -> Gen] /\ NoFile \in Gen
  BY DEF IInv, Types
<1>a. final' = final \/ final' = [final EXCEPT ![CACHE] = NoFile]
  OBVIOUS
<1>b. final' \in [Piece -> Gen]
  BY <1>0, <1>a
<1>c. final'[DB] = final[DB] /\ final'[META] = final[META] /\ final'[CACHE] \in {final[CACHE], NoFile}
  BY <1>0, <1>a
<1>1. Types'
  BY <1>b DEF IInv, Types, Control
<1>2. NothingAhead' /\ KindMatches' /\ Whole(final)' /\ Whole(before)'
  BY <1>c DEF IInv, Types, NothingAhead, KindMatches, Bundling, DirectStep, Whole
<1>3. StagingInv' /\ BackupInv' /\ InstallInv' /\ UndoInv' /\ RestoreInv'
  BY DEF StagingInv, Staging, BackupInv, InstallInv, UndoInv, RestoreInv
<1>4. RestInv'
  BY <1>c DEF IInv, RestInv, DirectStep, Committed
<1> QED BY <1>1, <1>2, <1>3, <1>4 DEF IInv

LEMMA WriteIndexInv ==
  ASSUME IInv, WriteIndex
  PROVE  IInv'
<1> USE FactStoreAssumption
    DEF DB, META, CACHE, Piece, Gen, NoFile, Kind, Goto, history, WriteIndex
<1>1. Types'
  BY DEF IInv, Types, Control
<1>2. NothingAhead' /\ KindMatches' /\ Whole(final)' /\ Whole(before)'
  BY DEF IInv, NothingAhead, KindMatches, Bundling, DirectStep, Whole
<1>3. StagingInv' /\ BackupInv' /\ InstallInv' /\ UndoInv' /\ RestoreInv'
  BY DEF StagingInv, Staging, BackupInv, InstallInv, UndoInv, RestoreInv
<1>4. RestInv'
  BY DEF IInv, RestInv, DirectStep, KindMatches, Bundling
<1> QED BY <1>1, <1>2, <1>3, <1>4 DEF IInv

LEMMA CleanStageInv ==
  ASSUME IInv, CleanStage
  PROVE  IInv'
<1> USE FactStoreAssumption
    DEF DB, META, CACHE, Piece, Gen, NoFile, Kind, Goto, history, CleanStage
<1>1. Types'
  <2>1. stage' \in [Piece -> Gen]
    BY DEF IInv, Types, AllAbsent
  <2> QED BY <2>1 DEF IInv, Types, Control
<1>2. NothingAhead' /\ Whole(final)' /\ Whole(before)'
  BY DEF IInv, NothingAhead, Whole
<1>5. KindMatches'
  BY DEF KindMatches, Bundling, Staging, DirectStep
<1>3. StagingInv' /\ BackupInv' /\ InstallInv' /\ UndoInv' /\ RestoreInv'
  BY DEF StagingInv, Staging, BackupInv, InstallInv, UndoInv, RestoreInv
<1>4. RestInv'
  BY DEF IInv, RestInv, DirectStep
<1> QED BY <1>1, <1>2, <1>3, <1>4, <1>5 DEF IInv

\* The three steps of write/2.  The database they leave is a direct one, or
\* no database and metadata are left side by side.
LEMMA DirectInv ==
  ASSUME IInv, DirectDb \/ DirectMeta \/ DirectCache
  PROVE  IInv'
<1> USE FactStoreAssumption
    DEF DB, META, CACHE, Piece, Gen, NoFile, Kind, Goto, history
<1>0. /\ pc \in DirectStep /\ pc' \in DirectStep \union {"idle"}
      /\ kind[gen] = "direct" /\ kind' = kind /\ gen' = gen /\ before' = before
      /\ saved' = saved /\ installed' = installed /\ at' = at
      /\ stage' = stage /\ backup' = backup
  BY DEF IInv, KindMatches, DirectStep, DirectDb, DirectMeta, DirectCache
<1>1. /\ final' \in [Piece -> Gen]
      /\ final'[DB] \in {final[DB], gen}
      /\ final'[META] \in {final[META], NoFile}
      /\ final'[CACHE] \in {final[CACHE], NoFile}
  <2>1. final \in [Piece -> Gen] /\ NoFile \in Gen /\ gen \in Gen
    BY DEF IInv, Types
  <2>2. CASE DirectDb
    <3>1. PICK g \in {final[DB], gen} : final' = [final EXCEPT ![DB] = g]
      BY <2>2 DEF DirectDb
    <3> QED BY <2>1, <3>1
  <2>3. CASE DirectMeta
    <3>1. final' = final \/ final' = [final EXCEPT ![META] = NoFile]
      BY <2>3 DEF DirectMeta
    <3> QED BY <2>1, <3>1
  <2>4. CASE DirectCache
    <3>1. final' = final \/ final' = [final EXCEPT ![CACHE] = NoFile]
      BY <2>4 DEF DirectCache
    <3> QED BY <2>1, <3>1
  <2> QED BY <2>2, <2>3, <2>4
<1>2. Types'
  BY <1>0, <1>1 DEF IInv, Types, Control, DirectStep
<1>3. NothingAhead' /\ KindMatches'
  <2>1. gen \in Nat /\ NoFile <= gen /\ \A p \in Piece : final[p] <= gen /\ before[p] <= gen
    BY DEF IInv, Types, NothingAhead
  <2>2. \A p \in Piece : final'[p] \in {final[p], gen, NoFile}
    BY <1>1
  <2>3. \A p \in Piece : final'[p] <= gen
    BY <2>1, <2>2
  <2>4. gen # 0
    BY <1>0 DEF IInv, NothingAhead, DirectStep
  <2>5. NothingAhead'
    BY <1>0, <2>1, <2>3, <2>4 DEF NothingAhead
  <2>6. KindMatches'
    BY <1>0 DEF KindMatches, Bundling, Staging, DirectStep
  <2> QED BY <2>5, <2>6
<1>4. Whole(final)' /\ Whole(before)'
  BY <1>0, <1>1 DEF IInv, Whole
<1>5. StagingInv' /\ BackupInv' /\ InstallInv' /\ UndoInv' /\ RestoreInv'
  BY <1>0 DEF DirectStep, StagingInv, Staging, BackupInv, InstallInv, UndoInv, RestoreInv
<1>6. RestInv'
  BY <1>0 DEF IInv, RestInv, DirectStep, DirectDb, DirectMeta, DirectCache
<1> QED BY <1>2, <1>3, <1>4, <1>5, <1>6 DEF IInv

\* Death of the program leaves the files, whatever they are, and Whole(final)
\* is what every one of its moments guarantees.
LEMMA CrashInv ==
  ASSUME IInv, Crash
  PROVE  IInv'
<1> USE FactStoreAssumption
    DEF DB, META, CACHE, Piece, Gen, NoFile, Kind, history, disk, Crash
<1>1. Types'
  BY DEF IInv, Types, Control
<1>2. NothingAhead' /\ Whole(final)' /\ Whole(before)'
  BY DEF IInv, NothingAhead, Whole
<1>5. KindMatches'
  BY DEF KindMatches, Bundling, Staging, DirectStep
<1>3. StagingInv' /\ BackupInv' /\ InstallInv' /\ UndoInv' /\ RestoreInv'
  BY DEF StagingInv, Staging, BackupInv, InstallInv, UndoInv, RestoreInv
<1>4. RestInv'
  BY DEF RestInv, DirectStep
<1> QED BY <1>1, <1>2, <1>3, <1>4, <1>5 DEF IInv

\* The clock, and steps of the rest of the world.
LEMMA StutterInv ==
  ASSUME IInv, UNCHANGED <<disk, volatile, kind, gen, before, outcome>>
  PROVE  IInv'
<1>1. Types' /\ NothingAhead' /\ KindMatches' /\ Whole(final)' /\ Whole(before)'
  BY DEF IInv, Types, NothingAhead, KindMatches, Whole, disk, volatile
<1>2. StagingInv' /\ BackupInv' /\ RestoreInv'
  BY DEF IInv, StagingInv, BackupInv, RestoreInv, Bundle, Last, disk, volatile
<1>3. InstallInv' /\ UndoInv'
  BY DEF IInv, InstallInv, UndoInv, Moved, Bundle, Last, disk, volatile
<1>4. RestInv'
  BY DEF IInv, RestInv, Committed, disk, volatile
<1> QED BY <1>1, <1>2, <1>3, <1>4 DEF IInv

------------------------------------------------------------------------------

LEMMA NextInv ==
  ASSUME IInv, [Next]_vars, ~UndoMayFail
  PROVE  IInv'
<1>1. CASE \E k \in Kind : Begin(k)
  BY <1>1, BeginInv
<1>2. CASE StageDb \/ StageMeta \/ StageCache
  BY <1>2, StageDbInv, StageMetaInv, StageCacheInv
<1>3. CASE BackupFile \/ InstallFile \/ UndoInstall \/ RestoreBackup
  BY <1>3, BackupFileInv, InstallFileInv, UndoInstallInv, RestoreBackupInv
<1>4. CASE DiscardBackups \/ PruneCache \/ WriteIndex \/ CleanStage
  BY <1>4, DiscardBackupsInv, PruneCacheInv, WriteIndexInv, CleanStageInv
<1>5. CASE DirectDb \/ DirectMeta \/ DirectCache
  BY <1>5, DirectInv
<1>6. CASE Crash
  BY <1>6, CrashInv
<1>7. CASE Tick \/ UNCHANGED vars
  BY <1>7, StutterInv DEF Tick, vars, history
<1> QED BY <1>1, <1>2, <1>3, <1>4, <1>5, <1>6, <1>7 DEF Next

\* Where rollback steps work, the invariant holds for any number of writes,
\* of failing operations, of crashes and of seconds (write_bundle/4, write/2).
THEOREM Invariance ==
  ASSUME ~UndoMayFail
  PROVE  Spec => []IInv
<1>1. Init => IInv
  BY InitInv
<1>2. IInv /\ [Next]_vars => IInv'
  BY NextInv
<1> QED BY <1>1, <1>2, PTL DEF Spec

------------------------------------------------------------------------------
(* What holds whether or not the rollback's own operations work.           *)

InPlace == \A p \in Bundle : final[p] = gen

\* How far the write under way has come, and what it has left if it ended well.
Reached ==
  /\ pc \notin {"backup", "install"} => at = DB
  /\ pc \in {"stage_meta", "stage_cache"} => stage[DB] = gen
  /\ pc = "stage_cache" => stage[META] = gen /\ kind[gen] = "cached"
  /\ pc \in {"backup", "install"} => at \in Bundle
  /\ pc = "backup" => \A p \in Bundle : stage[p] = gen
  /\ pc = "install" => \A p \in Bundle : IF p < at THEN final[p] = gen ELSE stage[p] = gen
  /\ pc \in {"discard", "prune", "index"} => InPlace
  /\ pc # "idle" => gen # NoFile

Ended ==
  outcome = "ok" =>
    /\ pc \in {"cleanup", "idle"} /\ gen # NoFile
    /\ kind[gen] # "direct" => InPlace

Progress == Types /\ KindMatches /\ Reached /\ Ended

LEMMA InitProgress == Init => Progress
<1> SUFFICES ASSUME Init PROVE Progress
  OBVIOUS
<1>1. Types /\ KindMatches
  BY InitInv DEF IInv
<1>2. Reached /\ Ended
  BY DEF Init, Reached, Ended, NoFile
<1> QED BY <1>1, <1>2 DEF Progress

\* Beginning and staging.
LEMMA StagingProgress ==
  ASSUME Progress, (\E k \in Kind : Begin(k)) \/ StageDb \/ StageMeta \/ StageCache
  PROVE  Progress'
<1> USE FactStoreAssumption
    DEF DB, META, CACHE, Piece, Gen, NoFile, Kind, Goto, Works, Fails, StageFails, disk, history
<1>0. Types /\ KindMatches /\ Reached /\ Ended
  BY DEF Progress
<1>1. CASE \E k \in Kind : Begin(k)
  <2>1. PICK k \in Kind : Begin(k)
    BY <1>1
  <2>2. /\ k \in {"plain", "cached", "direct"} /\ pc = "idle" /\ outcome' = "none"
        /\ gen' = gen + 1 /\ gen' \in Gen /\ gen' # 0 /\ at' = at
        /\ kind' \in [Gen -> Kind] /\ kind'[gen'] = k
        /\ pc' = (IF k = "direct" THEN "direct_db" ELSE "stage_db")
    BY <1>0, <2>1 DEF Begin, Types
  <2>3. Types'
    BY <1>0, <2>1, <2>2 DEF Begin, Types, Control
  <2>4. KindMatches' /\ Reached' /\ Ended'
    BY <1>0, <2>2 DEF KindMatches, Bundling, Staging, DirectStep, Reached, Ended
  <2> QED BY <2>3, <2>4 DEF Progress
<1>2. CASE StageDb \/ StageMeta \/ StageCache
  <2>1. /\ UNCHANGED <<final, before, backup, kind, gen, at, saved, installed>>
        /\ pc \in Staging /\ pc' \in Staging \union {"backup", "cleanup"}
        /\ pc' = "cleanup" => outcome' = "error"
        /\ pc' # "cleanup" => outcome' = outcome
    BY <1>2 DEF StageDb, StageMeta, StageCache, Staging
  <2>2. /\ stage' \in [Piece -> Gen]
        /\ pc' \in {"stage_meta", "stage_cache", "backup"} => stage'[DB] = gen
        /\ pc' \in {"stage_cache", "backup"} => stage'[META] = gen
        /\ pc' = "stage_cache" => kind[gen] = "cached"
        /\ pc' = "backup" => \/ kind[gen] = "plain"
                             \/ kind[gen] = "cached" /\ stage'[CACHE] = gen
    <3>0. stage \in [Piece -> Gen] /\ gen \in Gen /\ 0 \in Gen /\ kind[gen] \in {"plain", "cached"}
      BY <1>0, <2>1 DEF Types, KindMatches, Bundling
    <3>1. CASE StageDb
      BY <3>0, <3>1 DEF StageDb
    <3>2. CASE StageMeta
      BY <1>0, <3>0, <3>2 DEF StageMeta, Reached
    <3>3. CASE StageCache
      BY <1>0, <3>0, <3>3 DEF StageCache, Reached
    <3> QED BY <1>2, <3>1, <3>2, <3>3
  <2>3. Types'
    BY <1>0, <2>1, <2>2 DEF Types, Control, Staging
  <2>4. KindMatches' /\ Ended'
    BY <1>0, <2>1 DEF KindMatches, Bundling, Staging, DirectStep, Ended
  <2>5. at = DB /\ gen # 0
    BY <1>0, <2>1 DEF Reached, Staging
  <2>6. pc' = "backup" => at' \in Bundle' /\ \A p \in Bundle' : stage'[p] = gen'
    BY <2>1, <2>2, <2>5 DEF Bundle, Last
  <2>7. Reached'
    BY <2>1, <2>2, <2>5, <2>6 DEF Reached, Staging
  <2> QED BY <2>3, <2>4, <2>7 DEF Progress
<1> QED BY <1>1, <1>2

\* The moves: every file of the bundle in its turn, and the way back.
LEMMA MovingProgress ==
  ASSUME Progress, BackupFile \/ InstallFile \/ UndoInstall \/ RestoreBackup
  PROVE  Progress'
<1> USE FactStoreAssumption
    DEF DB, META, CACHE, Piece, Gen, NoFile, Kind, Goto, Works, Fails, history
<1>0. /\ Types /\ KindMatches /\ Reached /\ Ended
      /\ UNCHANGED <<kind, gen, before>> /\ Bundle' = Bundle
      /\ pc \in {"backup", "install", "undo", "restore"} /\ outcome # "ok" /\ gen # 0
      /\ kind[gen] \in {"plain", "cached"} /\ Last \in {META, CACHE} /\ Last' = Last
  BY DEF Progress, BackupFile, InstallFile, UndoInstall, RestoreBackup, Bundle, Last,
         Reached, Ended, KindMatches, Bundling
<1>a. Bundle = {p \in Piece : p <= Last}
  BY DEF Bundle
\* How the writer goes on.
<1>1. \A phase \in Control : Advance(phase) /\ at \in Bundle =>
        \/ at = Last /\ at' = DB /\ pc' = phase
        \/ at # Last /\ at' = at + 1 /\ at' \in Bundle /\ pc' = pc
  BY <1>0, <1>a DEF Advance
<1>2. CASE BackupFile
  <2>0. at \in Bundle /\ pc = "backup" /\ stage' = stage /\ installed' = installed
    BY <1>0, <1>2 DEF BackupFile, Reached
  <2>1. /\ \/ pc' = "restore" /\ at' = DB /\ outcome' = "error"
           \/ pc' = "install" /\ at' = DB /\ outcome' = outcome
           \/ pc' = "backup" /\ at' \in Bundle /\ outcome' = outcome
    <3>1. Advance("install") =>
            \/ at' = DB /\ pc' = "install"
            \/ pc' = "backup" /\ at' \in Bundle
      BY <1>1, <2>0 DEF Control
    <3>2. \/ Advance("install") /\ outcome' = outcome
          \/ pc' = "restore" /\ at' = DB /\ outcome' = "error"
      BY <1>2 DEF BackupFile
    <3> QED BY <3>1, <3>2
  <2>2. /\ final' \in [Piece -> Gen] /\ backup' \in [Piece -> Gen] /\ saved' \subseteq Piece
    <3>1. final \in [Piece -> Gen] /\ backup \in [Piece -> Gen] /\ 0 \in Gen /\ final[at] \in Gen
          /\ saved \subseteq Piece /\ at \in Piece
      BY <1>0 DEF Types
    <3>2. CASE UNCHANGED <<final, backup, saved>>
      BY <3>1, <3>2
    <3>3. CASE /\ backup' = [backup EXCEPT ![at] = final[at]]
               /\ final' = [final EXCEPT ![at] = NoFile]
               /\ saved' = saved \union {at}
      BY <3>1, <3>3
    <3> QED BY <1>2, <3>2, <3>3 DEF BackupFile
  <2>3. Types' /\ KindMatches' /\ Ended'
    BY <1>0, <1>a, <2>0, <2>1, <2>2 DEF Types, Control, KindMatches, Bundling, Staging, DirectStep, Ended
  <2>4. Reached'
    BY <1>0, <1>a, <2>0, <2>1 DEF Reached, Types
  <2> QED BY <2>3, <2>4 DEF Progress
<1>3. CASE InstallFile
  <2>0. at \in Bundle /\ pc = "install" /\ backup' = backup /\ saved' = saved
    BY <1>0, <1>3 DEF InstallFile, Reached
  <2>1. CASE Fails /\ Goto("undo") /\ at' = DB /\ outcome' = "error"
             /\ UNCHANGED <<final, stage, installed>>
    <3>1. Types' /\ KindMatches' /\ Reached' /\ Ended'
      BY <1>0, <2>0, <2>1 DEF Types, Control, KindMatches, Bundling, Staging, DirectStep, Reached, Ended
    <3> QED BY <3>1 DEF Progress
  <2>2. CASE /\ Advance("discard") /\ outcome' = outcome
             /\ final' = [final EXCEPT ![at] = stage[at]]
             /\ stage' = [stage EXCEPT ![at] = NoFile]
             /\ installed' = installed \union {at}
    <3>0. /\ final \in [Piece -> Gen] /\ stage \in [Piece -> Gen] /\ 0 \in Gen
          /\ at \in Piece /\ stage[at] \in Gen /\ installed \subseteq Piece
      BY <1>0 DEF Types
    <3>1. final' \in [Piece -> Gen] /\ stage' \in [Piece -> Gen] /\ installed' \subseteq Piece
      BY <2>2, <3>0
    <3>2. \/ at = Last /\ at' = DB /\ pc' = "discard"
          \/ at # Last /\ at' = at + 1 /\ at' \in Bundle /\ pc' = "install"
      BY <1>1, <2>0, <2>2 DEF Control
    <3>3. Types' /\ KindMatches' /\ Ended'
      BY <1>0, <1>a, <2>0, <2>2, <3>1, <3>2
      DEF Types, Control, KindMatches, Bundling, Staging, DirectStep, Ended
    <3>4. \A p \in Bundle : IF p <= at THEN final'[p] = gen ELSE stage'[p] = gen
      BY <1>0, <1>a, <2>0, <2>2, <3>0 DEF Reached
    <3>5. Reached'
      BY <1>0, <1>a, <2>0, <3>0, <3>2, <3>4 DEF Reached, InPlace
    <3> QED BY <3>3, <3>5 DEF Progress
  <2> QED BY <1>3, <2>1, <2>2 DEF InstallFile
<1>4. CASE UndoInstall \/ RestoreBackup
  <2>1. /\ UNCHANGED <<stage, at, outcome>>
        /\ pc \in {"undo", "restore"} /\ pc' \in {"undo", "restore", "cleanup"}
    BY <1>4 DEF UndoInstall, RestoreBackup
  <2>2. /\ final' \in [Piece -> Gen] /\ backup' \in [Piece -> Gen]
        /\ saved' \subseteq Piece /\ installed' \subseteq Piece
    <3>1. final \in [Piece -> Gen] /\ backup \in [Piece -> Gen] /\ 0 \in Gen
          /\ saved \subseteq Piece /\ installed \subseteq Piece
      BY <1>0 DEF Types
    <3>2. CASE UndoInstall
      BY <3>1, <3>2 DEF UndoInstall
    <3>3. CASE RestoreBackup
      <4>1. saved # {} => Highest(saved) \in Piece
        BY <3>1, HighestInSet
      <4>2. saved # {} => backup[Highest(saved)] \in Gen
        BY <3>1, <4>1
      <4>3. /\ saved' \subseteq saved /\ installed' = installed
            /\ \/ UNCHANGED <<final, backup>>
               \/ /\ saved # {}
                  /\ final' = [final EXCEPT ![Highest(saved)] = backup[Highest(saved)]]
                  /\ backup' = [backup EXCEPT ![Highest(saved)] = NoFile]
        BY <3>3 DEF RestoreBackup
      <4> QED BY <3>1, <4>2, <4>3
    <3> QED BY <1>4, <3>2, <3>3
  <2>3. Types' /\ KindMatches' /\ Reached' /\ Ended'
    BY <1>0, <2>1, <2>2 DEF Types, Control, KindMatches, Bundling, Staging, DirectStep, Reached, Ended
  <2> QED BY <2>3 DEF Progress
<1> QED BY <1>2, <1>3, <1>4

\* What follows the commit, and the after clause.
LEMMA FinishingProgress ==
  ASSUME Progress, DiscardBackups \/ PruneCache \/ WriteIndex \/ CleanStage
  PROVE  Progress'
<1> USE FactStoreAssumption
    DEF DB, META, CACHE, Piece, Gen, NoFile, Kind, Goto, Works, Fails, history, AllAbsent
<1>0. /\ Types /\ KindMatches /\ Reached /\ Ended
      /\ UNCHANGED <<kind, gen, before, at>> /\ Bundle' = Bundle
      /\ pc \in {"discard", "prune", "index", "cleanup"} /\ gen # 0 /\ at = DB
      /\ pc' \in {"prune", "index", "cleanup", "idle"}
      /\ pc # "cleanup" => kind[gen] \in {"plain", "cached"} /\ outcome # "ok" /\ InPlace
      /\ pc = "cleanup" => outcome' = outcome /\ pc' = "idle"
      /\ saved' \subseteq saved /\ installed' \subseteq installed
  BY DEF Progress, DiscardBackups, PruneCache, WriteIndex, CleanStage, Bundle, Last,
         Reached, Ended, KindMatches, Bundling
<1>1. stage' \in [Piece -> Gen] /\ backup' \in [Piece -> Gen] /\ final' \in [Piece -> Gen]
  <2>1. stage \in [Piece -> Gen] /\ backup \in [Piece -> Gen] /\ final \in [Piece -> Gen] /\ 0 \in Gen
    BY <1>0 DEF Types
  <2>2. backup' \in [Piece -> Gen]
    <3>1. CASE DiscardBackups
      <4>1. PICK kept \in SUBSET saved :
              backup' = [p \in Piece |-> IF p \in saved \ kept THEN NoFile ELSE backup[p]]
        BY <3>1 DEF DiscardBackups
      <4> QED BY <2>1, <4>1
    <3> QED BY <2>1, <3>1 DEF PruneCache, WriteIndex, CleanStage
  <2>3. stage' \in [Piece -> Gen]
    BY <2>1 DEF DiscardBackups, PruneCache, WriteIndex, CleanStage
  <2>4. final' \in [Piece -> Gen]
    BY <2>1 DEF DiscardBackups, PruneCache, WriteIndex, CleanStage
  <2> QED BY <2>2, <2>3, <2>4
<1>2. InPlace => InPlace'
  <2>1. final \in [Piece -> Gen]
    BY <1>0 DEF Types
  <2>2. CASE PruneCache /\ kind[gen] = "plain"
    <3>1. \A p \in Bundle : final'[p] = final[p]
      BY <2>1, <2>2 DEF PruneCache, Bundle, Last
    <3> QED BY <1>0, <3>1 DEF InPlace
  <2>3. CASE final' = final
    BY <1>0, <2>3 DEF InPlace
  <2> QED BY <2>2, <2>3 DEF DiscardBackups, PruneCache, WriteIndex, CleanStage
<1>3. outcome' = "ok" => (kind[gen] # "direct" => InPlace')
  BY <1>0, <1>2 DEF Ended
<1>4. outcome' = "ok" => pc' \in {"cleanup", "idle"}
  BY <1>0 DEF DiscardBackups, PruneCache, WriteIndex, CleanStage
<1>5. Types'
  BY <1>0, <1>1 DEF Types, Control
<1>6. KindMatches' /\ Reached' /\ Ended'
  BY <1>0, <1>2, <1>3, <1>4 DEF KindMatches, Bundling, Staging, DirectStep, Reached, Ended
<1> QED BY <1>5, <1>6 DEF Progress

\* The steps of write/2, and the world's.
LEMMA OtherProgress ==
  ASSUME Progress, DirectDb \/ DirectMeta \/ DirectCache \/ Crash \/ Tick \/ UNCHANGED vars
  PROVE  Progress'
<1> USE FactStoreAssumption
    DEF DB, META, CACHE, Piece, Gen, NoFile, Kind, Goto, Works, Fails, history, disk, volatile
<1>0. Types /\ KindMatches /\ Reached /\ Ended
  BY DEF Progress
<1>1. CASE DirectDb \/ DirectMeta \/ DirectCache
  <2>1. /\ UNCHANGED <<kind, gen, before, at, stage, backup, saved, installed>>
        /\ pc \in DirectStep /\ pc' \in DirectStep \union {"idle"} /\ kind[gen] = "direct"
        /\ outcome' = "ok" => pc' = "idle"
    BY <1>0, <1>1 DEF DirectDb, DirectMeta, DirectCache, KindMatches, DirectStep, Ended
  <2>2. final' \in [Piece -> Gen]
    <3>1. final \in [Piece -> Gen] /\ 0 \in Gen /\ gen \in Gen /\ final[DB] \in Gen
      BY <1>0 DEF Types
    <3> QED BY <1>1, <3>1 DEF DirectDb, DirectMeta, DirectCache
  <2>3. Types'
    BY <1>0, <2>1, <2>2 DEF Types, Control, DirectStep
  <2>4. KindMatches' /\ Reached' /\ Ended'
    BY <1>0, <2>1 DEF KindMatches, Bundling, Staging, DirectStep, Reached, Ended
  <2> QED BY <2>3, <2>4 DEF Progress
<1>2. CASE Crash
  <2>1. Types'
    BY <1>0, <1>2 DEF Crash, Types, Control
  <2>2. KindMatches' /\ Reached' /\ Ended'
    BY <1>0, <1>2 DEF Crash, KindMatches, Bundling, Staging, DirectStep, Reached, Ended
  <2> QED BY <2>1, <2>2 DEF Progress
<1>3. CASE Tick \/ UNCHANGED vars
  <2>1. UNCHANGED <<final, stage, backup, before, kind, gen, pc, at, saved, installed, outcome>>
    BY <1>3 DEF Tick, vars
  <2>2. Types' /\ KindMatches' /\ Reached' /\ Ended'
    BY <1>0, <2>1 DEF Types, KindMatches, Reached, Ended, InPlace, Bundle, Last
  <2> QED BY <2>2 DEF Progress
<1> QED BY <1>1, <1>2, <1>3

LEMMA NextProgress == Progress /\ [Next]_vars => Progress'
BY StagingProgress, MovingProgress, FinishingProgress, OtherProgress DEF Next

LEMMA AlwaysProgress == Spec => []Progress
BY InitProgress, NextProgress, PTL DEF Spec

\* The variables the other part of TypeOK is about.
Counters ==
  /\ idx \in [gen : Gen, time : 0 .. MaxClock]
  /\ mtime \in [Gen -> 0 .. MaxClock] /\ clock \in 0 .. MaxClock
  /\ outcome \in Outcome
  /\ failures \in 0 .. MaxFailures /\ crashes \in 0 .. MaxCrashes

LEMMA CountersNext ==
  ASSUME Types, Counters, [Next]_vars
  PROVE  Counters'
<1>0. gen \in Gen /\ Counters
  BY DEF Types
<1>a. idx' = idx => idx' \in [gen : Gen, time : 0 .. MaxClock]
  BY <1>0 DEF Counters
<1> USE <1>0, <1>a, FactStoreAssumption DEF Counters, Works, Fails, Outcome
<1>1. CASE \E k \in Kind : Begin(k)
  BY <1>1 DEF Begin, disk
<1>2. CASE StageDb
  BY <1>2 DEF StageDb, StageFails
<1>3. CASE StageMeta \/ StageCache
  BY <1>3 DEF StageMeta, StageCache, StageFails, history
<1>4. CASE BackupFile \/ InstallFile
  BY <1>4 DEF BackupFile, InstallFile, history
<1>5. CASE UndoInstall \/ RestoreBackup
  BY <1>5 DEF UndoInstall, RestoreBackup, history
<1>6. CASE DiscardBackups \/ PruneCache \/ CleanStage
  BY <1>6 DEF DiscardBackups, PruneCache, CleanStage, history
<1>7. CASE WriteIndex
  <2>1. idx' \in {[gen |-> gen, time |-> clock], [gen |-> NoFile, time |-> 0], idx}
    BY <1>7 DEF WriteIndex
  <2>2. NoFile \in Gen /\ 0 \in 0 .. MaxClock
    BY DEF Gen, NoFile
  <2>3. idx' \in [gen : Gen, time : 0 .. MaxClock]
    BY <2>1, <2>2
  <2> QED BY <1>7, <2>3 DEF WriteIndex, history
<1>8. CASE DirectDb \/ DirectMeta \/ DirectCache
  BY <1>8 DEF DirectDb, DirectMeta, DirectCache, history
<1>9. CASE Crash \/ Tick
  BY <1>9 DEF Crash, Tick, disk, volatile, history
<1>10. CASE UNCHANGED vars
  BY <1>10 DEF vars, disk, history
<1> QED BY <1>1, <1>2, <1>3, <1>4, <1>5, <1>6, <1>7, <1>8, <1>9, <1>10 DEF Next

\* Type correctness, for every value of the constants.
THEOREM TypeCorrect == Spec => []TypeOK
<1>1. Init => Counters
  BY FactStoreAssumption DEF Init, Counters, Gen, NoFile, Outcome
<1>2. Progress /\ Counters /\ [Next]_vars => Counters'
  BY CountersNext DEF Progress
<1>3. Progress /\ Counters => TypeOK
  BY DEF Progress, Types, Counters, TypeOK
<1> QED BY <1>1, <1>2, <1>3, AlwaysProgress, PTL DEF Spec

\* What write_bundle/4 answers ok for is on disk, all of it and nothing older,
\* whatever failed or crashed in the writes before it.
THEOREM CommittedMeansWhole == Spec => []CommittedBundleIsWhole
<1>1. Progress => CommittedBundleIsWhole
  <2> SUFFICES ASSUME Progress, pc = "idle", outcome = "ok", kind[gen] # "direct"
               PROVE  /\ final[DB] = gen /\ final[META] = gen
                      /\ CacheTrusted <=> kind[gen] = "cached"
    BY DEF CommittedBundleIsWhole
  <2>1. InPlace /\ gen # NoFile /\ gen \in Gen /\ kind[gen] \in Kind
    BY DEF Progress, Ended, Types
  <2>2. final[DB] = gen /\ final[META] = gen /\ (kind[gen] = "cached" => final[CACHE] = gen)
    BY <2>1 DEF InPlace, Bundle, Last, Piece, DB, META, CACHE
  <2> QED BY <2>1, <2>2 DEF CacheTrusted
<1> QED BY <1>1, AlwaysProgress, PTL

------------------------------------------------------------------------------
(* The text index                                                          *)

\* Database g is the one the index describes, or no older than the index.
NotOlder(g) == g = NoFile \/ g = idx.gen \/ idx.time <= mtime[g]

\* So is every file that is, or may come to be, the database.
Dated ==
  /\ idx.time <= clock /\ NotOlder(final[DB])
  /\ pc \in {"stage_meta", "stage_cache", "backup"} \/ (pc = "install" /\ at = DB)
       => NotOlder(gen)
  /\ DB \in saved => /\ pc \in {"backup", "install", "undo", "restore", "discard"}
                     /\ NotOlder(backup[DB])

LEMMA DatedNext ==
  ASSUME Progress, Counters, Dated, [Next]_vars
  PROVE  Dated'
<1> USE DEF DB, META, CACHE, Goto, Works, Fails, StageFails, disk, history, volatile
<1>0. Types /\ Counters /\ Dated /\ Reached
  BY DEF Progress
<1>a. /\ final \in [Piece -> Gen] /\ stage \in [Piece -> Gen] /\ backup \in [Piece -> Gen]
      /\ mtime \in [Gen -> 0 .. MaxClock] /\ clock \in Nat /\ idx.time \in Nat /\ gen \in Gen
      /\ saved \subseteq Piece /\ at \in Piece
      /\ final[DB] \in Gen /\ backup[DB] \in Gen
  <2>1. /\ clock \in 0 .. MaxClock /\ idx \in [gen : Gen, time : 0 .. MaxClock]
        /\ mtime \in [Gen -> 0 .. MaxClock]
    BY <1>0 DEF Counters
  <2>2. idx.time \in 0 .. MaxClock
    BY <2>1
  <2>3. \A n \in 0 .. MaxClock : n \in Nat
    BY FactStoreAssumption
  <2>4. clock \in Nat /\ idx.time \in Nat
    BY <2>1, <2>2, <2>3
  <2>5. /\ final \in [Piece -> Gen] /\ stage \in [Piece -> Gen] /\ backup \in [Piece -> Gen]
        /\ gen \in Gen /\ saved \subseteq Piece /\ at \in Piece
    BY <1>0 DEF Types
  <2> QED BY <2>1, <2>4, <2>5 DEF Piece
<1>b. DB \in Piece /\ NoFile = 0 /\ at \in {1, 2, 3}
  BY <1>a DEF Piece, NoFile
<1>2. CASE \E k \in Kind : Begin(k)
  <2>1. /\ UNCHANGED <<idx, mtime, clock, final, saved, backup, at>> /\ pc = "idle"
        /\ pc' \in {"direct_db", "stage_db"}
    BY <1>2 DEF Begin
  <2> QED BY <1>0, <2>1 DEF Dated, NotOlder
<1>3. CASE StageDb
  <2>1. /\ UNCHANGED <<idx, clock, final, saved, gen>> /\ pc = "stage_db"
        /\ mtime' = [mtime EXCEPT ![gen] = clock] /\ pc' \in {"stage_meta", "cleanup"}
    BY <1>3 DEF StageDb
  <2>2. NotOlder(gen)' /\ NotOlder(final[DB])'
    BY <1>0, <1>a, <2>1 DEF NotOlder, Dated
  <2> QED BY <1>0, <2>1, <2>2 DEF Dated, NotOlder
<1>4. CASE StageMeta \/ StageCache
  <2>1. /\ UNCHANGED <<idx, mtime, clock, final, saved, gen, at>> /\ pc \in {"stage_meta", "stage_cache"}
        /\ pc' \in {"stage_cache", "backup", "cleanup"}
    BY <1>4 DEF StageMeta, StageCache
  <2> QED BY <1>0, <2>1 DEF Dated, NotOlder
<1>5. CASE BackupFile
  <2>1. UNCHANGED <<idx, mtime, clock, gen>> /\ pc = "backup" /\ pc' \in {"backup", "install", "restore"}
    BY <1>5 DEF BackupFile, Advance
  <2>2. \/ UNCHANGED <<final, backup, saved>>
        \/ at # DB /\ final'[DB] = final[DB] /\ backup'[DB] = backup[DB] /\ (DB \in saved' <=> DB \in saved)
        \/ at = DB /\ final'[DB] = NoFile /\ backup'[DB] = final[DB]
    BY <1>5, <1>a, <1>b DEF BackupFile
  <2>3. NotOlder(NoFile)
    BY DEF NotOlder
  <2> QED BY <1>0, <2>1, <2>2, <2>3 DEF Dated, NotOlder
<1>6. CASE InstallFile
  <2>1. /\ UNCHANGED <<idx, mtime, clock, gen, backup, saved>> /\ pc = "install"
        /\ pc' \in {"install", "undo", "discard"}
        /\ pc' = "install" => at' = at + 1
    BY <1>6 DEF InstallFile, Advance
  <2>2. final'[DB] = final[DB] \/ (at = DB /\ final'[DB] = stage[DB])
    BY <1>6, <1>a, <1>b DEF InstallFile
  <2>3. at = DB => stage[DB] = gen
    BY <1>0, <1>b, <2>1 DEF Reached, Bundle, Last
  <2>4. NotOlder(final[DB])'
    BY <1>0, <2>1, <2>2, <2>3 DEF Dated, NotOlder
  <2>5. ~(pc' = "install" /\ at' = DB)
    BY <1>b, <2>1
  <2>6. DB \in saved => NotOlder(backup[DB])'
    BY <1>0, <2>1 DEF Dated, NotOlder
  <2>7. idx'.time <= clock'
    BY <1>0, <2>1 DEF Dated
  <2> QED BY <1>0, <2>1, <2>4, <2>5, <2>6, <2>7 DEF Dated
<1>7. CASE UndoInstall
  <2>1. /\ UNCHANGED <<idx, mtime, clock, gen, backup, saved>>
        /\ pc = "undo" /\ pc' \in {"undo", "restore"}
    BY <1>7 DEF UndoInstall
  <2>2. final'[DB] \in {final[DB], NoFile}
    BY <1>7, <1>a, <1>b DEF UndoInstall
  <2>3. NotOlder(NoFile)
    BY DEF NotOlder
  <2> QED BY <1>0, <2>1, <2>2, <2>3 DEF Dated, NotOlder
<1>8. CASE RestoreBackup
  <2>1. /\ UNCHANGED <<idx, mtime, clock, gen>> /\ pc = "restore" /\ pc' \in {"restore", "cleanup"}
        /\ pc' = "cleanup" => saved' = {}
    BY <1>8 DEF RestoreBackup
  <2>2. saved' \subseteq saved /\ (saved # {} => Highest(saved) \in saved /\ saved' = saved \ {Highest(saved)})
    BY <1>8, <1>a, HighestInSet DEF RestoreBackup
  <2>3. \/ UNCHANGED <<final, backup>>
        \/ /\ saved # {} /\ Highest(saved) # DB
           /\ final'[DB] = final[DB] /\ backup'[DB] = backup[DB]
        \/ /\ saved # {} /\ Highest(saved) = DB /\ final'[DB] = backup[DB]
    BY <1>8, <1>a, <1>b DEF RestoreBackup
  <2> QED BY <1>0, <2>1, <2>2, <2>3 DEF Dated, NotOlder
<1>9. CASE DiscardBackups
  <2>1. UNCHANGED <<idx, mtime, clock, final, gen>> /\ saved' = {} /\ pc' = "prune"
    BY <1>9 DEF DiscardBackups
  <2> QED BY <1>0, <2>1 DEF Dated, NotOlder
<1>10. CASE PruneCache \/ CleanStage
  <2>1. /\ UNCHANGED <<idx, mtime, clock, gen, saved>> /\ final'[DB] = final[DB]
        /\ pc \in {"prune", "cleanup"} /\ pc' \in {"index", "idle"}
    BY <1>10, <1>a, <1>b DEF PruneCache, CleanStage
  <2> QED BY <1>0, <2>1 DEF Dated, NotOlder
<1>11. CASE WriteIndex
  <2>1. /\ UNCHANGED <<mtime, clock, final, gen, saved>> /\ pc = "index" /\ pc' = "cleanup"
        /\ idx' \in {[gen |-> gen, time |-> clock], [gen |-> NoFile, time |-> 0], idx}
    BY <1>11 DEF WriteIndex
  <2>2. final[DB] = gen
    BY <1>0, <1>b, <2>1 DEF Reached, InPlace, Bundle, Last
  <2>3. final[DB] = gen /\ (idx' = idx \/ (idx'.gen = gen /\ idx'.time = clock)
                            \/ (idx'.gen = 0 /\ idx'.time = 0))
    BY <1>b, <2>1, <2>2
  <2>4. mtime[gen] \in 0 .. MaxClock
    BY <1>a
  <2>5. 0 <= mtime[gen] /\ clock \in Nat /\ 0 <= clock
    BY <1>a, <2>4, FactStoreAssumption
  <2> QED BY <1>0, <2>1, <2>3, <2>5 DEF Dated, NotOlder
<1>12. CASE DirectDb
  <2>1. /\ UNCHANGED <<idx, clock, saved, gen>> /\ pc = "direct_db"
        /\ mtime' = [mtime EXCEPT ![gen] = clock] /\ pc' \in {"direct_meta", "idle"}
        /\ final'[DB] \in {final[DB], gen}
    BY <1>12, <1>a, <1>b DEF DirectDb
  <2>2. NotOlder(final[DB])'
    BY <1>0, <1>a, <2>1 DEF NotOlder, Dated
  <2> QED BY <1>0, <2>1, <2>2 DEF Dated, NotOlder
<1>13. CASE DirectMeta \/ DirectCache
  <2>1. /\ UNCHANGED <<idx, mtime, clock, gen, saved>> /\ final'[DB] = final[DB]
        /\ pc \in DirectStep /\ pc' \in {"direct_cache", "idle"}
    BY <1>13, <1>a, <1>b DEF DirectMeta, DirectCache, DirectStep, META, CACHE
  <2> QED BY <1>0, <2>1 DEF Dated, NotOlder, DirectStep
<1>14. CASE Crash
  <2>1. UNCHANGED <<idx, mtime, clock, final>> /\ pc' = "idle" /\ saved' = {}
    BY <1>14 DEF Crash
  <2> QED BY <1>0, <2>1 DEF Dated, NotOlder
<1>15. CASE Tick \/ UNCHANGED vars
  <2>1. /\ UNCHANGED <<idx, mtime, final, backup, saved, pc, at, gen>>
        /\ clock' \in {clock, clock + 1}
    BY <1>15 DEF Tick, vars
  <2> QED BY <1>0, <1>a, <2>1 DEF Dated, NotOlder
<1> QED BY <1>2, <1>3, <1>4, <1>5, <1>6, <1>7, <1>8, <1>9, <1>10, <1>11, <1>12,
           <1>13, <1>14, <1>15 DEF Next

\* The index a search uses describes another database only if it was written
\* in the very second that database is stamped with (cached_index/1), whatever
\* failed or crashed, and in either way of writing.
THEOREM IndexIsStaleForASecond == Spec => []StaleIndexOnlyWithinASecond
<1>1. Init => Counters /\ Dated
  <2>1. Init => Counters
    BY FactStoreAssumption DEF Init, Counters, Gen, NoFile, Outcome
  <2>2. Init => Dated
    BY DEF Init, Dated, NotOlder, AllAbsent, DB, META, CACHE, Piece, NoFile
  <2> QED BY <2>1, <2>2
<1>2. Progress /\ Counters /\ Dated /\ [Next]_vars => Counters' /\ Dated'
  BY CountersNext, DatedNext DEF Progress
<1>3. Progress /\ Counters /\ Dated => StaleIndexOnlyWithinASecond
  <2> SUFFICES ASSUME Progress, Counters, Dated, IndexUsed, idx.gen # final[DB]
               PROVE  idx.time = mtime[final[DB]]
    BY DEF StaleIndexOnlyWithinASecond
  <2>1. final[DB] \in Gen /\ mtime[final[DB]] \in Nat /\ idx.time \in Nat
    BY FactStoreAssumption DEF Progress, Types, Counters, Piece
  <2>2. idx.time <= mtime[final[DB]] /\ idx.time >= mtime[final[DB]]
    BY DEF Dated, NotOlder, IndexUsed
  <2> QED BY <2>1, <2>2
<1> QED BY <1>1, <1>2, <1>3, AlwaysProgress, PTL DEF Spec

\* The comment over write_bundle/3: a failed stage or rename leaves the
\* previous database and metadata (and cache) intact.
THEOREM FailedWriteIsHarmless ==
  ASSUME ~UndoMayFail
  PROVE  Spec => []FailedWriteKeepsPrevious
<1>1. IInv => FailedWriteKeepsPrevious
  BY DEF IInv, RestInv, FailedWriteKeepsPrevious
<1> QED BY <1>1, Invariance, PTL

\* No reader, and no restart after a crash, finds one bundle's database
\* beside another's metadata (replace_bundle/1's order of moves).
THEOREM PairNeverTorn ==
  ASSUME ~UndoMayFail
  PROVE  Spec => []NoTornPair
<1>1. IInv => NoTornPair
  BY DEF IInv, Whole, NoTornPair, PairPresent
<1> QED BY <1>1, Invariance, PTL

------------------------------------------------------------------------------
(* The refinement of Snapshot.  The pair a starting program would resume   *)
(* changes with the moves of the database and of the metadata alone, and   *)
(* the invariant says which generation each move takes away or brings.     *)

\* The files a write found are older than its own.
BeforeIsOlder == gen = 0 \/ \A p \in Piece : before[p] < gen

SnapshotInv == IInv /\ BeforeIsOlder

LEMMA OlderNext == IInv /\ BeforeIsOlder /\ [Next]_vars => BeforeIsOlder'
<1> SUFFICES ASSUME IInv, BeforeIsOlder, [Next]_vars
             PROVE  BeforeIsOlder'
  OBVIOUS
<1>1. CASE \E k \in Kind : Begin(k)
  <2>1. /\ final \in [Piece -> Gen] /\ gen \in Nat /\ gen' = gen + 1 /\ before' = final
        /\ \A p \in Piece : final[p] <= gen /\ final[p] \in Nat
    BY <1>1, FactStoreAssumption DEF Begin, IInv, Types, NothingAhead, Gen
  <2>2. \A p \in Piece : before'[p] < gen'
    BY <2>1
  <2> QED BY <2>2 DEF BeforeIsOlder
<1>2. CASE UNCHANGED <<gen, before>>
  BY <1>2 DEF BeforeIsOlder
<1>3. \/ \E k \in Kind : Begin(k)
      \/ UNCHANGED <<gen, before>>
  BY DEF Next, vars, history, StageDb, StageMeta, StageCache, BackupFile, InstallFile,
         UndoInstall, RestoreBackup, DiscardBackups, PruneCache, WriteIndex, CleanStage,
         DirectDb, DirectMeta, DirectCache, Crash, Tick
<1> QED BY <1>1, <1>2, <1>3

\* What is resumed: a bundle that is there as a whole, or nothing.
LEMMA PairIsWhole ==
  ASSUME SnapshotInv
  PROVE  /\ gen \in Nat /\ PairOf(final) \in Nat /\ PairOf(before) \in Nat
         /\ PairOf(before) # 0 => PairOf(before) # gen
         /\ pc \in DirectStep => PairOf(final) # gen \/ PairOf(final) = 0
<1> USE FactStoreAssumption DEF DB, META, CACHE, Piece, Gen, NoFile
<1>1. /\ final \in [Piece -> Gen] /\ before \in [Piece -> Gen] /\ gen \in Gen
  BY DEF SnapshotInv, IInv, Types
<1>2. gen \in Nat /\ final[DB] \in Nat /\ before[DB] \in Nat
  BY <1>1
<1>3. PairOf(before) # 0 => PairOf(before) # gen
  <2>1. before[DB] # 0 => before[DB] < gen
    BY <1>1, <1>2 DEF SnapshotInv, BeforeIsOlder, IInv, NothingAhead
  <2> QED BY <1>2, <2>1 DEF PairOf
<1>4. pc \in DirectStep => PairOf(final) # gen \/ PairOf(final) = 0
  BY DEF PairOf, SnapshotInv, IInv, KindMatches
<1> QED BY <1>2, <1>3, <1>4 DEF PairOf

\* A step that leaves the pair and the phase as they are is no step of Snapshot.
LEMMA SamePair ==
  ASSUME UNCHANGED <<kind, gen, before>>, final'[DB] = final[DB], final'[META] = final[META],
         Replacing' = Replacing
  PROVE  UNCHANGED Promise!vars
<1>1. PairOf(final)' = PairOf(final) /\ PairOf(before)' = PairOf(before)
  BY DEF PairOf
<1> QED BY <1>1 DEF Promise!vars, Fallback

LEMMA BeginRefines ==
  ASSUME SnapshotInv, NEW k \in Kind, Begin(k)
  PROVE  Promise!Issue
<1> USE FactStoreAssumption DEF DB, META, CACHE, Piece, Gen, NoFile
<1>1. /\ kind' = [kind EXCEPT ![gen + 1] = k] /\ gen' = gen + 1 /\ final' = final
      /\ pc = "idle" /\ pc' \in {"direct_db", "stage_db"}
  BY DEF Begin, Goto, disk
<1>2. /\ final[DB] \in Gen /\ final[DB] <= gen /\ kind \in [Gen -> Kind] /\ gen \in Nat
  BY DEF SnapshotInv, IInv, Types, NothingAhead
<1>3. kind'[final[DB]] = kind[final[DB]]
  BY <1>1, <1>2
<1>4. PairOf(final)' = PairOf(final)
  BY <1>1, <1>3 DEF PairOf
<1> QED BY <1>1, <1>4 DEF Promise!Issue, Replacing, Fallback

\* The last file staged opens the replacement, of what the write found.
LEMMA StageRefines ==
  ASSUME SnapshotInv, StageDb \/ StageMeta \/ StageCache
  PROVE  Promise!Open \/ UNCHANGED Promise!vars
<1>1. /\ UNCHANGED <<final, kind, gen, before>> /\ final = before /\ pc \in Staging
      /\ pc' \in Staging \union {"backup", "cleanup"}
  BY DEF StageDb, StageMeta, StageCache, StageFails, Staging, Goto, history,
         SnapshotInv, IInv, StagingInv
<1>2. CASE pc' # "backup"
  BY <1>1, <1>2, SamePair DEF Replacing, Staging
<1>3. CASE pc' = "backup"
  <2>1. PairOf(final) # gen
    <3>1. gen # 0
      BY <1>1 DEF SnapshotInv, IInv, NothingAhead, Staging
    <3> QED BY <1>1, <3>1, PairIsWhole
  <2>2. PairOf(final)' = PairOf(final) /\ PairOf(before)' = PairOf(before)
    BY <1>1 DEF PairOf
  <2>3. Fallback = 0 /\ Fallback' = 0 /\ ~Replacing /\ Replacing'
    BY <1>1, <1>3, <2>2 DEF Fallback, Replacing, Staging
  <2> QED BY <1>1, <2>1, <2>2, <2>3 DEF Promise!Open
<1> QED BY <1>2, <1>3

\* Moving the old database aside withdraws what the write found.
LEMMA BackupRefines ==
  ASSUME SnapshotInv, BackupFile
  PROVE  Promise!Withdraw \/ UNCHANGED Promise!vars
<1> USE DEF DB, META, CACHE, NoFile
<1>1. /\ UNCHANGED <<kind, gen, before>> /\ pc = "backup" /\ at \in Piece
      /\ pc' \in {"backup", "install", "restore"} /\ final \in [Piece -> Gen]
      /\ final' = final \/ final' = [final EXCEPT ![at] = NoFile]
      /\ at = DB => PairOf(final) = PairOf(before)
      /\ at # DB => final[DB] = NoFile
  <2>1. pc = "backup" /\ Types /\ \A p \in Piece : final[p] = IF p < at THEN NoFile ELSE before[p]
    BY DEF BackupFile, SnapshotInv, IInv, BackupInv
  <2>2. final[DB] = (IF DB < at THEN NoFile ELSE before[DB])
        /\ final[META] = (IF META < at THEN NoFile ELSE before[META])
    BY <2>1 DEF Piece
  <2>3. at \in Piece /\ final \in [Piece -> Gen]
    BY <2>1 DEF Types
  <2>4. at = DB => PairOf(final) = PairOf(before)
    BY <2>2 DEF PairOf
  <2>5. at # DB => final[DB] = NoFile
    BY <2>2, <2>3 DEF Piece
  <2> QED BY <2>1, <2>3, <2>4, <2>5 DEF BackupFile, Advance, Goto, history
<1>2. PairOf(before)' = PairOf(before) /\ Replacing /\ Replacing'
  BY <1>1 DEF PairOf, Replacing
<1>3. CASE final' = final
  BY <1>1, <1>2, <1>3, SamePair
<1>4. CASE final' = [final EXCEPT ![at] = NoFile]
  <2>1. PairOf(final)' = 0
    BY <1>1, <1>4 DEF PairOf, Piece
  <2>2. CASE PairOf(final) = 0
    BY <1>1, <1>2, <2>1, <2>2 DEF Promise!vars, Fallback
  <2>3. CASE PairOf(final) # 0
    <3>1. PairOf(final) = PairOf(before)
      BY <1>1, <2>3 DEF PairOf
    <3>2. PairOf(final) # gen
      BY <2>3, <3>1, PairIsWhole
    <3> QED BY <1>1, <1>2, <2>1, <2>3, <3>1, <3>2 DEF Promise!Withdraw, Fallback
  <2> QED BY <2>2, <2>3
<1> QED BY <1>1, <1>3, <1>4

\* The new metadata beside the new database publish the write.
LEMMA InstallRefines ==
  ASSUME SnapshotInv, InstallFile
  PROVE  Promise!Publish \/ Promise!Settle \/ UNCHANGED Promise!vars
<1> USE DEF DB, META, CACHE, NoFile
<1>0. Types /\ InstallInv /\ KindMatches /\ NothingAhead
  BY DEF SnapshotInv, IInv
<1>1. /\ UNCHANGED <<kind, gen, before>> /\ pc = "install" /\ gen # 0
      /\ kind[gen] \in {"plain", "cached"}
      /\ pc' \in {"install", "undo", "discard"}
  BY <1>0 DEF InstallFile, KindMatches, Bundling, NothingAhead, history, Advance, Goto
<1>2. /\ final[DB] = (IF DB \in installed THEN gen ELSE NoFile)
      /\ final[META] = (IF META \in installed THEN gen ELSE NoFile)
      /\ installed = {p \in Piece : p < at} /\ at \in {DB, META, CACHE}
      /\ at <= Last
  BY <1>0, <1>1 DEF InstallInv, Moved, Bundle, Piece
<1>3. PairOf(before)' = PairOf(before) /\ Replacing
  BY <1>1 DEF PairOf, Replacing
<1>4. CASE final' = final /\ pc' = "undo"
  BY <1>1, <1>3, <1>4, SamePair DEF Replacing
<1>5. CASE /\ final' = [final EXCEPT ![at] = stage[at]] /\ Advance("discard")
  <2>1. final \in [Piece -> Gen] /\ stage[at] = gen /\ at \in Piece
    BY <1>0, <1>1, <1>2 DEF Types, InstallInv, Bundle, Piece
  <2>2. CASE at = DB
    <3>1. PairOf(final) = 0 /\ PairOf(final)' = 0
      BY <1>1, <1>2, <1>5, <2>1, <2>2 DEF PairOf, Piece
    <3>2. pc' = "install"
      BY <1>1, <1>5, <2>2 DEF Advance, Last
    <3> QED BY <1>1, <1>3, <3>1, <3>2 DEF Promise!vars, Fallback, Replacing
  <2>3. CASE at = META
    <3>1. DB \in installed /\ META \notin installed
      BY <1>2, <2>3 DEF Piece
    <3>2. PairOf(final) = 0 /\ PairOf(final)' = gen
      BY <1>1, <1>2, <1>5, <2>1, <2>3, <3>1 DEF PairOf, Piece
    <3>3. PairOf(before) # gen
      BY <1>1, PairIsWhole
    <3>4. Fallback' = IF Replacing' THEN Fallback ELSE 0
      BY <1>1, <1>3, <3>2, <3>3 DEF Fallback
    <3> QED BY <1>1, <1>3, <3>2, <3>4 DEF Promise!Publish
  <2>4. CASE at = CACHE
    <3>1. final'[DB] = final[DB] /\ final'[META] = final[META]
      BY <1>5, <2>1, <2>4 DEF Piece
    <3>2. PairOf(final)' = PairOf(final)
      BY <1>1, <3>1 DEF PairOf
    <3>3. pc' = "discard"
      BY <1>1, <1>2, <1>5, <2>4 DEF Advance, Last, Goto
    <3> QED BY <1>1, <1>3, <3>2, <3>3 DEF Promise!Settle, Fallback, Replacing
  <2> QED BY <1>2, <2>2, <2>3, <2>4
<1> QED BY <1>4, <1>5 DEF InstallFile, Goto

\* Deleting the new metadata withdraws the write again.
LEMMA UndoRefines ==
  ASSUME SnapshotInv, UndoInstall, ~UndoMayFail
  PROVE  Promise!Retract \/ UNCHANGED Promise!vars
<1> USE DEF DB, META, CACHE, NoFile
<1>0. Types /\ Moved /\ KindMatches /\ NothingAhead
  BY DEF SnapshotInv, IInv, UndoInv, UndoInstall
<1>1. /\ UNCHANGED <<kind, gen, before>> /\ pc = "undo" /\ gen # 0
      /\ kind[gen] \in {"plain", "cached"} /\ pc' \in {"undo", "restore"}
  BY <1>0 DEF UndoInstall, KindMatches, Bundling, NothingAhead, history, Goto
<1>2. /\ final[DB] = (IF DB \in installed THEN gen ELSE NoFile)
      /\ final[META] = (IF META \in installed THEN gen ELSE NoFile)
      /\ META \in installed => DB \in installed
      /\ final \in [Piece -> Gen] /\ installed \subseteq Piece
  BY <1>0 DEF Moved, Types
<1>3. PairOf(before)' = PairOf(before) /\ Replacing /\ Replacing'
  BY <1>1 DEF PairOf, Replacing
<1>4. CASE final' = final
  BY <1>1, <1>3, <1>4, SamePair
<1>5. CASE /\ installed # {} /\ final' = [final EXCEPT ![Highest(installed)] = NoFile]
  <2>1. Highest(installed) \in installed /\ \A q \in installed : q <= Highest(installed)
    BY <1>2, <1>5, HighestInSet
  <2>2. CASE Highest(installed) = META
    <3>1. PairOf(final) = gen /\ PairOf(final)' = 0
      BY <1>1, <1>2, <1>5, <2>1, <2>2 DEF PairOf, Piece
    <3>2. PairOf(before) # gen
      BY <1>1, PairIsWhole
    <3> QED BY <1>1, <1>3, <3>1, <3>2 DEF Promise!Retract, Fallback
  <2>3. CASE Highest(installed) = DB
    <3>1. META \notin installed
      BY <2>1, <2>3
    <3>2. PairOf(final) = 0 /\ PairOf(final)' = 0
      BY <1>1, <1>2, <1>5, <2>3, <3>1 DEF PairOf, Piece
    <3> QED BY <1>1, <1>3, <3>2 DEF Promise!vars, Fallback
  <2>4. CASE Highest(installed) = CACHE
    <3>1. final'[DB] = final[DB] /\ final'[META] = final[META]
      BY <1>2, <1>5, <2>4 DEF Piece
    <3> QED BY <1>1, <1>3, <3>1, SamePair
  <2> QED BY <1>2, <2>1, <2>2, <2>3, <2>4 DEF Piece
<1> QED BY <1>4, <1>5 DEF UndoInstall

\* Renaming the old database back brings the old pair back, the metadata
\* being there already.
LEMMA RestoreRefines ==
  ASSUME SnapshotInv, RestoreBackup, ~UndoMayFail
  PROVE  Promise!Reinstate \/ Promise!Settle \/ UNCHANGED Promise!vars
<1> USE DEF DB, META, CACHE, NoFile
<1>0. Types /\ RestoreInv
  BY DEF SnapshotInv, IInv
<1>1. /\ UNCHANGED <<kind, gen, before>> /\ pc = "restore"
      /\ pc' \in {"restore", "cleanup"}
      /\ final \in [Piece -> Gen] /\ saved \subseteq Piece
  BY <1>0 DEF RestoreBackup, history, Goto, Types
<1>2. /\ final[DB] = (IF DB \in saved THEN NoFile ELSE before[DB])
      /\ final[META] = (IF META \in saved THEN NoFile ELSE before[META])
      /\ \A p \in saved : backup[p] = before[p]
  BY <1>0, <1>1 DEF RestoreInv, Piece
<1>3. PairOf(before)' = PairOf(before) /\ Replacing
  BY <1>1 DEF PairOf, Replacing
<1>4. CASE saved = {} /\ final' = final /\ pc' = "cleanup"
  <2>1. PairOf(final)' = PairOf(final)
    BY <1>1, <1>4 DEF PairOf
  <2> QED BY <1>1, <1>3, <1>4, <2>1 DEF Promise!Settle, Fallback, Replacing
<1>5. CASE /\ saved # {} /\ pc' = pc
           /\ final' = [final EXCEPT ![Highest(saved)] = backup[Highest(saved)]]
  <2>1. Highest(saved) \in saved /\ \A q \in saved : q <= Highest(saved)
    BY <1>1, <1>5, HighestInSet
  <2>2. CASE Highest(saved) = DB
    <3>1. META \notin saved
      BY <2>1, <2>2
    <3>2. PairOf(final) = 0 /\ PairOf(final)' = PairOf(before)
      BY <1>1, <1>2, <1>5, <2>1, <2>2, <3>1 DEF PairOf, Piece
    <3>3. CASE PairOf(before) = 0
      BY <1>1, <1>3, <1>5, <3>2, <3>3 DEF Promise!vars, Fallback, Replacing
    <3>4. CASE PairOf(before) # 0
      BY <1>1, <1>3, <1>5, <3>2, <3>4 DEF Promise!Reinstate, Fallback, Replacing
    <3> QED BY <3>3, <3>4
  <2>3. CASE Highest(saved) = META
    <3>1. final[META] = NoFile /\ PairOf(final) = 0
      BY <1>2, <2>1, <2>3 DEF PairOf
    <3>2. PairOf(final)' \in {0, PairOf(before)}
      BY <1>1, <1>2, <1>5, <2>1, <2>3 DEF PairOf, Piece
    <3>3. CASE PairOf(final)' = 0
      BY <1>1, <1>3, <1>5, <3>1, <3>3 DEF Promise!vars, Fallback, Replacing
    <3>4. CASE PairOf(final)' # 0
      BY <1>1, <1>3, <1>5, <3>1, <3>2, <3>4 DEF Promise!Reinstate, Fallback, Replacing
    <3> QED BY <3>3, <3>4
  <2>4. CASE Highest(saved) = CACHE
    <3>1. final'[DB] = final[DB] /\ final'[META] = final[META]
      BY <1>1, <1>5, <2>4 DEF Piece
    <3> QED BY <1>1, <1>5, <3>1, SamePair DEF Replacing
  <2> QED BY <1>1, <2>1, <2>2, <2>3, <2>4 DEF Piece
<1> QED BY <1>4, <1>5 DEF RestoreBackup, Goto

\* write/2 withdraws the pair it writes over, for good.
LEMMA DirectRefines ==
  ASSUME SnapshotInv, DirectDb \/ DirectMeta \/ DirectCache
  PROVE  Promise!Withdraw \/ UNCHANGED Promise!vars
<1> USE DEF DB, META, CACHE, NoFile
<1>1. /\ UNCHANGED <<kind, gen, before>> /\ pc \in DirectStep /\ ~Replacing /\ ~Replacing'
      /\ kind[gen] = "direct"
  BY DEF DirectDb, DirectMeta, DirectCache, DirectStep, Goto, history, Replacing,
         SnapshotInv, IInv, KindMatches
<1>2. final'[DB] \in {final[DB], gen} /\ final'[META] \in {final[META], NoFile}
  <2>1. final \in [Piece -> Gen]
    BY DEF SnapshotInv, IInv, Types
  <2> QED BY <2>1 DEF DirectDb, DirectMeta, DirectCache, Piece
<1>3. PairOf(final)' \in {0, PairOf(final)}
  BY <1>1, <1>2 DEF PairOf
<1>4. PairOf(final) # 0 => PairOf(final) # gen
  BY <1>1, PairIsWhole
<1> QED BY <1>1, <1>3, <1>4 DEF Promise!Withdraw, Promise!vars, Fallback

\* After the commit, and the rest of the world.
LEMMA OtherRefines ==
  ASSUME SnapshotInv,
         \/ DiscardBackups \/ PruneCache \/ WriteIndex \/ CleanStage
         \/ Crash \/ Tick \/ UNCHANGED vars
  PROVE  Promise!Settle \/ UNCHANGED Promise!vars
<1> USE DEF DB, META, CACHE, NoFile
<1>1. UNCHANGED <<kind, gen, before>> /\ final'[DB] = final[DB] /\ final'[META] = final[META]
  <2>1. final \in [Piece -> Gen]
    BY DEF SnapshotInv, IInv, Types
  <2> QED BY <2>1 DEF DiscardBackups, PruneCache, WriteIndex, CleanStage, Crash, Tick,
                      vars, disk, history, Piece
<1>2. CASE Replacing' = Replacing
  BY <1>1, <1>2, SamePair
<1>3. CASE Replacing' # Replacing
  <2>1. Replacing /\ ~Replacing'
    BY <1>3 DEF DiscardBackups, PruneCache, WriteIndex, CleanStage, Crash, Tick,
                vars, volatile, Goto, Replacing
  <2>2. PairOf(final)' = PairOf(final)
    BY <1>1 DEF PairOf
  <2> QED BY <1>1, <2>1, <2>2 DEF Promise!Settle, Fallback
<1> QED BY <1>2, <1>3

\* Where rollback steps work, every behaviour of the writer, of its failures
\* and of its deaths, is one that Snapshot allows a program that resumes
\* (write_bundle/4 and write/2 against resume_snapshot/3).
THEOREM PromiseIsKept ==
  ASSUME ~UndoMayFail
  PROVE  Spec => KeepsPromise
<1>1. Init => SnapshotInv /\ Promise!Init
  <2>1. Init => BeforeIsOlder
    BY DEF Init, BeforeIsOlder
  <2>2. Init => Promise!Init
    BY DEF Init, Promise!Init, PairOf, Fallback, Replacing, AllAbsent, DB, META, CACHE,
           Piece, NoFile
  <2> QED BY <2>1, <2>2, InitInv DEF SnapshotInv
<1>2. SnapshotInv /\ [Next]_vars => SnapshotInv'
  BY NextInv, OlderNext DEF SnapshotInv
<1>3. SnapshotInv /\ [Next]_vars => [Promise!Next]_(Promise!vars)
  <2> SUFFICES ASSUME SnapshotInv, [Next]_vars
               PROVE  Promise!Next \/ UNCHANGED Promise!vars
    OBVIOUS
  <2>1. CASE \E k \in Kind : Begin(k)
    BY <2>1, BeginRefines DEF Promise!Next
  <2>2. CASE StageDb \/ StageMeta \/ StageCache
    BY <2>2, StageRefines DEF Promise!Next
  <2>3. CASE BackupFile
    BY <2>3, BackupRefines DEF Promise!Next
  <2>4. CASE InstallFile
    BY <2>4, InstallRefines DEF Promise!Next
  <2>5. CASE UndoInstall
    BY <2>5, UndoRefines DEF Promise!Next
  <2>6. CASE RestoreBackup
    BY <2>6, RestoreRefines DEF Promise!Next
  <2>7. CASE DirectDb \/ DirectMeta \/ DirectCache
    BY <2>7, DirectRefines DEF Promise!Next
  <2>8. CASE \/ DiscardBackups \/ PruneCache \/ WriteIndex \/ CleanStage
             \/ Crash \/ Tick \/ UNCHANGED vars
    BY <2>8, OtherRefines DEF Promise!Next
  <2> QED BY <2>1, <2>2, <2>3, <2>4, <2>5, <2>6, <2>7, <2>8 DEF Next
<1> QED BY <1>1, <1>2, <1>3, PTL DEF Spec, KeepsPromise, Promise!Spec

==============================================================================
