------------------------------- MODULE Snapshot -------------------------------
(***************************************************************************)
(* What the fact store promises a program that starts and resumes from it  *)
(* (symbolic_codebase:resume_snapshot/3): the database and the metadata it *)
(* finds together are one generation; a generation gives way to the next   *)
(* only through a moment in which there is none; and a generation that was *)
(* replaced comes back only when its very replacement is rolled back.      *)
(***************************************************************************)
EXTENDS Naturals

VARIABLES
  visible,    \* the generation a starting program would resume, 0 for none
  fallback,   \* the generation a rollback would bring back, 0 for none
  settled,    \* no replacement is under way
  issued      \* the last write begun

vars == <<visible, fallback, settled, issued>>

Init == visible = 0 /\ fallback = 0 /\ settled = TRUE /\ issued = 0

\* A write is prepared; a settled generation is not touched by that.
Issue ==
  /\ settled
  /\ issued' = issued + 1 /\ UNCHANGED <<visible, fallback, settled>>

Open ==
  /\ settled /\ visible # issued
  /\ settled' = FALSE /\ UNCHANGED <<visible, fallback, issued>>

\* The old generation gives way; it is lost for good if the replacement ends
\* with that.  The last write's own is never withdrawn for nothing.
Withdraw ==
  /\ visible # 0 /\ visible # issued
  /\ visible' = 0 /\ settled' \in BOOLEAN
  /\ fallback' = (IF settled' THEN 0 ELSE visible) /\ UNCHANGED issued

Publish ==
  /\ ~settled /\ visible = 0
  /\ visible' = issued /\ settled' \in BOOLEAN
  /\ fallback' = (IF settled' THEN 0 ELSE fallback) /\ UNCHANGED issued

Retract ==
  /\ ~settled /\ visible = issued
  /\ visible' = 0 /\ UNCHANGED <<fallback, settled, issued>>

Reinstate ==
  /\ ~settled /\ visible = 0 /\ fallback # 0
  /\ visible' = fallback /\ fallback' = 0 /\ UNCHANGED <<settled, issued>>

\* The end of a replacement, of a rollback, or of the program itself: what
\* is visible now stays until the next write is ready.
Settle ==
  /\ ~settled
  /\ settled' = TRUE /\ fallback' = 0 /\ UNCHANGED <<visible, issued>>

Next ==
  \/ Issue \/ Open \/ Withdraw \/ Publish \/ Retract \/ Reinstate \/ Settle

Spec == Init /\ [][Next]_vars

==============================================================================
