------------------------------- MODULE MCStdio -------------------------------
(* Model values for Stdio: ids that later lines may repeat, and a limit of   *)
(* workers that the last line's request can meet.                           *)
EXTENDS Stdio

CONSTANTS i1, i2, i3, parse, status

MCId   == {i1, i2, i3}
MCTool == {parse, status}
==============================================================================
