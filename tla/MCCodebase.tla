------------------------------ MODULE MCCodebase ------------------------------
(* Model values for Codebase: a client, a cache, a refresh worker, the       *)
(* configured project and another directory.                                *)
EXTENDS Codebase

CONSTANTS c1, home, other

MCClient   == {c1}
MCProject  == {home, other}
OneProject == {home}
MCProcess  == {Cache, Worker}
==============================================================================
