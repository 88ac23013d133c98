----------------------------- MODULE MCFactStore -----------------------------
(* Instances of FactStore for TLC. *)
EXTENDS FactStore

==============================================================================
