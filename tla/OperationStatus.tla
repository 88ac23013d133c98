--------------------------- MODULE OperationStatus ---------------------------
(***************************************************************************)
(* The status tracker of symbolic_operation_status: a process that shows   *)
(* the operation in progress and the last one completed.                   *)
(*                                                                         *)
(* Owners tell it what they do with casts.  The casts of one process       *)
(* arrive in the order it sent them; those of two processes arrive in any  *)
(* order, so mail keeps one queue per sender.  The tracker monitors the    *)
(* owner of the operation it shows: 'DOWN' follows every cast of the dead. *)
(*                                                                         *)
(* The code's running/idle state, owner, token and monitor change together *)
(* with its active operation; here they are fields of active.  A token     *)
(* stands for make_ref(): the number of the operation in this program run. *)
(* A module that owns processes EXTENDS this one and uses Post and Observe. *)
(***************************************************************************)
EXTENDS Naturals, Sequences

CONSTANTS
  Process,  \* the processes that report operations
  Nobody,   \* no process
  Tracked   \* is the tracker running?

VARIABLES
  mail,    \* casts under way to the tracker, by sender
  active,  \* the operation shown, or NoOperation
  last     \* the last operation completed, with its outcome

statusVars == <<mail, active, last>>

NoToken == 0
NoOperation == [owner |-> Nobody, token |-> NoToken, kind |-> "none", phase |-> "none"]
NeverRan == [operation |-> NoOperation, outcome |-> "none"]

StatusInit ==
  /\ mail = [p \in Process |-> <<>>]
  /\ active = NoOperation
  /\ last = NeverRan

\* The casts, each [type, token, what].
Started(token, kind)     == [type |-> "started", token |-> token, what |-> kind]
Phase(token, phase)      == [type |-> "phase", token |-> token, what |-> phase]
Finished(token, outcome) == [type |-> "finished", token |-> token, what |-> outcome]
Cancelled(owner)         == [type |-> "cancelled", token |-> NoToken, what |-> owner]

\* Process p sends casts, in this order; emit/1 drops them without a tracker.
Post(p, casts) == mail' = IF Tracked THEN [mail EXCEPT ![p] = @ \o casts] ELSE mail

Idle == active = NoOperation

\* complete/2
Complete(outcome) ==
  /\ last' = [operation |-> active, outcome |-> outcome]
  /\ active' = NoOperation

FromOwner(p, cast) == ~Idle /\ active.owner = p /\ active.token = cast.token

Accepts(p, cast) ==
  CASE cast.type = "started"   -> Idle
    [] cast.type = "cancelled" -> ~Idle /\ active.owner = cast.what
    [] OTHER                   -> FromOwner(p, cast)

\* The tracker takes p's next cast: handle_event/4, the cast clauses.
Take(p) == mail[p] # <<>> /\ mail' = [mail EXCEPT ![p] = Tail(@)]

ShowStarted(p) ==
  /\ Take(p)
  /\ LET cast == Head(mail[p])
     IN  /\ cast.type = "started" /\ Accepts(p, cast)
         /\ active' = [owner |-> p, token |-> cast.token, kind |-> cast.what,
                       phase |-> "starting"]
  /\ UNCHANGED last

ShowPhase(p) ==
  /\ Take(p)
  /\ LET cast == Head(mail[p])
     IN  /\ cast.type = "phase" /\ Accepts(p, cast)
         /\ active' = [active EXCEPT !.phase = cast.what]
  /\ UNCHANGED last

ShowFinished(p) ==
  /\ Take(p)
  /\ LET cast == Head(mail[p])
     IN  cast.type = "finished" /\ Accepts(p, cast) /\ Complete(cast.what)

ShowCancelled(p) ==
  /\ Take(p)
  /\ LET cast == Head(mail[p])
     IN  cast.type = "cancelled" /\ Accepts(p, cast) /\ Complete("superseded")

\* The last clause: an event that fits no other is dropped.
IgnoreCast(p) ==
  /\ Take(p)
  /\ ~Accepts(p, Head(mail[p]))
  /\ UNCHANGED <<active, last>>

\* Mutant of ShowDown: the owner is not monitored.
ShowDown_Missing(p) == active.owner = p /\ FALSE

\* The monitor of a dead owner fires, after the casts it had sent.
ShowDown(p) ==
  /\ ~Idle /\ active.owner = p
  /\ mail[p] = <<>>
  /\ Complete("crashed")
  /\ UNCHANGED mail

\* One step of the tracker; dead is the set of processes that have ended.
Observe(dead) ==
  \/ \E p \in Process : \/ ShowStarted(p) \/ ShowPhase(p) \/ ShowFinished(p)
                        \/ ShowCancelled(p) \/ IgnoreCast(p)
  \/ \E p \in dead : ShowDown(p)

==============================================================================
