---------------------------- MODULE PrologSession ----------------------------
(***************************************************************************)
(* One Prolog session (prolog_session): a process that owns an erlog state *)
(* and proves each goal in a worker with a deadline.                       *)
(*                                                                         *)
(* Calls are numbered in the order they are made.  The session's state is  *)
(* the set of the calls whose effect (clauses consulted, facts asserted)   *)
(* it contains.  A worker proves on a copy of the state and sends back the *)
(* state it reached; its message, its death and the deadline race.         *)
(***************************************************************************)
EXTENDS Naturals, FiniteSets

CONSTANT MaxCalls  \* bound: calls to the session

ASSUME PrologSessionAssumption == MaxCalls \in Nat

Call == 1 .. MaxCalls
NoCall == 0

VARIABLES
  kind,     \* what each call asks: "query" or "load"
  made,     \* calls made so far
  queue,    \* calls in the mailbox
  current,  \* the call being handled, or NoCall
  state,    \* the effects in the session's erlog state
  prover,   \* each query's worker
  reached,  \* the state each worker's proof ended in
  found,    \* how each proof ended: success, fail or error
  mail,     \* workers whose result is in the session's mailbox
  verdict,  \* the answer given to each call
  answered \* the worker whose result made that answer

vars == <<kind, made, queue, current, state, prover, reached, found, mail,
          verdict, answered>>

Verdict == {"none", "ok", "success", "fail", "error", "timeout", "crashed"}

Init ==
  /\ kind = [c \in Call |-> "query"] /\ made = 0 /\ queue = {} /\ current = NoCall
  /\ state = {}
  /\ prover = [c \in Call |-> "none"] /\ reached = [c \in Call |-> {}]
  /\ found = [c \in Call |-> "none"] /\ mail = {}
  /\ verdict = [c \in Call |-> "none"] /\ answered = [c \in Call |-> NoCall]

------------------------------------------------------------------------------
(* Clients: gen_server:call/3.  A client that gave up waiting takes nothing *)
(* back: its request is handled like any other.                             *)

Ask(k) ==
  /\ made < MaxCalls
  /\ made' = made + 1
  /\ kind' = [kind EXCEPT ![made + 1] = k]
  /\ queue' = queue \union {made + 1}
  /\ UNCHANGED <<current, state, prover, reached, found, mail, verdict, answered>>

------------------------------------------------------------------------------
(* The session: handle_call/3 *)

First(c) == c \in queue /\ \A d \in queue : c <= d

\* consult, consult_string and load_facts: the new state, or the old one.
Load(c) ==
  /\ current = NoCall /\ First(c) /\ kind[c] = "load"
  /\ queue' = queue \ {c}
  /\ \/ state' = state \union {c} /\ verdict' = [verdict EXCEPT ![c] = "ok"]
     \/ state' = state /\ verdict' = [verdict EXCEPT ![c] = "error"]
  /\ UNCHANGED <<kind, made, current, prover, reached, found, mail, answered>>

\* A goal that does not parse, or one whose worker starts with a copy of the
\* state.
Prove(c) ==
  /\ current = NoCall /\ First(c) /\ kind[c] = "query"
  /\ queue' = queue \ {c}
  /\ \/ /\ verdict' = [verdict EXCEPT ![c] = "error"]
        /\ UNCHANGED <<current, prover, reached>>
     \/ /\ current' = c
        /\ prover' = [prover EXCEPT ![c] = "proving"]
        /\ reached' = [reached EXCEPT ![c] = state]
        /\ UNCHANGED verdict
  /\ UNCHANGED <<kind, made, state, found, mail, answered>>

\* Mutant of Matches: the result of any worker is taken.
Matches_Any(w, c) == w \in mail

\* The receive of prove_with_timeout/3 takes the message of its own worker.
Matches(w, c) == w \in mail /\ w = c

\* prove_reply/3: whatever the proof ended with, the session goes on from the
\* state the proof reached.
TakeResult(w) ==
  /\ current # NoCall /\ Matches(w, current)
  /\ mail' = mail \ {w}
  /\ state' = reached[w]
  /\ verdict' = [verdict EXCEPT ![current] = found[w]]
  /\ answered' = [answered EXCEPT ![current] = w]
  /\ current' = NoCall
  /\ UNCHANGED <<kind, made, queue, prover, reached, found>>

\* The worker died without a result.
TakeDown ==
  /\ current # NoCall /\ prover[current] = "crashed"
  /\ verdict' = [verdict EXCEPT ![current] = "crashed"]
  /\ current' = NoCall
  /\ UNCHANGED <<kind, made, queue, state, prover, reached, found, mail, answered>>

\* Mutant of Timeout: the receive has no "after".
Timeout_Missing == current # NoCall /\ FALSE

\* The deadline passes with no message there; the kill has yet to arrive.
Timeout ==
  /\ current # NoCall /\ prover[current] = "proving"
  /\ verdict' = [verdict EXCEPT ![current] = "timeout"]
  /\ prover' = [prover EXCEPT ![current] = "killed"]
  /\ current' = NoCall
  /\ UNCHANGED <<kind, made, queue, state, reached, found, mail, answered>>

\* A result that came after the deadline is no request: it is dropped.
DropStray(w) ==
  /\ current = NoCall /\ w \in mail
  /\ mail' = mail \ {w}
  /\ UNCHANGED <<kind, made, queue, current, state, prover, reached, found, verdict,
                 answered>>

------------------------------------------------------------------------------
(* The workers *)

\* The proof ends, having asserted something or not; a killed worker may
\* still send before the signal arrives.
SendResult(w) ==
  /\ prover[w] \in {"proving", "killed"}
  /\ \E end \in {"success", "fail", "error"}, effect \in {{}, {w}} :
       /\ found' = [found EXCEPT ![w] = end]
       /\ reached' = [reached EXCEPT ![w] = @ \union effect]
  /\ prover' = [prover EXCEPT ![w] = "finished"]
  /\ mail' = mail \union {w}
  /\ UNCHANGED <<kind, made, queue, current, state, verdict, answered>>

\* It raises before sending, or the kill arrives.
Die(w) ==
  /\ prover[w] \in {"proving", "killed"}
  /\ prover' = [prover EXCEPT ![w] = "crashed"]
  /\ UNCHANGED <<kind, made, queue, current, state, reached, found, mail, verdict,
                 answered>>

Serve == \/ \E c \in Call : Load(c) \/ Prove(c) \/ TakeResult(c)
         \/ TakeDown \/ Timeout

Next ==
  \/ \E k \in {"query", "load"} : Ask(k)
  \/ \E c \in Call : SendResult(c) \/ Die(c) \/ DropStray(c)
  \/ Serve

\* The session takes its messages, and its deadlines pass.
Spec == Init /\ [][Next]_vars /\ WF_vars(Serve)

------------------------------------------------------------------------------
(* Properties *)

\* The values of the variables.
TypeOK ==
  /\ kind \in [Call -> {"query", "load"}] /\ made \in 0 .. MaxCalls
  /\ queue \subseteq Call /\ current \in Call \union {NoCall} /\ state \subseteq Call
  /\ prover \in [Call -> {"none", "proving", "killed", "finished", "crashed"}]
  /\ reached \in [Call -> SUBSET Call]
  /\ found \in [Call -> {"none", "success", "fail", "error"}] /\ mail \subseteq Call
  /\ verdict \in [Call -> Verdict] /\ answered \in [Call -> Call \union {NoCall}]

\* The answer to a query is made from its own proof, never from the late
\* result of an earlier one that was killed.
AnswerIsOwn == \A c \in Call : answered[c] \in {NoCall, c}

\* "A killed query doesn't advance or corrupt the session": what a query that
\* timed out or crashed did is in no later state.
KilledQueryLeavesNoTrace ==
  \A c \in Call : verdict[c] \in {"timeout", "crashed"} => c \notin state

\* No effect that was in the state is ever lost: a query never puts an older
\* state back.
EffectsAreKept == [][state \subseteq state']_vars

\* Every call is handled, a goal whose proof never ends included.
EveryCallIsAnswered == \A c \in Call : c <= made ~> verdict[c] # "none"

\* "Only a successful proof/load advances Erl; every error branch returns it
\* unchanged" (handle_call/3), "every failure ... returns the state UNCHANGED"
\* (prove_reply/3).
FailureLeavesNoTrace ==
  \A c \in Call : verdict[c] \in {"fail", "error"} => c \notin state

==============================================================================
