------------------------- MODULE PrologSessionProofs -------------------------
(***************************************************************************)
(* Proofs about PrologSession for every number of calls.                   *)
(***************************************************************************)
EXTENDS PrologSession, TLAPS

\* A call still to be handled, or to be made, has no worker, no answer and no
\* effect.
Waiting ==
  /\ \A c \in queue : prover[c] = "none" /\ verdict[c] = "none" /\ c # current
  /\ \A c \in state : c \notin queue
  /\ queue \subseteq 1 .. made
  /\ \A c \in Call : c > made => prover[c] = "none" /\ verdict[c] = "none" /\ c # current

\* The call in hand has a worker, whose proof began from the present state
\* and adds nothing but its own effect.
InHand ==
  current # NoCall =>
    /\ prover[current] \in {"proving", "finished", "crashed"}
    /\ verdict[current] = "none" /\ current \notin state /\ current <= made
    /\ state \subseteq reached[current] /\ reached[current] \subseteq state \union {current}

\* A result in the mailbox is that of a proof that ended.
ResultsAreProofs ==
  \A w \in mail : prover[w] = "finished" /\ found[w] \in {"success", "fail", "error"}

\* Only a call that has been handled can have an effect.
EffectsAreOld == \A c \in state : c <= made

IInv == /\ TypeOK /\ Waiting /\ InHand /\ ResultsAreProofs /\ EffectsAreOld
        /\ AnswerIsOwn /\ KilledQueryLeavesNoTrace

LEMMA InitInv == Init => IInv
  BY PrologSessionAssumption
     DEF Init, IInv, TypeOK, Waiting, InHand, ResultsAreProofs, EffectsAreOld, AnswerIsOwn,
         KilledQueryLeavesNoTrace, Call, NoCall, Verdict

LEMMA AskInv ==
  ASSUME IInv, NEW k \in {"query", "load"}, Ask(k) PROVE IInv'
  <1> USE PrologSessionAssumption DEF Ask, IInv, Call, NoCall
  <1>0. made + 1 \in Call /\ made \in Nat
    BY DEF TypeOK
  <1>1. TypeOK'
    BY <1>0 DEF TypeOK
  <1>2. Waiting'
    <2>1. prover[made + 1] = "none" /\ verdict[made + 1] = "none" /\ made + 1 # current
      BY <1>0 DEF Waiting
    <2>2. made + 1 \notin state
      BY <1>0 DEF EffectsAreOld
    <2>3. queue' \subseteq 1 .. made'
      BY <1>0 DEF Waiting
    <2> QED BY <1>0, <2>1, <2>2, <2>3 DEF Waiting, TypeOK
  <1>3. InHand' /\ EffectsAreOld'
    BY <1>0 DEF TypeOK, InHand, EffectsAreOld
  <1>4. ResultsAreProofs' /\ AnswerIsOwn' /\ KilledQueryLeavesNoTrace'
    BY DEF TypeOK, ResultsAreProofs, AnswerIsOwn, KilledQueryLeavesNoTrace
  <1> QED BY <1>1, <1>2, <1>3, <1>4

LEMMA LoadInv ==
  ASSUME IInv, NEW c \in Call, Load(c) PROVE IInv'
  <1> USE PrologSessionAssumption DEF Load, First, IInv, Call, NoCall
  <1>1. TypeOK'
    BY DEF TypeOK, Verdict
  <1>2. Waiting' /\ InHand' /\ EffectsAreOld'
    <2>1. c \in 1 .. made /\ state' \subseteq state \union {c} /\ made \in Nat
      BY DEF TypeOK, Waiting
    <2>2. Waiting'
      BY <2>1 DEF TypeOK, Waiting
    <2>3. InHand' /\ EffectsAreOld'
      BY <2>1 DEF InHand, EffectsAreOld
    <2> QED BY <2>2, <2>3
  <1>3. ResultsAreProofs' /\ AnswerIsOwn'
    BY DEF ResultsAreProofs, AnswerIsOwn
  <1>4. KilledQueryLeavesNoTrace'
    BY DEF TypeOK, Waiting, KilledQueryLeavesNoTrace
  <1> QED BY <1>1, <1>2, <1>3, <1>4

LEMMA ProveInv ==
  ASSUME IInv, NEW c \in Call, Prove(c) PROVE IInv'
  <1> USE PrologSessionAssumption DEF Prove, First, IInv, Call, NoCall
  <1>1. TypeOK'
    <2>1. verdict' \in [Call -> Verdict] /\ current' \in Call \union {NoCall} /\ queue' \subseteq Call
      BY DEF TypeOK, Verdict
    <2>2. /\ prover' \in [Call -> {"none", "proving", "killed", "finished", "crashed"}]
          /\ reached' \in [Call -> SUBSET Call]
      BY DEF TypeOK
    <2> QED BY <2>1, <2>2 DEF TypeOK
  <1>2. Waiting' /\ InHand' /\ EffectsAreOld'
    BY DEF TypeOK, Waiting, InHand, EffectsAreOld
  <1>3. ResultsAreProofs'
    BY DEF TypeOK, Waiting, ResultsAreProofs
  <1>4. AnswerIsOwn' /\ KilledQueryLeavesNoTrace'
    BY DEF TypeOK, AnswerIsOwn, KilledQueryLeavesNoTrace
  <1> QED BY <1>1, <1>2, <1>3, <1>4

LEMMA TakeResultInv ==
  ASSUME IInv, NEW w \in Call, TakeResult(w) PROVE IInv'
  <1> USE PrologSessionAssumption DEF TakeResult, Matches, IInv, Call, NoCall
  <1>1. TypeOK'
    BY DEF TypeOK, ResultsAreProofs, Verdict
  <1>2. Waiting' /\ InHand' /\ EffectsAreOld'
    BY DEF TypeOK, Waiting, InHand, EffectsAreOld
  <1>3. ResultsAreProofs' /\ AnswerIsOwn'
    BY DEF TypeOK, ResultsAreProofs, AnswerIsOwn
  <1>4. KilledQueryLeavesNoTrace'
    BY DEF TypeOK, InHand, ResultsAreProofs, KilledQueryLeavesNoTrace
  <1> QED BY <1>1, <1>2, <1>3, <1>4

\* The steps that end a query without a result, or drop one nobody awaits.
LEMMA WithoutResultInv ==
  ASSUME IInv, TakeDown \/ Timeout \/ \E w \in Call : DropStray(w) PROVE IInv'
  <1> USE PrologSessionAssumption DEF TakeDown, Timeout, DropStray, IInv, Call, NoCall
  <1>1. TypeOK'
    BY DEF TypeOK, Verdict
  <1>2. Waiting' /\ EffectsAreOld'
    <2>1. CASE TakeDown
      BY <2>1 DEF TypeOK, Waiting, EffectsAreOld
    <2>2. CASE Timeout
      BY <2>2 DEF TypeOK, Waiting, EffectsAreOld
    <2>3. CASE \E w \in Call : DropStray(w)
      BY <2>3 DEF TypeOK, Waiting, EffectsAreOld
    <2> QED BY <2>1, <2>2, <2>3
  <1>2a. InHand'
    BY DEF TypeOK, InHand
  <1>3. ResultsAreProofs' /\ AnswerIsOwn'
    BY DEF TypeOK, ResultsAreProofs, AnswerIsOwn
  <1>4. KilledQueryLeavesNoTrace'
    BY DEF TypeOK, InHand, KilledQueryLeavesNoTrace
  <1> QED BY <1>1, <1>2, <1>2a, <1>3, <1>4

LEMMA SendResultInv ==
  ASSUME IInv, NEW w \in Call, SendResult(w) PROVE IInv'
  <1> USE PrologSessionAssumption DEF IInv, Call, NoCall
  <1>1. PICK end \in {"success", "fail", "error"}, effect \in {{}, {w}} :
          /\ found' = [found EXCEPT ![w] = end]
          /\ reached' = [reached EXCEPT ![w] = @ \union effect]
    BY DEF SendResult
  <1>2. /\ prover[w] \in {"proving", "killed"}
        /\ prover' = [prover EXCEPT ![w] = "finished"] /\ mail' = mail \union {w}
        /\ UNCHANGED <<made, queue, current, state, verdict, answered>>
    BY DEF SendResult
  <1>3. TypeOK'
    <2>1. reached[w] \union effect \in SUBSET Call
      BY DEF TypeOK
    <2>2. reached' \in [Call -> SUBSET Call]
      BY <1>1, <2>1 DEF TypeOK
    <2>3. found' \in [Call -> {"none", "success", "fail", "error"}] /\ mail' \subseteq Call
      BY <1>1, <1>2 DEF TypeOK
    <2>4. prover' \in [Call -> {"none", "proving", "killed", "finished", "crashed"}]
      BY <1>2 DEF TypeOK
    <2>5. kind' = kind
      BY DEF SendResult
    <2> QED BY <1>2, <2>2, <2>3, <2>4, <2>5 DEF TypeOK
  <1>4. Waiting' /\ EffectsAreOld'
    BY <1>2 DEF TypeOK, Waiting, EffectsAreOld
  <1>5. InHand'
    BY <1>1, <1>2 DEF TypeOK, InHand
  <1>6. ResultsAreProofs'
    BY <1>1, <1>2 DEF TypeOK, ResultsAreProofs
  <1>7. AnswerIsOwn' /\ KilledQueryLeavesNoTrace'
    BY <1>2 DEF AnswerIsOwn, KilledQueryLeavesNoTrace
  <1> QED BY <1>3, <1>4, <1>5, <1>6, <1>7

LEMMA DieInv ==
  ASSUME IInv, NEW w \in Call, Die(w) PROVE IInv'
  <1> USE PrologSessionAssumption DEF Die, IInv, Call, NoCall
  <1>1. TypeOK'
    BY DEF TypeOK
  <1>2. Waiting' /\ EffectsAreOld'
    BY DEF TypeOK, Waiting, EffectsAreOld
  <1>3. InHand' /\ ResultsAreProofs'
    BY DEF TypeOK, InHand, ResultsAreProofs
  <1>4. AnswerIsOwn' /\ KilledQueryLeavesNoTrace'
    BY DEF AnswerIsOwn, KilledQueryLeavesNoTrace
  <1> QED BY <1>1, <1>2, <1>3, <1>4

THEOREM Invariance == Spec => []IInv
  <1>1. Init => IInv
    BY InitInv
  <1>2. IInv /\ UNCHANGED vars => IInv'
    BY DEF vars, IInv, TypeOK, Waiting, InHand, ResultsAreProofs, EffectsAreOld, AnswerIsOwn,
           KilledQueryLeavesNoTrace
  <1>3. IInv /\ [Next]_vars => IInv'
    BY <1>2, AskInv, LoadInv, ProveInv, TakeResultInv, WithoutResultInv, SendResultInv, DieInv
       DEF Next, Serve
  <1> QED BY <1>1, <1>3, PTL DEF Spec

\* The state is well typed, whatever the workers send and die of.
THEOREM TypeCorrect == Spec => []TypeOK
  BY Invariance, PTL DEF IInv

\* The answer to a goal comes from its own proof, whatever late results of
\* killed workers are in the mailbox.
THEOREM OwnAnswer == Spec => []AnswerIsOwn
  BY Invariance, PTL DEF IInv

\* What a killed or crashed proof did never enters the session's state.
THEOREM KilledWithoutTrace == Spec => []KilledQueryLeavesNoTrace
  BY Invariance, PTL DEF IInv

\* No call undoes the effects of those before it.
THEOREM NothingUndone == Spec => EffectsAreKept
  <1>1. IInv /\ [Next]_vars => [state \subseteq state']_vars
    <2> SUFFICES ASSUME IInv, Next PROVE state \subseteq state'
      OBVIOUS
    <2>1. ASSUME NEW w \in Call, TakeResult(w) PROVE state \subseteq state'
      BY <2>1 DEF TakeResult, Matches, IInv, InHand
    <2>2. ASSUME NEW c \in Call, Load(c) \/ Prove(c) \/ SendResult(c) \/ Die(c) \/ DropStray(c)
          PROVE  state \subseteq state'
      BY <2>2 DEF Load, Prove, SendResult, Die, DropStray
    <2>3. CASE TakeDown \/ Timeout \/ \E k \in {"query", "load"} : Ask(k)
      BY <2>3 DEF TakeDown, Timeout, Ask
    <2> QED BY <2>1, <2>2, <2>3 DEF Next, Serve
  <1> QED BY <1>1, Invariance, PTL DEF Spec, EffectsAreKept
==============================================================================
