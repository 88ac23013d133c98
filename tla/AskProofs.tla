------------------------------- MODULE AskProofs -------------------------------
(***************************************************************************)
(* Proofs about Ask, for any bases, questions, limits and failing queries. *)
(***************************************************************************)
EXTENDS Ask, FiniteSetTheorems, WellFoundedInduction, TLAPS

------------------------------------------------------------------------------
(* Finite sets and names *)

\* A nonempty set of numbers has a least one.
LEMMA LeastNumber ==
  ASSUME NEW S \in SUBSET Nat, S # {}
  PROVE  \E i \in S : \A j \in S : i <= j
<1> DEFINE Below == {0 .. i : i \in S}
<1>1. Below \subseteq FiniteSubsetsOf(Nat) /\ Below # {}
  <2>1. \A i \in S : 0 .. i \subseteq Nat /\ IsFiniteSet(0 .. i)
    BY FS_Interval
  <2>2. QED
    BY <2>1 DEF FiniteSubsetsOf
<1>2. PICK b \in Below : \A c \in Below : <<c, b>> \notin StrictSubsetOrdering(Nat)
  BY <1>1, FS_StrictSubsetOrderingWellFounded, WFMin
<1>3. PICK i \in S : b = 0 .. i
  OBVIOUS
<1>4. ASSUME NEW j \in S, j < i PROVE FALSE
  <2>1. /\ 0 .. j \subseteq 0 .. i /\ i \in 0 .. i /\ i \notin 0 .. j
        /\ 0 .. j \in SUBSET Nat /\ 0 .. i \in SUBSET Nat
    BY <1>4
  <2>2. <<0 .. j, 0 .. i>> \in StrictSubsetOrdering(Nat)
    BY <2>1 DEF StrictSubsetOrdering
  <2>3. QED
    BY <1>2, <1>3, <2>2
<1>5. QED
  BY <1>4

\* The values of a function on a finite set are finitely many.
LEMMA FiniteImage ==
  ASSUME NEW S, IsFiniteSet(S), NEW f, f = [s \in S |-> f[s]]
  PROVE  IsFiniteSet({f[s] : s \in S})
<1> DEFINE T == {f[s] : s \in S}
<1>1. f \in Surjection(S, T)
  BY DEF Surjection
<1> HIDE DEF T
<1>2. IsFiniteSet(T)
  BY <1>1, FS_Surjection
<1>3. QED
  BY <1>2 DEF T

LEMMA OneIsSome ==
  ASSUME NEW S, Cardinality(S) = 1
  PROVE  S # {}
<1>1. Cardinality({}) = 0
  BY FS_EmptySet
<1>2. QED
  BY <1>1

Function == [name : DOMAIN Split, arity : Arities \union {Undefined}]

\* What does not change while a question is answered.
Setting == question \in Questions /\ sources \in Worlds /\ complete \in {lost = {}, FALSE}

LEMMA Cands ==
  ASSUME Setting
  PROVE  question.subject \in Seq(Function) /\ question.object \in Seq(Function)
BY QuestionAssumption DEF Setting, Function

LEMMA FiniteFacts ==
  ASSUME Setting, NEW p
  PROVE  IsFiniteSet(Of(p))
<1>1. IsFiniteSet(sources) /\ Of(p) \in SUBSET sources
  BY WorldAssumption DEF Setting, Of, facts
<1>2. QED
  BY <1>1, FS_Subset

LEMMA KnownArity ==
  ASSUME Setting, NEW d \in Of("defines")
  PROVE  d.arity \in Arities \union {Undefined} /\ d.arity # Any
<1>1. d \in sources /\ d.of = "defines" /\ sources \in Worlds
  BY DEF Setting, Of, facts
<1>2. \A x \in sources : x.of = "defines" => x.arity \in Arities \union {Undefined}
  BY <1>1, WorldAssumption
<1>3. d.arity \in Arities \union {Undefined}
  BY <1>1, <1>2
<1>4. QED
  BY <1>3, AskAssumption

LEMMA FiniteEntities ==
  ASSUME Setting, NEW cands, NEW down
  PROVE  IsFiniteSet(Entities(cands, down))
<1> DEFINE E == {e \in Of("defines") : \E i \in DOMAIN cands \ down : cands[i].name = e.name}
           f == [d \in E |-> Ident(d.name, d.arity)]
<1>1. IsFiniteSet(E)
  <2>1. E \in SUBSET Of("defines") /\ IsFiniteSet(Of("defines"))
    BY FiniteFacts
  <2>2. QED
    BY <2>1, FS_Subset
<1>2. Entities(cands, down) = {f[d] : d \in E}
  BY DEF Entities
<1>3. f = [d \in E |-> f[d]]
  OBVIOUS
<1> HIDE DEF E, f
<1>4. QED
  BY <1>1, <1>2, <1>3, FiniteImage

LEMMA CandIsIdent ==
  ASSUME NEW cands \in Seq(Function), NEW i \in DOMAIN cands
  PROVE  /\ cands[i] \in Function
         /\ cands[i] = Ident(cands[i].name, cands[i].arity)
         /\ cands[i].name \in DOMAIN Split
         /\ cands[i].arity # Any
<1>1. cands[i] \in Function
  OBVIOUS
<1>2. QED
  BY <1>1, AskAssumption DEF Function, Ident

LEMMA IdentFields ==
  ASSUME NEW n, NEW a
  PROVE  Ident(n, a).name = n /\ Ident(n, a).arity = a
BY DEF Ident

LEMMA IdentEqual ==
  ASSUME NEW n, NEW a, NEW m, NEW b
  PROVE  Ident(n, a) = Ident(m, b) <=> n = m /\ a = b
BY IdentFields

LEMMA AnswerIsNoIdent ==
  ASSUME NEW k, NEW s
  PROVE  ~IsIdent(Answer(k, s))
BY DEF IsIdent, Answer

LEMMA IdentIsIdent ==
  ASSUME NEW n, NEW a
  PROVE  IsIdent(Ident(n, a))
BY DEF IsIdent, Ident

\* A name is meant by a candidate of that name with that arity or with none.
LEMMA NamedIsAllowed ==
  ASSUME NEW cands \in Seq(Function), NEW n, NEW a
  PROVE  Named(cands, n, a) <=> Allows(cands, n, a)
<1>1. ASSUME NEW i \in DOMAIN cands
      PROVE  cands[i] \in {Ident(n, a), Ident(n, Undefined)}
               <=> cands[i].name = n /\ cands[i].arity \in {Undefined, a}
  BY CandIsIdent, IdentFields
<1>2. QED
  BY <1>1 DEF Named, Allows

\* Without failing queries, what the resolution picks from are the functions that
\* can be meant.
LEMMA Matching ==
  ASSUME NEW cands \in Seq(Function)
  PROVE  {e \in Entities(cands, {}) : Allows(cands, e.name, e.arity)} = Means(facts, cands)
<1> DEFINE M == {e \in Entities(cands, {}) : Allows(cands, e.name, e.arity)}
<1>1. ASSUME NEW e \in M PROVE e \in Means(facts, cands)
  <2>1. PICK d \in Of("defines") : e = Ident(d.name, d.arity)
    BY DEF Entities
  <2>2. Named(cands, d.name, d.arity)
    BY <2>1, NamedIsAllowed, IdentFields
  <2>3. QED
    BY <2>1, <2>2 DEF Means, Of
<1>2. ASSUME NEW e \in Means(facts, cands) PROVE e \in M
  <2>1. PICK d \in facts : d.of = "defines" /\ Named(cands, d.name, d.arity) /\ e = Ident(d.name, d.arity)
    BY DEF Means
  <2>2. d \in Of("defines") /\ Allows(cands, e.name, e.arity)
    BY <2>1, NamedIsAllowed, IdentFields DEF Of
  <2>3. \E i \in DOMAIN cands : cands[i].name = d.name
    BY <2>1, <2>2, IdentFields DEF Allows
  <2>4. e \in Entities(cands, {})
    BY <2>1, <2>2, <2>3 DEF Entities
  <2>5. QED
    BY <2>2, <2>4
<1>3. QED
  BY <1>1, <1>2

------------------------------------------------------------------------------
(* What a resolution finds *)

\* Whatever function of the resolved name and arity is meant, a candidate names it.
StandsFor(cands, r) ==
  /\ r.name \in DOMAIN Split
  /\ \A a : r.arity \in {Any, a} => Named(cands, r.name, a)

\* It is the only one of the base that can be meant; and where the base has none it
\* is the name itself, with its arity or any.
OnlyOne(cands, r) ==
  /\ Means(facts, cands) \subseteq {r}
  /\ Means(facts, cands) = {} /\ (Len(cands) = 1 \/ question.form = "grammar") =>
       \A n, a : Named(cands, n, a) => n = r.name /\ r.arity \in {Any, a}

\* And where the base has none it is the name itself with its very arity.
Exactly(cands, r) ==
  /\ Means(facts, cands) \subseteq {r}
  /\ Means(facts, cands) = {} => \A n, a : Named(cands, n, a) => n = r.name /\ a = r.arity

\* A name nobody defines has no arity to lose.
NothingToLose(cands) ==
  \A i \in DOMAIN cands : cands[i].arity # Undefined => Defined(cands[i].name) # {}

\* The answers that claim nothing about the sources.
Quiet == {"none", "error", "unrecognized", "unverifiable", "ambiguous", "unknown", "crash"}

\* The first candidate that is defined after all.
LEMMA FirstKnown ==
  ASSUME NEW cands \in Seq(Function), NEW K \in SUBSET DOMAIN cands, K # {},
         NEW first, first = CHOOSE i \in K : \A j \in K : i <= j
  PROVE  first \in K
<1>1. K \in SUBSET Nat
  OBVIOUS
<1>2. \E i \in K : \A j \in K : i <= j
  BY <1>1, LeastNumber
<1>3. QED
  BY <1>2

\* What resolve_strict/3 and resolve_loose/3 take for the function.
LEMMA UnresolvedIs ==
  ASSUME Setting, NEW cands \in Seq(Function), NEW mode
  PROVE  \/ \E i \in DOMAIN cands, d \in Of("defines") :
              /\ d.name = cands[i].name
              /\ Unresolved(cands, mode) = Ident(cands[i].name, d.arity)
              /\ cands[i].arity \in {Undefined, d.arity}
         \/ /\ mode = "loose" /\ cands # << >>
            /\ \A i \in DOMAIN cands : Defined(cands[i].name) = {}
            /\ Unresolved(cands, mode) = Ident(cands[Len(cands)].name, Any)
         \/ \E k \in Quiet : Unresolved(cands, mode) = Answer(k, {})
<1> DEFINE Rows(i) == {d \in Of("defines") : d.name = cands[i].name}
           known == {i \in DOMAIN cands : Rows(i) # {}}
           first == CHOOSE i \in known : \A j \in known : i <= j
           given == cands[first].arity
           arities == {d.arity : d \in Rows(first)}
           C1 == cands = << >> /\ mode = "loose"
           C2 == cands # << >> /\ Of("defines") = {}
           C3 == cands # << >> /\ Of("defines") # {} /\ known = {} /\ mode = "loose"
           C4 == known # {} /\ given = Undefined /\ Cardinality(Rows(first)) = 1
           C5 == known # {} /\ given # Undefined /\ given \in arities
           U == Unresolved(cands, mode)
<1>1. U = CASE C1 -> Answer("crash", {})
            [] C2 -> Answer("error", {})
            [] C3 -> Ident(cands[Len(cands)].name, Any)
            [] C4 -> Ident(cands[first].name, CHOOSE a \in arities : TRUE)
            [] C5 -> Ident(cands[first].name, given)
            [] OTHER -> Answer("unverifiable", {})
  BY DEF Unresolved
<1>2. known # {} => first \in known
  <2>1. known \in SUBSET DOMAIN cands
    OBVIOUS
  <2>2. QED
    BY <2>1, FirstKnown
<1>3. known # {} => cands # << >> /\ Of("defines") # {}
  <2>1. known # {} => DOMAIN cands # {} /\ Of("defines") # {}
    OBVIOUS
  <2>2. DOMAIN << >> = {}
    OBVIOUS
  <2>3. QED
    BY <2>1, <2>2
<1> HIDE DEF first, known
<1>4. C4 => Rows(first) # {}
  <2> HIDE DEF Rows
  <2>1. QED
    BY OneIsSome
<1>5. CASE C4
  <2>1. ~C1 /\ ~C2 /\ ~C3 /\ ~C5
    BY <1>3, <1>5
  <2>2. U = Ident(cands[first].name, CHOOSE a \in arities : TRUE)
    BY <1>1, <1>5, <2>1
  <2>3. PICK d \in Rows(first) : d.arity = CHOOSE a \in arities : TRUE
    BY <1>4, <1>5
  <2>4. first \in DOMAIN cands
    BY <1>2, <1>5 DEF known
  <2>5. QED
    BY <2>2, <2>3, <2>4, <1>5
<1>6. CASE C5
  <2>1. ~C1 /\ ~C2 /\ ~C3 /\ ~C4
    BY <1>3, <1>6
  <2>2. U = Ident(cands[first].name, given)
    BY <1>1, <1>6, <2>1
  <2>3. PICK d \in Rows(first) : d.arity = given
    BY <1>6
  <2>4. first \in DOMAIN cands
    BY <1>2, <1>6 DEF known
  <2>5. QED
    BY <2>2, <2>3, <2>4, <1>6
<1>7. CASE C3
  <2>1. ~C1 /\ ~C2 /\ ~C4 /\ ~C5
    BY <1>7
  <2>2. U = Ident(cands[Len(cands)].name, Any)
    BY <1>1, <1>7, <2>1
  <2>3. \A i \in DOMAIN cands : Defined(cands[i].name) = {}
    BY <1>7 DEF known, Defined
  <2>4. QED
    BY <2>2, <2>3, <1>7
<1>8. CASE ~C3 /\ ~C4 /\ ~C5
  <2>1. U = CASE C1 -> Answer("crash", {}) [] C2 -> Answer("error", {}) [] OTHER -> Answer("unverifiable", {})
    BY <1>1, <1>8
  <2> HIDE DEF C1, C2
  <2>2. C1 => ~C2
    BY DEF C1, C2
  <2>3. U = IF C1 THEN Answer("crash", {}) ELSE IF C2 THEN Answer("error", {}) ELSE Answer("unverifiable", {})
    BY <2>1, <2>2
  <2>4. QED
    BY <2>3 DEF Quiet
<1>9. QED
  BY <1>5, <1>6, <1>7, <1>8

\* What resolve_candidates/3 takes for the function.
LEMMA ResolutionIs ==
  ASSUME Setting, NEW cands \in Seq(Function), NEW mode, NEW down
  PROVE  LET entities == Entities(cands, down)
             matching == {e \in entities : Allows(cands, e.name, e.arity)}
         IN \/ Resolution(cands, mode, down) \in matching /\ Cardinality(matching) = 1
            \/ entities = {} /\ Resolution(cands, mode, down) = Unresolved(cands, mode)
            \/ \E k \in Quiet : Resolution(cands, mode, down) = Answer(k, {})
<1> DEFINE entities == Entities(cands, down)
           matching == {e \in entities : Allows(cands, e.name, e.arity)}
           R == Resolution(cands, mode, down)
           C1 == Cardinality(matching) = 1
           C2 == Cardinality(matching) > 1
           C3 == matching = {} /\ Cardinality(entities) = 1
           C4 == matching = {} /\ Cardinality(entities) > 1
<1>1. R = CASE C1 -> CHOOSE e \in matching : TRUE
            [] C2 -> Answer("ambiguous", {})
            [] C3 -> Answer("unverifiable", {})
            [] C4 -> Answer("ambiguous", {})
            [] OTHER -> Unresolved(cands, mode)
  BY DEF Resolution
<1>2. IsFiniteSet(entities) /\ matching \in SUBSET entities
  BY FiniteEntities
<1> HIDE DEF entities, matching
<1>3. IsFiniteSet(matching) /\ Cardinality(matching) \in Nat /\ Cardinality(entities) \in Nat
  BY <1>2, FS_Subset, FS_CardinalityType
<1>4. /\ Cardinality(matching) = 0 <=> matching = {}
      /\ Cardinality(entities) = 0 <=> entities = {}
  BY <1>2, <1>3, FS_EmptySet
<1>5. CASE C1
  <2>1. ~C2 /\ ~C3 /\ ~C4 /\ matching # {}
    BY <1>3, <1>4, <1>5
  <2>2. R = CHOOSE e \in matching : TRUE
    BY <1>1, <1>5, <2>1
  <2>3. R \in matching
    BY <2>1, <2>2
  <2>4. QED
    BY <1>5, <2>3 DEF entities, matching
<1>6. CASE C2 \/ C3 \/ C4
  <2>1. CASE C2
    BY <1>1, <1>3, <1>4, <2>1 DEF Quiet
  <2>2. CASE C3
    BY <1>1, <1>3, <1>4, <2>2 DEF Quiet
  <2>3. CASE C4
    BY <1>1, <1>3, <1>4, <2>3 DEF Quiet
  <2>4. QED
    BY <1>6, <2>1, <2>2, <2>3
<1>7. CASE ~(C1 \/ C2 \/ C3 \/ C4)
  <2>1. R = Unresolved(cands, mode)
    BY <1>1, <1>7
  <2>2. entities = {}
    <3>1. Cardinality(matching) = 0
      BY <1>3, <1>7
    <3>2. matching = {} /\ Cardinality(entities) = 0
      BY <1>3, <1>4, <1>7, <3>1
    <3>3. QED
      BY <1>4, <3>2
  <2>3. QED
    BY <2>1, <2>2 DEF entities
<1>8. QED
  BY <1>5, <1>6, <1>7

\* What is resolved is meant by a candidate.
LEMMA ResolutionStands ==
  ASSUME Setting, NEW cands \in Seq(Function), NEW mode, NEW down,
         IsIdent(Resolution(cands, mode, down)),
         mode = "loose" => NothingToLose(cands)
  PROVE  StandsFor(cands, Resolution(cands, mode, down))
<1> DEFINE entities == Entities(cands, down)
           matching == {e \in entities : Allows(cands, e.name, e.arity)}
           R == Resolution(cands, mode, down)
<1>1. CASE R \in matching
  <2>1. PICK d \in Of("defines") : R = Ident(d.name, d.arity)
    BY <1>1 DEF Entities
  <2>2. Allows(cands, R.name, R.arity) /\ R.arity # Any
    BY <1>1, <2>1, KnownArity, IdentFields
  <2>3. Named(cands, R.name, R.arity)
    BY <2>2, NamedIsAllowed
  <2>4. R.name \in DOMAIN Split
    BY <2>2, CandIsIdent DEF Allows
  <2>5. QED
    BY <2>2, <2>3, <2>4 DEF StandsFor
<1>2. CASE entities = {} /\ R = Unresolved(cands, mode)
  <2>1. CASE \E i \in DOMAIN cands, d \in Of("defines") :
               /\ d.name = cands[i].name
               /\ R = Ident(cands[i].name, d.arity)
               /\ cands[i].arity \in {Undefined, d.arity}
    <3>1. PICK i \in DOMAIN cands, d \in Of("defines") :
               /\ d.name = cands[i].name
               /\ R = Ident(cands[i].name, d.arity)
               /\ cands[i].arity \in {Undefined, d.arity}
      BY <2>1
    <3>2. R.name = cands[i].name /\ R.arity = d.arity /\ d.arity # Any /\ R.name \in DOMAIN Split
      BY <3>1, IdentFields, KnownArity, CandIsIdent
    <3>3. Allows(cands, R.name, R.arity)
      BY <3>1, <3>2 DEF Allows
    <3>4. QED
      BY <3>2, <3>3, NamedIsAllowed DEF StandsFor
  <2>2. CASE /\ mode = "loose" /\ cands # << >>
             /\ \A i \in DOMAIN cands : Defined(cands[i].name) = {}
             /\ R = Ident(cands[Len(cands)].name, Any)
    <3>1. Len(cands) \in DOMAIN cands
      BY <2>2
    <3>2. cands[Len(cands)].arity = Undefined
      BY <2>2, <3>1 DEF NothingToLose
    <3>3. R.name = cands[Len(cands)].name /\ R.name \in DOMAIN Split
      BY <2>2, <3>1, IdentFields, CandIsIdent
    <3>4. \A a : Allows(cands, R.name, a)
      BY <3>1, <3>2, <3>3 DEF Allows
    <3>5. QED
      BY <3>3, <3>4, NamedIsAllowed DEF StandsFor
  <2>3. QED
    BY <1>2, <2>1, <2>2, UnresolvedIs, AnswerIsNoIdent
<1>3. \A k : R # Answer(k, {})
  BY AnswerIsNoIdent
<1>4. QED
  BY <1>1, <1>2, <1>3, ResolutionIs

\* Without failing queries it is the only function that can be meant.
LEMMA ResolutionIsOnly ==
  ASSUME Setting, NEW cands \in Seq(Function), NEW mode, question.form # "grammar",
         IsIdent(Resolution(cands, mode, {}))
  PROVE  OnlyOne(cands, Resolution(cands, mode, {}))
<1> DEFINE entities == Entities(cands, {})
           matching == {e \in entities : Allows(cands, e.name, e.arity)}
           R == Resolution(cands, mode, {})
<1>1. matching = Means(facts, cands)
  BY Matching
<1>2. CASE R \in matching /\ Cardinality(matching) = 1
  <2>1. IsFiniteSet(matching)
    <3>1. IsFiniteSet(entities) /\ matching \in SUBSET entities
      BY FiniteEntities
    <3>2. QED
      BY <3>1, FS_Subset
  <2>2. \E x : matching = {x}
    <3> HIDE DEF matching
    <3>1. QED
      BY <1>2, <2>1, FS_Singleton
  <2>3. Means(facts, cands) = {R}
    BY <1>1, <1>2, <2>2
  <2>4. QED
    BY <2>3 DEF OnlyOne
<1>3. CASE entities = {} /\ R = Unresolved(cands, mode)
  <2>1. Means(facts, cands) = {}
    BY <1>1, <1>3
  <2>2. \A i \in DOMAIN cands, d \in Of("defines") : d.name # cands[i].name
    BY <1>3 DEF Entities
  <2>3. R = Ident(cands[Len(cands)].name, Any)
    BY <1>3, <2>2, UnresolvedIs, AnswerIsNoIdent
  <2>4. ASSUME Len(cands) = 1, NEW n, NEW a, Named(cands, n, a)
        PROVE  n = R.name
    <3>1. Allows(cands, n, a)
      BY <2>4, NamedIsAllowed
    <3>2. PICK i \in DOMAIN cands : cands[i].name = n
      BY <3>1 DEF Allows
    <3>3. i = Len(cands)
      BY <2>4
    <3>4. QED
      BY <2>3, <3>2, <3>3, IdentFields
  <2>5. R.arity = Any
    BY <2>3, IdentFields
  <2>6. QED
    BY <2>1, <2>4, <2>5 DEF OnlyOne
<1>4. QED
  BY <1>2, <1>3, ResolutionIs, AnswerIsNoIdent

\* resolve_strict/3 takes nothing for a function that is not defined.
LEMMA StrictIsExact ==
  ASSUME Setting, NEW cands \in Seq(Function), question.form # "grammar",
         IsIdent(Resolution(cands, "strict", {}))
  PROVE  Exactly(cands, Resolution(cands, "strict", {}))
<1> DEFINE entities == Entities(cands, {})
           R == Resolution(cands, "strict", {})
<1>1. Means(facts, cands) \subseteq {R}
  BY ResolutionIsOnly DEF OnlyOne
<1>2. CASE entities = {} /\ R = Unresolved(cands, "strict")
  <2>1. \A i \in DOMAIN cands, d \in Of("defines") : d.name # cands[i].name
    BY <1>2 DEF Entities
  <2>2. QED
    BY <1>2, <2>1, UnresolvedIs, AnswerIsNoIdent
<1>3. CASE R \in entities /\ Allows(cands, R.name, R.arity)
  BY <1>1, <1>3, Matching DEF Exactly
<1>4. \A k : R # Answer(k, {})
  BY AnswerIsNoIdent
<1>5. QED
  BY <1>2, <1>3, <1>4, ResolutionIs

\* The function the grammar reads.
LEMMA GrammarIs ==
  ASSUME NEW cands \in Seq(Function), Setting,
         NEW n \in DOMAIN Split, NEW a \in Arities, cands = <<Ident(n, a)>>
  PROVE  /\ StandsFor(cands, Ident(n, a))
         /\ OnlyOne(cands, Ident(n, a)) /\ Exactly(cands, Ident(n, a))
<1>1. a # Any /\ a # Undefined
  BY AskAssumption
<1>2. DOMAIN cands = {1} /\ cands[1] = Ident(n, a)
  OBVIOUS
<1>3. \A m, b : Named(cands, m, b) <=> m = n /\ b = a
  <2>1. \A m, b : Allows(cands, m, b) <=> m = n /\ b = a
    BY <1>1, <1>2, IdentFields DEF Allows
  <2>2. QED
    BY <2>1, NamedIsAllowed
<1>4. StandsFor(cands, Ident(n, a))
  BY <1>1, <1>3, IdentFields DEF StandsFor
<1>5. Means(facts, cands) \subseteq {Ident(n, a)}
  BY <1>3 DEF Means
<1>6. QED
  BY <1>3, <1>4, <1>5, IdentFields DEF OnlyOne, Exactly

\* What is not resolved is a quiet end.
LEMMA UnresolvedIsQuiet ==
  ASSUME Setting, NEW cands \in Seq(Function), NEW mode, NEW down,
         ~IsIdent(Resolution(cands, mode, down))
  PROVE  \E k \in Quiet : Resolution(cands, mode, down) = Answer(k, {})
<1> DEFINE entities == Entities(cands, down)
           matching == {e \in entities : Allows(cands, e.name, e.arity)}
           R == Resolution(cands, mode, down)
<1>1. R \notin matching
  BY IdentIsIdent DEF Entities
<1>2. R = Unresolved(cands, mode) => \E k \in Quiet : R = Answer(k, {})
  BY UnresolvedIs, IdentIsIdent
<1>3. QED
  BY <1>1, <1>2, ResolutionIs

------------------------------------------------------------------------------
(* What a proof finds *)

SubjectOps == {"calls", "defines", "uses", "returns", "def_site"}
ObjectOps == {"calls", "callers", "count", "call_sites", "calls_file"}

LEMMA OwnIsNamed ==
  ASSUME StandsFor(question.subject, subject), NEW x, Own(x)
  PROVE  Named(question.subject, x.name, x.arity)
BY DEF StandsFor, Own

LEMMA CalleeIsNamed ==
  ASSUME StandsFor(question.object, object), NEW c, CalleeOf(c, object)
  PROVE  \E n \in CalledAs(c) : Named(question.object, n, c.arity)
<1>1. Named(question.object, object.name, c.arity) /\ object.name \in DOMAIN Split
  BY DEF StandsFor, CalleeOf
<1>2. object.name \in CalledAs(c)
  BY <1>1 DEF CalleeOf, CalledAs
<1>3. QED
  BY <1>1, <1>2

\* The calls and the facts of a function that Relation is made of.
CallsAsked(base) == {c \in base : /\ c.of = "calls"
                                  /\ \E n \in CalledAs(c) : Named(question.object, n, c.arity)}
OwnAsked(base) == {x \in base : x.of \in {"ref", "key", "defines"}
                                /\ Named(question.subject, x.name, x.arity)}
ReturnedIn(base, x) == \E r \in base : /\ r.of = "return" /\ r.name = x.name /\ r.arity = x.arity
                                       /\ r.file = x.file /\ r.line = x.line

LEMMA RelationIs ==
  ASSUME NEW base
  PROVE  LET R == Relation(base, question)
             op == question.op
         IN /\ op = "calls" => R = {c \in CallsAsked(base) : Named(question.subject, c.caller, c.callerArity)}
            /\ op = "calls_file" => R = {c \in CallsAsked(base) : c.file \in question.pattern}
            /\ op = "uses" => R = {x \in OwnAsked(base) : x.of = "ref" /\ x.word \in Words}
            /\ op = "returns" => R = {x \in OwnAsked(base) : /\ x.of # "defines" /\ x.word \in Words
                                                             /\ ReturnedIn(base, x)}
            /\ op = "file_scanned" => R = {x \in base : x.of \in {"defines", "note"} /\ x.file \in question.pattern}
            /\ op \in {"defines", "def_site"} => R = {x \in OwnAsked(base) : x.of = "defines"}
            /\ op \in {"callers", "count", "call_sites"} => R = CallsAsked(base)
<1> DEFINE R == Relation(base, question)
           op == question.op
<1>1. CASE op = "calls"
  BY <1>1 DEF Relation, CallsAsked
<1>2. CASE op = "calls_file"
  BY <1>2 DEF Relation, CallsAsked
<1>3. CASE op = "uses"
  BY <1>3 DEF Relation, OwnAsked, Words
<1>4. CASE op = "returns"
  BY <1>4 DEF Relation, OwnAsked, ReturnedIn, Words
<1>5. CASE op = "file_scanned"
  BY <1>5 DEF Relation
<1>6. CASE op \in {"defines", "def_site"}
  BY <1>6 DEF Relation, OwnAsked
<1>7. CASE op \in {"callers", "count", "call_sites"}
  BY <1>7 DEF Relation, CallsAsked
<1>8. QED
  BY <1>1, <1>2, <1>3, <1>4, <1>5, <1>6, <1>7

LEMMA FoundIs ==
  LET op == question.op
      F == Found(question.op)
      callees == {x \in Of("calls") : CalleeOf(x, object)}
  IN /\ op = "calls" => F = {c \in callees : c.caller = subject.name /\ c.callerArity = subject.arity}
     /\ op = "calls_file" => F = {c \in callees : c.file \in question.pattern}
     /\ op = "uses" => F = {m \in Of("ref") : Own(m) /\ m.word \in Words}
     /\ op = "returns" => F = Mentioned
     /\ op \in {"callers", "count"} => F = {Ident(c.caller, c.callerArity) : c \in callees}
     /\ op = "call_sites" => F = {[caller |-> c.caller, arity |-> c.callerArity, file |-> c.file] :
                                    c \in {x \in Of("calls") : SiteOf(x, object)}}
     /\ op \in {"defines", "def_site"} => F = {d \in Of("defines") : Own(d)}
<1> DEFINE op == question.op
<1>1. CASE op = "calls"
  BY <1>1 DEF Found
<1>2. CASE op = "calls_file"
  BY <1>2 DEF Found
<1>3. CASE op = "uses"
  BY <1>3 DEF Found
<1>4. CASE op = "returns"
  BY <1>4 DEF Found
<1>5. CASE op \in {"callers", "count"}
  BY <1>5 DEF Found
<1>6. CASE op = "call_sites"
  BY <1>6 DEF Found
<1>7. CASE op \in {"defines", "def_site"}
  BY <1>7 DEF Found
<1>8. QED
  BY <1>1, <1>2, <1>3, <1>4, <1>5, <1>6, <1>7

LEMMA ShownIs ==
  ASSUME NEW x
  PROVE  /\ question.op \in {"callers", "count"} => Shown(question, x) = Ident(x.caller, x.callerArity)
         /\ question.op = "call_sites" =>
              Shown(question, x) = [caller |-> x.caller, arity |-> x.callerArity, file |-> x.file]
         /\ question.op \notin {"callers", "count", "call_sites"} => Shown(question, x) = x
<1>1. CASE question.op \in {"callers", "count"}
  BY <1>1 DEF Shown
<1>2. CASE question.op = "call_sites"
  BY <1>2 DEF Shown
<1>3. CASE question.op \notin {"callers", "count", "call_sites"}
  BY <1>3 DEF Shown
<1>4. QED
  BY <1>1, <1>2, <1>3

\* What answers are shown of what the sources hold.
ShownOf(set) == {Shown(question, x) : x \in set}

\* Whatever a proof finds answers the question.
LEMMA FoundIsSo ==
  ASSUME question.op \in SubjectOps => StandsFor(question.subject, subject),
         question.op \in ObjectOps => StandsFor(question.object, object),
         question.op = "returns" => OneFileEach,
         question.op \in SubjectOps \union ObjectOps
  PROVE  Found(question.op) \subseteq ShownOf(Relation(sources, question))
<1> DEFINE op == question.op
           R == Relation(sources, question)
           callees == {x \in Of("calls") : CalleeOf(x, object)}
<1>1. \A p : \A x \in Of(p) : x \in sources /\ x \in facts /\ x.of = p
  BY DEF Of, facts
<1>2. op \in ObjectOps => callees \subseteq CallsAsked(sources)
  BY <1>1, CalleeIsNamed DEF CallsAsked
<1>3. op \in SubjectOps => \A p \in {"ref", "key", "defines"} : \A x \in Of(p) : Own(x) => x \in OwnAsked(sources)
  BY <1>1, OwnIsNamed DEF OwnAsked
<1>4. op \notin {"callers", "count", "call_sites"} => ShownOf(R) = R
  BY ShownIs DEF ShownOf
<1>5. CASE op = "calls"
  <2>1. \A c : c.caller = subject.name /\ c.callerArity = subject.arity
                 => Named(question.subject, c.caller, c.callerArity)
    BY <1>5 DEF StandsFor, SubjectOps
  <2>2. \A c \in Found(op) : c \in CallsAsked(sources) /\ Named(question.subject, c.caller, c.callerArity)
    BY <1>2, <1>5, <2>1, FoundIs DEF ObjectOps
  <2>3. QED
    BY <1>4, <1>5, <2>2, RelationIs
<1>6. CASE op = "calls_file"
  BY <1>2, <1>4, <1>6, FoundIs, RelationIs DEF ObjectOps
<1>7. CASE op = "uses"
  BY <1>1, <1>3, <1>4, <1>7, FoundIs, RelationIs DEF SubjectOps
<1>8. CASE op = "returns"
  <2>1. ASSUME NEW x \in Mentioned PROVE x \in R
    <3> DEFINE own == {r \in Of("return") : Own(r)}
    <3>1. \/ x \in Of("ref") /\ \E r \in own : r.line = x.line
          \/ x \in Of("key") /\ \E r \in own : r.file = x.file /\ r.line = x.line
      BY DEF Mentioned
    <3>2. x.word \in Words /\ Own(x)
      BY DEF Mentioned
    <3>3. x \in OwnAsked(sources) /\ x.of # "defines"
      BY <1>1, <1>3, <1>8, <3>1, <3>2 DEF SubjectOps
    <3>4. PICK r \in own : r.line = x.line /\ (x \in Of("key") => r.file = x.file)
      <4>1. \A y \in Of("ref") : y \notin Of("key")
        BY <1>1
      <4>2. QED
        BY <3>1, <4>1
    <3>5. r.of = "return" /\ r.name = x.name /\ r.arity = x.arity /\ r \in sources
      BY <1>1, <3>2 DEF Own
    <3>6. r.file = x.file
      <4>1. CASE x \in Of("ref")
        <5>1. x \in facts /\ x.of = "ref" /\ r \in facts
          BY <1>1, <4>1
        <5>2. QED
          BY <1>8, <3>5, <5>1 DEF OneFileEach
      <4>2. QED
        BY <3>1, <3>4, <4>1
    <3>7. ReturnedIn(sources, x)
      BY <3>4, <3>5, <3>6 DEF ReturnedIn
    <3>8. QED
      BY <1>8, <3>2, <3>3, <3>7, RelationIs
  <2>2. QED
    BY <1>4, <1>8, <2>1, FoundIs
<1>9. CASE op \in {"defines", "def_site"}
  BY <1>1, <1>3, <1>4, <1>9, FoundIs, RelationIs DEF SubjectOps
<1>10. CASE op \in {"callers", "count"}
  <2>1. ASSUME NEW e \in Found(op) PROVE e \in ShownOf(R)
    <3>1. PICK c \in callees : e = Ident(c.caller, c.callerArity)
      BY <1>10, FoundIs
    <3>2. c \in R /\ Shown(question, c) = e
      BY <1>2, <1>10, <3>1, RelationIs, ShownIs DEF ObjectOps
    <3>3. QED
      BY <3>2 DEF ShownOf
  <2>2. QED
    BY <2>1
<1>11. CASE op = "call_sites"
  <2>1. ASSUME NEW e \in Found(op) PROVE e \in ShownOf(R)
    <3>1. PICK c \in Of("calls") : /\ SiteOf(c, object)
                                   /\ e = [caller |-> c.caller, arity |-> c.callerArity, file |-> c.file]
      BY <1>11, FoundIs
    <3>2. c \in callees
      BY <3>1 DEF SiteOf
    <3>3. c \in R /\ Shown(question, c) = e
      BY <1>2, <1>11, <3>1, <3>2, RelationIs, ShownIs DEF ObjectOps
    <3>4. QED
      BY <3>3 DEF ShownOf
  <2>2. QED
    BY <2>1
<1>12. QED
  BY <1>5, <1>6, <1>7, <1>8, <1>9, <1>10, <1>11 DEF SubjectOps, ObjectOps

\* The names of NothingIsMissed.
Objects == Means(sources, question.object)
Plain(c) == \/ Ident(c.name, c.arity) \in Objects
            \/ Objects = {} /\ Named(question.object, c.name, c.arity)
Full == IF question.op = "call_sites"
        THEN {c \in Meant(sources, question) : c.shape = "remote" => Plain(c)}
        ELSE Meant(sources, question)
Known == \/ Objects # {}
         \/ Len(question.object) = 1 \/ question.form = "grammar"
         \/ question.op \in {"uses", "returns", "defines", "def_site", "file_scanned"}

LEMMA WholeScan ==
  ASSUME lost = {}
  PROVE  facts = sources /\ \A p : Of(p) = {x \in sources : x.of = p}
BY DEF facts, Of

\* The subject of the question is the function of every fact about what it can mean.
LEMMA SubjectIsMeant ==
  ASSUME Exactly(question.subject, subject), lost = {},
         NEW n, NEW a, Named(question.subject, n, a),
         \/ Means(sources, question.subject) = {}
         \/ Ident(n, a) \in Means(sources, question.subject)
  PROVE  n = subject.name /\ a = subject.arity
<1>1. facts = sources
  BY WholeScan
<1>2. CASE Means(sources, question.subject) = {}
  BY <1>1, <1>2 DEF Exactly
<1>3. CASE Ident(n, a) \in Means(sources, question.subject)
  <2>1. Ident(n, a) = subject
    BY <1>1, <1>3 DEF Exactly
  <2>2. QED
    BY <2>1, IdentFields
<1>4. QED
  BY <1>2, <1>3

\* A call of what the question can mean is one of the object it was resolved to.
LEMMA CalleeIsFound ==
  ASSUME Setting, OnlyOne(question.object, object), lost = {}, Known,
         question.op \in ObjectOps, NEW c \in Meant(sources, question), c \in CallsAsked(sources)
  PROVE  CalleeOf(c, object)
<1>1. c.shape \in {"local", "remote", "member"}
  <2>1. \A x \in sources : x.of = "calls" => x.shape \in {"local", "remote", "member"}
    BY WorldAssumption DEF Setting
  <2>2. QED
    BY <2>1 DEF CallsAsked
<1>2. facts = sources
  BY WholeScan
<1>3. ASSUME NEW n \in CalledAs(c), n = object.name, object.arity \in {Any, c.arity}
      PROVE  CalleeOf(c, object)
  BY <1>1, <1>3 DEF CalledAs, CalleeOf
<1>4. CASE Objects = {}
  <2>1. PICK n \in CalledAs(c) : Named(question.object, n, c.arity)
    BY DEF CallsAsked
  <2>2. Len(question.object) = 1 \/ question.form = "grammar"
    BY <1>4 DEF Known, ObjectOps
  <2>3. n = object.name /\ object.arity \in {Any, c.arity}
    BY <1>2, <1>4, <2>1, <2>2 DEF OnlyOne, Objects
  <2>4. QED
    BY <1>3, <2>3
<1>5. CASE Objects # {}
  <2>1. PICK f \in Objects : f.name \in CalledAs(c) /\ f.arity = c.arity
    BY <1>5 DEF Meant, Objects, ObjectOps
  <2>2. f = object
    BY <1>2, <2>1 DEF OnlyOne, Objects
  <2>3. QED
    BY <1>3, <2>1, <2>2
<1>6. QED
  BY <1>4, <1>5

LEMMA SiteIsFound ==
  ASSUME Setting, OnlyOne(question.object, object), lost = {}, Known,
         question.op = "call_sites", NEW c \in Full, c \in CallsAsked(sources)
  PROVE  SiteOf(c, object)
<1>1. c \in Meant(sources, question) /\ (c.shape = "remote" => Plain(c))
  BY DEF Full
<1>2. CalleeOf(c, object)
  BY <1>1, CalleeIsFound DEF ObjectOps
<1>3. facts = sources
  BY WholeScan
<1>4. ASSUME Plain(c) PROVE c.name = object.name
  <2>1. CASE Ident(c.name, c.arity) \in Objects
    <3>1. Ident(c.name, c.arity) = object
      BY <1>3, <2>1 DEF OnlyOne, Objects
    <3>2. QED
      BY <3>1, IdentFields
  <2>2. CASE Objects = {} /\ Named(question.object, c.name, c.arity)
    BY <1>3, <2>2 DEF OnlyOne, Objects, Known
  <2>3. QED
    BY <1>4, <2>1, <2>2 DEF Plain
<1>5. QED
  BY <1>1, <1>2, <1>4 DEF SiteOf

\* A proof finds all that answers the question.
LEMMA FoundIsAll ==
  ASSUME Setting, lost = {}, Known,
         question.op \in SubjectOps => Exactly(question.subject, subject),
         question.op \in ObjectOps => OnlyOne(question.object, object),
         question.op \in SubjectOps \union ObjectOps
  PROVE  ShownOf(Full) \subseteq Found(question.op)
<1> DEFINE op == question.op
           R == Relation(sources, question)
           callees == {x \in Of("calls") : CalleeOf(x, object)}
<1>1. Full \subseteq Meant(sources, question) /\ Meant(sources, question) \subseteq R
  BY DEF Full, Meant
<1>2. \A p : Of(p) = {x \in sources : x.of = p}
  BY WholeScan
<1>3. op \in ObjectOps => \A c \in Full : c \in CallsAsked(sources) => c \in callees
  BY <1>1, <1>2, CalleeIsFound DEF CallsAsked
<1>4. op \notin {"callers", "count", "call_sites"} => ShownOf(Full) = Full
  BY ShownIs DEF ShownOf
<1>5. op \in {"uses", "returns"} => \A x \in Full : x \in OwnAsked(sources) /\ x.of # "calls" => Own(x)
  <2>1. ASSUME op \in {"uses", "returns"}, NEW x \in Full, x \in OwnAsked(sources), x.of # "calls"
        PROVE  Own(x)
    <3>1. Named(question.subject, x.name, x.arity)
      BY <2>1 DEF OwnAsked
    <3>2. About(x) = Ident(x.name, x.arity)
      BY <2>1 DEF About
    <3>3. \/ Means(sources, question.subject) = {}
          \/ Ident(x.name, x.arity) \in Means(sources, question.subject)
      BY <1>1, <2>1, <3>2 DEF Meant
    <3>4. QED
      BY <2>1, <3>1, <3>3, SubjectIsMeant DEF SubjectOps, Own
  <2>2. QED
    BY <2>1
<1>6. CASE op = "calls"
  <2>1. ASSUME NEW c \in Full PROVE c \in Found(op)
    <3>1. c \in CallsAsked(sources) /\ Named(question.subject, c.caller, c.callerArity)
      BY <1>1, <1>6, RelationIs
    <3>2. About(c) = Ident(c.caller, c.callerArity)
      BY <3>1 DEF About, CallsAsked
    <3>3. \/ Means(sources, question.subject) = {}
          \/ Ident(c.caller, c.callerArity) \in Means(sources, question.subject)
      BY <1>1, <1>6, <3>2 DEF Meant
    <3>4. c.caller = subject.name /\ c.callerArity = subject.arity
      BY <1>6, <3>1, <3>3, SubjectIsMeant DEF SubjectOps
    <3>5. QED
      BY <1>3, <1>6, <3>1, <3>4, FoundIs DEF ObjectOps
  <2>2. QED
    BY <1>4, <1>6, <2>1
<1>7. CASE op = "calls_file"
  <2>1. ASSUME NEW c \in Full PROVE c \in Found(op)
    <3>1. c \in CallsAsked(sources) /\ c.file \in question.pattern
      BY <1>1, <1>7, RelationIs
    <3>2. QED
      BY <1>3, <1>7, <3>1, FoundIs DEF ObjectOps
  <2>2. QED
    BY <1>4, <1>7, <2>1
<1>8. CASE op = "uses"
  <2>1. ASSUME NEW x \in Full PROVE x \in Found(op)
    <3>1. x \in OwnAsked(sources) /\ x.of = "ref" /\ x.word \in Words
      BY <1>1, <1>8, RelationIs
    <3>2. x \in Of("ref")
      BY <1>2, <3>1 DEF OwnAsked
    <3>3. QED
      BY <1>5, <1>8, <3>1, <3>2, FoundIs
  <2>2. QED
    BY <1>4, <1>8, <2>1
<1>9. CASE op = "returns"
  <2>1. ASSUME NEW x \in Full PROVE x \in Mentioned
    <3>1. /\ x \in OwnAsked(sources) /\ x.of # "defines" /\ x.word \in Words
          /\ ReturnedIn(sources, x)
      BY <1>1, <1>9, RelationIs
    <3>2. x \in Of("ref") \/ x \in Of("key")
      BY <1>2, <3>1 DEF OwnAsked
    <3>3. Own(x)
      <4>1. x.of # "calls"
        BY <3>1 DEF OwnAsked
      <4>2. QED
        BY <1>5, <1>9, <3>1, <4>1
    <3>4. PICK r \in sources : /\ r.of = "return" /\ r.name = x.name /\ r.arity = x.arity
                               /\ r.file = x.file /\ r.line = x.line
      BY <3>1 DEF ReturnedIn
    <3>5. r \in {y \in Of("return") : Own(y)}
      BY <1>2, <3>3, <3>4 DEF Own
    <3>6. QED
      BY <3>1, <3>2, <3>3, <3>4, <3>5 DEF Mentioned
  <2>2. QED
    BY <1>4, <1>9, <2>1, FoundIs
<1>10. CASE op \in {"defines", "def_site"}
  <2>1. ASSUME NEW x \in Full PROVE x \in Found(op)
    <3>1. x \in OwnAsked(sources) /\ x.of = "defines"
      BY <1>1, <1>10, RelationIs
    <3>2. x \in sources /\ Named(question.subject, x.name, x.arity)
      BY <3>1 DEF OwnAsked
    <3>3. Ident(x.name, x.arity) \in Means(sources, question.subject)
      BY <3>1, <3>2 DEF Means
    <3>4. Own(x)
      BY <1>10, <3>2, <3>3, SubjectIsMeant DEF SubjectOps, Own
    <3>5. QED
      BY <1>2, <1>10, <3>1, <3>2, <3>4, FoundIs
  <2>2. QED
    BY <1>4, <1>10, <2>1
<1>11. CASE op \in {"callers", "count"}
  <2>1. ASSUME NEW e \in ShownOf(Full) PROVE e \in Found(op)
    <3>1. PICK c \in Full : e = Ident(c.caller, c.callerArity)
      BY <1>11, ShownIs DEF ShownOf
    <3>2. c \in CallsAsked(sources)
      BY <1>1, <1>11, RelationIs
    <3>3. c \in callees
      BY <1>3, <1>11, <3>2 DEF ObjectOps
    <3>4. QED
      BY <1>11, <3>1, <3>3, FoundIs
  <2>2. QED
    BY <2>1
<1>12. CASE op = "call_sites"
  <2>1. ASSUME NEW e \in ShownOf(Full) PROVE e \in Found(op)
    <3>1. PICK c \in Full : e = [caller |-> c.caller, arity |-> c.callerArity, file |-> c.file]
      BY <1>12, ShownIs DEF ShownOf
    <3>2. c \in CallsAsked(sources)
      BY <1>1, <1>12, RelationIs
    <3>3. SiteOf(c, object) /\ c \in Of("calls")
      BY <1>2, <1>12, <3>2, SiteIsFound DEF ObjectOps, CallsAsked
    <3>4. QED
      BY <1>12, <3>1, <3>3, FoundIs
  <2>2. QED
    BY <2>1
<1>13. QED
  BY <1>6, <1>7, <1>8, <1>9, <1>10, <1>11, <1>12 DEF SubjectOps, ObjectOps

------------------------------------------------------------------------------
(* The invariant *)

\* The steps still to be made, and in their order.
Ahead ==
  /\ todo \subseteq Steps(question)
  /\ todo # {} => "scope" \in todo
  /\ "parse" \in todo => todo = Steps(question)
  /\ "prove" \in todo /\ question.op \in {"callers", "count"} => "cite" \in todo

\* The functions the proof is about are those the question names.
NamesAre ==
  "prove" \in todo /\ "parse" \notin todo =>
    /\ question.op \in SubjectOps /\ "subject" \notin todo =>
         /\ StandsFor(question.subject, subject)
         /\ ~swallowed => Exactly(question.subject, subject)
    /\ question.op \in ObjectOps /\ "object" \notin todo =>
         /\ ArityIsKept => StandsFor(question.object, object)
         /\ ~swallowed => OnlyOne(question.object, object)

\* An answer is what Answer makes.
AnswerIs ==
  answer = [kind |-> answer.kind, said |-> answer.said, cited |-> answer.cited, whole |-> answer.whole]

\* EverythingSaidIsSo, before the end.
SaidIsSo ==
  ArityIsKept /\ (question.op = "returns" => OneFileEach) =>
    /\ answer.said \subseteq ShownOf(Relation(sources, question))
    /\ answer.kind = "true" => answer.said # {}

\* NothingIsMissed, of a scan that lost nothing.
AllIsSaid ==
  lost = {} /\ ~swallowed /\ Known =>
    /\ answer.kind = "false" => Full = {}
    /\ answer.kind \in {"enumerate", "count", "sites"} => ShownOf(Full) \subseteq answer.said

\* What was held against the scan.
Judged == "scope" \notin todo /\ ScopeDependent(answer) => complete

\* A list is finite, and cited once that step is made.
Cited ==
  answer.kind \in {"enumerate", "count"} =>
    /\ IsFiniteSet(answer.said)
    /\ \/ "cite" \in todo
       \/ /\ answer.cited \subseteq answer.said /\ Cardinality(answer.cited) <= EvidenceLimit
          /\ answer.whole <=> answer.cited = answer.said

Inv == Setting /\ Ahead /\ AnswerIs /\ NamesAre /\ SaidIsSo /\ AllIsSaid /\ Judged /\ Cited

LEMMA AnswerFields ==
  ASSUME NEW k, NEW s
  PROVE  /\ Answer(k, s).kind = k /\ Answer(k, s).said = s
         /\ Answer(k, s).cited = {} /\ Answer(k, s).whole = FALSE
BY DEF Answer

\* The step of the pipeline that is next is the only one.
LEMMA NextIsOne ==
  ASSUME Ahead, NEW s, At(s)
  PROVE  /\ s \in todo /\ s \in DOMAIN Order
         /\ \A t \in DOMAIN Order : Order[t] < Order[s] => t \notin todo
         /\ Rest = todo \ {s}
<1>1. s \in todo /\ \A t \in todo : Order[s] <= Order[t]
  BY DEF At
<1>2. \A t \in DOMAIN Order : Order[t] \in Nat
  BY DEF Order
<1>3. \A t, u \in DOMAIN Order : Order[t] = Order[u] => t = u
  BY DEF Order
<1>4. todo \subseteq DOMAIN Order
  BY DEF Ahead, Steps
<1>5. \A t \in todo : At(t) <=> t = s
  BY <1>1, <1>2, <1>3, <1>4 DEF At
<1>6. QED
  BY <1>1, <1>2, <1>4, <1>5 DEF Rest

\* What is asked, and of what, does not change.
LEMMA Rigid ==
  ASSUME Setting, Kept
  PROVE  /\ Setting' /\ facts' = facts /\ (Known' <=> Known) /\ Full' = Full
         /\ Relation(sources, question)' = Relation(sources, question)
         /\ (ArityIsKept' <=> ArityIsKept) /\ (OneFileEach' <=> OneFileEach)
<1>1. sources' = sources /\ lost' = lost /\ complete' = complete /\ question' = question
  BY DEF Kept
<1>2. facts' = facts
  BY <1>1 DEF facts
<1>3. Relation(sources, question)' = Relation(sources, question)
  BY <1>1
<1>4. Setting'
  BY <1>1 DEF Setting
<1>5. Objects' = Objects
  BY <1>1 DEF Objects
<1>6. Known' <=> Known
  BY <1>1, <1>5 DEF Known
<1>7. Meant(sources, question)' = Meant(sources, question)
  BY <1>1
<1>8. Full' = Full
  BY <1>1, <1>5, <1>7 DEF Full, Plain
<1>9. ArityIsKept' <=> ArityIsKept
  BY <1>1, <1>2 DEF ArityIsKept, Defined, Of
<1>10. OneFileEach' <=> OneFileEach
  BY <1>2 DEF OneFileEach
<1>11. QED
  BY <1>2, <1>3, <1>4, <1>6, <1>8, <1>9, <1>10

LEMMA InitInv == Init => Inv
<1> SUFFICES ASSUME Init PROVE Inv
  OBVIOUS
<1>1. Setting
  BY DEF Init, Setting
<1>2. "parse" \in todo /\ "scope" \in todo /\ todo = Steps(question)
  BY DEF Init, Steps, Has, Order
<1>3. answer.kind = "none" /\ answer.said = {}
  BY AnswerFields DEF Init
<1>4. Ahead
  <2>1. question.op \in {"callers", "count"} => "cite" \in todo
    BY <1>2 DEF Steps, Has, Order
  <2>2. QED
    BY <1>2, <2>1 DEF Ahead
<1>5. NamesAre /\ SaidIsSo /\ AllIsSaid /\ Judged /\ Cited
  BY <1>2, <1>3 DEF NamesAre, SaidIsSo, AllIsSaid, Judged, Cited
<1>6. AnswerIs
  BY DEF Init, Answer, AnswerIs
<1>7. QED
  BY <1>1, <1>4, <1>5, <1>6 DEF Inv

------------------------------------------------------------------------------
(* The steps *)

\* A step that ends the question without a claim.
LEMMA EndsQuietly ==
  ASSUME Inv, Kept, todo' \subseteq {"scope"}, NEW k \in Quiet, answer' = Answer(k, {})
  PROVE  Inv'
<1>1. Setting'
  BY Rigid DEF Inv
<1>2. Ahead'
  <2>1. "scope" \in Steps(question')
    BY DEF Steps, Has, Order
  <2>2. QED
    BY <2>1 DEF Ahead
<1>3. answer'.kind = k /\ answer'.said = {}
  BY DEF Answer
<1>4. NamesAre'
  BY DEF NamesAre
<1>5. k \notin {"true", "false", "enumerate", "count", "sites"}
  BY DEF Quiet
<1>6. SaidIsSo' /\ AllIsSaid' /\ Judged' /\ Cited'
  BY <1>3, <1>5 DEF SaidIsSo, AllIsSaid, Judged, Cited, ScopeDependent
<1>7. AnswerIs'
  BY DEF AnswerIs, Answer
<1>8. QED
  BY <1>1, <1>2, <1>4, <1>6, <1>7 DEF Inv

LEMMA FinishesQuietly ==
  ASSUME Inv, Kept, NEW k \in Quiet, Finish(Answer(k, {}))
  PROVE  Inv'
BY EndsQuietly DEF Finish

LEMMA Crashes ==
  ASSUME Inv, Kept, Crash
  PROVE  Inv'
<1>1. "crash" \in Quiet
  BY DEF Quiet
<1>2. QED
  BY <1>1, EndsQuietly DEF Crash

\* A step before the proof that goes on keeps the invariant if it keeps the names.
LEMMA GoesOn ==
  ASSUME Inv, Kept, NEW s \in {"parse", "file", "subject", "object", "gateSubject", "gateObject"},
         At(s), GoOn, swallowed => swallowed', NamesAre'
  PROVE  Inv'
<1>1. /\ todo' = todo \ {s} /\ answer' = answer
      /\ s \in todo /\ \A t \in DOMAIN Order : Order[t] < Order[s] => t \notin todo
  BY NextIsOne DEF Inv, GoOn
<1>2. Setting' /\ question' = question /\ lost' = lost /\ complete' = complete
  BY Rigid DEF Inv, Kept
<1>3. "parse" \notin todo'
  <2>1. s # "parse" => Order["parse"] < Order[s]
    BY DEF Order
  <2>2. "parse" \in DOMAIN Order
    BY DEF Order
  <2>3. QED
    BY <1>1, <2>1, <2>2
<1>4. Ahead'
  BY <1>1, <1>2, <1>3 DEF Inv, Ahead
<1>5. SaidIsSo'
  <2>1. /\ Relation(sources, question)' = Relation(sources, question)
        /\ (ArityIsKept' <=> ArityIsKept) /\ (OneFileEach' <=> OneFileEach)
    BY Rigid DEF Inv
  <2>2. ShownOf(Relation(sources, question))' = ShownOf(Relation(sources, question))
    BY <1>2, <2>1 DEF ShownOf
  <2>3. QED
    BY <1>1, <1>2, <2>1, <2>2 DEF Inv, SaidIsSo
<1>6. AllIsSaid'
  <2>1. (Known' <=> Known) /\ Full' = Full
    BY Rigid DEF Inv
  <2>2. ShownOf(Full)' = ShownOf(Full)
    BY <1>2, <2>1 DEF ShownOf
  <2>3. QED
    BY <1>1, <1>2, <2>1, <2>2 DEF Inv, AllIsSaid
<1>7. Judged'
  BY <1>1, <1>2 DEF Inv, Judged
<1>8. Cited'
  BY <1>1 DEF Inv, Cited
<1>9. AnswerIs'
  BY <1>1 DEF Inv, AnswerIs
<1>10. QED
  BY <1>2, <1>4, <1>5, <1>6, <1>7, <1>8, <1>9 DEF Inv

\* What has been resolved stays so.
LEMMA NamesStay ==
  ASSUME Inv, Kept, Resolved, swallowed => swallowed',
         todo' \subseteq todo,
         \A s \in {"parse", "subject", "object"} : s \in todo => s \in todo'
  PROVE  NamesAre'
<1>1. facts' = facts /\ question' = question /\ subject' = subject /\ object' = object
      /\ (ArityIsKept' <=> ArityIsKept)
  BY Rigid DEF Inv, Kept, Resolved
<1>2. StandsFor(question.subject, subject)' <=> StandsFor(question.subject, subject)
  BY <1>1 DEF StandsFor
<1>3. StandsFor(question.object, object)' <=> StandsFor(question.object, object)
  BY <1>1 DEF StandsFor
<1>4. Exactly(question.subject, subject)' <=> Exactly(question.subject, subject)
  BY <1>1 DEF Exactly
<1>5. OnlyOne(question.object, object)' <=> OnlyOne(question.object, object)
  BY <1>1 DEF OnlyOne
<1>6. QED
  BY <1>1, <1>2, <1>3, <1>4, <1>5 DEF Inv, NamesAre

LEMMA Passes ==
  ASSUME Inv, Kept, Resolved, swallowed => swallowed',
         NEW s \in {"file", "gateSubject", "gateObject"}, At(s), GoOn
  PROVE  Inv'
<1>1. todo' = todo \ {s}
  BY NextIsOne DEF Inv, GoOn
<1>2. NamesAre'
  BY <1>1, NamesStay
<1>3. QED
  BY <1>2, GoesOn

LEMMA StepQueryFails == Inv /\ QueryFails => Inv'
<1>1. "error" \in Quiet
  BY DEF Quiet
<1>2. QED
  BY <1>1, FinishesQuietly DEF QueryFails

LEMMA StepParse == Inv /\ Parse => Inv'
<1> SUFFICES ASSUME Inv, Parse PROVE Inv'
  OBVIOUS
<1> DEFINE First(cands) == IF cands = << >> THEN NoIdent ELSE cands[1]
<1>1. Kept /\ swallowed' = swallowed /\ At("parse") /\ Setting /\ question' = question
  BY DEF Parse, Inv, Kept
<1>2. todo = Steps(question) /\ Rest = todo \ {"parse"}
  BY <1>1, NextIsOne DEF Inv, Ahead
<1>3. CASE question.form = "grammar" /\ GoOn /\ subject' = First(question.subject) /\ object' = First(question.object)
  <2>1. facts' = facts /\ question' = question /\ (ArityIsKept' <=> ArityIsKept)
    BY <1>1, Rigid
  <2>2. question.op \in {"calls", "defines", "callers", "count"}
    BY <1>1, <1>3, QuestionAssumption DEF Setting
  <2>3. ASSUME question.op \in SubjectOps
        PROVE  (StandsFor(question.subject, subject) /\ Exactly(question.subject, subject))'
    <3>1. PICK n \in DOMAIN Split, a \in Arities : question.subject = <<Ident(n, a)>>
      BY <1>1, <1>3, <2>2, <2>3, QuestionAssumption DEF Setting, SubjectOps
    <3>2. StandsFor(question.subject, Ident(n, a)) /\ Exactly(question.subject, Ident(n, a))
      BY <1>1, <3>1, Cands, GrammarIs
    <3>3. subject' = Ident(n, a)
      BY <1>3, <3>1
    <3>4. QED
      BY <2>1, <3>2, <3>3 DEF StandsFor, Exactly
  <2>4. ASSUME question.op \in ObjectOps
        PROVE  (StandsFor(question.object, object) /\ OnlyOne(question.object, object))'
    <3>1. PICK n \in DOMAIN Split, a \in Arities : question.object = <<Ident(n, a)>>
      BY <1>1, <1>3, <2>4, QuestionAssumption DEF Setting, ObjectOps
    <3>2. StandsFor(question.object, Ident(n, a)) /\ OnlyOne(question.object, Ident(n, a))
      BY <1>1, <3>1, Cands, GrammarIs
    <3>3. object' = Ident(n, a)
      BY <1>3, <3>1
    <3>4. QED
      BY <2>1, <3>2, <3>3 DEF StandsFor, OnlyOne
  <2>5. NamesAre'
    BY <2>1, <2>3, <2>4 DEF NamesAre
  <2>6. QED
    BY <1>1, <1>3, <2>5, GoesOn
<1>4. CASE question.form = "words" /\ Resolved /\ GoOn
  <2>1. /\ question.op \in SubjectOps => "subject" \in todo'
        /\ question.op \in ObjectOps => "object" \in todo'
    BY <1>2, <1>4 DEF GoOn, Steps, Has, Order, SubjectOps, ObjectOps
  <2>2. NamesAre'
    BY <1>1, <2>1 DEF NamesAre
  <2>3. QED
    BY <1>1, <1>4, <2>2, GoesOn
<1>5. CASE Finish(Answer("unrecognized", {}))
  <2>1. "unrecognized" \in Quiet
    BY DEF Quiet
  <2>2. QED
    BY <1>1, <1>5, <2>1, FinishesQuietly
<1>6. QED
  BY <1>3, <1>4, <1>5 DEF Parse

\* A name is resolved: the function stands for the question's, or the question ends.
LEMMA ResolvesSubject ==
  ASSUME Inv, Kept, At("subject"), NEW down,
         swallowed' = (swallowed \/ down # {}),
         NEW r, r = Resolution(question.subject, "strict", down), IsIdent(r),
         subject' = r, object' = object, GoOn
  PROVE  Inv'
<1>1. Setting /\ question' = question /\ facts' = facts /\ (ArityIsKept' <=> ArityIsKept)
  BY Rigid DEF Inv, Kept
<1>2. question.form # "grammar" /\ question.subject \in Seq(Function)
  BY <1>1, Cands, NextIsOne DEF Inv, Ahead, Steps, Has
<1>3. StandsFor(question.subject, r)
  BY <1>1, <1>2, ResolutionStands
<1>4. ~swallowed' => Exactly(question.subject, r)
  BY <1>1, <1>2, StrictIsExact
<1>5. StandsFor(question.subject, subject)' /\ (~swallowed' => Exactly(question.subject, subject)')
  BY <1>1, <1>3, <1>4 DEF StandsFor, Exactly
<1>6. todo' = todo \ {"subject"} /\ "parse" \notin todo
  <2>1. Order["parse"] < Order["subject"] /\ "parse" \in DOMAIN Order
    BY DEF Order
  <2>2. QED
    BY <2>1, NextIsOne DEF Inv, GoOn
<1>7. ASSUME "prove" \in todo, question.op \in ObjectOps, "object" \notin todo
      PROVE  (ArityIsKept' => StandsFor(question.object, object)') /\ (~swallowed' => OnlyOne(question.object, object)')
  <2>1. (ArityIsKept => StandsFor(question.object, object)) /\ (~swallowed => OnlyOne(question.object, object))
    BY <1>6, <1>7 DEF Inv, NamesAre
  <2>2. StandsFor(question.object, object)' <=> StandsFor(question.object, object)
    BY <1>1 DEF StandsFor
  <2>3. OnlyOne(question.object, object)' <=> OnlyOne(question.object, object)
    BY <1>1 DEF OnlyOne
  <2>4. QED
    BY <1>1, <2>1, <2>2, <2>3
<1>8. NamesAre'
  BY <1>1, <1>5, <1>6, <1>7 DEF NamesAre
<1>9. QED
  BY <1>8, GoesOn

LEMMA ResolvesObject ==
  ASSUME Inv, Kept, At("object"), NEW down,
         swallowed' = (swallowed \/ down # {}),
         NEW r, r = Resolution(question.object, "loose", down), IsIdent(r),
         object' = r, subject' = subject, GoOn
  PROVE  Inv'
<1>1. Setting /\ question' = question /\ facts' = facts /\ (ArityIsKept' <=> ArityIsKept)
  BY Rigid DEF Inv, Kept
<1>2. question.form = "words" /\ question.object \in Seq(Function)
  BY <1>1, Cands, NextIsOne DEF Inv, Ahead, Steps, Has
<1>3. ArityIsKept => StandsFor(question.object, r)
  <2>1. ArityIsKept => NothingToLose(question.object)
    BY <1>2 DEF ArityIsKept, NothingToLose
  <2>2. QED
    BY <1>1, <1>2, <2>1, ResolutionStands
<1>4. ~swallowed' => OnlyOne(question.object, r)
  BY <1>1, <1>2, ResolutionIsOnly
<1>5. (ArityIsKept' => StandsFor(question.object, object)') /\ (~swallowed' => OnlyOne(question.object, object)')
  BY <1>1, <1>3, <1>4 DEF StandsFor, OnlyOne
<1>6. todo' = todo \ {"object"} /\ "parse" \notin todo
  <2>1. Order["parse"] < Order["object"] /\ "parse" \in DOMAIN Order
    BY DEF Order
  <2>2. QED
    BY <2>1, NextIsOne DEF Inv, GoOn
<1>7. ASSUME "prove" \in todo, question.op \in SubjectOps, "subject" \notin todo
      PROVE  StandsFor(question.subject, subject)' /\ (~swallowed' => Exactly(question.subject, subject)')
  <2>1. StandsFor(question.subject, subject) /\ (~swallowed => Exactly(question.subject, subject))
    BY <1>6, <1>7 DEF Inv, NamesAre
  <2>2. StandsFor(question.subject, subject)' <=> StandsFor(question.subject, subject)
    BY <1>1 DEF StandsFor
  <2>3. Exactly(question.subject, subject)' <=> Exactly(question.subject, subject)
    BY <1>1 DEF Exactly
  <2>4. QED
    BY <1>1, <2>1, <2>2, <2>3
<1>8. NamesAre'
  BY <1>1, <1>5, <1>6, <1>7 DEF NamesAre
<1>9. QED
  BY <1>8, GoesOn

\* The ends of a resolution.
LEMMA ResolveEnds ==
  ASSUME Inv, Kept, NEW cands \in Seq(Function), NEW mode, NEW down,
         NEW r, r = Resolution(cands, mode, down), ~IsIdent(r), Ends(r)
  PROVE  Inv'
<1>1. PICK k \in Quiet : r = Answer(k, {})
  BY UnresolvedIsQuiet DEF Inv
<1>2. QED
  BY <1>1, Crashes, FinishesQuietly DEF Ends

LEMMA StepResolveSubject == Inv /\ ResolveSubject => Inv'
<1> SUFFICES ASSUME Inv, ResolveSubject PROVE Inv'
  OBVIOUS
<1>1. Kept /\ At("subject") /\ question.subject \in Seq(Function)
  BY Cands DEF ResolveSubject, Resolve, Inv
<1>2. PICK down \in SUBSET DOMAIN question.subject :
        /\ swallowed' = (swallowed \/ down # {})
        /\ \/ /\ IsIdent(Resolution(question.subject, "strict", down))
              /\ subject' = Resolution(question.subject, "strict", down) /\ object' = object /\ GoOn
           \/ /\ ~IsIdent(Resolution(question.subject, "strict", down))
              /\ Ends(Resolution(question.subject, "strict", down))
           \/ Finish(Answer("error", {}))
  BY DEF ResolveSubject, Resolve
<1>3. PICK r : r = Resolution(question.subject, "strict", down)
  OBVIOUS
<1>4. "error" \in Quiet
  BY DEF Quiet
<1>5. QED
  BY <1>1, <1>2, <1>3, <1>4, ResolvesSubject, ResolveEnds, FinishesQuietly

LEMMA StepResolveObject == Inv /\ ResolveObject => Inv'
<1> SUFFICES ASSUME Inv, ResolveObject PROVE Inv'
  OBVIOUS
<1>1. Kept /\ At("object") /\ question.object \in Seq(Function)
  BY Cands DEF ResolveObject, Resolve, Inv
<1>2. PICK down \in SUBSET DOMAIN question.object :
        /\ swallowed' = (swallowed \/ down # {})
        /\ \/ /\ IsIdent(Resolution(question.object, "loose", down))
              /\ object' = Resolution(question.object, "loose", down) /\ subject' = subject /\ GoOn
           \/ /\ ~IsIdent(Resolution(question.object, "loose", down))
              /\ Ends(Resolution(question.object, "loose", down))
           \/ Finish(Answer("error", {}))
  BY DEF ResolveObject, Resolve
<1>3. PICK r : r = Resolution(question.object, "loose", down)
  OBVIOUS
<1>4. "error" \in Quiet
  BY DEF Quiet
<1>5. QED
  BY <1>1, <1>2, <1>3, <1>4, ResolvesObject, ResolveEnds, FinishesQuietly

LEMMA StepGateSubject == Inv /\ GateSubject => Inv'
<1> SUFFICES ASSUME Inv, GateSubject PROVE Inv'
  OBVIOUS
<1>1. "error" \in Quiet /\ "unverifiable" \in Quiet
  BY DEF Quiet
<1>2. At("gateSubject") /\ (Raise \/ Pass \/ \E k \in Quiet : Stop(Answer(k, {})))
  BY <1>1 DEF GateSubject
<1>3. QED
  BY <1>2, Passes, FinishesQuietly, Crashes DEF Raise, Pass, Stop

LEMMA StepGateObject == Inv /\ GateObject => Inv'
<1> SUFFICES ASSUME Inv, GateObject PROVE Inv'
  OBVIOUS
<1>1. "error" \in Quiet /\ "unverifiable" \in Quiet
  BY DEF Quiet
<1>2. At("gateObject") /\ (Raise \/ Pass \/ \E k \in Quiet : Stop(Answer(k, {})))
  BY <1>1 DEF GateObject
<1>3. QED
  BY <1>2, Passes, FinishesQuietly, Crashes DEF Raise, Pass, Stop

\* A step that ends the question with a claim.
LEMMA Claims ==
  ASSUME Inv, Kept, todo' = {"scope"}, NEW k \in {"true", "false", "sites"}, NEW S,
         answer' = Answer(k, S),
         ArityIsKept /\ (question.op = "returns" => OneFileEach) =>
           S \subseteq ShownOf(Relation(sources, question)) /\ (k = "true" => S # {}),
         lost = {} /\ ~swallowed' /\ Known =>
           (k = "false" => Full = {}) /\ (k = "sites" => ShownOf(Full) \subseteq S)
  PROVE  Inv'
<1>1. /\ Setting' /\ question' = question /\ lost' = lost /\ Full' = Full /\ (Known' <=> Known)
      /\ Relation(sources, question)' = Relation(sources, question)
      /\ (ArityIsKept' <=> ArityIsKept) /\ (OneFileEach' <=> OneFileEach)
  BY Rigid DEF Inv, Kept
<1>2. answer'.kind = k /\ answer'.said = S
  BY DEF Answer
<1>3. AnswerIs'
  BY DEF AnswerIs, Answer
<1>4. Ahead'
  <2>1. "scope" \in Steps(question')
    BY DEF Steps, Has, Order
  <2>2. QED
    BY <2>1 DEF Ahead
<1>5. NamesAre' /\ Judged'
  BY DEF NamesAre, Judged
<1>6. SaidIsSo'
  <2>1. ShownOf(Relation(sources, question))' = ShownOf(Relation(sources, question))
    BY <1>1 DEF ShownOf
  <2>2. QED
    BY <1>1, <1>2, <2>1 DEF SaidIsSo
<1>7. AllIsSaid'
  <2>1. ShownOf(Full)' = ShownOf(Full)
    BY <1>1 DEF ShownOf
  <2>2. QED
    BY <1>1, <1>2, <2>1 DEF AllIsSaid
<1>8. Cited'
  BY <1>2 DEF Cited
<1>9. QED
  BY <1>1, <1>3, <1>4, <1>5, <1>6, <1>7, <1>8 DEF Inv

\* The callers that are found are finitely many.
LEMMA FiniteCallers ==
  ASSUME Setting, question.op \in {"callers", "count"}
  PROVE  IsFiniteSet(Found(question.op))
<1> DEFINE C == {x \in Of("calls") : CalleeOf(x, object)}
           f == [c \in C |-> Ident(c.caller, c.callerArity)]
<1>1. IsFiniteSet(C)
  <2>1. C \in SUBSET Of("calls") /\ IsFiniteSet(Of("calls"))
    BY FiniteFacts
  <2>2. QED
    BY <2>1, FS_Subset
<1>2. Found(question.op) = {f[c] : c \in C}
  BY FoundIs
<1>3. f = [c \in C |-> f[c]]
  OBVIOUS
<1> HIDE DEF C, f
<1>4. QED
  BY <1>1, <1>2, <1>3, FiniteImage

LEMMA StepProve == Inv /\ Prove => Inv'
<1> SUFFICES ASSUME Inv, Prove PROVE Inv'
  OBVIOUS
<1> DEFINE op == question.op
           found == Found(question.op)
           Fair == ArityIsKept /\ (question.op = "returns" => OneFileEach)
           Whole == lost = {} /\ ~swallowed /\ Known
<1>1. At("prove") /\ Setting
  BY DEF Prove, Inv
<1>2. "prove" \in todo /\ "parse" \notin todo /\ "subject" \notin todo /\ "object" \notin todo
  <2>1. /\ \A s \in {"parse", "subject", "object"} : Order[s] < Order["prove"]
        /\ {"parse", "subject", "object"} \subseteq DOMAIN Order
    BY DEF Order
  <2>2. QED
    BY <1>1, <2>1, NextIsOne DEF Inv
<1>3. ASSUME op \in SubjectOps \union ObjectOps
      PROVE  /\ Fair => found \subseteq ShownOf(Relation(sources, question))
             /\ Whole => ShownOf(Full) \subseteq found
  <2>1. op \in SubjectOps => /\ StandsFor(question.subject, subject)
                             /\ ~swallowed => Exactly(question.subject, subject)
    BY <1>2 DEF Inv, NamesAre
  <2>2. op \in ObjectOps => /\ ArityIsKept => StandsFor(question.object, object)
                            /\ ~swallowed => OnlyOne(question.object, object)
    BY <1>2 DEF Inv, NamesAre
  <2>3. Fair => found \subseteq ShownOf(Relation(sources, question))
    BY <1>3, <2>1, <2>2, FoundIsSo
  <2>4. Whole => ShownOf(Full) \subseteq found
    BY <1>1, <1>3, <2>1, <2>2, FoundIsAll
  <2>5. QED
    BY <2>3, <2>4
<1> HIDE DEF found, Fair
<1>4. CASE Raise
  BY <1>4, Crashes DEF Raise
<1>5. CASE Stop(Answer("error", {})) \/ Stop(Answer("unknown", {}))
  <2>1. "error" \in Quiet /\ "unknown" \in Quiet
    BY DEF Quiet
  <2>2. QED
    BY <1>5, <2>1, FinishesQuietly DEF Stop
<1>6. CASE op \in {"calls", "calls_file", "uses", "returns", "defines"} /\ YesNo(found)
  <2>1. op \in SubjectOps \union ObjectOps
    BY <1>6 DEF SubjectOps, ObjectOps
  <2>2. CASE found = {} /\ Stop(Answer("false", {}))
    <3>1. Whole => Full = {}
      BY <1>3, <2>1, <2>2 DEF ShownOf
    <3>2. Kept /\ swallowed' = swallowed /\ todo' = {"scope"} /\ answer' = Answer("false", {})
      BY <2>2 DEF Stop, Finish
    <3>3. QED
      BY <3>1, <3>2, Claims
  <2>3. CASE \E witness \in found : Stop(Answer("true", {witness}))
    <3>1. PICK witness \in found : Stop(Answer("true", {witness}))
      BY <2>3
    <3>2. Fair => {witness} \subseteq ShownOf(Relation(sources, question))
      BY <1>3, <2>1
    <3>3. Kept /\ swallowed' = swallowed /\ todo' = {"scope"} /\ answer' = Answer("true", {witness})
      BY <3>1 DEF Stop, Finish
    <3>4. QED
      BY <3>2, <3>3, Claims DEF Fair
  <2>4. QED
    BY <1>6, <2>2, <2>3 DEF YesNo
<1>7. CASE op \in {"call_sites", "def_site"} /\ Stop(Answer("sites", found))
  <2>1. op \in SubjectOps \union ObjectOps
    BY <1>7 DEF SubjectOps, ObjectOps
  <2>2. Kept /\ swallowed' = swallowed /\ todo' = {"scope"} /\ answer' = Answer("sites", found)
    BY <1>7 DEF Stop, Finish
  <2>3. QED
    BY <1>3, <2>1, <2>2, Claims DEF Fair
<1>8. ASSUME NEW k \in {"count", "enumerate"}, op \in {"callers", "count"}, answer' = Answer(k, found),
             todo' = Rest, Kept, UNCHANGED swallowed
      PROVE  Inv'
  <2>1. op \in SubjectOps \union ObjectOps
    BY <1>8 DEF SubjectOps, ObjectOps
  <2>2. /\ Setting' /\ question' = question /\ lost' = lost /\ Full' = Full /\ (Known' <=> Known)
        /\ Relation(sources, question)' = Relation(sources, question)
        /\ (ArityIsKept' <=> ArityIsKept) /\ (OneFileEach' <=> OneFileEach)
    BY <1>1, <1>8, Rigid DEF Kept
  <2>3. answer'.kind = k /\ answer'.said = found /\ AnswerIs'
    BY <1>8 DEF Answer, AnswerIs
  <2>4. todo' = todo \ {"prove"} /\ "cite" \in todo' /\ "scope" \in todo'
    BY <1>1, <1>2, <1>8, NextIsOne DEF Inv, Ahead
  <2>5. Ahead'
    BY <1>2, <2>2, <2>4 DEF Inv, Ahead
  <2>6. NamesAre' /\ Judged'
    BY <2>4 DEF NamesAre, Judged
  <2>7. SaidIsSo'
    <3>1. ShownOf(Relation(sources, question))' = ShownOf(Relation(sources, question))
      BY <2>2 DEF ShownOf
    <3>2. QED
      BY <1>3, <2>1, <2>2, <2>3, <3>1 DEF SaidIsSo, Fair
  <2>8. AllIsSaid'
    <3>1. ShownOf(Full)' = ShownOf(Full)
      BY <2>2 DEF ShownOf
    <3>2. QED
      BY <1>3, <1>8, <2>1, <2>2, <2>3, <3>1 DEF AllIsSaid
  <2>9. Cited'
    <3>1. IsFiniteSet(found)
      BY <1>1, <1>8, FiniteCallers DEF found
    <3>2. QED
      BY <2>3, <2>4, <3>1 DEF Cited
  <2>10. QED
    BY <2>2, <2>3, <2>5, <2>6, <2>7, <2>8, <2>9 DEF Inv
<1>9. QED
  BY <1>4, <1>5, <1>6, <1>7, <1>8 DEF Prove, found

LEMMA StepCheckFile == Inv /\ CheckFile => Inv'
<1> SUFFICES ASSUME Inv, CheckFile PROVE Inv'
  OBVIOUS
<1>1. /\ At("file") /\ Kept /\ Resolved /\ (swallowed => swallowed')
      /\ GoOn \/ Finish(Answer("unverifiable", {}))
  BY DEF CheckFile, LooksForFile
<1>2. "unverifiable" \in Quiet
  BY DEF Quiet
<1>3. QED
  BY <1>1, <1>2, Passes, FinishesQuietly

LEMMA StepFileScanned == Inv /\ FileScanned => Inv'
<1> SUFFICES ASSUME Inv, FileScanned PROVE Inv'
  OBVIOUS
<1>1. PICK down \in SUBSET {"defines", "note"} :
        /\ swallowed' = (swallowed \/ down # {})
        /\ \/ ScannedFacts(down) = {} /\ Finish(Answer("false", {}))
           \/ \E witness \in ScannedFacts(down) : Finish(Answer("true", {witness}))
  BY DEF FileScanned, LooksForFile
<1>2. Kept /\ question.op = "file_scanned"
  BY DEF FileScanned, LooksForFile
<1>3. /\ Relation(sources, question) =
           {x \in sources : x.of \in {"defines", "note"} /\ x.file \in question.pattern}
      /\ ShownOf(Relation(sources, question)) = Relation(sources, question)
  BY <1>2, RelationIs, ShownIs DEF ShownOf
<1>4. CASE ScannedFacts(down) = {} /\ Finish(Answer("false", {}))
  <2>1. ASSUME lost = {}, ~swallowed' PROVE Full = {}
    <3>1. down = {} /\ facts = sources
      BY <1>1, <2>1, WholeScan
    <3>2. Relation(sources, question) = {}
      BY <1>3, <1>4, <3>1 DEF ScannedFacts
    <3>3. QED
      BY <3>2 DEF Full, Meant
  <2>2. QED
    BY <1>2, <1>4, <2>1, Claims DEF Finish
<1>5. CASE \E witness \in ScannedFacts(down) : Finish(Answer("true", {witness}))
  <2>1. PICK witness \in ScannedFacts(down) : Finish(Answer("true", {witness}))
    BY <1>5
  <2>2. {witness} \subseteq ShownOf(Relation(sources, question))
    BY <1>3 DEF ScannedFacts, facts
  <2>3. QED
    BY <1>2, <2>1, <2>2, Claims DEF Finish
<1>6. QED
  BY <1>1, <1>4, <1>5

LEMMA StepCite == Inv /\ Cite => Inv'
<1> SUFFICES ASSUME Inv, Cite PROVE Inv'
  OBVIOUS
<1>1. Kept /\ At("cite") /\ swallowed' = swallowed
  BY DEF Cite
<1>2. PICK covered \in SUBSET answer.said :
        /\ Cardinality(covered) = IF Cardinality(answer.said) <= EvidenceLimit
                                  THEN Cardinality(answer.said) ELSE EvidenceLimit
        /\ \/ Finish(Answer("error", {}))
           \/ Finish([answer EXCEPT !.cited = covered,
                                    !.whole = Cardinality(answer.said) <= EvidenceLimit])
  BY DEF Cite
<1>3. CASE Finish(Answer("error", {}))
  <2>1. "error" \in Quiet
    BY DEF Quiet
  <2>2. QED
    BY <1>1, <1>3, <2>1, FinishesQuietly
<1>4. CASE Finish([answer EXCEPT !.cited = covered, !.whole = Cardinality(answer.said) <= EvidenceLimit])
  <2>1. /\ Setting' /\ question' = question /\ lost' = lost /\ Full' = Full /\ (Known' <=> Known)
        /\ Relation(sources, question)' = Relation(sources, question)
        /\ (ArityIsKept' <=> ArityIsKept) /\ (OneFileEach' <=> OneFileEach)
    BY <1>1, Rigid DEF Inv, Kept
  <2>2. /\ answer' = [kind |-> answer.kind, said |-> answer.said, cited |-> covered,
                      whole |-> Cardinality(answer.said) <= EvidenceLimit]
        /\ todo' = {"scope"}
    BY <1>4 DEF Inv, AnswerIs, Finish
  <2>3. /\ answer'.kind = answer.kind /\ answer'.said = answer.said /\ answer'.cited = covered
        /\ answer'.whole = (Cardinality(answer.said) <= EvidenceLimit) /\ AnswerIs'
    BY <2>2 DEF AnswerIs
  <2>4. Ahead'
    <3>1. "scope" \in Steps(question')
      BY DEF Steps, Has, Order
    <3>2. QED
      BY <2>2, <3>1 DEF Ahead
  <2>5. NamesAre' /\ Judged'
    BY <2>2 DEF NamesAre, Judged
  <2>6. SaidIsSo'
    <3>1. ShownOf(Relation(sources, question))' = ShownOf(Relation(sources, question))
      BY <2>1 DEF ShownOf
    <3>2. QED
      BY <2>1, <2>3, <3>1 DEF Inv, SaidIsSo
  <2>7. AllIsSaid'
    <3>1. ShownOf(Full)' = ShownOf(Full)
      BY <2>1 DEF ShownOf
    <3>2. QED
      BY <1>1, <2>1, <2>3, <3>1 DEF Inv, AllIsSaid
  <2>8. ASSUME IsFiniteSet(answer.said)
        PROVE  /\ Cardinality(covered) <= EvidenceLimit
               /\ Cardinality(answer.said) <= EvidenceLimit <=> covered = answer.said
    <3>1. /\ Cardinality(answer.said) \in Nat /\ EvidenceLimit \in Nat
          /\ Cardinality(covered) = Cardinality(answer.said) => covered = answer.said
      BY <2>8, FS_CardinalityType, FS_Subset, AskAssumption
    <3>2. CASE Cardinality(answer.said) <= EvidenceLimit
      BY <1>2, <3>1, <3>2
    <3>3. CASE ~(Cardinality(answer.said) <= EvidenceLimit)
      <4>1. Cardinality(covered) = EvidenceLimit
        BY <1>2, <3>3
      <4>2. covered # answer.said
        BY <3>1, <3>3, <4>1
      <4>3. QED
        BY <3>1, <3>3, <4>1, <4>2
    <3>4. QED
      BY <3>2, <3>3
  <2>9. Cited'
    BY <2>3, <2>8 DEF Inv, Cited
  <2>10. QED
    BY <2>1, <2>3, <2>4, <2>5, <2>6, <2>7, <2>9 DEF Inv
<1>5. QED
  BY <1>2, <1>3, <1>4

LEMMA StepScope == Inv /\ Scope => Inv'
<1> SUFFICES ASSUME Inv, Scope PROVE Inv'
  OBVIOUS
<1>1. Kept /\ At("scope") /\ swallowed' = swallowed /\ todo' = {}
  BY DEF Scope
<1>2. CASE ~complete /\ ScopeDependent(answer)
  <2>1. "unknown" \in Quiet /\ answer' = Answer("unknown", {})
    BY <1>2 DEF Quiet, Scope
  <2>2. QED
    BY <1>1, <2>1, EndsQuietly
<1>3. CASE ~(~complete /\ ScopeDependent(answer))
  <2>1. answer' = answer
    BY <1>3 DEF Scope
  <2>2. /\ Setting' /\ question' = question /\ lost' = lost /\ complete' = complete
        /\ Full' = Full /\ (Known' <=> Known)
        /\ Relation(sources, question)' = Relation(sources, question)
        /\ (ArityIsKept' <=> ArityIsKept) /\ (OneFileEach' <=> OneFileEach)
    BY <1>1, Rigid DEF Inv, Kept
  <2>3. "cite" \notin todo
    <3>1. Order["cite"] < Order["scope"] /\ "cite" \in DOMAIN Order
      BY DEF Order
    <3>2. QED
      BY <1>1, <3>1, NextIsOne DEF Inv
  <2>4. Ahead' /\ NamesAre' /\ AnswerIs'
    BY <1>1, <2>1 DEF Ahead, NamesAre, Inv, AnswerIs
  <2>5. Judged'
    BY <1>3, <2>1, <2>2 DEF Judged, ScopeDependent
  <2>6. SaidIsSo'
    <3>1. ShownOf(Relation(sources, question))' = ShownOf(Relation(sources, question))
      BY <2>2 DEF ShownOf
    <3>2. QED
      BY <2>1, <2>2, <3>1 DEF Inv, SaidIsSo
  <2>7. AllIsSaid'
    <3>1. ShownOf(Full)' = ShownOf(Full)
      BY <2>2 DEF ShownOf
    <3>2. QED
      BY <1>1, <2>1, <2>2, <3>1 DEF Inv, AllIsSaid
  <2>8. Cited'
    BY <2>1, <2>3 DEF Inv, Cited
  <2>9. QED
    BY <2>2, <2>4, <2>5, <2>6, <2>7, <2>8 DEF Inv
<1>4. QED
  BY <1>2, <1>3

LEMMA StepStutter == Inv /\ UNCHANGED vars => Inv'
<1> SUFFICES ASSUME Inv, UNCHANGED vars PROVE Inv'
  OBVIOUS
<1>1. /\ Kept /\ todo' = todo /\ answer' = answer /\ swallowed' = swallowed
      /\ Resolved /\ question' = question /\ lost' = lost /\ complete' = complete
  BY DEF vars, Kept, Resolved
<1>2. /\ Setting' /\ Full' = Full /\ (Known' <=> Known)
      /\ Relation(sources, question)' = Relation(sources, question)
      /\ (ArityIsKept' <=> ArityIsKept) /\ (OneFileEach' <=> OneFileEach)
  BY <1>1, Rigid DEF Inv
<1>3. NamesAre'
  BY <1>1, NamesStay
<1>4. Ahead' /\ AnswerIs' /\ Judged' /\ Cited'
  BY <1>1 DEF Inv, Ahead, AnswerIs, Judged, Cited
<1>5. SaidIsSo'
  <2>1. ShownOf(Relation(sources, question))' = ShownOf(Relation(sources, question))
    BY <1>1, <1>2 DEF ShownOf
  <2>2. QED
    BY <1>1, <1>2, <2>1 DEF Inv, SaidIsSo
<1>6. AllIsSaid'
  <2>1. ShownOf(Full)' = ShownOf(Full)
    BY <1>1, <1>2 DEF ShownOf
  <2>2. QED
    BY <1>1, <1>2, <2>1 DEF Inv, AllIsSaid
<1>7. QED
  BY <1>2, <1>3, <1>4, <1>5, <1>6 DEF Inv

LEMMA Invariance == Spec => []Inv
<1>1. Inv /\ [Next]_vars => Inv'
  <2>1. Inv /\ Next => Inv'
    BY StepQueryFails, StepParse, StepResolveSubject, StepResolveObject, StepGateSubject, StepGateObject,
       StepProve, StepCheckFile, StepFileScanned, StepCite, StepScope DEF Next
  <2>2. QED
    BY <2>1, StepStutter
<1>2. QED
  BY <1>1, InitInv, PTL DEF Spec

------------------------------------------------------------------------------
(* Theorems *)

\* Whatever is said is so: a "true" and every element of a list have a fact of the
\* sources that answers the question asked, for any bases, questions and failures
\* and however little of the sources was scanned (symbolic_ask:ask/3).
THEOREM WhatIsSaidIsSo == Spec => []EverythingSaidIsSo
<1>1. Inv => EverythingSaidIsSo
  BY DEF Inv, SaidIsSo, EverythingSaidIsSo, ShownOf
<1>2. QED
  BY <1>1, Invariance, PTL

\* Absence is only claimed where it is so: after "no" the sources hold nothing of
\* what was meant, and a list, a count or sites hold all of it (scope_answer/2 and
\* the resolution of names before it).
THEOREM AbsenceIsKnown == Spec => []NothingIsMissed
<1>1. ASSUME Inv PROVE NothingIsMissed
  <2>1. ASSUME Definite, ~swallowed, Known, ScopeDependent(answer)
        PROVE  /\ answer.kind = "false" => Full = {}
               /\ answer.kind \in {"enumerate", "count", "sites"} => ShownOf(Full) \subseteq answer.said
    <3>1. complete
      BY <1>1, <2>1 DEF Inv, Judged, Definite, Done
    <3>2. lost = {}
      BY <1>1, <3>1 DEF Inv, Setting
    <3>3. QED
      BY <1>1, <2>1, <3>2 DEF Inv, AllIsSaid
  <2>2. QED
    BY <2>1 DEF NothingIsMissed, ScopeDependent, Known, Full, Plain, Objects, ShownOf
<1>2. QED
  BY <1>1, Invariance, PTL

\* Citations are of callers that are listed, as many as the limit allows, and the
\* answer calls them complete exactly when every caller has its own
\* (caller_evidence/3).
THEOREM CitationsAreCovered == Spec => []CitationsCover
<1>1. Inv => CitationsCover
  BY DEF Inv, Cited, CitationsCover, Definite, Done
<1>2. QED
  BY <1>1, Invariance, PTL

=============================================================================
