--------------------------------- MODULE Ask ---------------------------------
(***************************************************************************)
(* Answering one question about the code (symbolic_ask): the pipeline that *)
(* the command line and the project cache share.                           *)
(*                                                                         *)
(* The facts of the scan are loaded into a Prolog session of the           *)
(* question's own.  The question is understood by the grammar or by the    *)
(* tagger's shapes, the names in it are resolved to functions, gated       *)
(* against the definitions, the relation is proved, callers are cited, and *)
(* the answer is held against the completeness of the scan.  Each of these *)
(* steps asks the session, and any query of it may fail or run into its    *)
(* deadline.                                                               *)
(*                                                                         *)
(* A fact is a record whose "of" is its predicate; words and paths are     *)
(* taken for what they denote: a question carries the candidates its words *)
(* spell and the files its path matches.                                   *)
(***************************************************************************)
EXTENDS Naturals, Sequences, FiniteSets

CONSTANTS
  Worlds,         \* what the sources hold: sets of facts
  Files,          \* the files of the project
  Questions,      \* questions, as they are understood
  Split,          \* a name to <<receiver, method>> at its last dot, or <<>>
  Arities,        \* the arities of functions
  Slashed,        \* the names with a "/" in them
  EvidenceLimit,  \* callers cited at most
  MaxFaults,      \* bound: queries of the session that fail
  Any,            \* "any": the arity the question left open
  Undefined,      \* "undefined": an arity not known, or not given
  NoName          \* the caller of a call outside every function

Ident(n, a) == [name |-> n, arity |-> a]
NoIdent == Ident(NoName, Undefined)

ASSUME AskAssumption ==
  MaxFaults \in Nat /\ EvidenceLimit \in Nat \ {0} /\ {Any, Undefined} \cap Arities = {} /\ Any # Undefined

\* A scan is finite, and an extractor writes an arity or "undefined", and a call in
\* one of three shapes.
ASSUME WorldAssumption ==
  \A w \in Worlds :
    /\ IsFiniteSet(w)
    /\ \A x \in w : /\ x.of = "defines" => x.arity \in Arities \union {Undefined}
                    /\ x.of = "calls" => x.shape \in {"local", "remote", "member"}

\* The words of a name spell a few candidates; the grammar reads one function with
\* its arity where its question has one.
ASSUME QuestionAssumption ==
  \A q \in Questions :
    /\ {q.subject, q.object} \subseteq Seq([name : DOMAIN Split, arity : Arities \union {Undefined}])
    /\ q.form = "grammar" =>
         /\ q.op \in {"calls", "defines"} => \E n \in DOMAIN Split, a \in Arities : q.subject = <<Ident(n, a)>>
         /\ q.op # "defines" => \E n \in DOMAIN Split, a \in Arities : q.object = <<Ident(n, a)>>
         /\ q.op \in {"calls", "defines", "callers", "count"}

VARIABLES
  sources,    \* the facts of every file
  lost,       \* the files whose extraction failed
  complete,   \* what the scan's metadata says of itself
  question,   \* the question
  todo,       \* the steps of the pipeline still to be made
  subject,    \* the function the question is about, once resolved
  object,     \* the callee it asks for, once resolved
  answer,     \* the result so far
  faults,     \* queries that have failed
  swallowed  \* whether a failed query was taken for an empty answer

vars == <<sources, lost, complete, question, todo, subject, object, answer, faults,
          swallowed>>

facts == {x \in sources : x.file \notin lost}
Of(predicate) == {x \in facts : x.of = predicate}

Answer(k, s) == [kind |-> k, said |-> s, cited |-> {}, whole |-> FALSE]

\* The order of the steps.
Order == [parse |-> 1, file |-> 2, subject |-> 3, object |-> 4, gateSubject |-> 5,
          gateObject |-> 6, prove |-> 7, cite |-> 8, scope |-> 9]

\* The steps the code makes for a question.
Has(q, step) ==
  CASE step = "file"        -> q.op = "calls_file"
    [] step = "subject"     -> q.form = "words" /\ q.op \in {"calls", "defines", "uses", "returns", "def_site"}
    [] step = "object"      -> q.form = "words"
                               /\ q.op \in {"calls", "callers", "count", "call_sites", "calls_file"}
    [] step = "gateSubject" -> q.op = "calls"
    [] step = "gateObject"  -> q.op \in {"calls", "callers", "count"}
    [] step = "cite"        -> q.op \in {"callers", "count"}
    [] OTHER                -> TRUE

Steps(q) == {step \in DOMAIN Order : Has(q, step)}

Init ==
  /\ sources \in Worlds
  /\ lost \in SUBSET Files
  /\ complete \in {lost = {}, FALSE}
  /\ question \in Questions
  /\ todo = Steps(question)
  /\ subject = NoIdent /\ object = NoIdent /\ answer = Answer("none", {})
  /\ faults = 0 /\ swallowed = FALSE

------------------------------------------------------------------------------
(* One step of the pipeline: it goes on, it returns early with an answer that *)
(* is still held against the scan, or it raises and takes its caller along.   *)

At(step) == step \in todo /\ \A other \in todo : Order[step] <= Order[other]
Rest == {step \in todo : ~At(step)}
GoOn == todo' = Rest /\ answer' = answer
Finish(a) == todo' = {"scope"} /\ answer' = a
Crash == todo' = {} /\ answer' = Answer("crash", {})

Fails == faults < MaxFaults /\ faults' = faults + 1
AllWell == faults' = faults
Kept == UNCHANGED <<sources, lost, complete, question>>
Resolved == UNCHANGED <<subject, object>>

\* The words a mention is looked for under.
Words == {question.object[i].name : i \in DOMAIN question.object}

\* Whether writing the goal needs an arity the resolved function does not have.
NoArity(op) ==
  \/ op \in {"defines", "def_site", "returns"} /\ subject.arity = Undefined
  \/ op = "uses" /\ Words # {} /\ subject.arity = Undefined
  \/ op \in {"call_sites", "calls_file"} /\ object.arity = Undefined

\* A query that fails or runs into its deadline is the end of the question.
QueryFails ==
  /\ \/ At("parse")
     \/ At("gateSubject") /\ subject.arity # Undefined
     \/ At("gateObject") /\ object.arity # Any
     \/ At("prove") /\ question.op # "file_scanned" /\ ~NoArity(question.op)
     \/ At("cite") /\ answer.said # {}
  /\ Fails /\ Finish(Answer("error", {}))
  /\ Kept /\ Resolved /\ UNCHANGED swallowed

\* phrase(question(Type, Rel), Tokens): the grammar's questions name functions
\* with their arity.  Others go to the tagger, which may not be built, may not
\* understand them, or finds candidates for each name.
Parse ==
  /\ At("parse") /\ AllWell
  /\ LET First(cands) == IF cands = <<>> THEN NoIdent ELSE cands[1]
     IN \/ /\ question.form = "grammar"
           /\ subject' = First(question.subject) /\ object' = First(question.object)
           /\ GoOn
        \/ question.form = "words" /\ Resolved /\ GoOn
        \/ question.form = "words" /\ Resolved /\ Finish(Answer("unrecognized", {}))
  /\ Kept /\ UNCHANGED swallowed

------------------------------------------------------------------------------
(* Names to functions: resolve_candidates/3 *)

\* candidate_allows_arity/3.
Allows(cands, n, a) ==
  \E i \in DOMAIN cands : cands[i].name = n /\ cands[i].arity \in {Undefined, a}

\* defined_entities/2, but for the candidates whose query failed.
Entities(cands, down) ==
  {Ident(d.name, d.arity) :
     d \in {e \in Of("defines") : \E i \in DOMAIN cands \ down : cands[i].name = e.name}}

\* resolve_strict/3 and resolve_loose/3: the first candidate that is defined after
\* all, or none of them.
Unresolved(cands, mode) ==
  LET Rows(i) == {d \in Of("defines") : d.name = cands[i].name}
      known   == {i \in DOMAIN cands : Rows(i) # {}}
      first   == CHOOSE i \in known : \A j \in known : i <= j
      given   == cands[first].arity
      arities == {d.arity : d \in Rows(first)}
  IN CASE cands = <<>> /\ mode = "loose" -> Answer("crash", {})
       [] cands # <<>> /\ Of("defines") = {} -> Answer("error", {})
       [] cands # <<>> /\ Of("defines") # {} /\ known = {} /\ mode = "loose" ->
            Ident(cands[Len(cands)].name, Any)
       [] known # {} /\ given = Undefined /\ Cardinality(Rows(first)) = 1 ->
            Ident(cands[first].name, CHOOSE a \in arities : TRUE)
       [] known # {} /\ given # Undefined /\ given \in arities -> Ident(cands[first].name, given)
       [] OTHER -> Answer("unverifiable", {})

\* Mutant of Resolution: the first defined candidate is taken.
Resolution_First(cands, mode, down) ==
  LET entities == Entities(cands, down)
      matching == {e \in entities : Allows(cands, e.name, e.arity)}
  IN IF matching # {} THEN CHOOSE e \in matching : TRUE ELSE Unresolved(cands, mode)

\* The one function that is meant, or the answer that says why there is none.
Resolution(cands, mode, down) ==
  LET entities == Entities(cands, down)
      matching == {e \in entities : Allows(cands, e.name, e.arity)}
  IN CASE Cardinality(matching) = 1 -> CHOOSE e \in matching : TRUE
       [] Cardinality(matching) > 1 -> Answer("ambiguous", {})
       [] matching = {} /\ Cardinality(entities) = 1 -> Answer("unverifiable", {})
       [] matching = {} /\ Cardinality(entities) > 1 -> Answer("ambiguous", {})
       [] OTHER -> Unresolved(cands, mode)

\* A function, or the early end.
IsIdent(r) == "arity" \in DOMAIN r
Ends(r) == IF r.kind = "crash" THEN Crash ELSE Finish(r)

\* definition_rows/2 takes a query that failed for a name without definitions;
\* arities_of/2 reports it.
Resolve(step, cands, mode, var, other) ==
  /\ At(step)
  /\ \E down \in SUBSET DOMAIN cands :
       /\ faults + Cardinality(down) <= MaxFaults
       /\ swallowed' = (swallowed \/ down # {})
       /\ LET r == Resolution(cands, mode, down)
          IN \/ /\ faults' = faults + Cardinality(down)
                /\ \/ IsIdent(r) /\ var' = r /\ GoOn
                   \/ ~IsIdent(r) /\ var' = var /\ Ends(r)
             \/ /\ faults + Cardinality(down) < MaxFaults
                /\ Entities(cands, down) = {} /\ cands # <<>>
                /\ faults' = faults + Cardinality(down) + 1
                /\ var' = var /\ Finish(Answer("error", {}))
  /\ other' = other /\ Kept

ResolveSubject == Resolve("subject", question.subject, "strict", subject, object)
ResolveObject == Resolve("object", question.object, "loose", object, subject)

------------------------------------------------------------------------------
(* The gate *)

Pass == AllWell /\ GoOn /\ Kept /\ Resolved /\ UNCHANGED swallowed
Stop(a) == AllWell /\ Finish(a) /\ Kept /\ Resolved /\ UNCHANGED swallowed
Raise == AllWell /\ Crash /\ Kept /\ Resolved /\ UNCHANGED swallowed

Defined(n) == {d \in Of("defines") : d.name = n}

\* The subject of a call question is a function of the scan.  A predicate with no
\* facts is an error of the session.  defines_goal/2 has no clause for an arity
\* that is not known.
GateSubject ==
  /\ At("gateSubject")
  /\ \/ subject.arity = Undefined /\ Raise
     \/ /\ subject.arity # Undefined
        /\ \/ Of("defines") = {} /\ Stop(Answer("error", {}))
           \/ (\E d \in Defined(subject.name) : d.arity = subject.arity) /\ Pass
           \/ /\ Of("defines") # {} /\ \A d \in Defined(subject.name) : d.arity # subject.arity
              /\ Stop(Answer("unverifiable", {}))

\* A callee the scan defines is asked for with an arity it has; any other is taken
\* for an external one.
GateObject ==
  /\ At("gateObject")
  /\ \/ object.arity = Any /\ Pass
     \/ object.arity # Any /\ Of("defines") = {} /\ Stop(Answer("error", {}))
     \/ object.arity # Any /\ Of("defines") # {} /\ Defined(object.name) = {} /\ Pass
     \/ /\ object.arity # Any /\ Defined(object.name) # {}
        /\ \/ object.arity = Undefined /\ Raise
           \/ /\ object.arity # Undefined
              /\ \/ (\E d \in Defined(object.name) : d.arity = object.arity) /\ Pass
                 \/ /\ \A d \in Defined(object.name) : d.arity # object.arity
                    /\ Stop(Answer("unverifiable", {}))

------------------------------------------------------------------------------
(* The proofs: execute_answer/3 *)

\* Mutant of CalleeOf: the arity of the callee is left open.
CalleeOf_AnyArity(c, o) ==
  \/ c.shape \in {"local", "remote"} /\ c.name = o.name
  \/ c.shape \in {"member", "remote"} /\ Split[o.name] = <<c.module, c.name>>

\* The findall goals L1 to L4: a local or a remote call by its name; a member call,
\* or a remote one, by receiver and method.
CalleeOf(c, o) ==
  /\ o.arity \in {Any, c.arity}
  /\ \/ c.shape \in {"local", "remote"} /\ c.name = o.name
     \/ c.shape \in {"member", "remote"} /\ Split[o.name] = <<c.module, c.name>>

\* call_sites has no goal for a remote call by module and function.
SiteOf(c, o) == CalleeOf(c, o) /\ (c.shape = "remote" => c.name = o.name)

Own(x) == x.name = subject.name /\ x.arity = subject.arity

\* return_witness_pair/7: a mention on the line of a valued return, or a key that is
\* in the returned expression.  The first join compares lines and no files.
Mentioned ==
  LET own == {r \in Of("return") : Own(r)}
  IN {m \in Of("ref") : /\ Own(m) /\ m.word \in Words
                        /\ \E r \in own : r.line = m.line}
     \union {k \in Of("key") : /\ Own(k) /\ k.word \in Words
                               /\ \E r \in own : r.file = k.file /\ r.line = k.line}

\* What the goals of a yes/no question find, and what those of a list.
Found(op) ==
  CASE op = "calls"      -> {c \in Of("calls") : /\ c.caller = subject.name
                                                 /\ c.callerArity = subject.arity
                                                 /\ CalleeOf(c, object)}
    [] op = "calls_file" -> {c \in Of("calls") : c.file \in question.pattern /\ CalleeOf(c, object)}
    [] op = "uses"       -> {m \in Of("ref") : Own(m) /\ m.word \in Words}
    [] op = "returns"    -> Mentioned
    [] op \in {"callers", "count"} ->
         {Ident(c.caller, c.callerArity) : c \in {x \in Of("calls") : CalleeOf(x, object)}}
    [] op = "call_sites" -> {[caller |-> c.caller, arity |-> c.callerArity, file |-> c.file] :
                               c \in {x \in Of("calls") : SiteOf(x, object)}}
    [] OTHER             -> {d \in Of("defines") : Own(d)}

\* The predicate a goal cannot do without.
Needs(op) ==
  CASE op \in {"defines", "def_site"} -> Of("defines") # {}
    [] op = "uses"                    -> Of("ref") # {} \/ Words = {}
    [] op = "returns"                 -> TRUE
    [] OTHER                          -> Of("calls") # {}

YesNo(found) ==
  \/ found = {} /\ Stop(Answer("false", {}))
  \/ \E witness \in found : Stop(Answer("true", {witness}))

Prove ==
  /\ At("prove") /\ question.op # "file_scanned"
  /\ LET op == question.op
         found == Found(op)
     IN \/ NoArity(op) /\ Raise
        \/ ~NoArity(op) /\ ~Needs(op) /\ Stop(Answer("error", {}))
        \/ /\ ~NoArity(op) /\ Needs(op)
           /\ \/ op \in {"calls", "calls_file", "uses", "returns", "defines"} /\ YesNo(found)
              \/ op \in {"call_sites", "def_site"} /\ Stop(Answer("sites", found))
              \/ /\ op \in {"callers", "count"}
                 /\ IF \E c \in found : c.name = NoName
                    THEN Stop(Answer("unknown", {}))
                    ELSE /\ answer' = Answer(IF op = "count" THEN "count" ELSE "enumerate", found)
                         /\ todo' = Rest
                         /\ AllWell /\ Kept /\ Resolved /\ UNCHANGED swallowed

\* file_scanned_evidence/2: four queries, and one that fails is taken for none
\* found.  A file is known by its definitions or by its comments, paragraphs and
\* configuration values.
ScannedFacts(down) ==
  {x \in facts : x.of \in {"defines", "note"} \ down /\ x.file \in question.pattern}

LooksForFile(step) ==
  /\ At(step)
  /\ \E down \in SUBSET {"defines", "note"} :
       /\ faults + Cardinality(down) <= MaxFaults
       /\ faults' = faults + Cardinality(down)
       /\ swallowed' = (swallowed \/ down # {})
       /\ LET found == ScannedFacts(down)
          IN \/ step = "file" /\ found # {} /\ GoOn
             \/ step = "file" /\ found = {} /\ Finish(Answer("unverifiable", {}))
             \/ step = "prove" /\ found = {} /\ Finish(Answer("false", {}))
             \/ step = "prove" /\ \E witness \in found : Finish(Answer("true", {witness}))
  /\ Kept /\ Resolved

CheckFile == LooksForFile("file")
FileScanned == question.op = "file_scanned" /\ LooksForFile("prove")

\* Mutant of Cite: the answer is always called completely cited.
Cite_AlwaysWhole ==
  /\ At("cite")
  /\ \E covered \in SUBSET answer.said :
       /\ Cardinality(covered) = IF Cardinality(answer.said) <= EvidenceLimit
                                 THEN Cardinality(answer.said) ELSE EvidenceLimit
       /\ IF \E c \in covered : c.name \in Slashed
          THEN Finish(Answer("error", {}))
          ELSE Finish([answer EXCEPT !.cited = covered, !.whole = TRUE])
  /\ AllWell /\ Kept /\ Resolved /\ UNCHANGED swallowed

\* caller_evidence/3: a witness for each of the first callers, whichever the sort puts
\* there.  A rendered name is taken apart at its first "/".
Cite ==
  /\ At("cite")
  /\ \E covered \in SUBSET answer.said :
       /\ Cardinality(covered) = IF Cardinality(answer.said) <= EvidenceLimit
                                 THEN Cardinality(answer.said) ELSE EvidenceLimit
       /\ IF \E c \in covered : c.name \in Slashed
          THEN Finish(Answer("error", {}))
          ELSE Finish([answer EXCEPT !.cited = covered,
                                     !.whole = Cardinality(answer.said) <= EvidenceLimit])
  /\ AllWell /\ Kept /\ Resolved /\ UNCHANGED swallowed

\* scope_dependent_answer/1: the answers that speak of absence.
ScopeDependent(a) == a.kind \in {"false", "enumerate", "count", "sites"}

\* scope_answer/2.
Scope ==
  /\ At("scope")
  /\ answer' = IF ~complete /\ ScopeDependent(answer) THEN Answer("unknown", {}) ELSE answer
  /\ todo' = {}
  /\ AllWell /\ Kept /\ Resolved /\ UNCHANGED swallowed

Next ==
  \/ QueryFails \/ Parse \/ ResolveSubject \/ ResolveObject
  \/ GateSubject \/ GateObject \/ Prove \/ CheckFile \/ FileScanned \/ Cite \/ Scope

Spec == Init /\ [][Next]_vars

------------------------------------------------------------------------------
(* What a question asks, said without the pipeline *)

Named(cands, n, a) == \E i \in DOMAIN cands : cands[i] \in {Ident(n, a), Ident(n, Undefined)}

\* The functions of a base that a question's name can be.
Means(base, cands) ==
  {Ident(d.name, d.arity) : d \in {x \in base : x.of = "defines" /\ Named(cands, x.name, x.arity)}}

\* The names a call can be asked for by: f, m.f, or both for a remote call.
CalledAs(c) ==
  (IF c.shape = "member" THEN {} ELSE {c.name})
  \union (IF c.shape = "local" THEN {} ELSE {n \in DOMAIN Split : Split[n] = <<c.module, c.name>>})

\* The facts of a base that answer a question.
Relation(base, q) ==
  LET calls == {c \in base : /\ c.of = "calls"
                             /\ \E n \in CalledAs(c) : Named(q.object, n, c.arity)}
      own == {x \in base : x.of \in {"ref", "key", "defines"} /\ Named(q.subject, x.name, x.arity)}
      words == {q.object[i].name : i \in DOMAIN q.object}
      Returned(x) == \E r \in base : /\ r.of = "return" /\ r.name = x.name /\ r.arity = x.arity
                                     /\ r.file = x.file /\ r.line = x.line
  IN CASE q.op = "calls"      -> {c \in calls : Named(q.subject, c.caller, c.callerArity)}
       [] q.op = "calls_file" -> {c \in calls : c.file \in q.pattern}
       [] q.op = "uses"       -> {x \in own : x.of = "ref" /\ x.word \in words}
       [] q.op = "returns"    -> {x \in own : x.of # "defines" /\ x.word \in words /\ Returned(x)}
       [] q.op = "file_scanned" -> {x \in base : x.of \in {"defines", "note"} /\ x.file \in q.pattern}
       [] q.op \in {"defines", "def_site"} -> {x \in own : x.of = "defines"}
       [] OTHER               -> calls

\* What an answer shows of a fact.
Shown(q, x) ==
  CASE q.op \in {"callers", "count"} -> Ident(x.caller, x.callerArity)
    [] q.op = "call_sites" -> [caller |-> x.caller, arity |-> x.callerArity, file |-> x.file]
    [] OTHER -> x

\* The function a fact is about.
About(x) == IF x.of = "calls" THEN Ident(x.caller, x.callerArity) ELSE Ident(x.name, x.arity)

\* The facts about the functions a question can only mean: those of the base where
\* it has some of the name.
Meant(base, q) ==
  {x \in Relation(base, q) :
     /\ q.op \in {"calls", "callers", "count", "call_sites", "calls_file"} =>
          \/ Means(base, q.object) = {}
          \/ \E f \in Means(base, q.object) : f.name \in CalledAs(x) /\ f.arity = x.arity
     /\ q.op \in {"calls", "uses", "returns"} =>
          Means(base, q.subject) = {} \/ About(x) \in Means(base, q.subject)}

------------------------------------------------------------------------------
(* Properties *)

Done == todo = {}
Definite == Done /\ answer.kind \in {"true", "false", "enumerate", "count", "sites"}

\* A name the words give an arity is known to the base, or it is the grammar's:
\* resolve_loose/3 forgets the arity of a name that nobody defines.
ArityIsKept ==
  question.form = "words" =>
    \A i \in DOMAIN question.object :
      question.object[i].arity # Undefined => Defined(question.object[i].name) # {}

\* Functions of one name and arity are in one file: the first join of
\* return_witness_pair/7 compares lines alone.
OneFileEach ==
  \A x, y \in facts : x.of \in {"return", "ref"} /\ y.of \in {"return", "ref"}
                       /\ x.name = y.name /\ x.arity = y.arity => x.file = y.file

\* Whatever is said is so: a "true" has a fact of the sources that answers the very
\* question asked, and so has every element of a list, whatever failed on the way
\* and however little of the sources was scanned ("true carries one deterministic
\* matching witness").  Excepted are the two places named above.
EverythingSaidIsSo ==
  Definite /\ ArityIsKept /\ (question.op = "returns" => OneFileEach) =>
    /\ answer.said \subseteq {Shown(question, x) : x \in Relation(sources, question)}
    /\ answer.kind = "true" => answer.said # {}

\* Nothing is missed: "no", and a list, a count or sites, speak for all of the
\* sources ("no matching fact was found in that complete scope").  Excepted are the
\* queries that fail unseen, a callee nobody defines given by several words or with
\* an arity, and the sites of remote calls asked for as module.function.
NothingIsMissed ==
  LET meant   == Meant(sources, question)
      objects == Means(sources, question.object)
      \* The sites that are asked for by the name of the function alone.
      Plain(c) == \/ Ident(c.name, c.arity) \in objects
                  \/ objects = {} /\ Named(question.object, c.name, c.arity)
      full  == IF question.op = "call_sites"
               THEN {c \in meant : c.shape = "remote" => Plain(c)}
               ELSE meant
      known == \/ objects # {}
               \/ Len(question.object) = 1 \/ question.form = "grammar"
               \/ question.op \in {"uses", "returns", "defines", "def_site", "file_scanned"}
  IN Definite /\ ~swallowed /\ known =>
       /\ answer.kind = "false" => full = {}
       /\ answer.kind \in {"enumerate", "count", "sites"} =>
            {Shown(question, x) : x \in full} \subseteq answer.said

\* Citations are of callers that are listed, one for each up to the limit, and the
\* answer calls them complete exactly when every caller has its own ("evidence_complete
\* is true when every returned caller has a citation and false when citations were
\* capped").
CitationsCover ==
  Definite /\ answer.kind \in {"enumerate", "count"} =>
    /\ answer.cited \subseteq answer.said /\ Cardinality(answer.cited) <= EvidenceLimit
    /\ answer.whole <=> answer.cited = answer.said

==============================================================================
