---------------------------- MODULE DiscoveryProofs ----------------------------
(***************************************************************************)
(* What a discovery finds, for every tree, all rules, links and faults:    *)
(* what the documentation promises, each file once, or a failure.          *)
(*                                                                         *)
(* The folds of the rules and the recursion of the walk are computed by    *)
(* recursive functions.  Each is shown to have a solution, so that the one *)
(* CHOOSE takes satisfies its equation, and what it computes follows by    *)
(* induction on a number: of rules, of scopes, or of levels to the depth   *)
(* of the tree.  The induction is CountUp, from the least number at which  *)
(* something fails.                                                        *)
(***************************************************************************)
EXTENDS Discovery, FiniteSetTheorems, SequenceTheorems, WellFoundedInduction, TLAPS

------------------------------------------------------------------------------
(* Numbers *)

\* Every set of numbers that is not empty has a least one.
LEMMA LeastNumber ==
  ASSUME NEW S \in SUBSET Nat, S # {}
  PROVE  \E i \in S : \A j \in S : i <= j
<1> DEFINE Below == {0 .. i : i \in S}
<1>1. Below \subseteq FiniteSubsetsOf(Nat) /\ Below # {}
  <2>1. \A i \in S : 0 .. i \subseteq Nat /\ IsFiniteSet(0 .. i)
    BY FS_Interval
  <2>2. QED
    BY <2>1 DEF FiniteSubsetsOf
<1>2. PICK b \in Below : \A c \in Below : <<c, b>> \notin StrictSubsetOrdering(Nat)
  BY <1>1, FS_StrictSubsetOrderingWellFounded, WFMin
<1>3. PICK i \in S : b = 0 .. i
  OBVIOUS
<1>4. ASSUME NEW j \in S, j < i PROVE FALSE
  <2>1. /\ 0 .. j \subseteq 0 .. i /\ i \in 0 .. i /\ i \notin 0 .. j
        /\ 0 .. j \in SUBSET Nat /\ 0 .. i \in SUBSET Nat
    BY <1>4
  <2>2. <<0 .. j, 0 .. i>> \in StrictSubsetOrdering(Nat)
    BY <2>1 DEF StrictSubsetOrdering
  <2>3. QED
    BY <1>2, <1>3, <2>2
<1>5. QED
  BY <1>4

\* What holds of 0 and of a number's successor holds up to n.
LEMMA CountUp ==
  ASSUME NEW n \in Nat, NEW P, 0 \in P, \A k \in 1 .. n : k - 1 \in P => k \in P
  PROVE  0 .. n \subseteq P
<1> DEFINE Bad == {k \in 0 .. n : k \notin P}
<1> SUFFICES ASSUME Bad # {} PROVE FALSE
  OBVIOUS
<1>1. PICK i \in Bad : \A j \in Bad : i <= j
  <2>1. Bad \in SUBSET Nat
    OBVIOUS
  <2> HIDE DEF Bad
  <2>2. QED
    BY <2>1, LeastNumber
<1>2. i \in 1 .. n
  BY <1>1
<1>3. i - 1 \in 0 .. n /\ i - 1 \notin Bad
  BY <1>1, <1>2
<1>4. QED
  BY <1>1, <1>2, <1>3

\* The greatest of some of the first n numbers.
LEMMA MaxIs ==
  ASSUME NEW n \in Nat, NEW s \in SUBSET (1 .. n), NEW m \in s, \A x \in s : x <= m
  PROVE  Max(s) = m
<1>1. /\ Max(s) \in s /\ \A y \in s : Max(s) >= y
  BY DEF Max
<1>2. Max(s) \in Nat /\ m \in Nat
  <2>1. \A x \in s : x \in Nat
    OBVIOUS
  <2>2. QED
    BY <1>1, <2>1
<1>3. Max(s) <= m /\ m <= Max(s)
  BY <1>1, <1>2
<1>4. QED
  BY <1>2, <1>3

\* A set of the first n numbers has a greatest element.
LEMMA MaxExists ==
  ASSUME NEW n \in Nat, NEW s \in SUBSET (1 .. n), s # {}
  PROVE  Max(s) \in s /\ \A x \in s : x <= Max(s)
<1> DEFINE U == {u \in 0 .. n : \A x \in s : x <= u}
<1>1. n \in U /\ U \in SUBSET Nat
  OBVIOUS
<1>2. PICK u \in U : \A v \in U : u <= v
  <2> HIDE DEF U
  <2>1. QED
    BY <1>1, LeastNumber
<1>3. u \in s
  <2> SUFFICES ASSUME u \notin s PROVE FALSE
    OBVIOUS
  <2>1. u \in Nat /\ u <= n /\ \A x \in s : x \in Nat /\ x < u /\ x <= u - 1
    OBVIOUS
  <2>2. u - 1 \in 0 .. n
    <3>1. PICK x \in s : TRUE
      OBVIOUS
    <3>2. x \in Nat /\ x < u
      BY <2>1, <3>1
    <3>3. QED
      BY <2>1, <3>2
  <2>3. u - 1 \in U
    BY <2>1, <2>2
  <2>4. QED
    BY <1>2, <2>3
<1>4. Max(s) = u
  BY <1>3, MaxIs
<1>5. QED
  BY <1>2, <1>3, <1>4

------------------------------------------------------------------------------
(* Folds *)

\* The recursion over finite sets of numbers by their greatest element.
FoldOf(F, base, n, G) ==
  F = [s \in SUBSET (1 .. n) |-> IF s = {} THEN base ELSE G[<<Max(s), F[s \ {Max(s)}]>>]]

\* A recursion over finite sets of numbers by their greatest element, with the
\* step given as a function, has a solution.
LEMMA FoldExists ==
  ASSUME NEW V, NEW base \in V, NEW n \in Nat, NEW G \in [(1 .. n) \X V -> V]
  PROVE  \E F \in [SUBSET (1 .. n) -> V] : FoldOf(F, base, n, G)
<1> DEFINE Solves(F, m) ==
             \A s \in SUBSET (1 .. m) :
               F[s] = IF s = {} THEN base ELSE G[<<Max(s), F[s \ {Max(s)}]>>]
           Ok(m) == \E F \in [SUBSET (1 .. m) -> V] : Solves(F, m)
<1>1. Ok(0)
  <2> DEFINE F == [s \in SUBSET (1 .. 0) |-> base]
  <2>1. F \in [SUBSET (1 .. 0) -> V] /\ \A s \in SUBSET (1 .. 0) : s = {} /\ F[s] = base
    OBVIOUS
  <2>2. QED
    BY <2>1
<1>2. ASSUME NEW m \in 0 .. n, m # n, Ok(m) PROVE Ok(m + 1)
  <2>1. PICK F \in [SUBSET (1 .. m) -> V] : Solves(F, m)
    BY <1>2
  <2> DEFINE H == [s \in SUBSET (1 .. m + 1) |->
                    IF m + 1 \in s THEN G[<<m + 1, F[s \ {m + 1}]>>] ELSE F[s]]
  <2>2. \A s \in SUBSET (1 .. m + 1) : s \ {m + 1} \in SUBSET (1 .. m)
    BY <1>2
  <2>3. \A s \in SUBSET (1 .. m + 1) : m + 1 \notin s => s \in SUBSET (1 .. m)
    BY <1>2
  <2>4. m + 1 \in 1 .. n
    BY <1>2
  <2>5. H \in [SUBSET (1 .. m + 1) -> V]
    BY <2>2, <2>3, <2>4
  <2>6. ASSUME NEW s \in SUBSET (1 .. m + 1)
        PROVE  H[s] = IF s = {} THEN base ELSE G[<<Max(s), H[s \ {Max(s)}]>>]
    <3>1. CASE m + 1 \in s
      <4>1. Max(s) = m + 1
        <5>1. m + 1 \in Nat /\ \A x \in s : x <= m + 1
          BY <1>2
        <5>2. QED
          BY <3>1, <5>1, MaxIs
      <4>2. s \ {m + 1} \in SUBSET (1 .. m + 1) /\ m + 1 \notin s \ {m + 1}
        OBVIOUS
      <4>3. H[s \ {m + 1}] = F[s \ {m + 1}]
        BY <4>2
      <4>4. QED
        BY <3>1, <4>1, <4>3
    <3>2. CASE m + 1 \notin s
      <4>1. H[s] = F[s] /\ s \in SUBSET (1 .. m)
        BY <2>3, <3>2
      <4>2. H[s \ {Max(s)}] = F[s \ {Max(s)}]
        <5>1. s \ {Max(s)} \in SUBSET (1 .. m + 1) /\ m + 1 \notin s \ {Max(s)}
          BY <3>2
        <5>2. QED
          BY <5>1
      <4>3. QED
        BY <2>1, <4>1, <4>2
    <3>3. QED
      BY <3>1, <3>2
  <2> HIDE DEF H
  <2>7. QED
    BY <2>5, <2>6
<1> HIDE DEF Ok
<1> DEFINE P == {m \in 0 .. n : Ok(m)}
<1>3. 0 \in P
  BY <1>1
<1>4. ASSUME NEW k \in 1 .. n, k - 1 \in P PROVE k \in P
  <2>1. k - 1 \in 0 .. n /\ k - 1 # n /\ k - 1 + 1 = k /\ k \in 0 .. n
    OBVIOUS
  <2>2. Ok(k - 1 + 1)
    BY <1>2, <1>4, <2>1
  <2>3. QED
    BY <2>1, <2>2
<1>5. PICK F \in [SUBSET (1 .. n) -> V] : Solves(F, n)
  <2>1. 0 .. n \subseteq P
    <3> HIDE DEF P
    <3>1. QED
      BY <1>3, <1>4, CountUp
  <2>2. n \in 0 .. n
    OBVIOUS
  <2>3. QED
    BY <2>1, <2>2 DEF Ok
<1>6. FoldOf(F, base, n, G)
  BY <1>5 DEF FoldOf
<1>7. QED
  BY <1>6

\* The first k numbers and their greatest.
LEMMA UpToIs ==
  ASSUME NEW n \in Nat, NEW k \in 1 .. n
  PROVE  /\ 1 .. k \in SUBSET (1 .. n) /\ 1 .. k # {} /\ (1 .. k) \ {k} = 1 .. k - 1
         /\ Max(1 .. k) = k
<1>1. 1 .. k \in SUBSET (1 .. n) /\ 1 .. k # {} /\ (1 .. k) \ {k} = 1 .. k - 1
  OBVIOUS
<1>2. k \in Nat /\ k \in 1 .. k /\ \A x \in 1 .. k : x <= k
  OBVIOUS
<1>3. QED
  BY <1>1, <1>2, MaxIs

\* A step that keeps values in V.
StaysIn(V, n, G) == \A k \in 1 .. n, y \in V : G[<<k, y>>] \in V

\* The values h[0], ..., h[n] of a fold from base that ends with `last`.
Runs(h, base, n, G, last) ==
  h[0] = base /\ h[n] = last /\ \A k \in 1 .. n : h[k] = G[<<k, h[k - 1]>>]

\* What such a recursion computes, number by number, of values that stay in V.
LEMMA FoldIs ==
  ASSUME NEW V, NEW base \in V, NEW n \in Nat, NEW G, StaysIn(V, n, G),
         NEW C, FoldOf(C, base, n, G)
  PROVE  \E h \in [0 .. n -> V] : Runs(h, base, n, G, C[1 .. n])
<1> DEFINE h == [k \in 0 .. n |-> C[1 .. k]]
<1>1. \A s \in SUBSET (1 .. n) : C[s] = IF s = {} THEN base ELSE G[<<Max(s), C[s \ {Max(s)}]>>]
  BY DEF FoldOf
<1>2. h[0] = base
  <2>1. 1 .. 0 = {} /\ 1 .. 0 \in SUBSET (1 .. n) /\ 0 \in 0 .. n
    OBVIOUS
  <2>2. QED
    BY <1>1, <2>1
<1>3. ASSUME NEW k \in 1 .. n PROVE h[k] = G[<<k, h[k - 1]>>]
  <2>1. /\ 1 .. k \in SUBSET (1 .. n) /\ 1 .. k # {} /\ (1 .. k) \ {k} = 1 .. k - 1
        /\ Max(1 .. k) = k
    BY UpToIs
  <2>2. C[1 .. k] = G[<<Max(1 .. k), C[(1 .. k) \ {Max(1 .. k)}]>>]
    BY <1>1, <2>1
  <2>3. k \in 0 .. n /\ k - 1 \in 0 .. n
    OBVIOUS
  <2>4. QED
    BY <2>1, <2>2, <2>3
<1> DEFINE P == {k \in 0 .. n : h[k] \in V}
<1>4. 0 .. n \subseteq P
  <2>1. 0 \in P
    BY <1>2
  <2>2. ASSUME NEW k \in 1 .. n, k - 1 \in P PROVE k \in P
    <3>1. h[k - 1] \in V /\ k \in 0 .. n
      BY <2>2
    <3> HIDE DEF h
    <3>2. QED
      BY <1>3, <3>1 DEF StaysIn
  <2> HIDE DEF P
  <2>3. QED
    BY <2>1, <2>2, CountUp
<1>5. h \in [0 .. n -> V] /\ C[1 .. n] = h[n]
  <2>1. n \in 0 .. n
    OBVIOUS
  <2>2. QED
    BY <1>4, <2>1
<1>6. QED
  <2> HIDE DEF h
  <2>1. QED
    BY <1>2, <1>3, <1>5 DEF Runs

------------------------------------------------------------------------------
(* The rules *)

\* What is said of a path by the first k rules, for each k.
RuleByRule(h, path, isDir, rules, before) ==
  /\ h[0] = before /\ IgnoredBy(path, isDir, rules, before) = h[Len(rules)]
  /\ \A k \in 1 .. Len(rules) :
       h[k] = IF Applies(rules[k], path, isDir) THEN ~rules[k].negate ELSE h[k - 1]

LEMMA IgnoredBySteps ==
  ASSUME NEW path, NEW isDir, NEW rules \in Seq(Rule), NEW before \in BOOLEAN
  PROVE  \E h \in [0 .. Len(rules) -> BOOLEAN] : RuleByRule(h, path, isDir, rules, before)
<1> DEFINE n == Len(rules)
           Step(k, y) == IF Applies(rules[k], path, isDir) THEN ~rules[k].negate ELSE y
           Is(F) == F = [s \in SUBSET DOMAIN rules |->
                          IF s = {} THEN before ELSE Step(Max(s), F[s \ {Max(s)}])]
<1>1. n \in Nat /\ DOMAIN rules = 1 .. n
  OBVIOUS
<1>2. IgnoredBy(path, isDir, rules, before) = (CHOOSE F : Is(F))[DOMAIN rules]
  BY DEF IgnoredBy, FoldLeft, MapThenFoldSet
<1>3. \A k \in 1 .. n, y \in BOOLEAN : Step(k, y) \in BOOLEAN
  <2>1. \A k \in 1 .. n : rules[k] \in Rule
    OBVIOUS
  <2>2. QED
    BY <2>1 DEF Rule
<1> HIDE DEF Step, n
<1>4. \E F : Is(F)
  <2> DEFINE G == [x \in (1 .. n) \X BOOLEAN |-> Step(x[1], x[2])]
  <2>1. G \in [(1 .. n) \X BOOLEAN -> BOOLEAN] /\ before \in BOOLEAN
    BY <1>3
  <2>2. PICK F \in [SUBSET (1 .. n) -> BOOLEAN] : FoldOf(F, before, n, G)
    <3> HIDE DEF G
    <3>1. QED
      BY <1>1, <2>1, FoldExists, Zenon
  <2>3. ASSUME NEW s \in SUBSET (1 .. n), s # {}
        PROVE  Max(s) \in 1 .. n /\ s \ {Max(s)} \in SUBSET (1 .. n)
    BY <1>1, <2>3, MaxExists
  <2>4. ASSUME NEW s \in SUBSET (1 .. n)
        PROVE  F[s] = IF s = {} THEN before ELSE Step(Max(s), F[s \ {Max(s)}])
    BY <2>2, <2>3 DEF FoldOf
  <2>5. QED
    BY <1>1, <2>2, <2>4 DEF FoldOf
<1> DEFINE C == CHOOSE F : Is(F)
           W == BOOLEAN \union {C[s] : s \in SUBSET (1 .. n)}
           G == [x \in (1 .. n) \X W |-> Step(x[1], x[2])]
<1>5. Is(C)
  BY <1>4
<1> HIDE DEF C
<1>6. FoldOf(C, before, n, G)
  <2>1. ASSUME NEW s \in SUBSET (1 .. n), s # {}
        PROVE  Step(Max(s), C[s \ {Max(s)}]) = G[<<Max(s), C[s \ {Max(s)}]>>]
    <3>1. Max(s) \in 1 .. n /\ s \ {Max(s)} \in SUBSET (1 .. n)
      BY <1>1, <2>1, MaxExists
    <3>2. QED
      BY <3>1
  <2> HIDE DEF G
  <2>2. QED
    BY <1>1, <1>5, <2>1 DEF FoldOf
<1>7. StaysIn(BOOLEAN, n, G) /\ \A k \in 1 .. n, y \in BOOLEAN : G[<<k, y>>] = Step(k, y)
  <2>1. \A k \in 1 .. n, y \in BOOLEAN : G[<<k, y>>] = Step(k, y)
    OBVIOUS
  <2> HIDE DEF G
  <2>2. QED
    BY <1>3, <2>1 DEF StaysIn
<1> HIDE DEF G
<1>8. before \in BOOLEAN
  OBVIOUS
<1>9. PICK h \in [0 .. n -> BOOLEAN] : Runs(h, before, n, G, C[1 .. n])
  BY <1>1, <1>6, <1>7, <1>8, FoldIs, Zenon
<1>10. ASSUME NEW k \in 1 .. n PROVE h[k] = Step(k, h[k - 1])
  <2>1. h[k - 1] \in BOOLEAN
    BY <1>1, <1>9
  <2>2. QED
    BY <1>7, <1>9, <2>1 DEF Runs
<1>11. IgnoredBy(path, isDir, rules, before) = h[n]
  BY <1>1, <1>2, <1>9 DEF C, Runs
<1>12. QED
  BY <1>9, <1>10, <1>11 DEF Runs, RuleByRule, Step, n

\* The last rule that applies decides (symbolic_gitignore:ignored/4).
LEMMA LastRuleDecides ==
  ASSUME NEW path, NEW isDir, NEW rules \in Seq(Rule), NEW before \in BOOLEAN
  PROVE  /\ IgnoredBy(path, isDir, rules, before) \in BOOLEAN
         /\ (\A i \in DOMAIN rules : ~Applies(rules[i], path, isDir)) =>
              IgnoredBy(path, isDir, rules, before) = before
         /\ \A i \in DOMAIN rules :
              (/\ Applies(rules[i], path, isDir)
               /\ \A j \in DOMAIN rules : Applies(rules[j], path, isDir) => j <= i) =>
                IgnoredBy(path, isDir, rules, before) = ~rules[i].negate
<1> DEFINE n == Len(rules)
<1>0. PICK h \in [0 .. Len(rules) -> BOOLEAN] : RuleByRule(h, path, isDir, rules, before)
  BY IgnoredBySteps, Zenon
<1>1. /\ h \in [0 .. n -> BOOLEAN] /\ h[0] = before
      /\ IgnoredBy(path, isDir, rules, before) = h[n]
      /\ \A k \in 1 .. n :
           h[k] = IF Applies(rules[k], path, isDir) THEN ~rules[k].negate ELSE h[k - 1]
  BY <1>0 DEF RuleByRule
<1>2. n \in Nat /\ DOMAIN rules = 1 .. n /\ n \in 0 .. n
  OBVIOUS
<1> HIDE DEF n
<1>3. ASSUME \A i \in DOMAIN rules : ~Applies(rules[i], path, isDir)
      PROVE  h[n] = before
  <2> DEFINE P == {k \in 0 .. n : h[k] = before}
  <2>1. 0 \in P
    BY <1>1, <1>2
  <2>2. ASSUME NEW k \in 1 .. n, k - 1 \in P PROVE k \in P
    <3>1. h[k] = h[k - 1]
      BY <1>1, <1>2, <1>3
    <3>2. k \in 0 .. n
      BY <1>2
    <3>3. QED
      BY <2>2, <3>1, <3>2
  <2> HIDE DEF P
  <2>3. 0 .. n \subseteq P
    BY <1>2, <2>1, <2>2, CountUp
  <2>4. QED
    BY <1>2, <2>3 DEF P
<1>4. ASSUME NEW i \in DOMAIN rules, Applies(rules[i], path, isDir),
             \A j \in DOMAIN rules : Applies(rules[j], path, isDir) => j <= i
      PROVE  h[n] = ~rules[i].negate
  <2> DEFINE P == {k \in 0 .. n : k >= i => h[k] = ~rules[i].negate}
  <2>1. 0 \in P
    <3>1. i > 0 /\ i \in Nat
      BY <1>2
    <3>2. QED
      BY <1>2, <3>1
  <2>2. ASSUME NEW k \in 1 .. n, k - 1 \in P PROVE k \in P
    <3>1. CASE k < i
      BY <1>2, <3>1
    <3>2. CASE k = i
      BY <1>1, <1>2, <1>4, <3>2
    <3>3. CASE k > i
      <4>1. ~Applies(rules[k], path, isDir)
        BY <1>2, <1>4, <3>3
      <4>2. h[k] = h[k - 1]
        BY <1>1, <4>1
      <4>3. k - 1 >= i /\ k \in 0 .. n
        BY <1>2, <3>3
      <4>4. QED
        BY <2>2, <4>2, <4>3
    <3>4. QED
      BY <1>2, <3>1, <3>2, <3>3
  <2> HIDE DEF P
  <2>3. 0 .. n \subseteq P
    BY <1>2, <2>1, <2>2, CountUp
  <2>4. n >= i
    BY <1>2
  <2>5. QED
    BY <1>2, <2>3, <2>4 DEF P
<1>5. h[n] \in BOOLEAN
  BY <1>1, <1>2
<1>6. QED
  BY <1>1, <1>3, <1>4, <1>5

\* The rules of a directory, and how a path is seen from it.
LEMMA RulesOfAreRules ==
  ASSUME NEW ignore \in Ignore, NEW dir \in Directory
  PROVE  RulesOf(dir, ignore) \in Seq(Rule)
<1>1. ignore.rules[dir] \in Seq(Rule) /\ DefaultRules \in Seq(Rule)
  BY RuleAssumption DEF Ignore
<1>2. QED
  BY <1>1 DEF RulesOf

\* A path as a scope of a root sees it, and what the scope says of it.
Seen(path, root, ignore, k) == SubSeq(path, Len(Scopes(root, ignore.git)[k]) + 1, Len(path))

ScopeByScope(h, path, isDir, root, ignore) ==
  /\ h[0] = FALSE /\ Ignored(path, isDir, root, ignore) = h[Len(Scopes(root, ignore.git))]
  /\ \A k \in 1 .. Len(Scopes(root, ignore.git)) :
       h[k] = IgnoredBy(Seen(path, root, ignore, k), isDir, RulesOf(Scopes(root, ignore.git)[k], ignore), h[k - 1])

\* What Ignored does scope by scope (symbolic_gitignore:ignored_scopes/3).
LEMMA IgnoredSteps ==
  ASSUME NEW path, NEW isDir, NEW root, NEW ignore \in Ignore,
         Scopes(root, ignore.git) \in Seq(Directory)
  PROVE  \E h \in [0 .. Len(Scopes(root, ignore.git)) -> BOOLEAN] : ScopeByScope(h, path, isDir, root, ignore)
<1> DEFINE scopes == Scopes(root, ignore.git)
           n == Len(scopes)
           Step(k, y) == IgnoredBy(SubSeq(path, Len(scopes[k]) + 1, Len(path)), isDir,
                                   RulesOf(scopes[k], ignore), y)
           Is(F) == F = [s \in SUBSET DOMAIN scopes |->
                          IF s = {} THEN FALSE ELSE Step(Max(s), F[s \ {Max(s)}])]
<1>1. n \in Nat /\ DOMAIN scopes = 1 .. n
  OBVIOUS
<1>2. Ignored(path, isDir, root, ignore) = (CHOOSE F : Is(F))[DOMAIN scopes]
  BY DEF Ignored, FoldLeft, MapThenFoldSet
<1>3. ASSUME NEW k \in 1 .. n, NEW y \in BOOLEAN PROVE Step(k, y) \in BOOLEAN
  <2>1. scopes[k] \in Directory
    OBVIOUS
  <2>2. RulesOf(scopes[k], ignore) \in Seq(Rule)
    BY <2>1, RulesOfAreRules
  <2> HIDE DEF scopes
  <2>3. QED
    BY <2>2, LastRuleDecides
<1> HIDE DEF Step, n, scopes
<1>4. \E F : Is(F)
  <2> DEFINE G == [x \in (1 .. n) \X BOOLEAN |-> Step(x[1], x[2])]
  <2>1. G \in [(1 .. n) \X BOOLEAN -> BOOLEAN] /\ FALSE \in BOOLEAN
    BY <1>3
  <2>2. PICK F \in [SUBSET (1 .. n) -> BOOLEAN] : FoldOf(F, FALSE, n, G)
    <3> HIDE DEF G
    <3>1. QED
      BY <1>1, <2>1, FoldExists, Zenon
  <2>3. ASSUME NEW s \in SUBSET (1 .. n), s # {}
        PROVE  Max(s) \in 1 .. n /\ s \ {Max(s)} \in SUBSET (1 .. n)
    BY <1>1, <2>3, MaxExists
  <2>4. ASSUME NEW s \in SUBSET (1 .. n)
        PROVE  F[s] = IF s = {} THEN FALSE ELSE Step(Max(s), F[s \ {Max(s)}])
    BY <2>2, <2>3 DEF FoldOf
  <2>5. QED
    BY <1>1, <2>2, <2>4 DEF FoldOf
<1> DEFINE C == CHOOSE F : Is(F)
           W == BOOLEAN \union {C[s] : s \in SUBSET (1 .. n)}
           G == [x \in (1 .. n) \X W |-> Step(x[1], x[2])]
<1>5. Is(C)
  BY <1>4
<1> HIDE DEF C
<1>6. FoldOf(C, FALSE, n, G)
  <2>1. ASSUME NEW s \in SUBSET (1 .. n), s # {}
        PROVE  Step(Max(s), C[s \ {Max(s)}]) = G[<<Max(s), C[s \ {Max(s)}]>>]
    <3>1. Max(s) \in 1 .. n /\ s \ {Max(s)} \in SUBSET (1 .. n)
      BY <1>1, <2>1, MaxExists
    <3>2. QED
      BY <3>1
  <2> HIDE DEF G
  <2>2. QED
    BY <1>1, <1>5, <2>1 DEF FoldOf
<1>7. StaysIn(BOOLEAN, n, G) /\ \A k \in 1 .. n, y \in BOOLEAN : G[<<k, y>>] = Step(k, y)
  <2>1. \A k \in 1 .. n, y \in BOOLEAN : G[<<k, y>>] = Step(k, y)
    OBVIOUS
  <2> HIDE DEF G
  <2>2. QED
    BY <1>3, <2>1 DEF StaysIn
<1> HIDE DEF G
<1>8. FALSE \in BOOLEAN
  OBVIOUS
<1>9. PICK h \in [0 .. n -> BOOLEAN] : Runs(h, FALSE, n, G, C[1 .. n])
  BY <1>1, <1>6, <1>7, <1>8, FoldIs, Zenon
<1>10. ASSUME NEW k \in 1 .. n PROVE h[k] = Step(k, h[k - 1])
  <2>1. h[k - 1] \in BOOLEAN
    BY <1>1, <1>9
  <2>2. QED
    BY <1>7, <1>9, <2>1 DEF Runs
<1>11. Ignored(path, isDir, root, ignore) = h[n]
  BY <1>1, <1>2, <1>9 DEF C, Runs
<1>12. QED
  BY <1>9, <1>10, <1>11 DEF Runs, ScopeByScope, Seen, Step, n, scopes

\* Above a directory there are directories only.
LEMMA PrefixesAreDirectories ==
  ASSUME NEW dir \in Directory, NEW k \in 0 .. Len(dir)
  PROVE  dir \in Seq(STRING) /\ SubSeq(dir, 1, k) \in Directory
<1>1. CASE dir = << >>
  <2>1. k = 0 /\ dir \in Seq(STRING)
    BY <1>1
  <2>2. SubSeq(dir, 1, 0) = << >>
    BY <2>1, SubSeqEmpty
  <2>3. QED
    BY <1>1, <2>1, <2>2
<1>2. CASE dir \in ToSet(Listing)
  <2>1. dir \in Seq(STRING)
    BY <1>2, DiscoveryAssumption DEF ToSet
  <2>2. CASE k = Len(dir)
    BY <2>1, <2>2, SubSeqFull
  <2>3. CASE k # Len(dir)
    <3>1. k \in 0 .. Len(dir) - 1
      BY <2>1, <2>3
    <3>2. QED
      BY <1>2, <2>1, <3>1, DiscoveryAssumption
  <2>4. QED
    BY <2>2, <2>3
<1>3. QED
  BY <1>1, <1>2, DiscoveryAssumption

\* The scopes of a directory are directories (symbolic_gitignore:load_scopes/1).
LEMMA ScopesAreDirectories ==
  ASSUME NEW dir \in Directory, NEW git
  PROVE  Scopes(dir, git) \in Seq(Directory)
<1> DEFINE roots == {n \in 0 .. Len(dir) : SubSeq(dir, 1, n) \in git}
           top == CHOOSE n \in roots : \A m \in roots : m <= n
<1>1. dir \in Seq(STRING) /\ Len(dir) \in Nat
  BY PrefixesAreDirectories
<1>2. CASE roots = {}
  <2>1. Scopes(dir, git) = <<dir>>
    BY <1>2 DEF Scopes
  <2>2. QED
    BY <2>1
<1>3. CASE roots # {}
  <2>1. top \in roots
    <3> DEFINE up == {n + 1 : n \in roots}
    <3>1. up \in SUBSET (1 .. Len(dir) + 1) /\ up # {} /\ Len(dir) + 1 \in Nat
      BY <1>1, <1>3
    <3>2. PICK m \in up : \A x \in up : x <= m
      <4> HIDE DEF up
      <4>1. QED
        BY <3>1, MaxExists
    <3>3. PICK n \in roots : m = n + 1
      BY <3>2
    <3>4. ASSUME NEW x \in roots PROVE x <= n
      <4>1. x + 1 \in up /\ x \in Nat /\ n \in Nat
        BY <1>1
      <4>2. x + 1 <= n + 1
        BY <3>2, <3>3, <4>1
      <4>3. QED
        BY <4>1, <4>2
    <3>5. QED
      BY <3>3, <3>4
  <2>2. Scopes(dir, git) = [k \in 1 .. Len(dir) - top + 1 |-> SubSeq(dir, 1, top + k - 1)]
    BY <1>3 DEF Scopes
  <2>3. top \in 0 .. Len(dir)
    BY <2>1
  <2> HIDE DEF top, roots
  <2>4. ASSUME NEW k \in 1 .. Len(dir) - top + 1
        PROVE  SubSeq(dir, 1, top + k - 1) \in Directory
    <3>1. top + k - 1 \in 0 .. Len(dir)
      BY <1>1, <2>3
    <3>2. QED
      BY <3>1, PrefixesAreDirectories
  <2> DEFINE m == Len(dir) - top + 1
             scopes == [k \in 1 .. m |-> SubSeq(dir, 1, top + k - 1)]
  <2>5. m \in Nat /\ scopes \in [1 .. m -> Directory]
    <3>1. m \in Nat
      BY <1>1, <2>3
    <3>2. QED
      BY <2>4, <3>1
  <2> HIDE DEF m
  <2>6. scopes \in Seq(Directory)
    BY <2>5, SeqDef
  <2>7. QED
    BY <2>2, <2>6 DEF m
<1>4. QED
  BY <1>2, <1>3

\* Walking the scopes outwards in says what the last rule that applies says
\* (symbolic_gitignore:ignored_scopes/3: "later wins").
THEOREM LastOfAllDecides ==
  ASSUME NEW path, NEW isDir, NEW root \in Directory, NEW ignore \in Ignore
  PROVE  Ignored(path, isDir, root, ignore) <=> RuleSaysIgnored(path, isDir, root, ignore)
<1> DEFINE scopes == Scopes(root, ignore.git)
           n == Len(scopes)
           rules(a) == RulesOf(scopes[a], ignore)
           Hit(a, i) == Applies(rules(a)[i], Seen(path, root, ignore, a), isDir)
           Negated(a, i) == rules(a)[i].negate
           Latest(a, i, k) == /\ a \in 1 .. k /\ i \in DOMAIN rules(a) /\ Hit(a, i)
                              /\ \A b \in 1 .. k : \A j \in DOMAIN rules(b) :
                                   Hit(b, j) => b < a \/ (b = a /\ j <= i)
           Said(k) == \E a \in 1 .. k : \E i \in DOMAIN rules(a) : Latest(a, i, k) /\ ~Negated(a, i)
<1>1. scopes \in Seq(Directory) /\ n \in Nat /\ DOMAIN scopes = 1 .. n
  BY ScopesAreDirectories
<1>2. PICK h \in [0 .. Len(Scopes(root, ignore.git)) -> BOOLEAN] : ScopeByScope(h, path, isDir, root, ignore)
  BY ScopesAreDirectories, IgnoredSteps, Zenon
<1>3. /\ h \in [0 .. n -> BOOLEAN] /\ h[0] = FALSE
      /\ Ignored(path, isDir, root, ignore) = h[n]
      /\ \A k \in 1 .. n : h[k] = IgnoredBy(Seen(path, root, ignore, k), isDir, rules(k), h[k - 1])
  BY <1>2 DEF ScopeByScope
<1>4. ASSUME NEW k \in 1 .. n
      PROVE  /\ rules(k) \in Seq(Rule) /\ Len(rules(k)) \in Nat
             /\ DOMAIN rules(k) = 1 .. Len(rules(k))
  <2>1. scopes[k] \in Directory
    BY <1>1
  <2>2. rules(k) \in Seq(Rule)
    BY <2>1, RulesOfAreRules
  <2> HIDE DEF rules
  <2>3. QED
    BY <2>2
<1>5. RuleSaysIgnored(path, isDir, root, ignore) <=> Said(n)
  <2> DEFINE hits == UNION {{x \in {k} \X DOMAIN rules(k) :
                               Applies(RulesOf(scopes[x[1]], ignore)[x[2]], Seen(path, root, ignore, k), isDir)} :
                             k \in DOMAIN scopes}
             After(x, y) == x[1] > y[1] \/ (x[1] = y[1] /\ x[2] >= y[2])
  <2>1. RuleSaysIgnored(path, isDir, root, ignore) <=>
          \E last \in hits : ~Negated(last[1], last[2]) /\ \A hit \in hits : After(last, hit)
    BY DEF RuleSaysIgnored, Seen
  <2>2. \A a, i : <<a, i>> \in hits <=> a \in 1 .. n /\ i \in DOMAIN rules(a) /\ Hit(a, i)
    BY <1>1
  <2>3. \A x \in hits : x = <<x[1], x[2]>>
    OBVIOUS
  <2> HIDE DEF hits, scopes, n, rules, Hit, Negated
  <2>4. ASSUME NEW last \in hits, ~Negated(last[1], last[2]), \A hit \in hits : After(last, hit)
        PROVE  Said(n)
    <3> DEFINE a == last[1]
               i == last[2]
    <3>1. a \in 1 .. n /\ i \in DOMAIN rules(a) /\ Hit(a, i) /\ a \in Nat /\ i \in Nat
      <4>1. a \in 1 .. n /\ i \in DOMAIN rules(a) /\ Hit(a, i)
        BY <2>2, <2>3
      <4>2. QED
        BY <1>1, <1>4, <4>1
    <3> HIDE DEF a, i
    <3>2. ASSUME NEW b \in 1 .. n, NEW j \in DOMAIN rules(b), Hit(b, j)
          PROVE  b < a \/ (b = a /\ j <= i)
      <4>1. <<b, j>> \in hits /\ b \in Nat /\ j \in Nat
        <5>1. b \in Nat
          BY <1>1
        <5>2. j \in Nat
          BY <1>4
        <5>3. QED
          BY <2>2, <3>2, <5>1, <5>2
      <4>2. a > b \/ (a = b /\ i >= j)
        BY <2>4, <4>1 DEF a, i
      <4>3. QED
        BY <3>1, <4>1, <4>2
    <3>3. ~Negated(a, i)
      BY <2>4 DEF a, i
    <3>4. QED
      BY <3>1, <3>2, <3>3
  <2>5. ASSUME NEW a \in 1 .. n, NEW i \in DOMAIN rules(a), Latest(a, i, n), ~Negated(a, i)
        PROVE  \E last \in hits : ~Negated(last[1], last[2]) /\ \A hit \in hits : After(last, hit)
    <3>1. <<a, i>> \in hits
      BY <2>2, <2>5
    <3>2. ASSUME NEW hit \in hits PROVE After(<<a, i>>, hit)
      BY <2>2, <2>3, <2>5
    <3>3. QED
      BY <2>5, <3>1, <3>2
  <2>6. QED
    BY <2>1, <2>4, <2>5
<1> HIDE DEF scopes, n, rules, Hit, Negated
<1> DEFINE P == {k \in 0 .. n : h[k] <=> Said(k)}
<1>6. 0 \in P
  BY <1>1, <1>3
<1>7. ASSUME NEW k \in 1 .. n, k - 1 \in P PROVE k \in P
  <2>1. h[k - 1] \in BOOLEAN /\ (h[k - 1] <=> Said(k - 1)) /\ k \in 0 .. n
    BY <1>1, <1>3, <1>7
  <2>2. CASE \A i \in DOMAIN rules(k) : ~Hit(k, i)
    <3>1. h[k] = h[k - 1]
      <4>1. IgnoredBy(Seen(path, root, ignore, k), isDir, rules(k), h[k - 1]) = h[k - 1]
        BY <1>4, <2>1, <2>2, LastRuleDecides DEF Hit
      <4>2. QED
        BY <1>3, <4>1
    <3>2. \A a, i : Latest(a, i, k) <=> Latest(a, i, k - 1)
      <4>1. \A a : a \in 1 .. k <=> a \in 1 .. k - 1 \/ a = k
        BY <1>1
      <4>2. QED
        BY <2>2, <4>1
    <3>3. Said(k) <=> Said(k - 1)
      <4>1. \A a : a \in 1 .. k <=> a \in 1 .. k - 1 \/ a = k
        BY <1>1
      <4>2. QED
        BY <2>2, <3>2, <4>1
    <3> HIDE DEF Latest, Said
    <3>4. QED
      BY <2>1, <3>1, <3>3
  <2>3. CASE \E i \in DOMAIN rules(k) : Hit(k, i)
    <3> DEFINE S == {i \in DOMAIN rules(k) : Hit(k, i)}
    <3>1. PICK i \in S : \A j \in S : j <= i
      <4>1. S \in SUBSET (1 .. Len(rules(k))) /\ S # {} /\ Len(rules(k)) \in Nat
        BY <1>4, <2>3
      <4> HIDE DEF S
      <4>2. QED
        BY <4>1, MaxExists
    <3>2. h[k] = ~Negated(k, i)
      <4>1. IgnoredBy(Seen(path, root, ignore, k), isDir, rules(k), h[k - 1]) = ~rules(k)[i].negate
        BY <1>4, <2>1, <3>1, LastRuleDecides DEF Hit
      <4>2. QED
        BY <1>3, <4>1 DEF Negated
    <3>3. Latest(k, i, k)
      BY <1>1, <3>1
    <3>4. \A a \in 1 .. k : \A j \in DOMAIN rules(a) : Latest(a, j, k) => a = k /\ j = i
      BY <1>1, <1>4, <3>1
    <3>5. Said(k) <=> ~Negated(k, i)
      BY <1>1, <3>1, <3>3, <3>4
    <3> HIDE DEF Latest, Said
    <3>6. QED
      BY <2>1, <3>2, <3>5
  <2>4. QED
    BY <2>2, <2>3
<1>8. 0 .. n \subseteq P
  <2> HIDE DEF P
  <2>1. QED
    BY <1>1, <1>6, <1>7, CountUp
<1>9. h[n] <=> Said(n)
  <2>1. n \in 0 .. n
    BY <1>1
  <2> HIDE DEF Said
  <2>2. QED
    BY <1>8, <2>1
<1>10. QED
  BY <1>3, <1>5, <1>9

------------------------------------------------------------------------------
(* Lists of files *)

\* The concatenation of lists, list by list.
Joins(f, seqs) == \A i \in DOMAIN f : f[i] = IF i = 1 THEN seqs[i] ELSE f[i - 1] \o seqs[i]

\* Such a concatenation exists.
LEMMA JoinExists ==
  ASSUME NEW S, NEW n \in Nat, NEW seqs \in [1 .. n -> Seq(S)]
  PROVE  \E f \in [1 .. n -> Seq(S)] : Joins(f, seqs)
<1> DEFINE Ok(m) == \E f \in [1 .. m -> Seq(S)] : Joins(f, seqs)
           P == {m \in 0 .. n : Ok(m)}
<1>1. 0 \in P
  <2>1. [i \in 1 .. 0 |-> << >>] \in [1 .. 0 -> Seq(S)] /\ DOMAIN [i \in 1 .. 0 |-> << >>] = {}
    OBVIOUS
  <2>2. Ok(0)
    BY <2>1 DEF Joins
  <2>3. 0 \in 0 .. n
    OBVIOUS
  <2> HIDE DEF Ok
  <2>4. QED
    BY <2>2, <2>3
<1>2. ASSUME NEW k \in 1 .. n, k - 1 \in P PROVE k \in P
  <2>1. PICK f \in [1 .. k - 1 -> Seq(S)] : Joins(f, seqs)
    BY <1>2
  <2> DEFINE g == [i \in 1 .. k |-> IF i < k THEN f[i]
                                    ELSE IF i = 1 THEN seqs[i] ELSE f[i - 1] \o seqs[i]]
  <2>2. seqs[k] \in Seq(S) /\ (k # 1 => k - 1 \in 1 .. k - 1 /\ f[k - 1] \in Seq(S))
    BY <2>1
  <2>3. \A i \in 1 .. k : (i < k => i \in 1 .. k - 1) /\ (~(i < k) => i = k)
    OBVIOUS
  <2>4. k # 1 => f[k - 1] \o seqs[k] \in Seq(S)
    BY <2>2, ConcatProperties
  <2>5. g \in [1 .. k -> Seq(S)]
    BY <2>1, <2>2, <2>3, <2>4
  <2>6. ASSUME NEW i \in 1 .. k PROVE g[i] = IF i = 1 THEN seqs[i] ELSE g[i - 1] \o seqs[i]
    <3>1. i # 1 => i - 1 \in 1 .. k /\ i - 1 < k
      OBVIOUS
    <3>2. i # 1 => g[i - 1] = f[i - 1]
      BY <3>1
    <3>3. CASE i < k
      BY <2>1, <2>3, <3>2, <3>3 DEF Joins
    <3>4. CASE ~(i < k)
      BY <3>2, <3>4
    <3>5. QED
      BY <3>3, <3>4
  <2>7. k \in 0 .. n
    OBVIOUS
  <2> HIDE DEF g
  <2>8. QED
    BY <2>5, <2>6, <2>7 DEF Joins
<1>3. QED
  <2>1. n \in 0 .. n
    OBVIOUS
  <2> HIDE DEF P
  <2>2. 0 .. n \subseteq P
    BY <1>1, <1>2, CountUp
  <2>3. QED
    BY <2>1, <2>2 DEF P

\* A concatenation holds what the lists hold.
LEMMA FlattenIs ==
  ASSUME NEW S, NEW n \in Nat, NEW seqs \in [1 .. n -> Seq(S)]
  PROVE  /\ FlattenSeq(seqs) \in Seq(S)
         /\ \A x : x \in ToSet(FlattenSeq(seqs)) <=> \E k \in 1 .. n : x \in ToSet(seqs[k])
<1>1. DOMAIN seqs = 1 .. n /\ Len(seqs) = n
  BY SeqDef, LenProperties
<1>2. CASE n = 0
  <2>1. FlattenSeq(seqs) = << >>
    BY <1>1, <1>2 DEF FlattenSeq
  <2>2. QED
    BY <1>2, <2>1 DEF ToSet
<1>3. CASE n # 0
  <2> DEFINE Is(f) == f = [i \in 1 .. Len(seqs) |-> IF i = 1 THEN seqs[i] ELSE f[i - 1] \o seqs[i]]
             C == CHOOSE f : Is(f)
  <2>1. FlattenSeq(seqs) = C[Len(seqs)]
    BY <1>1, <1>3 DEF FlattenSeq
  <2>2. \E f : Is(f)
    <3>1. PICK f \in [1 .. n -> Seq(S)] : Joins(f, seqs)
      BY JoinExists
    <3>2. Is(f)
      BY <1>1, <3>1 DEF Joins
    <3>3. QED
      BY <3>2
  <2>3. Is(C)
    BY <2>2
  <2> HIDE DEF C
  <2> DEFINE Good(k) == /\ C[k] \in Seq(S)
                        /\ \A x : x \in ToSet(C[k]) <=> \E i \in 1 .. k : x \in ToSet(seqs[i])
             P == {k \in 0 .. n : k # 0 => Good(k)}
  <2>4. 0 \in P
    OBVIOUS
  <2>5. ASSUME NEW k \in 1 .. n, k - 1 \in P PROVE k \in P
    <3>1. CASE k = 1
      <4>1. C[1] = seqs[1] /\ seqs[1] \in Seq(S) /\ 1 .. 1 = {1}
        BY <1>1, <2>3, <3>1
      <4>2. QED
        BY <3>1, <4>1
    <3>2. CASE k # 1
      <4>1. Good(k - 1) /\ k - 1 \in 1 .. n
        BY <2>5, <3>2
      <4>2. C[k] = C[k - 1] \o seqs[k] /\ seqs[k] \in Seq(S)
        BY <1>1, <2>3, <3>2
      <4>3. C[k] \in Seq(S) /\ ToSet(C[k]) = ToSet(C[k - 1]) \union ToSet(seqs[k])
        <5>1. C[k - 1] \in Seq(S)
          BY <4>1
        <5>2. C[k - 1] \o seqs[k] \in Seq(S)
          BY <4>2, <5>1, ConcatProperties
        <5>3. Range(C[k - 1] \o seqs[k]) = Range(C[k - 1]) \union Range(seqs[k])
          BY <4>2, <5>1, RangeConcatenation
        <5>4. \A s : Range(s) = ToSet(s)
          BY DEF Range, ToSet
        <5>5. QED
          BY <4>2, <5>2, <5>3, <5>4
      <4>4. \A i : i \in 1 .. k <=> i \in 1 .. k - 1 \/ i = k
        OBVIOUS
      <4>5. ASSUME NEW x
            PROVE  x \in ToSet(C[k]) <=> \E i \in 1 .. k : x \in ToSet(seqs[i])
        <5>1. x \in ToSet(C[k]) <=> x \in ToSet(C[k - 1]) \/ x \in ToSet(seqs[k])
          BY <4>3
        <5>2. QED
          BY <4>1, <4>4, <5>1
      <4>6. QED
        BY <4>3, <4>5
    <3>3. QED
      BY <3>1, <3>2
  <2>6. 0 .. n \subseteq P
    <3> HIDE DEF P
    <3>1. QED
      BY <2>4, <2>5, CountUp
  <2>7. Good(n)
    <3>1. n \in 0 .. n
      OBVIOUS
    <3> HIDE DEF Good
    <3>2. QED
      BY <1>3, <2>6, <3>1
  <2>8. QED
    BY <1>1, <2>1, <2>7
<1>4. QED
  BY <1>2, <1>3

\* Lists of members of T with no repetition.
Distinct(T) == {s \in Seq(T) : IsInjective(s)}

\* A list without f stays without repetition when f is appended.
LEMMA AppendIsDistinct ==
  ASSUME NEW T, NEW kept \in Distinct(T), NEW f \in T, f \notin ToSet(kept)
  PROVE  Append(kept, f) \in Distinct(T) /\ ToSet(Append(kept, f)) = ToSet(kept) \union {f}
<1>1. kept \in Seq(T) /\ IsInjective(kept)
  BY DEF Distinct
<1>2. /\ Append(kept, f) \in Seq(T) /\ DOMAIN kept = 1 .. Len(kept) /\ Len(kept) \in Nat
      /\ DOMAIN Append(kept, f) = 1 .. Len(kept) + 1
      /\ \A i \in 1 .. Len(kept) : Append(kept, f)[i] = kept[i]
      /\ Append(kept, f)[Len(kept) + 1] = f
  BY <1>1, AppendProperties
<1>3. \A i \in 1 .. Len(kept) + 1 : i \in 1 .. Len(kept) \/ i = Len(kept) + 1
  BY <1>2
<1>4. \A i \in 1 .. Len(kept) : kept[i] # f
  BY <1>2 DEF ToSet
<1>5. IsInjective(Append(kept, f))
  BY <1>1, <1>2, <1>3, <1>4 DEF IsInjective
<1>6. ToSet(Append(kept, f)) = ToSet(kept) \union {f}
  <2> DEFINE new == Append(kept, f)
  <2>1. ToSet(new) = {new[i] : i \in 1 .. Len(kept) + 1} /\ ToSet(kept) = {kept[i] : i \in 1 .. Len(kept)}
    BY <1>2 DEF ToSet
  <2>2. \A i \in 1 .. Len(kept) : i \in 1 .. Len(kept) + 1
    BY <1>2
  <2>3. Len(kept) + 1 \in 1 .. Len(kept) + 1
    BY <1>2
  <2> HIDE DEF new
  <2>4. QED
    BY <1>2, <1>3, <2>1, <2>2, <2>3 DEF new
<1>7. QED
  BY <1>2, <1>5, <1>6 DEF Distinct

\* Of overlapping paths each file is kept once and none is lost
\* (symbolic_parse:unique_files/1).
LEMMA UniqueIs ==
  ASSUME NEW T, NEW files \in Seq(T)
  PROVE  UniqueFiles(files) \in Distinct(T) /\ ToSet(UniqueFiles(files)) = ToSet(files)
<1> DEFINE n == Len(files)
           V == Distinct(T)
           Step(k, y) == IF files[k] \in ToSet(y) THEN y ELSE Append(y, files[k])
           Is(F) == F = [s \in SUBSET DOMAIN files |->
                          IF s = {} THEN << >> ELSE Step(Max(s), F[s \ {Max(s)}])]
<1>1. n \in Nat /\ DOMAIN files = 1 .. n
  OBVIOUS
<1>2. UniqueFiles(files) = (CHOOSE F : Is(F))[DOMAIN files]
  BY DEF UniqueFiles, FoldLeft, MapThenFoldSet
<1>3. << >> \in V /\ \A k \in 1 .. n, y \in V : Step(k, y) \in V
  <2>1. << >> \in V
    BY DEF Distinct, IsInjective
  <2>2. \A k \in 1 .. n : files[k] \in T
    OBVIOUS
  <2>3. QED
    BY <2>1, <2>2, AppendIsDistinct
<1> HIDE DEF Step, n, V
<1>4. \E F : Is(F)
  <2> DEFINE G == [x \in (1 .. n) \X V |-> Step(x[1], x[2])]
  <2>1. G \in [(1 .. n) \X V -> V] /\ << >> \in V
    BY <1>3
  <2>2. PICK F \in [SUBSET (1 .. n) -> V] : FoldOf(F, << >>, n, G)
    <3> HIDE DEF G
    <3>1. QED
      BY <1>1, <2>1, FoldExists, Zenon
  <2>3. ASSUME NEW s \in SUBSET (1 .. n), s # {}
        PROVE  Max(s) \in 1 .. n /\ s \ {Max(s)} \in SUBSET (1 .. n)
    BY <1>1, <2>3, MaxExists
  <2>4. ASSUME NEW s \in SUBSET (1 .. n)
        PROVE  F[s] = IF s = {} THEN << >> ELSE Step(Max(s), F[s \ {Max(s)}])
    BY <2>2, <2>3 DEF FoldOf
  <2>5. QED
    BY <1>1, <2>2, <2>4 DEF FoldOf
<1> DEFINE C == CHOOSE F : Is(F)
           W == V \union {C[s] : s \in SUBSET (1 .. n)}
           G == [x \in (1 .. n) \X W |-> Step(x[1], x[2])]
<1>5. Is(C)
  BY <1>4
<1> HIDE DEF C
<1>6. FoldOf(C, << >>, n, G)
  <2>1. ASSUME NEW s \in SUBSET (1 .. n), s # {}
        PROVE  Step(Max(s), C[s \ {Max(s)}]) = G[<<Max(s), C[s \ {Max(s)}]>>]
    <3>1. Max(s) \in 1 .. n /\ s \ {Max(s)} \in SUBSET (1 .. n)
      BY <1>1, <2>1, MaxExists
    <3>2. QED
      BY <3>1
  <2> HIDE DEF G
  <2>2. QED
    BY <1>1, <1>5, <2>1 DEF FoldOf
<1>7. StaysIn(V, n, G) /\ \A k \in 1 .. n, y \in V : G[<<k, y>>] = Step(k, y)
  <2>1. \A k \in 1 .. n, y \in V : G[<<k, y>>] = Step(k, y)
    OBVIOUS
  <2> HIDE DEF G
  <2>2. QED
    BY <1>3, <2>1 DEF StaysIn
<1> HIDE DEF G
<1>8. PICK h \in [0 .. n -> V] : Runs(h, << >>, n, G, C[1 .. n])
  BY <1>1, <1>3, <1>6, <1>7, FoldIs, Zenon
<1>9. ASSUME NEW k \in 1 .. n PROVE h[k] = Step(k, h[k - 1]) /\ h[k - 1] \in V
  <2>1. h[k - 1] \in V
    BY <1>1, <1>8
  <2>2. QED
    BY <1>7, <1>8, <2>1 DEF Runs
<1>10. UniqueFiles(files) = h[n] /\ h[0] = << >>
  BY <1>1, <1>2, <1>8 DEF C, Runs
<1> DEFINE P == {k \in 0 .. n : \A x : x \in ToSet(h[k]) <=> \E i \in 1 .. k : x = files[i]}
<1>11. 0 \in P
  BY <1>1, <1>10 DEF ToSet
<1>12. ASSUME NEW k \in 1 .. n, k - 1 \in P PROVE k \in P
  <2>1. \A x : x \in ToSet(h[k]) <=> x \in ToSet(h[k - 1]) \/ x = files[k]
    <3>1. CASE files[k] \in ToSet(h[k - 1])
      BY <1>9, <3>1 DEF Step
    <3>2. CASE files[k] \notin ToSet(h[k - 1])
      <4>1. files[k] \in T
        BY DEF n
      <4>2. h[k - 1] \in Distinct(T) /\ h[k] = Append(h[k - 1], files[k])
        BY <1>9, <3>2 DEF Step, V
      <4>3. ToSet(h[k]) = ToSet(h[k - 1]) \union {files[k]}
        BY <3>2, <4>1, <4>2, AppendIsDistinct
      <4>4. QED
        BY <4>3
    <3>3. QED
      BY <3>1, <3>2
  <2>2. \A i : i \in 1 .. k <=> i \in 1 .. k - 1 \/ i = k
    BY <1>1
  <2>3. \A x : x \in ToSet(h[k - 1]) <=> \E i \in 1 .. k - 1 : x = files[i]
    BY <1>12
  <2>4. k \in 0 .. n
    BY <1>1
  <2>5. QED
    BY <2>1, <2>2, <2>3, <2>4
<1>13. n \in P
  <2> HIDE DEF P
  <2>1. n \in 0 .. n
    BY <1>1
  <2>2. 0 .. n \subseteq P
    BY <1>1, <1>11, <1>12, CountUp
  <2>3. QED
    BY <2>1, <2>2
<1>14. ToSet(UniqueFiles(files)) = ToSet(files)
  BY <1>1, <1>10, <1>13 DEF ToSet
<1>15. UniqueFiles(files) \in Distinct(T)
  BY <1>1, <1>8, <1>10 DEF V
<1>16. QED
  BY <1>14, <1>15

\* A list with no repetition has as many members as places.
LEMMA DistinctCounts ==
  ASSUME NEW T, NEW s \in Distinct(T)
  PROVE  Cardinality(ToSet(s)) = Len(s)
<1>1. s \in Seq(T) /\ IsInjective(s) /\ Len(s) \in Nat /\ DOMAIN s = 1 .. Len(s)
  BY DEF Distinct
<1>2. s \in [1 .. Len(s) -> ToSet(s)] /\ \A x \in ToSet(s) : \E i \in 1 .. Len(s) : s[i] = x
  BY <1>1 DEF ToSet
<1>3. s \in Bijection(1 .. Len(s), ToSet(s))
  BY <1>1, <1>2 DEF Bijection, Injection, Surjection, IsInjective
<1>4. ExistsBijection(1 .. Len(s), ToSet(s))
  BY <1>3 DEF ExistsBijection
<1>5. QED
  BY <1>1, <1>4, FS_CountingElements

------------------------------------------------------------------------------
(* Paths *)

\* To be a strict prefix, name by name.
LEMMA PrefixIs ==
  ASSUME NEW s \in Seq(STRING), NEW t \in Seq(STRING)
  PROVE  IsStrictPrefix(s, t) <=> Len(s) < Len(t) /\ \A i \in 1 .. Len(s) : s[i] = t[i]
<1>1. Len(s) \in Nat /\ Len(t) \in Nat /\ SubSeq(s, 1, Len(s)) = s
  BY SubSeqFull
<1>2. ASSUME Len(s) <= Len(t)
      PROVE  s = SubSeq(t, 1, Len(s)) <=> \A i \in 1 .. Len(s) : s[i] = t[i]
  <2>1. /\ SubSeq(t, 1, Len(s)) \in Seq(STRING) /\ Len(SubSeq(t, 1, Len(s))) = Len(s)
        /\ \A i \in 1 .. Len(s) : SubSeq(t, 1, Len(s))[i] = t[i]
    <3>1. CASE Len(s) = 0
      BY <1>1, <3>1, SubSeqEmpty
    <3>2. CASE Len(s) # 0
      BY <1>1, <1>2, <3>2, SubSeqProperties
    <3>3. QED
      BY <3>1, <3>2
  <2>2. QED
    BY <2>1, SeqEqual
<1>3. (Len(s) = Len(t) /\ \A i \in 1 .. Len(s) : s[i] = t[i]) => s = t
  BY SeqEqual
<1>4. QED
  BY <1>1, <1>2, <1>3 DEF IsStrictPrefix, IsPrefix

\* The parent of a path is just above it.
LEMMA ParentIs ==
  ASSUME NEW p \in Seq(STRING), p # << >>
  PROVE  /\ Front(p) \in Seq(STRING) /\ Len(Front(p)) + 1 = Len(p)
         /\ IsStrictPrefix(Front(p), p)
<1>1. Len(p) \in Nat /\ Len(p) # 0
  BY EmptySeq
<1>2. /\ Front(p) \in Seq(STRING) /\ Len(Front(p)) = Len(p) - 1
      /\ \A i \in 1 .. Len(p) - 1 : Front(p)[i] = p[i]
  <2>1. CASE Len(p) = 1
    <3>1. Front(p) = << >>
      BY <2>1, SubSeqEmpty DEF Front
    <3>2. QED
      BY <2>1, <3>1
  <2>2. CASE Len(p) # 1
    <3> DEFINE n == Len(p)
    <3> HIDE DEF n
    <3>1. n \in Nat /\ n # 0 /\ n # 1
      BY <1>1, <2>2 DEF n
    <3>2. n - 1 \in Int /\ 1 <= n - 1
      BY <3>1
    <3>3. Len(p) - 1 \in Int /\ 1 <= Len(p) - 1
      BY <3>2 DEF n
    <3>4. \A i \in 1 .. Len(p) - 1 : i \in 1 .. Len(p) /\ p[i] \in STRING
      BY <1>1
    <3>5. /\ SubSeq(p, 1, Len(p) - 1) \in Seq(STRING)
          /\ Len(SubSeq(p, 1, Len(p) - 1)) = Len(p) - 1 - 1 + 1
          /\ \A i \in 1 .. Len(p) - 1 - 1 + 1 : SubSeq(p, 1, Len(p) - 1)[i] = p[1 + i - 1]
      BY <3>3, <3>4, SubSeqProperties
    <3>6. Len(p) - 1 - 1 + 1 = Len(p) - 1 /\ \A i \in 1 .. Len(p) - 1 : 1 + i - 1 = i
      BY <1>1
    <3>7. QED
      BY <3>5, <3>6 DEF Front
  <2>3. QED
    BY <2>1, <2>2
<1>3. QED
  BY <1>1, <1>2, PrefixIs

\* The first step from a directory towards something below it.
LEMMA StepTowards ==
  ASSUME NEW d \in Seq(STRING), NEW x \in Seq(STRING), IsStrictPrefix(d, x),
         NEW c, c = SubSeq(x, 1, Len(d) + 1)
  PROVE  /\ c \in Seq(STRING) /\ c # << >> /\ Front(c) = d /\ Len(c) = Len(d) + 1
         /\ c = x \/ IsStrictPrefix(c, x)
<1>1. Len(d) \in Nat /\ Len(x) \in Nat /\ Len(d) < Len(x) /\ \A i \in 1 .. Len(d) : d[i] = x[i]
  BY PrefixIs
<1>2. /\ c \in Seq(STRING) /\ Len(c) = Len(d) + 1 /\ \A i \in 1 .. Len(d) + 1 : c[i] = x[i]
  BY <1>1, SubSeqProperties
<1>3. c # << >>
  BY <1>1, <1>2
<1>4. Front(c) = d
  <2>1. Front(c) \in Seq(STRING) /\ Len(Front(c)) + 1 = Len(c) /\ IsStrictPrefix(Front(c), c)
    BY <1>2, <1>3, ParentIs
  <2>2. Len(Front(c)) \in Nat /\ Len(c) \in Nat
    BY <1>2, <2>1
  <2>3. Len(Front(c)) = Len(d)
    BY <1>1, <1>2, <2>1, <2>2
  <2>4. \A i \in 1 .. Len(Front(c)) : Front(c)[i] = c[i]
    BY <1>2, <2>1, PrefixIs
  <2>5. \A i \in 1 .. Len(d) : i \in 1 .. Len(d) + 1
    BY <1>1
  <2>6. \A i \in 1 .. Len(d) : Front(c)[i] = d[i]
    BY <1>1, <1>2, <2>3, <2>4, <2>5
  <2>7. QED
    BY <2>1, <2>3, <2>6, SeqEqual
<1>5. Len(x) = Len(d) + 1 => c = x
  BY <1>2, SeqEqual
<1>6. Len(x) # Len(d) + 1 => IsStrictPrefix(c, x)
  <2>1. Len(x) # Len(d) + 1 => Len(d) + 1 < Len(x)
    BY <1>1
  <2>2. \A i \in 1 .. Len(c) : c[i] = x[i]
    BY <1>2
  <2>3. QED
    BY <1>2, <2>1, <2>2, PrefixIs
<1>7. c = x \/ IsStrictPrefix(c, x)
  BY <1>5, <1>6
<1>8. QED
  BY <1>2, <1>3, <1>4, <1>7

\* What lies between a directory and something below it lies beyond the first
\* step, or is it; and what lies beyond lies below.
LEMMA BeyondStep ==
  ASSUME NEW c \in Seq(STRING), c # << >>, NEW e \in Seq(STRING), NEW x \in Seq(STRING),
         c = x \/ IsStrictPrefix(c, x)
  PROVE  /\ IsStrictPrefix(Front(c), e) /\ IsStrictPrefix(e, x) => e = c \/ IsStrictPrefix(c, e)
         /\ IsStrictPrefix(c, e) => IsStrictPrefix(Front(c), e)
         /\ IsStrictPrefix(Front(c), x)
<1>1. /\ Front(c) \in Seq(STRING) /\ Len(Front(c)) + 1 = Len(c)
      /\ \A i \in 1 .. Len(c) - 1 : Front(c)[i] = c[i]
  <2>1. Front(c) \in Seq(STRING) /\ Len(Front(c)) + 1 = Len(c) /\ IsStrictPrefix(Front(c), c)
    BY ParentIs
  <2>2. Len(Front(c)) = Len(c) - 1
    BY <2>1
  <2>3. QED
    BY <2>1, <2>2, PrefixIs
<1>2. Len(c) \in Nat /\ Len(e) \in Nat /\ Len(x) \in Nat /\ Len(Front(c)) \in Nat
  BY <1>1
<1>3. Len(c) <= Len(x) /\ \A i \in 1 .. Len(c) : c[i] = x[i]
  BY <1>2, PrefixIs
<1>4. ASSUME IsStrictPrefix(Front(c), e), IsStrictPrefix(e, x) PROVE e = c \/ IsStrictPrefix(c, e)
  <2>1. Len(Front(c)) < Len(e) /\ Len(e) < Len(x) /\ \A i \in 1 .. Len(e) : e[i] = x[i]
    BY <1>1, <1>4, PrefixIs
  <2>2. Len(c) <= Len(e)
    BY <1>1, <1>2, <2>1
  <2>3. \A i \in 1 .. Len(c) : c[i] = e[i]
    BY <1>2, <1>3, <2>1, <2>2
  <2>4. CASE Len(c) = Len(e)
    BY <2>3, <2>4, SeqEqual
  <2>5. CASE Len(c) # Len(e)
    BY <1>2, <2>2, <2>3, <2>5, PrefixIs
  <2>6. QED
    BY <2>4, <2>5
<1>5. ASSUME NEW y \in Seq(STRING), Len(c) <= Len(y), \A i \in 1 .. Len(c) : c[i] = y[i]
      PROVE  IsStrictPrefix(Front(c), y)
  <2>1. Len(y) \in Nat /\ Len(Front(c)) < Len(y)
    BY <1>1, <1>2, <1>5
  <2>2. \A i \in 1 .. Len(Front(c)) : i \in 1 .. Len(c) - 1 /\ i \in 1 .. Len(c)
    BY <1>1, <1>2
  <2>3. QED
    BY <1>1, <1>5, <2>1, <2>2, PrefixIs
<1>6. IsStrictPrefix(c, e) => IsStrictPrefix(Front(c), e)
  BY <1>2, <1>5, PrefixIs
<1>7. QED
  BY <1>3, <1>4, <1>5, <1>6

------------------------------------------------------------------------------
(* The walk *)

\* The bodies of visit and of walk in Walk, with the function itself a parameter.
Visit(W, dir, path, root, present, ignore, fault) ==
  IF Front(path) # dir \/ path \notin present \union Directory THEN << >>
  ELSE IF ~IsDir(path, fault)
  THEN IF path \notin SourceFile \/ Ignored(path, FALSE, root, ignore) THEN << >> ELSE <<path>>
  ELSE IF fault = [path |-> path, call |-> "inspect"] THEN <<Failed>>
  ELSE IF path \in Link \/ Ignored(path, TRUE, root, ignore) THEN << >>
  ELSE W[path]

Visits(W, dir, root, present, ignore, fault) ==
  IF fault = [path |-> dir, call |-> "list"] THEN <<Failed>>
  ELSE FlattenSeq([k \in DOMAIN Listing |-> Visit(W, dir, Listing[k], root, present, ignore, fault)])

IsWalk(W, root, present, ignore, fault) ==
  W = [dir \in Directory |-> Visits(W, dir, root, present, ignore, fault)]

\* A walk is the value at its root of a solution of the recursion.
LEMMA WalkIsChosen ==
  ASSUME NEW root, NEW present, NEW ignore, NEW fault
  PROVE  Walk(root, present, ignore, fault)
           = (CHOOSE W : IsWalk(W, root, present, ignore, fault))[root]
BY DEF Walk, IsWalk, Visits, Visit

\* What a walk lists: files, and what it threw.
Item == SourceFile \union {Failed}

\* A listed path is a sequence of names, not empty, and its parent is a
\* directory one shorter.
LEMMA ListedPaths ==
  ASSUME NEW path \in ToSet(Listing)
  PROVE  /\ path \in Seq(STRING) /\ path # << >> /\ path # Failed
         /\ Len(Front(path)) + 1 = Len(path)
<1>1. path \in Seq(STRING) /\ path # << >> /\ path # Failed
  BY DiscoveryAssumption DEF ToSet
<1>2. QED
  BY <1>1, ParentIs

\* No file is taken for a failure.
LEMMA NoFileFailed == Failed \notin SourceFile
BY ListedPaths, DiscoveryAssumption

\* What is listed is what has a place in the listing.
LEMMA ListingIs == /\ Len(Listing) \in Nat /\ DOMAIN Listing = 1 .. Len(Listing)
                   /\ \A k \in 1 .. Len(Listing) : Listing[k] \in ToSet(Listing)
                   /\ \A path \in ToSet(Listing) : \E k \in 1 .. Len(Listing) : Listing[k] = path
<1>1. Len(Listing) \in Nat /\ DOMAIN Listing = 1 .. Len(Listing)
  BY DiscoveryAssumption
<1>2. QED
  BY <1>1 DEF ToSet

\* The tree has a depth.
LEMMA DepthExists == \E depth \in Nat : \A dir \in Directory : Len(dir) \in Nat /\ Len(dir) <= depth
<1> DEFINE n == Len(Listing)
           Deep(k, depth) == \A i \in 1 .. k : Len(Listing[i]) <= depth
           P == {k \in 0 .. n : \E depth \in Nat : Deep(k, depth)}
<1>1. 0 \in P
  <2>1. Deep(0, 0) /\ 0 \in 0 .. n
    BY ListingIs
  <2>2. QED
    BY <2>1
<1>2. ASSUME NEW k \in 1 .. n, k - 1 \in P PROVE k \in P
  <2>1. PICK depth \in Nat : Deep(k - 1, depth)
    BY <1>2
  <2>2. Len(Listing[k]) \in Nat
    BY ListingIs, ListedPaths
  <2>3. PICK deeper \in Nat : depth <= deeper /\ Len(Listing[k]) <= deeper
    <3>1. CASE depth <= Len(Listing[k])
      BY <2>2, <3>1
    <3>2. CASE ~(depth <= Len(Listing[k]))
      BY <2>2, <3>2
    <3>3. QED
      BY <3>1, <3>2
  <2>4. \A i \in 1 .. k : i \in 1 .. k - 1 \/ i = k
    OBVIOUS
  <2>5. \A i \in 1 .. k : Len(Listing[i]) \in Nat
    <3>1. \A i \in 1 .. k : i \in 1 .. n
      BY ListingIs
    <3>2. QED
      BY <3>1, ListingIs, ListedPaths
  <2>6. \A i \in 1 .. k - 1 : i \in 1 .. k
    OBVIOUS
  <2>7. \A i \in 1 .. k : Len(Listing[i]) <= deeper
    BY <2>1, <2>3, <2>4, <2>5, <2>6
  <2>8. k \in 0 .. n
    BY ListingIs
  <2>9. QED
    BY <2>7, <2>8
<1> HIDE DEF P
<1>3. 0 .. n \subseteq P
  BY <1>1, <1>2, ListingIs, CountUp
<1>4. n \in P
  BY <1>3, ListingIs
<1>5. PICK depth \in Nat : Deep(n, depth)
  BY <1>4 DEF P
<1>6. \A dir \in Directory : Len(dir) \in Nat
  BY PrefixesAreDirectories, LenProperties
<1>7. \A dir \in Directory : Len(dir) <= depth
  BY <1>5, ListingIs, DiscoveryAssumption
<1>8. QED
  BY <1>6, <1>7

\* The directory a listed one is entered from is above it.
LEMMA EntersDeeper ==
  ASSUME NEW dir \in Directory, NEW path \in ToSet(Listing), path \in Directory, Front(path) = dir
  PROVE  Len(path) = Len(dir) + 1
<1>1. Len(path) \in Nat /\ Len(dir) \in Nat
  BY PrefixesAreDirectories, LenProperties
<1>2. QED
  BY <1>1, ListedPaths

\* Directories below which the walk has been given its values.
Entered(W, dir, V) == \A path \in ToSet(Listing) : Front(path) = dir /\ path \in Directory => W[path] \in V

\* A directory lists files and failures if those entered from it do, and it
\* lists what its entries do.
LEMMA VisitsAreItems ==
  ASSUME NEW root, NEW present \in SUBSET SourceFile, NEW ignore, NEW fault,
         NEW W, NEW dir \in Directory, Entered(W, dir, Seq(Item))
  PROVE  /\ \A k \in DOMAIN Listing :
               Visit(W, dir, Listing[k], root, present, ignore, fault) \in Seq(Item)
         /\ Visits(W, dir, root, present, ignore, fault) \in Seq(Item)
         /\ fault # [path |-> dir, call |-> "list"] =>
              \A x : x \in ToSet(Visits(W, dir, root, present, ignore, fault)) <=>
                \E k \in DOMAIN Listing :
                  x \in ToSet(Visit(W, dir, Listing[k], root, present, ignore, fault))
<1> DEFINE V(path) == Visit(W, dir, path, root, present, ignore, fault)
           seqs == [k \in DOMAIN Listing |-> V(Listing[k])]
<1>1. ASSUME NEW path \in ToSet(Listing) PROVE V(path) \in Seq(Item)
  <2>1. << >> \in Seq(Item) /\ <<Failed>> \in Seq(Item)
    BY DEF Item
  <2>2. path \in SourceFile => <<path>> \in Seq(Item)
    BY DEF Item
  <2>3. Front(path) = dir /\ IsDir(path, fault) => W[path] \in Seq(Item)
    BY DEF Entered, IsDir
  <2>4. QED
    BY <2>1, <2>2, <2>3 DEF Visit
<1>2. \A k \in DOMAIN Listing : V(Listing[k]) \in Seq(Item)
  BY <1>1, ListingIs
<1> HIDE DEF V
<1>3. seqs \in [1 .. Len(Listing) -> Seq(Item)] /\ \A k \in 1 .. Len(Listing) : seqs[k] = V(Listing[k])
  BY <1>2, ListingIs
<1> HIDE DEF seqs
<1>4. /\ FlattenSeq(seqs) \in Seq(Item)
      /\ \A x : x \in ToSet(FlattenSeq(seqs)) <=> \E k \in 1 .. Len(Listing) : x \in ToSet(seqs[k])
  BY <1>3, ListingIs, FlattenIs
<1>5. /\ fault # [path |-> dir, call |-> "list"] =>
           Visits(W, dir, root, present, ignore, fault) = FlattenSeq(seqs)
      /\ fault = [path |-> dir, call |-> "list"] =>
           Visits(W, dir, root, present, ignore, fault) = <<Failed>>
  BY DEF Visits, seqs, V
<1>6. Visits(W, dir, root, present, ignore, fault) \in Seq(Item)
  <2>1. <<Failed>> \in Seq(Item)
    BY DEF Item
  <2>2. QED
    BY <1>4, <1>5, <2>1
<1>7. fault # [path |-> dir, call |-> "list"] =>
        \A x : x \in ToSet(Visits(W, dir, root, present, ignore, fault)) <=>
                 \E k \in DOMAIN Listing : x \in ToSet(V(Listing[k]))
  BY <1>3, <1>4, <1>5, ListingIs
<1>8. QED
  BY <1>2, <1>6, <1>7 DEF V

\* Two walks that agree on the directories below one agree on it.
LEMMA VisitsAgree ==
  ASSUME NEW root, NEW present, NEW ignore, NEW fault, NEW W, NEW X, NEW dir,
         \A path \in ToSet(Listing) : Front(path) = dir /\ path \in Directory => W[path] = X[path]
  PROVE  Visits(W, dir, root, present, ignore, fault) = Visits(X, dir, root, present, ignore, fault)
<1>1. \A k \in DOMAIN Listing : Visit(W, dir, Listing[k], root, present, ignore, fault)
                                  = Visit(X, dir, Listing[k], root, present, ignore, fault)
  BY ListingIs DEF Visit, IsDir
<1>2. [k \in DOMAIN Listing |-> Visit(W, dir, Listing[k], root, present, ignore, fault)]
        = [k \in DOMAIN Listing |-> Visit(X, dir, Listing[k], root, present, ignore, fault)]
  BY <1>1
<1>3. QED
  BY <1>2 DEF Visits

\* The recursion of a walk has a solution: the tree has a depth.
LEMMA WalkExists ==
  ASSUME NEW root, NEW present \in SUBSET SourceFile, NEW ignore, NEW fault
  PROVE  \E W : IsWalk(W, root, present, ignore, fault)
<1>1. PICK depth \in Nat : \A dir \in Directory : Len(dir) \in Nat /\ Len(dir) <= depth
  BY DepthExists
<1> DEFINE L(W, dir) == Visits(W, dir, root, present, ignore, fault)
           n == depth + 1
           Ok(m, W) == W \in [Directory -> Seq(Item)] /\
                         \A dir \in Directory : depth < Len(dir) + m => W[dir] = L(W, dir)
           P == {m \in 0 .. n : \E W : Ok(m, W)}
<1>2. 0 \in P
  <2> DEFINE W == [dir \in Directory |-> << >>]
  <2>1. W \in [Directory -> Seq(Item)]
    OBVIOUS
  <2>2. \A dir \in Directory : ~(depth < Len(dir) + 0)
    BY <1>1
  <2> HIDE DEF W, L
  <2>3. Ok(0, W) /\ 0 \in 0 .. n
    BY <2>1, <2>2
  <2>4. QED
    BY <2>3
<1>3. ASSUME NEW m \in 1 .. n, m - 1 \in P PROVE m \in P
  <2>1. PICK W : Ok(m - 1, W)
    BY <1>3
  <2>2. ASSUME NEW dir \in Directory PROVE L(W, dir) \in Seq(Item)
    <3>1. Entered(W, dir, Seq(Item))
      BY <2>1 DEF Entered
    <3>2. QED
      BY <3>1, VisitsAreItems
  <2> DEFINE X == [dir \in Directory |-> L(W, dir)]
  <2>3. X \in [Directory -> Seq(Item)] /\ \A dir \in Directory : X[dir] = L(W, dir)
    <3> HIDE DEF L
    <3>1. QED
      BY <2>2
  <2> HIDE DEF X
  <2>4. ASSUME NEW dir \in Directory, depth < Len(dir) + m PROVE X[dir] = L(X, dir)
    <3>1. ASSUME NEW path \in ToSet(Listing), Front(path) = dir, path \in Directory
          PROVE  W[path] = X[path]
      <4>1. Len(path) = Len(dir) + 1 /\ Len(path) \in Nat /\ Len(dir) \in Nat
        BY <1>1, <3>1, EntersDeeper
      <4>2. depth < Len(path) + (m - 1)
        BY <2>4, <4>1
      <4> HIDE DEF L
      <4>3. W[path] = L(W, path)
        BY <2>1, <3>1, <4>2
      <4>4. QED
        BY <2>3, <3>1, <4>3
    <3>2. L(W, dir) = L(X, dir)
      BY <3>1, VisitsAgree
    <3>3. QED
      BY <2>3, <3>2
  <2> HIDE DEF L
  <2>5. Ok(m, X) /\ m \in 0 .. n
    BY <2>3, <2>4
  <2>6. QED
    BY <2>5
<1>4. n \in P
  <2>1. n \in Nat /\ n \in 0 .. n
    OBVIOUS
  <2> HIDE DEF P, n
  <2>2. QED
    BY <1>2, <1>3, <2>1, CountUp
<1>5. PICK W : Ok(n, W)
  BY <1>4
<1>6. \A dir \in Directory : depth < Len(dir) + n
  BY <1>1
<1>7. W = [dir \in Directory |-> L(W, dir)]
  <2> HIDE DEF L
  <2>1. QED
    BY <1>5, <1>6
<1>8. QED
  BY <1>7 DEF IsWalk

\* What the documentation promises below a directory of a walk that began at
\* root.
Open(dir, root, ignore, unseen) == dir \notin Link \union unseen /\ ~RuleSaysIgnored(dir, TRUE, root, ignore)

Below(dir, root, present, ignore, unseen) ==
  {f \in SourceFile \intersect present :
     /\ IsStrictPrefix(dir, f) /\ ~RuleSaysIgnored(f, FALSE, root, ignore)
     /\ \A d \in Directory : IsStrictPrefix(dir, d) /\ IsStrictPrefix(d, f) => Open(d, root, ignore, unseen)}

\* What is due below the root is what the documentation promises.
LEMMA DueIsBelow ==
  ASSUME NEW root, NEW present, NEW ignore, NEW unseen
  PROVE  DueBelow(root, present, ignore, unseen) = Below(root, root, present, ignore, unseen)
BY DEF DueBelow, Below, Open

\* What is due below a directory that is entered is due above it, and so is a
\* file that is taken.
LEMMA BelowIsDue ==
  ASSUME NEW root, NEW present, NEW ignore, NEW unseen, NEW dir \in Directory,
         NEW path \in ToSet(Listing), Front(path) = dir
  PROVE  /\ path \in Directory /\ Open(path, root, ignore, unseen) =>
              Below(path, root, present, ignore, unseen) \subseteq Below(dir, root, present, ignore, unseen)
         /\ path \in SourceFile \intersect present /\ ~RuleSaysIgnored(path, FALSE, root, ignore) =>
              path \in Below(dir, root, present, ignore, unseen)
<1>1. path \in Seq(STRING) /\ path # << >>
  BY ListedPaths
<1>2. \A d \in Directory : d \in Seq(STRING)
  BY PrefixesAreDirectories
<1>3. \A f \in SourceFile : f \in Seq(STRING)
  BY ListedPaths, DiscoveryAssumption
<1>4. ASSUME NEW f \in Below(path, root, present, ignore, unseen), Open(path, root, ignore, unseen)
      PROVE  f \in Below(dir, root, present, ignore, unseen)
  <2>1. f \in SourceFile \intersect present /\ f \in Seq(STRING) /\ IsStrictPrefix(path, f)
    BY <1>3 DEF Below
  <2>2. IsStrictPrefix(dir, f)
    BY <1>1, <2>1, BeyondStep
  <2>3. ASSUME NEW d \in Directory, IsStrictPrefix(dir, d), IsStrictPrefix(d, f)
        PROVE  Open(d, root, ignore, unseen)
    <3>1. d = path \/ IsStrictPrefix(path, d)
      BY <1>1, <1>2, <2>1, <2>3, BeyondStep
    <3>2. QED
      BY <1>4, <2>3, <3>1 DEF Below
  <2>4. QED
    BY <2>1, <2>2, <2>3 DEF Below
<1>5. ASSUME path \in SourceFile \intersect present, ~RuleSaysIgnored(path, FALSE, root, ignore)
      PROVE  path \in Below(dir, root, present, ignore, unseen)
  <2>1. IsStrictPrefix(dir, path)
    BY <1>1, ParentIs
  <2>2. ASSUME NEW d \in Directory, IsStrictPrefix(dir, d), IsStrictPrefix(d, path)
        PROVE  FALSE
    <3>1. d \in Seq(STRING) /\ Len(d) \in Nat /\ Len(path) \in Nat
      BY <1>1, <1>2, LenProperties
    <3>2. d = path \/ IsStrictPrefix(path, d)
      BY <1>1, <2>2, <3>1, BeyondStep
    <3>3. Len(d) < Len(path)
      BY <1>1, <2>2, <3>1, PrefixIs
    <3>4. IsStrictPrefix(path, d) => Len(path) < Len(d)
      BY <1>1, <3>1, PrefixIs
    <3>5. QED
      BY <3>1, <3>2, <3>3, <3>4
  <2>3. QED
    BY <1>5, <2>1, <2>2 DEF Below
<1>6. QED
  BY <1>4, <1>5

\* What is due below a directory is an entry of it that no rule takes away, or
\* is due below one that is open.
LEMMA DueIsReached ==
  ASSUME NEW root, NEW present \in SUBSET SourceFile, NEW ignore, NEW unseen, NEW dir \in Directory,
         NEW f \in Below(dir, root, present, ignore, unseen)
  PROVE  \E path \in ToSet(Listing) :
           /\ Front(path) = dir
           /\ \/ path = f /\ f \in SourceFile \intersect present /\ ~RuleSaysIgnored(f, FALSE, root, ignore)
              \/ /\ path \in Directory /\ Open(path, root, ignore, unseen)
                 /\ f \in Below(path, root, present, ignore, unseen)
<1> DEFINE path == SubSeq(f, 1, Len(dir) + 1)
<1>1. /\ f \in SourceFile \intersect present /\ IsStrictPrefix(dir, f)
      /\ ~RuleSaysIgnored(f, FALSE, root, ignore) /\ f \in ToSet(Listing)
  BY DiscoveryAssumption DEF Below
<1>2. f \in Seq(STRING) /\ dir \in Seq(STRING) /\ \A d \in Directory : d \in Seq(STRING)
  BY <1>1, ListedPaths, PrefixesAreDirectories
<1>3. /\ path \in Seq(STRING) /\ path # << >> /\ Front(path) = dir /\ Len(path) = Len(dir) + 1
      /\ path = f \/ IsStrictPrefix(path, f)
  BY <1>1, <1>2, StepTowards
<1>4. CASE path = f
  BY <1>1, <1>3, <1>4
<1>5. CASE IsStrictPrefix(path, f)
  <2>1. Len(dir) \in Nat /\ Len(f) \in Nat /\ Len(dir) + 1 < Len(f)
    <3>1. Len(dir) \in Nat /\ Len(f) \in Nat
      BY <1>2
    <3> HIDE DEF path
    <3>2. Len(path) < Len(f)
      BY <1>2, <1>3, <1>5, PrefixIs
    <3>3. QED
      BY <1>3, <3>1, <3>2
  <2>2. Len(dir) + 1 \in 0 .. Len(f) - 1
    BY <2>1
  <2>3. path \in Directory
    BY <1>1, <2>2, DiscoveryAssumption
  <2>4. path \in ToSet(Listing)
    BY <1>3, <2>3, DiscoveryAssumption
  <2> HIDE DEF path
  <2>5. IsStrictPrefix(dir, path)
    BY <1>3, ParentIs
  <2>6. Open(path, root, ignore, unseen)
    BY <1>5, <2>3, <2>5 DEF Below
  <2>7. ASSUME NEW d \in Directory, IsStrictPrefix(path, d), IsStrictPrefix(d, f)
        PROVE  Open(d, root, ignore, unseen)
    <3>1. IsStrictPrefix(dir, d)
      BY <1>2, <1>3, <1>5, <2>7, BeyondStep
    <3>2. QED
      BY <2>7, <3>1 DEF Below
  <2>8. f \in Below(path, root, present, ignore, unseen)
    BY <1>1, <1>5, <2>7 DEF Below
  <2>9. QED
    BY <1>3, <2>3, <2>4, <2>6, <2>8
<1>6. QED
  BY <1>3, <1>4, <1>5

\* What is seen to be a directory is one that is not passed over.
LEMMA SeenIsNotUnseen ==
  ASSUME NEW fault \in Fault, NEW path
  PROVE  IsDir(path, fault) <=> path \in Directory \ Unseen(fault)
<1>1. CASE fault.call = "stat"
  <2>1. fault = [path |-> fault.path, call |-> "stat"]
    BY <1>1 DEF Fault, NoFault
  <2>2. fault = [path |-> path, call |-> "stat"] <=> fault.path = path
    BY <2>1
  <2>3. QED
    BY <1>1, <2>2 DEF IsDir, Unseen
<1>2. CASE fault.call # "stat"
  <2>1. fault # [path |-> path, call |-> "stat"]
    BY <1>2
  <2>2. QED
    BY <1>2, <2>1 DEF IsDir, Unseen
<1>3. QED
  BY <1>1, <1>2

\* Calls whose failure a walk does not throw.
Quiet(fault) == fault.call \notin {"list", "inspect"}

\* A walk lists a failure only if a directory cannot be listed or inspected, and
\* one that lists none lists below a directory what is due there, but for what
\* is below a directory that was taken for a file.
Lists(W, dir, root, present, ignore, fault) ==
  /\ W[dir] \in Seq(Item)
  /\ Quiet(fault) => Failed \notin ToSet(W[dir])
  /\ Failed \notin ToSet(W[dir]) => ToSet(W[dir]) = Below(dir, root, present, ignore, Unseen(fault))

\* If the directories entered from one list what is due below them, so does it
\* (symbolic_parse:walk/3, walk_entry/4).
LEMMA ListsOneLevel ==
  ASSUME NEW root \in Directory, NEW present \in SUBSET SourceFile,
         NEW ignore \in Ignore, NEW fault \in Fault, NEW W, NEW dir \in Directory,
         W[dir] = Visits(W, dir, root, present, ignore, fault),
         \A path \in ToSet(Listing) : Front(path) = dir /\ path \in Directory =>
           Lists(W, path, root, present, ignore, fault)
  PROVE  Lists(W, dir, root, present, ignore, fault)
<1> DEFINE V(path) == Visit(W, dir, path, root, present, ignore, fault)
           unseen == Unseen(fault)
           B(path) == Below(path, root, present, ignore, unseen)
<1>1. Entered(W, dir, Seq(Item))
  BY DEF Entered, Lists
<1>2. W[dir] \in Seq(Item)
  BY <1>1, VisitsAreItems
<1>3. ASSUME Failed \notin ToSet(W[dir]) PROVE ToSet(W[dir]) = B(dir)
  <2>1. fault # [path |-> dir, call |-> "list"]
    <3>1. Failed \in ToSet(<<Failed>>)
      BY DEF ToSet
    <3>2. QED
      BY <1>3, <3>1 DEF Visits
  <2>2. \A x : x \in ToSet(W[dir]) <=> \E path \in ToSet(Listing) : x \in ToSet(V(path))
    <3>1. \A x : x \in ToSet(W[dir]) <=> \E k \in DOMAIN Listing : x \in ToSet(V(Listing[k]))
      BY <1>1, <2>1, VisitsAreItems
    <3> HIDE DEF V
    <3>2. QED
      BY <3>1, ListingIs
  <2>3. ASSUME NEW path \in ToSet(Listing), Front(path) = dir, path \in present \union Directory
        PROVE  /\ path \in Directory /\ Open(path, root, ignore, unseen) =>
                    V(path) = W[path] /\ ToSet(V(path)) = B(path)
               /\ path \in Directory /\ ~Open(path, root, ignore, unseen) => V(path) = << >>
               /\ path \notin Directory =>
                    V(path) = IF RuleSaysIgnored(path, FALSE, root, ignore) THEN << >> ELSE <<path>>
    <3>1. Failed \notin ToSet(V(path))
      BY <1>3, <2>2
    <3>2. IsDir(path, fault) <=> path \in Directory \ unseen
      BY SeenIsNotUnseen
    <3>3. IsDir(path, fault) => fault # [path |-> path, call |-> "inspect"]
      <4>1. Failed \in ToSet(<<Failed>>)
        BY DEF ToSet
      <4>2. QED
        BY <2>3, <3>1, <4>1 DEF Visit
    <3>4. \A isDir : Ignored(path, isDir, root, ignore) <=> RuleSaysIgnored(path, isDir, root, ignore)
      BY LastOfAllDecides
    <3>5. path \in Directory => path \notin SourceFile
      BY DiscoveryAssumption
    <3>6. path \notin Directory => path \in SourceFile
      BY <2>3
    <3> HIDE DEF unseen
    <3>7. path \in Directory /\ Open(path, root, ignore, unseen) => V(path) = W[path]
      BY <2>3, <3>2, <3>3, <3>4 DEF Visit, Open
    <3>8. path \in Directory /\ ~Open(path, root, ignore, unseen) => V(path) = << >>
      BY <2>3, <3>2, <3>3, <3>4, <3>5 DEF Visit, Open
    <3>9. path \notin Directory =>
            V(path) = IF RuleSaysIgnored(path, FALSE, root, ignore) THEN << >> ELSE <<path>>
      BY <2>3, <3>2, <3>4, <3>6 DEF Visit
    <3> HIDE DEF V
    <3>10. path \in Directory /\ Open(path, root, ignore, unseen) => ToSet(V(path)) = B(path)
      BY <2>3, <3>1, <3>7 DEF Lists, unseen
    <3>11. QED
      BY <3>7, <3>8, <3>9, <3>10
  <2>4. \A path : path \notin present \union Directory \/ Front(path) # dir => V(path) = << >>
    BY DEF Visit
  <2>5. ToSet(<< >>) = {} /\ \A path : ToSet(<<path>>) = {path}
    BY DEF ToSet
  <2> HIDE DEF V, unseen
  <2>6. ASSUME NEW x \in ToSet(W[dir]) PROVE x \in B(dir)
    <3>1. PICK path \in ToSet(Listing) : x \in ToSet(V(path))
      BY <2>2, <2>6
    <3>2. Front(path) = dir /\ path \in present \union Directory
      BY <2>4, <2>5, <3>1
    <3>3. CASE path \in Directory
      <4>1. Open(path, root, ignore, unseen) /\ x \in B(path)
        BY <2>3, <2>5, <3>1, <3>2, <3>3
      <4>2. QED
        BY <3>2, <3>3, <4>1, BelowIsDue
    <3>4. CASE path \notin Directory
      <4>1. V(path) = << >> \/ (~RuleSaysIgnored(path, FALSE, root, ignore) /\ V(path) = <<path>>)
        BY <2>3, <3>2, <3>4
      <4>2. x = path /\ ~RuleSaysIgnored(path, FALSE, root, ignore)
        BY <2>5, <3>1, <4>1
      <4>3. QED
        BY <3>2, <3>4, <4>2, BelowIsDue
    <3>5. QED
      BY <3>3, <3>4
  <2>7. ASSUME NEW x \in B(dir) PROVE x \in ToSet(W[dir])
    <3>1. PICK path \in ToSet(Listing) :
            /\ Front(path) = dir
            /\ \/ path = x /\ x \in SourceFile \intersect present /\ ~RuleSaysIgnored(x, FALSE, root, ignore)
               \/ path \in Directory /\ Open(path, root, ignore, unseen) /\ x \in B(path)
      BY <2>7, DueIsReached
    <3>2. CASE path = x /\ x \in SourceFile \intersect present /\ ~RuleSaysIgnored(x, FALSE, root, ignore)
      <4>1. x \notin Directory
        BY <3>2, DiscoveryAssumption
      <4>2. V(path) = <<x>>
        BY <2>3, <3>1, <3>2, <4>1
      <4>3. QED
        BY <2>2, <2>5, <4>2
    <3>3. CASE path \in Directory /\ Open(path, root, ignore, unseen) /\ x \in B(path)
      BY <2>2, <2>3, <3>1, <3>3
    <3>4. QED
      BY <3>1, <3>2, <3>3
  <2>8. QED
    BY <2>6, <2>7
<1>4. ASSUME Quiet(fault) PROVE Failed \notin ToSet(W[dir])
  <2>1. fault.call \notin {"list", "inspect"}
    BY <1>4 DEF Quiet
  <2>2. \A path : /\ fault # [path |-> path, call |-> "inspect"]
                  /\ fault # [path |-> path, call |-> "list"]
    BY <2>1
  <2>3. ToSet(<< >>) = {} /\ \A path : ToSet(<<path>>) = {path}
    BY DEF ToSet
  <2>4. ASSUME NEW path \in ToSet(Listing) PROVE Failed \notin ToSet(V(path))
    <3>1. path # Failed
      BY ListedPaths
    <3>2. Front(path) = dir /\ path \in Directory => Failed \notin ToSet(W[path])
      BY <1>4 DEF Lists
    <3>3. \/ V(path) = << >>
          \/ V(path) = <<path>>
          \/ Front(path) = dir /\ path \in Directory /\ V(path) = W[path]
      BY <2>2 DEF Visit, IsDir
    <3> HIDE DEF V
    <3>4. QED
      BY <2>3, <3>1, <3>2, <3>3
  <2>5. \A x : x \in ToSet(W[dir]) <=> \E k \in DOMAIN Listing : x \in ToSet(V(Listing[k]))
    BY <1>1, <2>2, VisitsAreItems
  <2> HIDE DEF V
  <2>6. QED
    BY <2>4, <2>5, ListingIs
<1>5. QED
  BY <1>2, <1>3, <1>4 DEF Lists

\* A walk that throws nothing lists what is due below its root
\* (symbolic_parse:walk/3).
LEMMA WalkListsWhatIsDue ==
  ASSUME NEW root \in Directory, NEW present \in SUBSET SourceFile,
         NEW ignore \in Ignore, NEW fault \in Fault
  PROVE  /\ Walk(root, present, ignore, fault) \in Seq(Item)
         /\ Quiet(fault) => Failed \notin ToSet(Walk(root, present, ignore, fault))
         /\ Failed \notin ToSet(Walk(root, present, ignore, fault)) =>
              ToSet(Walk(root, present, ignore, fault)) = DueBelow(root, present, ignore, Unseen(fault))
<1>1. PICK W : /\ IsWalk(W, root, present, ignore, fault)
               /\ Walk(root, present, ignore, fault) = W[root]
  BY WalkExists, WalkIsChosen
<1>2. PICK depth \in Nat : \A dir \in Directory : Len(dir) \in Nat /\ Len(dir) <= depth
  BY DepthExists
<1> DEFINE n == depth + 1
           Ok(m) == \A dir \in Directory : depth < Len(dir) + m => Lists(W, dir, root, present, ignore, fault)
           P == {m \in 0 .. n : Ok(m)}
<1>3. 0 \in P
  <2>1. 0 \in 0 .. n /\ \A dir \in Directory : ~(depth < Len(dir) + 0)
    BY <1>2
  <2>2. QED
    BY <2>1
<1>4. ASSUME NEW m \in 1 .. n, m - 1 \in P PROVE m \in P
  <2>1. ASSUME NEW dir \in Directory, depth < Len(dir) + m
        PROVE  Lists(W, dir, root, present, ignore, fault)
    <3>1. W[dir] = Visits(W, dir, root, present, ignore, fault)
      BY <1>1 DEF IsWalk
    <3>2. ASSUME NEW path \in ToSet(Listing), Front(path) = dir, path \in Directory
          PROVE  Lists(W, path, root, present, ignore, fault)
      <4>1. Len(path) = Len(dir) + 1 /\ Len(path) \in Nat /\ Len(dir) \in Nat
        BY <1>2, <3>2, EntersDeeper
      <4>2. depth < Len(path) + (m - 1)
        BY <2>1, <4>1
      <4>3. QED
        BY <1>4, <3>2, <4>2
    <3>3. QED
      BY <3>1, <3>2, ListsOneLevel
  <2>2. m \in 0 .. n
    OBVIOUS
  <2>3. QED
    BY <2>1, <2>2
<1>5. n \in P
  <2>1. n \in Nat /\ n \in 0 .. n
    OBVIOUS
  <2> HIDE DEF P, n
  <2>2. QED
    BY <1>3, <1>4, <2>1, CountUp
<1>6. depth < Len(root) + n
  BY <1>2
<1>7. Lists(W, root, root, present, ignore, fault)
  BY <1>5, <1>6
<1>8. QED
  BY <1>1, <1>7, DueIsBelow DEF Lists

\* What a configured path promises.
DueOf(path, present, ignore, unseen) ==
  IF path \in Directory THEN DueBelow(path, present, ignore, unseen) ELSE {path}

\* A configured path lists what it promises (symbolic_parse:discover_path/1).
LEMMA PathListsWhatIsDue ==
  ASSUME NEW path, NEW present \in SUBSET SourceFile, NEW ignore \in Ignore, NEW fault \in Fault
  PROVE  /\ DiscoverPath(path, present, ignore, fault) \in Seq(Item)
         /\ /\ Quiet(fault) /\ fault # [path |-> path, call |-> "stat"]
            /\ path \in Directory \union present
            => Failed \notin ToSet(DiscoverPath(path, present, ignore, fault))
         /\ Failed \notin ToSet(DiscoverPath(path, present, ignore, fault)) =>
              ToSet(DiscoverPath(path, present, ignore, fault))
                = DueOf(path, present, ignore, Unseen(fault))
<1> DEFINE unlooked == fault = [path |-> path, call |-> "stat"]
<1>1. CASE path \in Directory /\ ~unlooked
  <2>1. DiscoverPath(path, present, ignore, fault) = Walk(path, present, ignore, fault)
    <3>1. path \notin SourceFile \intersect present
      BY <1>1, DiscoveryAssumption
    <3>2. QED
      BY <1>1, <3>1 DEF DiscoverPath, IsDir
  <2>2. QED
    BY <1>1, <2>1, WalkListsWhatIsDue DEF DueOf
<1>2. CASE path \notin Directory /\ path \in SourceFile \intersect present /\ ~unlooked
  <2>1. DiscoverPath(path, present, ignore, fault) = <<path>>
    BY <1>2 DEF DiscoverPath, IsDir
  <2>2. <<path>> \in Seq(Item) /\ ToSet(<<path>>) = {path}
    BY <1>2 DEF Item, ToSet
  <2>3. path # Failed
    BY <1>2, NoFileFailed
  <2>4. QED
    BY <1>2, <2>1, <2>2, <2>3 DEF DueOf
<1>3. CASE unlooked \/ (path \notin Directory /\ path \notin SourceFile \intersect present)
  <2>1. DiscoverPath(path, present, ignore, fault) = <<Failed>>
    BY <1>3 DEF DiscoverPath, IsDir
  <2>2. <<Failed>> \in Seq(Item) /\ Failed \in ToSet(<<Failed>>)
    BY DEF Item, ToSet
  <2>3. QED
    BY <1>3, <2>1, <2>2
<1>4. QED
  BY <1>1, <1>2, <1>3

\* What can be read of the rules are rules.
LEMMA LegibleIsIgnore ==
  ASSUME NEW ignore \in Ignore, NEW fault
  PROVE  Legible(ignore, fault) \in Ignore
<1>1. << >> \in Seq(Rule) /\ \A dir \in Directory : ignore.rules[dir] \in Seq(Rule)
  BY DEF Ignore
<1>2. ignore.git \in SUBSET Directory
  BY DEF Ignore
<1>3. QED
  BY <1>1, <1>2 DEF Legible, Ignore

\* For every tree, all rules, links and faults: a discovery throws unless every
\* directory of the walk could be listed and inspected and every configured
\* path was there to be looked at, and one that does not throw lists, each file
\* once, what no legible rule, link or deletion takes away, but for what is
\* below a directory that could not be told from a file (discover_path/1,
\* walk/3, walk_entry/4, ignored/4, scan_each/2).
THEOREM DiscoveredIsDue ==
  ASSUME NEW roots \in Seq(Seq(STRING)), NEW present \in SUBSET SourceFile,
         NEW ignore \in Ignore, NEW fault \in Fault,
         NEW found, found = Discovered(roots, present, ignore, fault)
  PROVE  /\ /\ Quiet(fault) /\ (fault.call = "stat" => fault.path \notin ToSet(roots))
            /\ ToSet(roots) \subseteq Directory \union present
            => Failed \notin ToSet(found)
         /\ Failed \notin ToSet(found) =>
              /\ ToSet(found) = Due(roots, present, Legible(ignore, fault), Unseen(fault))
              /\ found \in Distinct(SourceFile)
<1> DEFINE legible == Legible(ignore, fault)
           P(path) == DiscoverPath(path, present, legible, fault)
           D(path) == DueOf(path, present, legible, Unseen(fault))
           seqs == [k \in DOMAIN roots |-> P(roots[k])]
           flat == FlattenSeq(seqs)
<1>1. Len(roots) \in Nat /\ DOMAIN roots = 1 .. Len(roots)
  OBVIOUS
<1>2. \A path : /\ P(path) \in Seq(Item)
                /\ /\ Quiet(fault) /\ fault # [path |-> path, call |-> "stat"]
                   /\ path \in Directory \union present
                   => Failed \notin ToSet(P(path))
                /\ Failed \notin ToSet(P(path)) => ToSet(P(path)) = D(path)
  <2>1. legible \in Ignore
    BY LegibleIsIgnore
  <2> HIDE DEF legible
  <2>2. QED
    BY <2>1, PathListsWhatIsDue
<1>3. found = UniqueFiles(flat)
  BY DEF Discovered
<1> HIDE DEF P, D
<1>4. /\ seqs \in [1 .. Len(roots) -> Seq(Item)]
      /\ \A k \in 1 .. Len(roots) : seqs[k] = P(roots[k])
  BY <1>1, <1>2
<1> HIDE DEF seqs
<1>5. /\ flat \in Seq(Item)
      /\ \A x : x \in ToSet(flat) <=> \E k \in 1 .. Len(roots) : x \in ToSet(P(roots[k]))
  BY <1>1, <1>4, FlattenIs
<1> HIDE DEF flat
<1>6. found \in Distinct(Item) /\ ToSet(found) = ToSet(flat)
  BY <1>3, <1>5, UniqueIs
<1>7. ToSet(roots) = {roots[k] : k \in 1 .. Len(roots)}
  BY <1>1 DEF ToSet
<1>8. ASSUME Quiet(fault), fault.call = "stat" => fault.path \notin ToSet(roots),
             ToSet(roots) \subseteq Directory \union present
      PROVE  Failed \notin ToSet(found)
  <2>1. \A path \in ToSet(roots) : fault # [path |-> path, call |-> "stat"]
    BY <1>8
  <2>2. \A k \in 1 .. Len(roots) : Failed \notin ToSet(P(roots[k]))
    BY <1>2, <1>7, <1>8, <2>1
  <2>3. QED
    BY <1>5, <1>6, <2>2
<1>9. ASSUME Failed \notin ToSet(found)
      PROVE  ToSet(found) = Due(roots, present, legible, Unseen(fault))
  <2>1. \A k \in 1 .. Len(roots) : ToSet(P(roots[k])) = D(roots[k])
    BY <1>2, <1>5, <1>6, <1>9
  <2>2. Due(roots, present, legible, Unseen(fault)) = UNION {D(path) : path \in ToSet(roots)}
    BY DEF Due, D, DueOf
  <2> HIDE DEF legible
  <2>3. \A x : x \in ToSet(found) <=> \E k \in 1 .. Len(roots) : x \in D(roots[k])
    BY <1>5, <1>6, <2>1
  <2>4. \A x : x \in UNION {D(path) : path \in ToSet(roots)}
               <=> \E k \in 1 .. Len(roots) : x \in D(roots[k])
    BY <1>7
  <2>5. QED
    BY <2>2, <2>3, <2>4
<1>10. ASSUME Failed \notin ToSet(found) PROVE found \in Distinct(SourceFile)
  <2>1. found \in Seq(Item) /\ IsInjective(found)
    BY <1>6 DEF Distinct
  <2>2. \A i \in 1 .. Len(found) : found[i] \in Item /\ found[i] \in ToSet(found)
    BY <2>1 DEF ToSet
  <2>3. \A i \in 1 .. Len(found) : found[i] \in SourceFile
    BY <1>10, <2>2 DEF Item
  <2>4. found \in Seq(SourceFile)
    BY <2>1, <2>3
  <2>5. QED
    BY <2>1, <2>4 DEF Distinct
<1>11. QED
  BY <1>8, <1>9, <1>10

\* Directories that are passed over take away what is below them and nothing
\* else.
LEMMA UnseenHideWhatIsBelow ==
  ASSUME NEW roots \in Seq(Seq(STRING)), NEW present, NEW ignore, NEW unseen,
         NEW all, all = Due(roots, present, ignore, {}),
         NEW some, some = Due(roots, present, ignore, unseen)
  PROVE  /\ some \subseteq all
         /\ \A f \in all \ some : f \in SourceFile /\ \E dir \in unseen : IsStrictPrefix(dir, f)
<1> DEFINE D(path, hidden) == DueOf(path, present, ignore, hidden)
<1>1. /\ all = UNION {D(path, {}) : path \in ToSet(roots)}
      /\ some = UNION {D(path, unseen) : path \in ToSet(roots)}
  BY DEF Due, DueOf
<1>2. \A path : D(path, unseen) \subseteq D(path, {})
  BY DEF DueOf, DueBelow
<1>3. \A path : \A f \in D(path, {}) \ D(path, unseen) :
        f \in SourceFile /\ \E dir \in unseen : IsStrictPrefix(dir, f)
  BY DEF DueOf, DueBelow
<1> HIDE DEF D
<1>4. QED
  BY <1>1, <1>2, <1>3
===============================================================================
