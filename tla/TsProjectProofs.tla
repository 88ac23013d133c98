---------------------------- MODULE TsProjectProofs ----------------------------
(***************************************************************************)
(* Proofs about TsProject, for any projects, graphs, limits, edits, faults *)
(* and programs behind the ports; first, what the steps of TypeGraph       *)
(* preserve for any graph and any limits: the limits hold, and unless      *)
(* something is marked as left out, whatever is not yet in the graph is    *)
(* still to be visited.                                                    *)
(***************************************************************************)
EXTENDS TsProject, FiniteSetTheorems, SequenceTheorems, WellFoundedInduction, TLAPS

------------------------------------------------------------------------------
(* The type graph *)

Elems(s) == {s[k] : k \in DOMAIN s}

\* Some group still has the i-th child of `of`.
Pending(of, i) == \E w \in Elems(work) : w.of = of /\ i \in w.left

\* Nothing is missing that is not still to come.
Covered(g) ==
  /\ \A i \in DOMAIN g.locations : g.locations[i] \in nodes \/ Pending(Top, i)
  /\ \A t \in nodes \intersect g.asks : \A i \in DOMAIN g.kids[t] :
       <<t, i>> \in edges /\ (g.kids[t][i] \in nodes \/ Pending(t, i))

\* The work list is of this graph.
Fits(g) == \A w \in Elems(work) : w.left \subseteq DOMAIN Members(g, w.of)

\* What the limits need.
Within ==
  /\ IsFiniteSet(nodes) /\ Cardinality(nodes) <= MaxTypes
  /\ IsFiniteSet(edges) /\ Cardinality(edges) <= MaxEdges

WorkType ==
  /\ work \in Seq(Group) /\ nodes \subseteq Type /\ edges \subseteq nodes \X Nat
  /\ truncated \in BOOLEAN

------------------------------------------------------------------------------
(* Finite sets of positions *)

\* A set of numbers has a least element.
LEMMA Least ==
  ASSUME NEW S \in SUBSET Nat, S # {}
  PROVE  \E m \in S : \A x \in S : m <= x
<1> DEFINE R == OpToRel(<, Nat)
<1>1. R = {r \in Nat \X Nat : r[1] < r[2]}
  BY DEF OpToRel
<1>2. IsWellFoundedOn(R, Nat)
  BY NatLessThanWellFounded
<1> HIDE DEF R
<1>3. PICK m \in S : \A x \in S : ~ (<<x, m>> \in R)
  BY <1>2, WFMin
<1>4. \A x \in S : ~ (x < m)
  BY <1>1, <1>3
<1>5. QED
  BY <1>4

\* A finite set of numbers has a greatest.
LEMMA Greatest ==
  ASSUME NEW S \in SUBSET Nat, S # {}, NEW b \in Nat, \A x \in S : x <= b
  PROVE  \E m \in S : \A x \in S : x <= m
<1> DEFINE U == {u \in Nat : \A x \in S : x <= u}
<1>1. PICK u \in U : \A v \in U : u <= v
  BY Least
<1>2. CASE u \in S
  BY <1>2
<1>3. CASE u \notin S
  <2>1. \A x \in S : x < u
    BY <1>3
  <2>2. u - 1 \in Nat
    <3>1. PICK x \in S : TRUE
      OBVIOUS
    <3>2. u \in Nat /\ x \in Nat /\ x < u
      BY <2>1, <3>1
    <3>3. QED
      BY <3>2
  <2>3. u - 1 \in U
    BY <2>1, <2>2
  <2>4. QED
    BY <1>1, <2>3
<1>4. QED
  BY <1>2, <1>3

\* The first n of the positions of a sequence are at most n of them.
LEMMA FirstOfBounded ==
  ASSUME NEW len \in Nat, NEW S \in SUBSET (1 .. len), NEW n \in Nat
  PROVE  /\ FirstOf(S, n) \subseteq S /\ IsFiniteSet(FirstOf(S, n))
         /\ Cardinality(FirstOf(S, n)) <= n
<1> DEFINE F == FirstOf(S, n)
<1>1. F \subseteq S
  BY DEF FirstOf
<1>2. IsFiniteSet(S) /\ IsFiniteSet(F)
  <2>1. IsFiniteSet(1 .. len)
    BY FS_Interval
  <2>2. QED
    BY <1>1, <2>1, FS_Subset
<1>3. CASE F = {}
  BY <1>1, <1>2, <1>3, FS_EmptySet
<1>4. CASE F # {}
  <2>0. F \in SUBSET Nat /\ \A x \in F : x <= len
    <3>1. S \in SUBSET Nat /\ \A x \in S : x <= len
      OBVIOUS
    <3> HIDE DEF F
    <3>2. QED
      BY <1>1, <3>1
  <2>1. PICK m \in F : \A x \in F : x <= m
    <3> HIDE DEF F
    <3>1. QED
      BY <2>0, <1>4, Greatest
  <2>2. DEFINE G == {j \in S : j <= m}
  <2>3. F \subseteq G /\ G \subseteq S
    BY <1>1, <2>1
  <2>4. Cardinality(G) <= n
    BY <2>1 DEF FirstOf
  <2>5. IsFiniteSet(G)
    BY <1>2, <2>3, FS_Subset
  <2>6. Cardinality(F) <= Cardinality(G) /\ Cardinality(F) \in Nat /\ Cardinality(G) \in Nat
    BY <2>3, <2>5, <1>2, FS_Subset, FS_CardinalityType
  <2>7. QED
    BY <1>1, <1>2, <2>4, <2>6
<1>5. QED
  BY <1>3, <1>4
------------------------------------------------------------------------------
(* The work list *)

LEMMA ElemsOfConcat ==
  ASSUME NEW s \in Seq(Group), NEW t \in Seq(Group)
  PROVE  s \o t \in Seq(Group) /\ Elems(s \o t) = Elems(s) \union Elems(t)
<1>1. s \o t \in Seq(Group) /\ Len(s \o t) = Len(s) + Len(t)
  OBVIOUS
<1>2. \A k \in DOMAIN s : (s \o t)[k] = s[k] /\ k \in DOMAIN (s \o t)
  BY ConcatProperties
<1>3. \A k \in DOMAIN t : (s \o t)[k + Len(s)] = t[k] /\ k + Len(s) \in DOMAIN (s \o t)
  BY ConcatProperties
<1>4. \A k \in DOMAIN (s \o t) : (s \o t)[k] \in Elems(s) \union Elems(t)
  BY ConcatProperties DEF Elems
<1>5. Elems(s) \subseteq Elems(s \o t) /\ Elems(t) \subseteq Elems(s \o t)
  BY <1>2, <1>3 DEF Elems
<1>6. QED
  BY <1>1, <1>4, <1>5 DEF Elems

LEMMA GroupedElems ==
  ASSUME NEW of \in Type \union {Top}, NEW left \in SUBSET Nat, NEW depth \in Nat
  PROVE  /\ Grouped(of, left, depth) \in Seq(Group)
         /\ \A w \in Elems(Grouped(of, left, depth)) : w.of = of /\ w.left = left
         /\ left # {} => \E w \in Elems(Grouped(of, left, depth)) : w.of = of /\ w.left = left
<1> DEFINE r == [of |-> of, left |-> left, depth |-> depth]
<1>1. r \in Group /\ r.of = of /\ r.left = left
  BY DEF Group
<1> HIDE DEF r
<1>2. Elems(<<r>>) = {r} /\ <<r>> \in Seq(Group)
  BY <1>1 DEF Elems
<1>3. Elems(<< >>) = {} /\ << >> \in Seq(Group)
  BY DEF Elems
<1>4. Grouped(of, left, depth) = IF left = {} THEN << >> ELSE <<r>>
  BY DEF Grouped, r
<1>5. QED
  BY <1>1, <1>2, <1>3, <1>4

\* The entry that is due is one of the work list, and there is a type at it.
LEMMA DueIsEntry ==
  ASSUME NEW g \in Graph, WorkType, Fits(g), NEW pos \in Due
  PROVE  /\ work # << >> /\ Head(work) \in Group /\ Tail(work) \in Seq(Group)
         /\ pos \in Head(work).left /\ pos \in Nat
         /\ Elems(work) = {Head(work)} \union Elems(Tail(work))
         /\ pos \in DOMAIN Members(g, Head(work).of)
         /\ TypeAt(g, pos) \in Type
<1>1. work # << >> /\ pos \in Head(work).left
  BY DEF Due
<1>2. Head(work) \in Group /\ Tail(work) \in Seq(Group) /\ Head(work) = work[1] /\ Len(work) >= 1
  BY <1>1 DEF WorkType
<1>3. Elems(work) = {Head(work)} \union Elems(Tail(work))
  <2>1. \A k \in DOMAIN Tail(work) : Tail(work)[k] = work[k + 1] /\ k + 1 \in DOMAIN work
    BY <1>1 DEF WorkType
  <2>2. \A k \in DOMAIN work : k = 1 \/ (k - 1 \in DOMAIN Tail(work) /\ Tail(work)[k - 1] = work[k])
    BY <1>1 DEF WorkType
  <2>3. 1 \in DOMAIN work
    BY <1>2 DEF WorkType
  <2>4. Head(work) \in Elems(work) /\ Elems(Tail(work)) \subseteq Elems(work)
    BY <1>2, <2>1, <2>3 DEF Elems
  <2>5. ASSUME NEW k \in DOMAIN work PROVE work[k] = Head(work) \/ work[k] \in Elems(Tail(work))
    BY <1>2, <2>2 DEF Elems
  <2>6. QED
    BY <2>4, <2>5 DEF Elems
<1>4. pos \in Nat /\ Head(work).of \in Type \union {Top}
  BY <1>1, <1>2 DEF Group
<1>5. pos \in DOMAIN Members(g, Head(work).of)
  BY <1>1, <1>3 DEF Fits
<1>6. Members(g, Head(work).of) \in Seq(Type)
  BY <1>4 DEF Members, Graph
<1>7. TypeAt(g, pos) \in Type
  BY <1>5, <1>6 DEF TypeAt
<1>8. QED
  BY <1>1, <1>2, <1>3, <1>4, <1>5, <1>7

\* What was pending stays so, but for the entry that is taken.
LEMMA RestOfWork ==
  ASSUME NEW g \in Graph, WorkType, Fits(g), NEW pos \in Due
  PROVE  /\ Rest(pos) \in Seq(Group)
         /\ \A w \in Elems(Rest(pos)) : w.left \subseteq DOMAIN Members(g, w.of)
         /\ \A of, i : Pending(of, i) =>
              \/ \E w \in Elems(Rest(pos)) : w.of = of /\ i \in w.left
              \/ of = Head(work).of /\ i = pos
<1> DEFINE h == Head(work)
           left == h.left \ {pos}
           front == Grouped(h.of, left, h.depth)
<1>1. /\ h \in Group /\ Tail(work) \in Seq(Group)
      /\ Elems(work) = {h} \union Elems(Tail(work))
  BY DueIsEntry
<1>2. h.of \in Type \union {Top} /\ left \in SUBSET Nat /\ h.depth \in Nat
  BY <1>1 DEF Group
<1>3. Rest(pos) = front \o Tail(work)
  BY DEF Rest
<1>a. \A x : x \in left <=> x \in h.left /\ x # pos
  OBVIOUS
<1> HIDE DEF h, left
<1>4. /\ front \in Seq(Group)
      /\ \A w \in Elems(front) : w.of = h.of /\ w.left = left
      /\ left # {} => \E w \in Elems(front) : w.of = h.of /\ w.left = left
  BY <1>2, GroupedElems
<1> HIDE DEF front
<1>5. Rest(pos) \in Seq(Group) /\ Elems(Rest(pos)) = Elems(front) \union Elems(Tail(work))
  BY <1>1, <1>3, <1>4, ElemsOfConcat
<1>6. \A w \in Elems(Rest(pos)) : w.left \subseteq DOMAIN Members(g, w.of)
  BY <1>1, <1>4, <1>5, <1>a DEF Fits
<1>7. ASSUME NEW of, NEW i, Pending(of, i)
      PROVE  \/ \E w \in Elems(Rest(pos)) : w.of = of /\ i \in w.left
             \/ of = h.of /\ i = pos
  <2>1. PICK w \in Elems(work) : w.of = of /\ i \in w.left
    BY <1>7 DEF Pending
  <2>2. CASE w \in Elems(Tail(work))
    BY <1>5, <2>1, <2>2
  <2>3. CASE w = h
    BY <1>4, <1>5, <1>a, <2>1, <2>3
  <2>4. QED
    BY <1>1, <2>1, <2>2, <2>3
<1>8. QED
  BY <1>5, <1>6, <1>7 DEF h

\* New groups in front add their own entries.
LEMMA WorkGrows ==
  ASSUME NEW g \in Graph, WorkType, Fits(g), NEW pos \in Due,
         NEW t \in Type, NEW kept \in SUBSET Nat, kept \subseteq DOMAIN g.kids[t],
         work' = Grouped(t, kept, Head(work).depth + 1) \o Rest(pos)
  PROVE  /\ work' \in Seq(Group) /\ Fits(g)'
         /\ \A of, i : Pending(of, i) => Pending(of, i)' \/ (of = Head(work).of /\ i = pos)
         /\ \A i \in kept : Pending(t, i)'
<1> DEFINE front == Grouped(t, kept, Head(work).depth + 1)
<1>1. Head(work).depth + 1 \in Nat
  BY DueIsEntry DEF Group
<1>2. /\ front \in Seq(Group)
      /\ \A w \in Elems(front) : w.of = t /\ w.left = kept
      /\ kept # {} => \E w \in Elems(front) : w.of = t /\ w.left = kept
  BY <1>1, GroupedElems
<1>3. Rest(pos) \in Seq(Group)
  BY RestOfWork
<1>4. work' = front \o Rest(pos)
  OBVIOUS
<1> HIDE DEF front
<1>5. work' \in Seq(Group) /\ Elems(work') = Elems(front) \union Elems(Rest(pos))
  BY <1>2, <1>3, <1>4, ElemsOfConcat
<1>6. t # Top /\ Members(g, t) = g.kids[t]
  BY TypeGraphAssumption DEF Members
<1>7. \A w \in Elems(work') : w.left \subseteq DOMAIN Members(g, w.of)
  BY <1>2, <1>5, <1>6, RestOfWork
<1>8. \A i \in kept : \E w \in Elems(work') : w.of = t /\ i \in w.left
  BY <1>2, <1>5
<1>9. \A of, i : Pending(of, i) =>
        (\E w \in Elems(work') : w.of = of /\ i \in w.left) \/ (of = Head(work).of /\ i = pos)
  BY <1>5, RestOfWork
<1>10. QED
  BY <1>5, <1>7, <1>8, <1>9 DEF Fits, Pending
------------------------------------------------------------------------------
(* The steps *)

\* What every step keeps, and what it owes as long as nothing is left out.
Sane(g) == WorkType /\ Fits(g) /\ Within
Owes(g) == ~truncated => Covered(g)

\* An empty graph is sane, of whatever project.
LEMMA EmptyIsSane ==
  ASSUME NEW g, work = << >>, nodes = {}, edges = {}, truncated \in BOOLEAN
  PROVE  Sane(g)
<1>1. Elems(work) = {}
  BY DEF Elems
<1>2. Within
  BY FS_EmptySet, TypeGraphAssumption DEF Within
<1>3. QED
  BY <1>1, <1>2 DEF Sane, WorkType, Fits

\* query_locations/6: unless one is lost, all locations are to be visited, or
\* some are left out.
LEMMA LocateKeeps ==
  ASSUME NEW g \in Graph, NEW lost, Locate(g, lost)
  PROVE  Sane(g)' /\ (lost = {} => Owes(g)')
<1> DEFINE first == FirstOf(DOMAIN g.locations, MaxLocations)
           kept == first \ lost
<1>1. /\ work' = Grouped(Top, kept, 0) /\ nodes' = {} /\ edges' = {}
      /\ truncated' = (first # DOMAIN g.locations)
  BY DEF Locate
<1>2. g.locations \in Seq(Type) /\ Members(g, Top) = g.locations
  BY DEF Graph, Members
<1>3. kept \subseteq DOMAIN g.locations /\ kept \in SUBSET Nat
  BY <1>2 DEF FirstOf
<1>a. lost = {} => kept = first
  OBVIOUS
<1>b. Top \in Type \union {Top} /\ 0 \in Nat
  OBVIOUS
<1> HIDE DEF kept, first
<1>4. /\ work' \in Seq(Group) /\ \A w \in Elems(work') : w.of = Top /\ w.left = kept
      /\ kept # {} => \E w \in Elems(work') : w.of = Top /\ w.left = kept
  <2>1. PICK grouped : grouped = Grouped(Top, kept, 0)
    OBVIOUS
  <2>2. /\ grouped \in Seq(Group) /\ \A w \in Elems(grouped) : w.of = Top /\ w.left = kept
        /\ kept # {} => \E w \in Elems(grouped) : w.of = Top /\ w.left = kept
    BY <1>3, <1>b, <2>1, GroupedElems
  <2>3. QED
    BY <1>1, <2>1, <2>2
<1>5. Within'
  BY <1>1, FS_EmptySet, TypeGraphAssumption DEF Within
<1>6. WorkType' /\ Fits(g)'
  BY <1>1, <1>2, <1>3, <1>4 DEF WorkType, Fits
<1>7. lost = {} /\ ~truncated' =>
        \A i \in DOMAIN g.locations : \E w \in Elems(work') : w.of = Top /\ i \in w.left
  BY <1>1, <1>4, <1>a
<1>8. lost = {} => Owes(g)'
  BY <1>1, <1>7 DEF Owes, Covered, Pending
<1>9. QED
  BY <1>5, <1>6, <1>8 DEF Sane

\* An entry that is passed over is in the graph, or left out and marked so.
LEMMA SkipKeeps ==
  ASSUME NEW g \in Graph, Sane(g), NEW pos \in Due, Skip(g, pos)
  PROVE  Sane(g)' /\ (Owes(g) => Owes(g)')
<1>1. /\ work' = Rest(pos) /\ nodes' = nodes /\ edges' = edges
      /\ truncated' = (truncated \/ TypeAt(g, pos) \notin nodes)
  BY DEF Skip
<1>2. /\ work' \in Seq(Group) /\ Fits(g)'
      /\ \A of, i : Pending(of, i) => Pending(of, i)' \/ (of = Head(work).of /\ i = pos)
  BY <1>1, RestOfWork DEF Sane, Fits, Pending
<1>3. WorkType' /\ Within'
  BY <1>1, <1>2 DEF Sane, WorkType, Within
<1>4. ASSUME Owes(g), ~truncated' PROVE Covered(g)'
  <2>1. Covered(g) /\ TypeAt(g, pos) \in nodes
    BY <1>1, <1>4 DEF Owes
  <2>2. \A i \in DOMAIN g.locations : g.locations[i] \in nodes \/ Pending(Top, i)'
    BY <1>2, <2>1 DEF Covered, TypeAt, Members
  <2>3. \A t \in nodes \intersect g.asks : \A i \in DOMAIN g.kids[t] :
          <<t, i>> \in edges /\ (g.kids[t][i] \in nodes \/ Pending(t, i)')
    <3>1. Top \notin nodes
      BY TypeGraphAssumption DEF Sane, WorkType
    <3>2. QED
      BY <1>2, <2>1, <3>1 DEF Covered, TypeAt, Members
  <2>4. QED
    BY <1>1, <2>2, <2>3 DEF Covered
<1>5. QED
  BY <1>2, <1>3, <1>4 DEF Sane, Owes

\* What a visit keeps of the children: positions of the answer, within the room
\* that is left for edges.
LEMMA KeptFits ==
  ASSUME NEW g \in Graph, Sane(g), NEW t \in Type, NEW offered \in SUBSET (DOMAIN g.kids[t])
  PROVE  LET kept == FirstOf(Fitting(g, t, offered), MaxEdges - Cardinality(edges))
         IN  /\ kept \subseteq offered /\ kept \in SUBSET Nat /\ IsFiniteSet(kept)
             /\ Cardinality(kept) <= MaxEdges - Cardinality(edges)
<1> DEFINE room == MaxEdges - Cardinality(edges)
           S == Fitting(g, t, offered)
<1>1. room \in Nat
  BY FS_CardinalityType, TypeGraphAssumption DEF Sane, Within
<1>2. PICK len \in Nat : DOMAIN g.kids[t] = 1 .. len
  BY DEF Graph
<1>3. S \subseteq offered
  BY DEF Fitting
<1>4. S \in SUBSET (1 .. len)
  BY <1>2, <1>3
<1> HIDE DEF S, room
<1>5. /\ FirstOf(S, room) \subseteq S /\ IsFiniteSet(FirstOf(S, room))
      /\ Cardinality(FirstOf(S, room)) <= room
  BY <1>1, <1>2, <1>4, FirstOfBounded
<1> DEFINE F == FirstOf(S, room)
<1>6. F \subseteq S /\ IsFiniteSet(F) /\ Cardinality(F) <= room
  BY <1>5
<1> HIDE DEF F
<1>7. F \subseteq offered /\ F \subseteq 1 .. len
  BY <1>3, <1>4, <1>6
<1>8. F \in SUBSET Nat
  BY <1>2, <1>7
<1>9. QED
  BY <1>6, <1>7, <1>8 DEF F, S, room

\* build_types/10: with a type come all its children or a mark that some are
\* left out, unless some are lost, and there is room for what is kept.
LEMMA VisitKeeps ==
  ASSUME NEW g \in Graph, Sane(g), NEW pos \in Due, NEW odd \in BOOLEAN, NEW lost,
         ~Skips(g, pos), Visit(g, pos, odd, lost)
  PROVE  Sane(g)' /\ (Owes(g) /\ lost = {} => Owes(g)')
<1> DEFINE offering == IF AsksChildren(g, pos) /\ ~odd THEN DOMAIN g.kids[TypeAt(g, pos)] \ lost ELSE {}
           keeping == FirstOf(Fitting(g, TypeAt(g, pos), offering), MaxEdges - Cardinality(edges))
<1>a. PICK t, offered, kept : t = TypeAt(g, pos) /\ offered = offering /\ kept = keeping
  OBVIOUS
<1> DEFINE new == {t} \X kept
<1>1. /\ nodes' = nodes \union {t} /\ edges' = edges \union new
      /\ work' = Grouped(t, kept, Head(work).depth + 1) \o Rest(pos)
      /\ truncated' = (truncated \/ (t \in g.asks /\ lost = {} /\ (Deep \/ odd)) \/ kept # offered)
  BY <1>a DEF Visit
<1>2. t \in Type /\ t \notin nodes /\ Cardinality(nodes) < MaxTypes
  <2>1. Cardinality(nodes) \in Nat /\ MaxTypes \in Nat
    BY FS_CardinalityType, TypeGraphAssumption DEF Sane, Within
  <2>2. QED
    BY <1>a, <2>1, DueIsEntry DEF Skips, Sane
<1>3. offered \subseteq DOMAIN g.kids[t]
  BY <1>a
<1>4. t \in g.asks /\ ~Deep /\ ~odd /\ lost = {} => offered = DOMAIN g.kids[t]
  BY <1>a DEF AsksChildren
<1>5. t = Members(g, Head(work).of)[pos]
  BY <1>a DEF TypeAt
<1>b. kept = FirstOf(Fitting(g, t, offered), MaxEdges - Cardinality(edges))
  BY <1>a
<1>6. /\ kept \subseteq offered /\ kept \in SUBSET Nat /\ IsFiniteSet(kept)
      /\ Cardinality(kept) <= MaxEdges - Cardinality(edges)
  BY <1>2, <1>3, <1>b, KeptFits
<1>7. /\ work' \in Seq(Group) /\ Fits(g)'
      /\ \A of, i : Pending(of, i) => Pending(of, i)' \/ (of = Head(work).of /\ i = pos)
      /\ \A i \in kept : Pending(t, i)'
  <2>1. WorkType /\ Fits(g) /\ kept \subseteq DOMAIN g.kids[t]
    BY <1>3, <1>6 DEF Sane
  <2>2. QED
    BY <1>1, <1>2, <1>6, <2>1, WorkGrows
<1>8. WorkType'
  BY <1>1, <1>2, <1>6, <1>7 DEF Sane, WorkType
<1>9. Within'
  <2>1. IsFiniteSet(nodes') /\ Cardinality(nodes') = Cardinality(nodes) + 1
    BY <1>1, <1>2, FS_AddElement DEF Sane, Within
  <2>2. IsFiniteSet(new) /\ Cardinality(new) = Cardinality(kept)
    <3>1. IsFiniteSet({t}) /\ Cardinality({t}) = 1
      BY FS_Singleton
    <3>2. IsFiniteSet(new) /\ Cardinality(new) = Cardinality({t}) * Cardinality(kept)
      BY <1>6, <3>1, FS_Product
    <3>3. Cardinality(kept) \in Nat
      BY <1>6, FS_CardinalityType
    <3> HIDE DEF new
    <3>4. QED
      BY <3>1, <3>2, <3>3
  <2> HIDE DEF new
  <2>3. IsFiniteSet(edges') /\ Cardinality(edges') <= Cardinality(edges) + Cardinality(new)
    <3>1. Cardinality(edges \intersect new) \in Nat /\ Cardinality(edges) \in Nat
          /\ Cardinality(new) \in Nat
      BY <2>2, FS_Intersection, FS_CardinalityType DEF Sane, Within
    <3>2. /\ IsFiniteSet(edges \union new)
          /\ Cardinality(edges \union new)
               = Cardinality(edges) + Cardinality(new) - Cardinality(edges \intersect new)
      BY <2>2, FS_Union DEF Sane, Within
    <3>3. edges' = edges \union new
      BY <1>1
    <3>4. QED
      BY <3>1, <3>2, <3>3
  <2>4. Cardinality(nodes) \in Nat /\ Cardinality(edges) \in Nat /\ Cardinality(kept) \in Nat
        /\ MaxTypes \in Nat /\ MaxEdges \in Nat /\ Cardinality(edges') \in Nat
    BY <1>6, <2>3, FS_CardinalityType, TypeGraphAssumption DEF Sane, Within
  <2>5. QED
    BY <1>2, <1>6, <2>1, <2>2, <2>3, <2>4 DEF Within
<1>10. ASSUME Owes(g), lost = {}, ~truncated' PROVE Covered(g)'
  <2>1. Covered(g) /\ kept = offered /\ (t \in g.asks => kept = DOMAIN g.kids[t])
    BY <1>1, <1>4, <1>10 DEF Owes
  <2>2. ASSUME NEW i \in DOMAIN g.locations
        PROVE  g.locations[i] \in nodes' \/ Pending(Top, i)'
    BY <1>1, <1>5, <1>7, <2>1 DEF Covered, Members
  <2>3. ASSUME NEW u \in nodes' \intersect g.asks, NEW i \in DOMAIN g.kids[u]
        PROVE  <<u, i>> \in edges' /\ (g.kids[u][i] \in nodes' \/ Pending(u, i)')
    <3>1. CASE u = t
      <4>1. i \in kept
        BY <2>1, <2>3, <3>1
      <4>2. <<t, i>> \in new
        BY <4>1
      <4>3. QED
        BY <1>1, <1>7, <3>1, <4>1, <4>2
    <3>2. CASE u # t
      <4>1. u \in nodes /\ u # Top
        BY <1>1, <2>3, <3>2, TypeGraphAssumption DEF Sane, WorkType
      <4>2. <<u, i>> \in edges /\ (g.kids[u][i] \in nodes \/ Pending(u, i))
        BY <2>1, <2>3, <4>1 DEF Covered
      <4>3. QED
        BY <1>1, <1>5, <1>7, <4>1, <4>2 DEF Members
    <3>3. QED
      BY <3>1, <3>2
  <2>4. QED
    BY <2>2, <2>3 DEF Covered
<1>11. QED
  BY <1>7, <1>8, <1>9, <1>10 DEF Sane, Owes

\* When nothing is left to do and nothing was left out, the graph is whole.
LEMMA DoneIsWhole ==
  ASSUME NEW g, Owes(g), ~truncated, work = << >>
  PROVE  IsWhole(g)
<1>1. Elems(work) = {}
  BY DEF Elems
<1>2. QED
  BY <1>1 DEF Owes, Covered, Pending, IsWhole

------------------------------------------------------------------------------
(* The project *)

Bare == work = << >> /\ nodes = {} /\ edges = {} /\ truncated = FALSE

\* A port is open only at a project, and only of this port is data taken.
OneSession ==
  /\ port # NoPort => Probing \/ Analysing
  /\ session.from \subseteq {port}
  /\ port = NoPort => session = NoSession /\ peer = NoPeer /\ Bare

\* Before the locations are known, and where there are none to ask about, the
\* graph is empty.
Early == session.step < Located \/ session.files = 0

\* No element of a list of types was malformed.
Straight == "types" \notin session.bent

\* How far a session is, and what its graph owes.
Progress ==
  port # NoPort =>
    /\ session.step < Last => session.files = 0
    /\ Kind # "native" => Bare /\ session.files = 0
    /\ Kind = "probe" /\ session.end = NotYet => session.step < Last
    /\ Kind = "native" =>
         /\ session.step <= Located + 1
         /\ Early => Bare /\ session.step <= Located
         /\ ~Early => Sane(Current.graph) /\ (Straight => Owes(Current.graph))
         /\ session.step > Located \/ (session.step = Located /\ session.asked) =>
              \A pos \in Due : ~Skips(Current.graph, pos)
         /\ session.end = "ok" => session.step = Located /\ work = << >> /\ ~truncated

\* What is said of the projects so far.
Books ==
  /\ phase \in {"begin", "before"} => results = << >>
  /\ phase = "begin" => at = 1
  /\ phase \in {"begin", "before", "projects"} => summary = "none"
  /\ phase = "projects" => Len(results) = at - 1
  /\ Len(evidence) = Len(results)

\* The compilers and the readings of the sources have seen the files as they
\* are in t, or nothing.
SeenOnly(t) ==
  /\ \A k \in DOMAIN views : {views[k].compiler, views[k].sources} \subseteq {t, NoTree}
  /\ Analysing => {peer.compiler, session.sources} \subseteq {t, NoTree}

Digests ==
  /\ before = [digest |-> before.digest, names |-> before.names]
  /\ now = [digest |-> now.digest, names |-> now.names]
  /\ {before.digest, now.digest} \subseteq Tree \union {NoTree}

\* While the files have changed once at most, they are as they were first
\* observed only if they have not changed since, and then all that was seen is
\* that state.
OneTree ==
  /\ phase \in {"begin", "before"} => views = << >> /\ before.digest = NoTree
  /\ phase \in {"begin", "projects"} => now.digest = NoTree
  /\ phase = "before" => now.digest # NoTree
  /\ phase # "over" => candidate = NoTree
  /\ edits = 0 => {before.digest, now.digest} \subseteq {tree, NoTree}
  /\ phase = "projects" /\ edits < 2 /\ before.digest = tree => SeenOnly(tree)
  /\ phase = "after" /\ edits < 2 /\ now.digest = before.digest => SeenOnly(now.digest)

IInv == /\ WorldType /\ SessionType /\ ResultType /\ Digests
        /\ OneSession /\ Progress /\ Books /\ OneTree /\ OkIsWhole /\ CandidateIsOneTree

------------------------------------------------------------------------------
(* Facts about the settings *)

LEMMA Settings ==
  ASSUME setup \in Setup
  PROVE  /\ setup.projects \in Seq(Project) /\ Len(setup.projects) \in Nat
         /\ setup.edits \in Nat /\ setup.faults \in Nat /\ setup.cuts \in Nat
         /\ setup.tree \in Tree /\ setup.enabled \in BOOLEAN /\ setup.capture \in BOOLEAN
         /\ \A k \in DOMAIN setup.projects :
              setup.projects[k].files = 0 => setup.projects[k].graph.locations = << >>
  BY TsAssumption

LEMMA CurrentProject ==
  ASSUME WorldType, at <= Len(setup.projects)
  PROVE  /\ Current \in Project /\ Current.graph \in Graph /\ Current.files \in Nat
         /\ Current.files = 0 => Current.graph.locations = << >>
         /\ Current.report \in Status
<1>1. at \in DOMAIN setup.projects
  BY Settings DEF WorldType
<1>2. setup.projects \in Seq(Project) /\ setup.projects[at] \in Project
  BY <1>1, Settings DEF WorldType
<1>3. setup.projects[at].files = 0 => setup.projects[at].graph.locations = << >>
  BY <1>1, Settings DEF WorldType
<1>4. QED
  BY <1>2, <1>3 DEF Current, Project

LEMMA LastIs == Last = 4
  BY DEF Last, Opening

LEMMA LocatedIs == Located = 4 + 2 * session.files + 2 * session.files
  BY LastIs DEF Located, Diagnosed

LEMMA Names ==
  ASSUME session.step \in Nat, session.step < Last
  PROVE  Request = "getSourceFileNames" <=> session.step = 3
<1>1. session.step \in {0, 1, 2, 3}
  BY LastIs
<1>2. session.step + 1 <= Last /\ Request = Opening[session.step + 1]
  BY <1>1, LastIs DEF Request
<1>3. QED
  BY <1>1, <1>2 DEF Opening

\* An empty graph owes nothing to a project without locations.
LEMMA EmptyOwesNothing ==
  ASSUME NEW g, Bare, g.locations = << >>
  PROVE  IsWhole(g)
  BY DEF Bare, IsWhole

------------------------------------------------------------------------------
(* The initial state *)

LEMMA InitInv == Init => IInv
<1> SUFFICES ASSUME Init PROVE IInv
  OBVIOUS
<1>1. WorldType
  BY Settings DEF Init, WorldType, Phases
<1>2. SessionType
  BY DEF Init, SessionType, NoPort, NoSession, NoPeer, Cut, Unread, NotYet
<1>3. ResultType
  BY DEF Init, ResultType
<1>4. Digests
  BY DEF Init, Digests, Nothing
<1>5. OneSession
  BY DEF Init, OneSession, NoSession, Bare
<1>6. Progress /\ Books
  BY DEF Init, Progress, Books
<1>7. OneTree /\ CandidateIsOneTree
  BY DEF Init, OneTree, CandidateIsOneTree, Nothing, SeenOnly, Analysing
<1>8. OkIsWhole
  BY DEF Init, OkIsWhole
<1>9. QED
  BY <1>1, <1>2, <1>3, <1>4, <1>5, <1>6, <1>7, <1>8 DEF IInv

------------------------------------------------------------------------------
(* Steps within a session *)

LEMMA SameProject ==
  ASSUME UNCHANGED <<setup, phase, at>>
  PROVE  Kind' = Kind /\ Current' = Current /\ Probing' = Probing /\ Analysing' = Analysing
  BY DEF Kind, Current, Probing, Analysing

LEMMA SameGraph ==
  ASSUME NEW g, UNCHANGED graphVars
  PROVE  /\ Sane(g)' = Sane(g) /\ Owes(g)' = Owes(g) /\ Bare' = Bare /\ Due' = Due
         /\ \A pos : Skips(g, pos)' = Skips(g, pos)
<1>1. work' = work /\ nodes' = nodes /\ edges' = edges /\ truncated' = truncated
  BY DEF graphVars
<1>2. Sane(g)' = Sane(g)
  BY <1>1 DEF Sane, WorkType, Fits, Within, Elems
<1>3. Owes(g)' = Owes(g)
  BY <1>1 DEF Owes, Covered, Pending, Elems
<1>4. Bare' = Bare /\ Due' = Due /\ \A pos : Skips(g, pos)' = Skips(g, pos)
  BY <1>1 DEF Bare, Due, Skips, TypeAt
<1>5. QED
  BY <1>2, <1>3, <1>4

LEMMA SpentFaults ==
  ASSUME WorldType, UNCHANGED setup, Faulty \/ Fine
  PROVE  faults' \in 0 .. setup.faults
  BY Settings DEF WorldType, Faulty, Fine

\* Nothing about the graph happens while a session only waits or ends.
LEMMA QuietProgress ==
  ASSUME Progress, UNCHANGED <<setup, phase, at, port, graphVars>>,
         session'.step = session.step, session'.files = session.files,
         session'.bent = session.bent, session'.asked => session.asked,
         session'.end = "ok" => session.end = "ok" \/ Kind # "native",
         session'.end = NotYet => session.end = NotYet
  PROVE  Progress'
<1> SUFFICES ASSUME port # NoPort PROVE Progress'
  BY DEF Progress
<1> PICK g : g = Current.graph
  OBVIOUS
<1>1. Kind' = Kind /\ Current' = Current
  BY SameProject
<1>2. Sane(g)' = Sane(g) /\ Owes(g)' = Owes(g) /\ Bare' = Bare /\ Due' = Due
      /\ \A pos : Skips(g, pos)' = Skips(g, pos)
  BY SameGraph
<1>3. Located' = Located /\ Early' = Early /\ Straight' = Straight
  BY DEF Located, Diagnosed, Early, Straight
<1>4. work' = work /\ truncated' = truncated
  BY DEF graphVars
<1>5. QED
  BY <1>1, <1>2, <1>3, <1>4 DEF Progress

\* The rest of the invariant, when only a session goes on.
LEMMA WithinSession ==
  ASSUME IInv, UNCHANGED <<world, control, port, opened, record>>, port # NoPort,
         faults' \in 0 .. setup.faults, cuts' \in 0 .. setup.cuts,
         SessionType', Progress', session'.from \subseteq {port},
         peer'.compiler \in {peer.compiler, tree}, session'.sources \in {session.sources, tree}
  PROVE  IInv'
<1>1. /\ setup' = setup /\ tree' = tree /\ edits' = edits /\ phase' = phase /\ at' = at
      /\ port' = port /\ views' = views /\ results' = results /\ evidence' = evidence
      /\ before' = before /\ now' = now /\ candidate' = candidate /\ summary' = summary
  BY DEF world, control, record
<1>2. Kind' = Kind /\ Current' = Current /\ Probing' = Probing /\ Analysing' = Analysing
  BY <1>1, SameProject
<1>3. WorldType' /\ ResultType' /\ Digests' /\ Books'
  BY <1>1 DEF IInv, WorldType, ResultType, Digests, Books
<1>4. OneSession'
  BY <1>1, <1>2 DEF IInv, OneSession
<1>5. OneTree'
  <2>1. ASSUME NEW t, SeenOnly(t), t = tree \/ phase = "after"
        PROVE  SeenOnly(t)'
    <3>1. ~Analysing \/ t = tree
      BY <2>1 DEF Analysing
    <3>2. \A k \in DOMAIN views : {views[k].compiler, views[k].sources} \subseteq {t, NoTree}
      BY <2>1 DEF SeenOnly
    <3>3. Analysing => {peer'.compiler, session'.sources} \subseteq {t, NoTree}
      BY <2>1, <3>1 DEF SeenOnly
    <3>4. QED
      BY <1>1, <1>2, <3>2, <3>3 DEF SeenOnly
  <2>2. PICK t, d : t = tree /\ d = now.digest
    OBVIOUS
  <2>3. SeenOnly(t) => SeenOnly(t)'
    BY <2>1, <2>2
  <2>4. phase = "after" /\ SeenOnly(d) => SeenOnly(d)'
    BY <2>1
  <2>5. SeenOnly(tree)' = SeenOnly(t)' /\ SeenOnly(now.digest)' = SeenOnly(d)'
    BY <1>1, <2>2
  <2>6. QED
    BY <1>1, <2>2, <2>3, <2>4, <2>5 DEF IInv, OneTree
<1>6. OkIsWhole' /\ CandidateIsOneTree'
  BY <1>1 DEF IInv, OkIsWhole, CandidateIsOneTree
<1>7. QED
  BY <1>3, <1>4, <1>5, <1>6 DEF IInv

\* What ends a session, but not well.
LEMMA EndWithInv ==
  ASSUME IInv, UNCHANGED <<world, control, port, opened, record, graphVars>>, Waiting,
         UNCHANGED <<faults, cuts, peer>>,
         mail' \in Seq([port : 1 .. opened, kind : Kinds, to : Cut]),
         NEW end \in Status \union Errors, end = "ok" => Kind # "native", EndWith(end)
  PROVE  IInv'
<1>1. session.end = NotYet /\ port # NoPort
  BY DEF Waiting
<1>2. SessionType'
  BY DEF IInv, SessionType, EndWith
<1>3. /\ session'.step = session.step /\ session'.files = session.files
      /\ ~session'.asked /\ session'.end = end /\ session'.from = session.from
      /\ session'.sources = session.sources /\ session'.bent = session.bent
  BY DEF IInv, SessionType, EndWith
<1>4. end # NotYet
  BY DEF Status, Errors, NotYet
<1>5. Progress'
  BY <1>3, <1>4, QuietProgress DEF IInv, control, world
<1>6. session'.from \subseteq {port}
  BY <1>3 DEF IInv, OneSession
<1>7. faults' \in 0 .. setup.faults /\ cuts' \in 0 .. setup.cuts
  BY DEF IInv, WorldType
<1>8. QED
  BY <1>1, <1>2, <1>3, <1>5, <1>6, <1>7, WithinSession

Message == [port : 1 .. opened, kind : Kinds, to : Cut]

LEMMA WithoutType ==
  ASSUME SessionType, NEW k \in DOMAIN mail
  PROVE  mail[k] \in Message /\ Without(k) \in Seq(Message)
<1>1. mail \in Seq(Message) /\ k \in 1 .. Len(mail)
  BY DEF SessionType, Message
<1>2. SubSeq(mail, 1, k - 1) \in Seq(Message) /\ SubSeq(mail, k + 1, Len(mail)) \in Seq(Message)
  BY <1>1
<1>3. QED
  BY <1>1, <1>2 DEF Without

LEMMA TimeoutInv == ASSUME IInv, Timeout PROVE IInv'
<1>1. UNCHANGED <<port, opened>> /\ "timeout" \in Status \union Errors
  BY DEF Timeout, Errors
<1>2. mail' \in Seq([port : 1 .. opened, kind : Kinds, to : Cut])
  BY DEF IInv, SessionType, Timeout
<1>3. QED
  BY <1>1, <1>2, EndWithInv DEF Timeout

LEMMA ReceiveWorkerInv == ASSUME IInv, ReceiveWorker PROVE IInv'
<1>1. PICK k \in DOMAIN mail :
        /\ IsFirst(k) /\ mail' = Without(k)
        /\ CASE mail[k].kind = "flood" -> EndWith("output_limit")
             [] mail[k].kind = "exit" ->
                  EndWith(IF session.got = All /\ ~session.odd THEN Current.report
                          ELSE "worker_crash")
             [] mail[k].kind \in {"data", "odd", "refusal"} ->
                  session' = [session EXCEPT !.got = mail[k].to, !.odd = (mail[k].kind # "data"),
                                             !.from = @ \union {mail[k].port}]
  BY DEF ReceiveWorker
<1>2. /\ UNCHANGED <<world, faults, cuts, control, port, opened, peer, record, graphVars>>
      /\ Waiting /\ Kind = "node" /\ port # NoPort
  BY DEF ReceiveWorker, Waiting
<1>3. mail' \in Seq(Message) /\ mail[k] \in Message
  BY <1>1, WithoutType DEF IInv
<1>4. at <= Len(setup.projects)
  BY <1>2 DEF IInv, OneSession, Probing, Analysing
<1>5. Current.report \in Status
  BY <1>4, CurrentProject DEF IInv
<1>6. CASE \E end \in Status \union Errors : EndWith(end)
  BY <1>2, <1>3, <1>6, EndWithInv DEF Message
<1>7. CASE session' = [session EXCEPT !.got = mail[k].to, !.odd = (mail[k].kind # "data"),
                                      !.from = @ \union {mail[k].port}]
  <2>1. mail[k].port = port /\ mail[k].to \in Cut /\ mail[k].port \in 1 .. opened
    BY <1>1, <1>3 DEF IsFirst, IsOwn, Message
  <2>2. SessionType'
    BY <1>2, <1>3, <1>7, <2>1 DEF IInv, SessionType, Message
  <2>3. /\ session'.step = session.step /\ session'.files = session.files
        /\ session'.asked = session.asked /\ session'.end = session.end
        /\ session'.from = session.from \union {port} /\ session'.sources = session.sources
        /\ session'.bent = session.bent
    BY <1>7, <2>1 DEF IInv, SessionType
  <2>4. Progress'
    BY <1>2, <2>3, QuietProgress DEF IInv, control, world
  <2>5. session'.from \subseteq {port}
    BY <2>3 DEF IInv, OneSession
  <2>6. faults' \in 0 .. setup.faults /\ cuts' \in 0 .. setup.cuts
    BY <1>2 DEF IInv, WorldType
  <2>7. QED
    BY <1>2, <2>2, <2>3, <2>4, <2>5, <2>6, WithinSession
<1>8. mail[k].kind \in Kinds
  BY <1>3 DEF Message
<1>9. QED
  BY <1>1, <1>5, <1>6, <1>7, <1>8 DEF Kinds, Errors

LEMMA PeerInv ==
  ASSUME IInv, Answer \/ Misanswer \/ Exit \/ Expire
  PROVE  IInv'
<1>1. UNCHANGED <<world, control, port, opened, record, graphVars>> /\ port # NoPort
  BY DEF Answer, Misanswer, Exit, Expire, PeerFrame, Alive, Waiting
<1>2. port \in 1 .. opened
  BY <1>1 DEF IInv, SessionType, NoPort
<1>3. ASSUME NEW kind \in Kinds, NEW to \in Cut, Send(kind, to)
      PROVE  mail' \in Seq([port : 1 .. opened, kind : Kinds, to : Cut])
  BY <1>2, <1>3 DEF Send, IInv, SessionType
<1>4. Reads \in {peer.compiler, tree}
  BY DEF Reads
<1>5. All \in Cut /\ Unread \in Cut /\ tree \in Tree
  BY DEF All, Unread, Cut, IInv, WorldType
<1>6. /\ SessionType' /\ cuts' \in 0 .. setup.cuts /\ (Faulty \/ Fine)
      /\ peer'.compiler \in {peer.compiler, tree}
      /\ session' = session \/ session' = [session EXCEPT !.late = TRUE]
  <2>1. CASE Answer
    <3>1. PICK to \in Cut :
            /\ IF to = All THEN UNCHANGED cuts ELSE cuts < setup.cuts /\ cuts' = cuts + 1
            /\ Send("data", to)
            /\ peer' = [peer EXCEPT !.told = (to # All), !.sent = IF to = All THEN Unread ELSE to,
                                    !.compiler = Reads]
      BY <2>1 DEF Answer
    <3>2. cuts' \in 0 .. setup.cuts
      BY <3>1, Settings DEF IInv, WorldType
    <3>3. mail' \in Seq([port : 1 .. opened, kind : Kinds, to : Cut])
      BY <1>3, <3>1 DEF Kinds
    <3>4. SessionType'
      BY <1>1, <1>4, <1>5, <2>1, <3>1, <3>3 DEF Answer, IInv, SessionType
    <3>5. QED
      BY <1>4, <2>1, <3>1, <3>2, <3>4 DEF Answer, IInv, SessionType
  <2>2. CASE Misanswer
    <3>1. mail' \in Seq([port : 1 .. opened, kind : Kinds, to : Cut])
      BY <1>3, <1>5, <2>2 DEF Misanswer, Kinds
    <3>2. SessionType'
      BY <1>1, <1>4, <1>5, <2>2, <3>1 DEF Misanswer, IInv, SessionType
    <3>3. QED
      BY <1>4, <2>2, <3>2 DEF Misanswer, IInv, SessionType, WorldType
  <2>3. CASE Exit
    <3>1. mail' \in Seq([port : 1 .. opened, kind : Kinds, to : Cut])
      BY <1>3, <1>5, <2>3 DEF Exit, Kinds
    <3>2. SessionType'
      BY <1>1, <2>3, <3>1 DEF Exit, IInv, SessionType
    <3>3. QED
      BY <2>3, <3>2 DEF Exit, IInv, SessionType, WorldType
  <2>4. CASE Expire
    <3>1. SessionType'
      BY <1>1, <2>4 DEF Expire, IInv, SessionType
    <3>2. QED
      BY <2>4, <3>1 DEF Expire, Fine, IInv, SessionType, WorldType
  <2>5. QED
    BY <2>1, <2>2, <2>3, <2>4
<1>7. /\ session'.step = session.step /\ session'.files = session.files
      /\ session'.asked = session.asked /\ session'.end = session.end
      /\ session'.from = session.from /\ session'.sources = session.sources
      /\ session'.bent = session.bent
  BY <1>6 DEF IInv, SessionType
<1>8. Progress'
  BY <1>1, <1>7, QuietProgress DEF IInv, control, world
<1>9. faults' \in 0 .. setup.faults
  BY <1>1, <1>6, SpentFaults DEF IInv, world
<1>10. session'.from \subseteq {port}
  BY <1>7 DEF IInv, OneSession
<1>11. /\ peer'.compiler \in {peer.compiler, tree} /\ session'.sources \in {session.sources, tree}
       /\ cuts' \in 0 .. setup.cuts /\ SessionType'
  BY <1>6, <1>7
<1>12. UNCHANGED <<world, control, port, opened, record>> /\ port # NoPort
  BY <1>1
<1>13. QED
  BY <1>8, <1>9, <1>10, <1>11, <1>12, WithinSession

------------------------------------------------------------------------------
(* The graph of a session *)

LEMMA DueIsOne ==
  ASSUME NEW g, Sane(g), NEW p \in Due, NEW q \in Due
  PROVE  p = q
<1>1. work # << >> /\ {p, q} \subseteq Head(work).left /\ p <= q /\ q <= p
  BY DEF Due
<1>2. Head(work) \in Group
  BY <1>1 DEF Sane, WorkType
<1>3. p \in Nat /\ q \in Nat
  BY <1>1, <1>2 DEF Group
<1>4. QED
  BY <1>1, <1>3

LEMMA NothingDue ==
  ASSUME Bare
  PROVE  Due = {}
  BY DEF Bare, Due

\* An entry is due only in a graph of the native compiler, which is sane.
LEMMA EntryOfGraph ==
  ASSUME IInv, Waiting, NEW pos \in Due
  PROVE  /\ Kind = "native" /\ ~Early /\ Current.graph \in Graph
         /\ Sane(Current.graph) /\ (Straight => Owes(Current.graph))
<1>1. ~Bare /\ port # NoPort
  BY NothingDue DEF Waiting
<1>2. Kind = "native" /\ ~Early
  BY <1>1 DEF IInv, Progress
<1>3. Sane(Current.graph) /\ (Straight => Owes(Current.graph))
  BY <1>1, <1>2 DEF IInv, Progress
<1>4. at <= Len(setup.projects)
  BY <1>1 DEF IInv, OneSession, Probing, Analysing
<1>5. QED
  BY <1>2, <1>3, <1>4, CurrentProject DEF IInv

\* Numbers of a session.
LEMMA Steps ==
  ASSUME IInv
  PROVE  /\ session.step \in Nat /\ session.files \in Nat
         /\ Last = 4 /\ Located \in Nat /\ Located = 4 + 4 * session.files
<1>1. session.step \in Nat /\ session.files \in Nat
  BY DEF IInv, SessionType
<1>2. QED
  BY <1>1, LastIs, LocatedIs

LEMMA AskInv == ASSUME IInv, Ask PROVE IInv'
<1>1. /\ UNCHANGED <<world, faults, cuts, control, port, opened, mail, record, graphVars>>
      /\ Waiting /\ ~session.asked /\ port # NoPort /\ session.end = NotYet
  BY DEF Ask, Waiting
<1>2. faults' \in 0 .. setup.faults /\ cuts' \in 0 .. setup.cuts
  BY <1>1 DEF IInv, WorldType
<1>3. CASE peer.running
  <2>1. /\ session' = [session EXCEPT !.asked = TRUE, !.got = Unread]
        /\ peer' = [peer EXCEPT !.told = TRUE, !.sent = Unread]
    BY <1>3 DEF Ask
  <2>2. SessionType'
    <3>1. opened' = opened /\ port' = port /\ mail' = mail /\ 0 \in Cut
      BY <1>1 DEF Cut
    <3> HIDE DEF Cut
    <3>2. SessionType
      BY DEF IInv
    <3>3. QED
      BY <2>1, <3>1, <3>2 DEF SessionType, Unread
  <2>3. /\ session'.step = session.step /\ session'.files = session.files
        /\ session'.end = session.end /\ session'.from = session.from
        /\ session'.sources = session.sources /\ peer'.compiler = peer.compiler
        /\ session'.bent = session.bent
    BY <2>1 DEF IInv, SessionType
  <2>4. Progress'
    <3> PICK g : g = Current.graph
      OBVIOUS
    <3>1. Kind' = Kind /\ Current' = Current
      BY <1>1, SameProject DEF world, control
    <3>2. Sane(g)' = Sane(g) /\ Owes(g)' = Owes(g) /\ Bare' = Bare /\ Due' = Due
          /\ \A pos : Skips(g, pos)' = Skips(g, pos)
      BY <1>1, SameGraph
    <3>3. Located' = Located /\ Early' = Early /\ Straight' = Straight /\ port' = port
      BY <1>1, <2>3 DEF Located, Diagnosed, Early, Straight
    <3>4. ASSUME Kind = "native", session.step = Located, NEW pos \in Due
          PROVE  ~Skips(g, pos)
      <4>1. Sane(g)
        BY <1>1, EntryOfGraph
      <4>2. \E q \in Due : ~Skips(g, q)
        BY <1>1, <3>4 DEF Ask, AtEntry
      <4>3. QED
        BY <4>1, <4>2, DueIsOne
    <3>5. work' = work /\ truncated' = truncated
      BY <1>1 DEF graphVars
    <3>6. session.step > Located => \A pos \in Due : ~Skips(g, pos)
      BY <1>1, EntryOfGraph DEF IInv, Progress
    <3>7. QED
      BY <1>1, <2>3, <3>1, <3>2, <3>3, <3>4, <3>5, <3>6 DEF IInv, Progress
  <2>5. session'.from \subseteq {port}
    BY <2>3 DEF IInv, OneSession
  <2>6. QED
    BY <1>1, <1>2, <2>2, <2>3, <2>4, <2>5, WithinSession
<1>4. CASE ~peer.running
  <2>1. EndWith("worker_start") /\ UNCHANGED peer
    BY <1>4 DEF Ask
  <2>2. mail' \in Seq([port : 1 .. opened, kind : Kinds, to : Cut])
    BY <1>1 DEF IInv, SessionType
  <2>3. QED
    BY <1>1, <2>1, <2>2, EndWithInv DEF Errors
<1>5. QED
  BY <1>3, <1>4

LEMMA SkipEntryInv == ASSUME IInv, SkipEntry PROVE IInv'
<1>1. /\ UNCHANGED <<world, faults, cuts, control, port, opened, session, peer, mail, record>>
      /\ Waiting /\ port # NoPort /\ session.step = Located /\ ~session.asked
  BY DEF SkipEntry, AtEntry, Waiting
<1> PICK g : g = Current.graph
  OBVIOUS
<1>2. PICK pos \in Due : Skip(g, pos)
  BY DEF SkipEntry
<1>3. Kind = "native" /\ ~Early /\ g \in Graph /\ Sane(g) /\ (Straight => Owes(g))
  BY <1>1, EntryOfGraph
<1>4. Sane(g)' /\ (Straight => Owes(g)')
  BY <1>2, <1>3, SkipKeeps
<1>5. Kind' = Kind /\ Current' = Current
  BY <1>1, SameProject DEF world, control
<1>6. /\ Located' = Located /\ Early' = Early /\ Straight' = Straight
      /\ port' = port /\ session' = session
  BY <1>1 DEF Located, Diagnosed, Early, Straight
<1>7. session.end # "ok"
  BY <1>1 DEF Waiting, NotYet
<1>8. Progress'
  BY <1>1, <1>3, <1>4, <1>5, <1>6, <1>7, Steps DEF IInv, Progress
<1>9. SessionType'
  BY <1>1 DEF IInv, SessionType
<1>10. /\ session'.from \subseteq {port} /\ peer'.compiler = peer.compiler
       /\ session'.sources = session.sources
       /\ faults' \in 0 .. setup.faults /\ cuts' \in 0 .. setup.cuts
  BY <1>1 DEF IInv, WorldType, OneSession
<1>11. QED
  BY <1>1, <1>8, <1>9, <1>10, WithinSession

LEMMA EndGraphInv == ASSUME IInv, EndGraph PROVE IInv'
<1>1. /\ UNCHANGED <<world, faults, cuts, control, port, opened, peer, mail, record, graphVars>>
      /\ Waiting /\ port # NoPort /\ session.step = Located /\ ~session.asked
      /\ session.end = NotYet /\ Kind = "native" /\ work = << >>
      /\ EndWith(IF truncated THEN "partial" ELSE "ok") \/ EndWith("worker_crash")
  BY DEF EndGraph, AtEntry, Waiting
<1>2. /\ session'.step = session.step /\ session'.files = session.files
      /\ ~session'.asked /\ session'.from = session.from /\ session'.sources = session.sources
      /\ session'.end = "ok" => ~truncated
      /\ session'.end \in Status \union Errors /\ session'.bent = session.bent
  BY <1>1 DEF IInv, SessionType, EndWith, Status, Errors
<1>3. SessionType'
  BY <1>1 DEF IInv, SessionType, EndWith, Status, Errors
<1>4. Progress'
  <2> PICK g : g = Current.graph
    OBVIOUS
  <2>1. Kind' = Kind /\ Current' = Current
    BY <1>1, SameProject DEF world, control
  <2>2. Sane(g)' = Sane(g) /\ Owes(g)' = Owes(g) /\ Bare' = Bare /\ Due' = Due
        /\ \A pos : Skips(g, pos)' = Skips(g, pos)
    BY <1>1, SameGraph
  <2>3. Located' = Located /\ Early' = Early /\ Straight' = Straight /\ port' = port
    BY <1>1, <1>2 DEF Located, Diagnosed, Early, Straight
  <2>4. work' = work /\ truncated' = truncated
    BY <1>1 DEF graphVars
  <2>5. QED
    BY <1>1, <1>2, <2>1, <2>2, <2>3, <2>4 DEF IInv, Progress
<1>5. /\ session'.from \subseteq {port} /\ peer'.compiler = peer.compiler
      /\ faults' \in 0 .. setup.faults /\ cuts' \in 0 .. setup.cuts
  BY <1>1, <1>2 DEF IInv, WorldType, OneSession
<1>6. QED
  BY <1>1, <1>2, <1>3, <1>4, <1>5, WithinSession

------------------------------------------------------------------------------
(* Answers *)

\* A session that has taken a whole answer.
Took ==
  session' = [Taken(port) EXCEPT !.step = session'.step, !.odd = session'.odd,
                !.bent = session'.bent, !.files = session'.files, !.end = session'.end, !.sources = session'.sources]

LEMMA TookFrame ==
  ASSUME IInv, port # NoPort, UNCHANGED <<port, opened, peer>>, mail' \in Seq(Message), Took,
         session'.step \in Nat, session'.files \in Nat, session'.odd \in BOOLEAN,
         session'.bent \in SUBSET {"result", "types"},
         session'.end \in Status \union Errors \union {NotYet},
         session'.sources \in Tree \union {NoTree}
  PROVE  SessionType' /\ ~session'.asked /\ session'.from \subseteq {port}
<1>1. port \in 1 .. opened /\ SessionType /\ session.from \subseteq {port}
  BY DEF IInv, SessionType, OneSession, NoPort
<1>2. 0 \in Cut
  BY DEF Cut
<1>3. session' = [session EXCEPT !.asked = FALSE, !.got = 0, !.step = session'.step,
                   !.odd = session'.odd, !.bent = session'.bent,
                   !.files = session'.files, !.end = session'.end,
                   !.sources = session'.sources, !.from = @ \union {port}]
  BY <1>1 DEF Took, Taken, SessionType, Unread
<1>4. session.from \union {port} \in SUBSET (1 .. opened)
  BY <1>1 DEF SessionType
<1> HIDE DEF Cut
<1>5. session' \in [step : Nat, asked : BOOLEAN, got : Cut, odd : BOOLEAN,
                    bent : SUBSET {"result", "types"}, files : Nat, late : BOOLEAN,
                    end : Status \union Errors \union {NotYet}, from : SUBSET (1 .. opened), sources : Tree \union {NoTree}]
  BY <1>1, <1>2, <1>3, <1>4 DEF SessionType
<1>6. SessionType'
  BY <1>1, <1>5 DEF SessionType, Message
<1>7. QED
  BY <1>1, <1>3, <1>6 DEF SessionType

\* A message is taken, whatever it leads to.
Hearing ==
  /\ Waiting /\ session.asked /\ Kind # "node" /\ mail' \in Seq(Message)
  /\ UNCHANGED <<world, faults, cuts, control, port, opened, peer, record>>

LEMMA HearingFrame ==
  ASSUME IInv, Hearing
  PROVE  /\ port # NoPort /\ session.end = NotYet /\ port' = port /\ opened' = opened
         /\ peer' = peer /\ Kind' = Kind /\ Current' = Current
         /\ at <= Len(setup.projects) /\ tree \in Tree
         /\ session.odd \in BOOLEAN /\ session.bent \in SUBSET {"result", "types"}
         /\ session.sources \in Tree \union {NoTree}
         /\ faults' \in 0 .. setup.faults /\ cuts' \in 0 .. setup.cuts
<1>1. UNCHANGED <<setup, phase, at>>
  BY DEF Hearing, world, control
<1>2. port # NoPort
  BY DEF Hearing, Waiting
<1>3. QED
  BY <1>1, <1>2, SameProject DEF Hearing, Waiting, IInv, WorldType, OneSession, Probing, Analysing,
                                 SessionType

LEMMA BadAnswerInv ==
  ASSUME IInv, Hearing, UNCHANGED graphVars, NEW end \in Errors, EndWith(end)
  PROVE  IInv'
<1>1. /\ UNCHANGED <<world, control, port, opened, record, graphVars>>
      /\ UNCHANGED <<faults, cuts, peer>> /\ Waiting
  BY DEF Hearing
<1>2. mail' \in Seq([port : 1 .. opened, kind : Kinds, to : Cut])
  BY DEF Hearing, Message
<1>3. end \in Status \union Errors /\ end # "ok"
  BY DEF Errors
<1>4. QED
  BY <1>1, <1>2, <1>3, EndWithInv

\* The step is taken, and the graph is known to be in order.
LEMMA HeardInv ==
  ASSUME IInv, Hearing, SessionType', Progress', session'.from \subseteq {port},
         session'.sources \in {session.sources, tree}
  PROVE  IInv'
<1>1. UNCHANGED <<world, control, port, opened, record>> /\ port # NoPort
  BY DEF Hearing, Waiting
<1>2. peer'.compiler \in {peer.compiler, tree}
      /\ faults' \in 0 .. setup.faults /\ cuts' \in 0 .. setup.cuts
  BY HearingFrame
<1>3. QED
  BY <1>1, <1>2, WithinSession

LEMMA OpeningInv ==
  ASSUME IInv, Hearing, NEW odd \in BOOLEAN, AcceptOpening(port, odd)
  PROVE  IInv'
<1> DEFINE names == Request = "getSourceFileNames"
           bent == IF odd /\ Request = "updateSnapshot" THEN {"result"} ELSE session.bent
           files == IF names /\ Kind = "native" /\ ~odd THEN Current.files ELSE 0
           end == IF names /\ Kind = "probe" THEN "ok" ELSE NotYet
<1>1. /\ session.step < Last /\ UNCHANGED graphVars
      /\ \/ EndWith("worker_crash")
         \/ session' = [Taken(port) EXCEPT !.bent = bent, !.files = files, !.end = end]
  BY DEF AcceptOpening, Taken, IInv, SessionType
<1>2. names <=> session.step = 3
  BY <1>1, Names, Steps
<1>3. CASE EndWith("worker_crash")
  BY <1>1, <1>3, BadAnswerInv DEF Errors
<1>4. ASSUME session' = [Taken(port) EXCEPT !.bent = bent, !.files = files, !.end = end]
      PROVE  IInv'
  <2>1. PICK b, f, e : b = bent /\ f = files /\ e = end
    OBVIOUS
  <2>a. b \in SUBSET {"result", "types"}
    BY <2>1, HearingFrame
  <2>2. f \in Nat /\ e \in {"ok", NotYet} /\ e \in Status \union Errors \union {NotYet}
    BY <2>1, HearingFrame, CurrentProject DEF Status, IInv
  <2>3. /\ session.step # 3 \/ Kind # "native" => f = 0
        /\ e = NotYet => session.step # 3 \/ Kind # "probe"
        /\ e = "ok" => Kind = "probe"
    BY <1>2, <2>1 DEF NotYet
  <2>4. session' = [Taken(port) EXCEPT !.bent = b, !.files = f, !.end = e]
    BY <1>4, <2>1
  <2> HIDE DEF files, end, names, bent
  <2>5. /\ Took /\ session'.step = session.step + 1 /\ session'.files = f
        /\ session'.end = e /\ session'.sources = session.sources /\ session'.odd = session.odd
        /\ session'.bent = b
    BY <2>4 DEF Took, Taken, IInv, SessionType
  <2>6. SessionType' /\ ~session'.asked /\ session'.from \subseteq {port}
    BY <2>2, <2>a, <2>5, HearingFrame, Steps, TookFrame DEF Hearing
  <2>7. Early /\ Bare
    <3>1. Early
      BY <1>1, Steps DEF Early
    <3>2. QED
      BY <3>1, HearingFrame DEF IInv, Progress
  <2>8. Bare' /\ Located' = 4 + 2 * f + 2 * f /\ work' = work
    BY <1>1, <2>5, <2>7, LastIs DEF Bare, graphVars, Located, Diagnosed
  <2>9. Early'
    BY <1>1, <2>2, <2>5, <2>6, <2>8, Steps DEF Early
  <2>10. Due' = {}
    BY <2>8, NothingDue DEF Bare, Due
  <2>11. Progress'
    <3>1. session'.step < Last => session'.files = 0
      BY <2>3, <2>5, <2>6, Steps
    <3>2. Kind # "native" => session'.files = 0
      BY <2>3, <2>5, <2>6
    <3>3. Kind = "probe" /\ session'.end = NotYet => session'.step < Last
      BY <1>1, <2>3, <2>5, <2>6, Steps
    <3>4. session'.step <= Located' /\ ~session'.asked /\ session'.step <= Located' + 1
      BY <1>1, <2>2, <2>5, <2>6, <2>8, Steps
    <3>5. Kind = "native" => session'.end # "ok"
      BY <2>3, <2>5, <2>6
    <3>6. session'.step > Located' => FALSE
      BY <1>1, <2>2, <2>5, <2>6, <2>8, Steps
    <3>7. QED
      BY <2>8, <2>9, <2>10, <3>1, <3>2, <3>3, <3>4, <3>5, <3>6, HearingFrame DEF Progress
  <2>12. QED
    BY <2>5, <2>6, <2>11, HeardInv
<1>5. QED
  BY <1>1, <1>3, <1>4

\* Behind the opening, a session of the compiler has files.
LEMMA BehindOpening ==
  ASSUME IInv, Hearing, session.step >= Last
  PROVE  Kind = "native"
<1>1. Kind # "probe"
  BY Steps, HearingFrame DEF IInv, Progress
<1>2. QED
  BY <1>1 DEF Hearing, Kind

LEMMA PairInv ==
  ASSUME IInv, Hearing, NEW odd \in BOOLEAN, AcceptPair(port, odd)
  PROVE  IInv'
<1>1. PICK wrong \in BOOLEAN :
        IF Request = "secondOfPair" /\ (wrong \/ session.odd)
        THEN EndWith("worker_crash") /\ UNCHANGED graphVars
        ELSE /\ session' = [Taken(port) EXCEPT
                  !.odd = (wrong /\ ~(Request = "secondOfPair")),
                  !.bent = IF odd /\ ~wrong THEN @ \union Bends ELSE @,
                  !.sources = IF session.step + 1 = Diagnosed THEN tree ELSE @]
             /\ IF session.step + 1 # Located THEN UNCHANGED graphVars
                ELSE \E lost \in SUBSET DOMAIN Current.graph.locations :
                       (lost # {} => "types" \in session.bent) /\ Locate(Current.graph, lost)
  BY DEF AcceptPair
<1>a. Last <= session.step /\ session.step < Located
  BY DEF AcceptPair
<1>2. CASE Request = "secondOfPair" /\ (wrong \/ session.odd)
  BY <1>1, <1>2, BadAnswerInv DEF Errors
<1>3. CASE ~(Request = "secondOfPair" /\ (wrong \/ session.odd))
  <2> DEFINE first == wrong /\ ~(Request = "secondOfPair")
             bends == IF odd /\ ~wrong THEN session.bent \union Bends ELSE session.bent
             seen == IF session.step + 1 = Diagnosed THEN tree ELSE session.sources
  <2>1. PICK n, o, b, f, e, u : /\ n = session.step + 1 /\ o = first /\ b = bends
                                /\ f = session.files /\ e = session.end /\ u = seen
    OBVIOUS
  <2>2. session' = [Taken(port) EXCEPT !.odd = o, !.bent = b, !.sources = u]
    BY <1>1, <1>3, <2>1 DEF Taken, IInv, SessionType
  <2>3. o \in BOOLEAN /\ u \in {session.sources, tree}
    BY <2>1
  <2>a. b \in SUBSET {"result", "types"} /\ session.bent \subseteq b
    BY <2>1, HearingFrame DEF Bends
  <2>4. IF n # Located THEN UNCHANGED graphVars
        ELSE \E lost : (lost # {} => ~Straight) /\ Locate(Current.graph, lost)
    BY <1>1, <1>3, <2>1 DEF Straight
  <2>5. n = session.step + 1
    BY <2>1
  <2> HIDE DEF first, bends, seen
  <2>6. /\ Took /\ session'.step = n /\ session'.files = f /\ session'.end = e
        /\ session'.sources = u /\ session'.odd = o /\ session'.bent = b
    BY <2>1, <2>2, <2>5 DEF Took, Taken, IInv, SessionType
  <2>b. Straight' => Straight
    BY <2>6, <2>a DEF Straight
  <2>7. n \in Nat /\ f \in Nat /\ u \in Tree \union {NoTree} /\ e = NotYet
    BY <2>1, <2>3, <2>5, HearingFrame, Steps
  <2>8. SessionType' /\ ~session'.asked /\ session'.from \subseteq {port}
    BY <2>3, <2>6, <2>7, <2>a, HearingFrame, TookFrame DEF Hearing
  <2>9. Kind = "native"
    BY <1>a, BehindOpening, Steps
  <2>10. /\ Located' = 4 + 2 * f + 2 * f /\ Located' = Located /\ f # 0 /\ Last = 4 /\ Last < n
         /\ n <= Located /\ Early /\ Located \in Nat
    BY <1>a, <2>1, <2>5, <2>7, <2>6, <2>8, LastIs, Steps DEF Located, Diagnosed, Early
  <2>11. Bare
    BY <2>9, <2>10, HearingFrame DEF IInv, Progress
  <2> PICK g : g = Current.graph
    OBVIOUS
  <2>12. g \in Graph /\ Current' = Current /\ Kind' = Kind /\ port' = port
    BY HearingFrame, CurrentProject DEF IInv
  <2>13. CASE n = Located
    <3>a. PICK lost : (lost # {} => ~Straight) /\ Locate(g, lost)
      BY <2>4, <2>13
    <3>1. Sane(g)' /\ (Straight' => Owes(g)')
      BY <2>b, <2>12, <3>a, LocateKeeps
    <3>2. ~Early' /\ session'.step = Located'
      BY <2>6, <2>8, <2>10, <2>13 DEF Early
    <3>3. Progress'
      BY <2>7, <2>6, <2>8, <2>9, <2>10, <2>12, <2>13, <3>1, <3>2 DEF Progress, NotYet
    <3>4. QED
      BY <2>3, <2>6, <2>8, <3>3, HeardInv
  <2>14. CASE n # Located
    <3>1. Bare'
      BY <2>4, <2>11, <2>14 DEF Bare, graphVars
    <3>a. session'.step < Located'
      BY <2>7, <2>6, <2>8, <2>10, <2>14
    <3>b. Early'
      BY <3>a DEF Early
    <3>2. Progress'
      BY <2>7, <2>6, <2>8, <2>9, <2>10, <2>12, <3>1, <3>a, <3>b DEF Progress, NotYet
    <3>3. QED
      BY <2>3, <2>6, <2>8, <3>2, HeardInv
  <2>15. QED
    BY <2>13, <2>14
<1>4. QED
  BY <1>2, <1>3

\* A type was asked about: it is new, and there is room for it.
LEMMA AskedEntry ==
  ASSUME IInv, Hearing, session.step >= Located, NEW pos \in Due
  PROVE  /\ Kind = "native" /\ session.files # 0 /\ Current.graph \in Graph
         /\ Sane(Current.graph) /\ (Straight => Owes(Current.graph))
         /\ ~Skips(Current.graph, pos)
<1>1. Waiting /\ port # NoPort /\ session.asked
  BY HearingFrame DEF Hearing
<1>2. /\ Kind = "native" /\ ~Early /\ Current.graph \in Graph
      /\ Sane(Current.graph) /\ (Straight => Owes(Current.graph))
  BY <1>1, EntryOfGraph
<1>3. session.step > Located \/ session.step = Located
  BY Steps
<1>4. ~Skips(Current.graph, pos)
  BY <1>1, <1>2, <1>3 DEF IInv, Progress
<1>5. QED
  BY <1>2, <1>4 DEF Early

\* A session has taken an answer about the type that is due.
TookAtType(more) ==
  /\ Took /\ session'.step = Located + more /\ session'.files = session.files
  /\ session'.end = session.end /\ session'.sources = session.sources
  /\ session'.odd = session.odd /\ session'.bent \in SUBSET {"result", "types"}

\* The next question, or the next entry, of a graph that is in order.
LEMMA GraphGoesOn ==
  ASSUME IInv, Hearing, Kind = "native", session.files # 0, NEW more \in {0, 1}, TookAtType(more),
         NEW g, g = Current.graph, Sane(g)', Straight' => Owes(g)',
         more = 1 => \A pos \in Due' : ~Skips(g, pos)'
  PROVE  IInv'
<1>1. /\ Took /\ session'.step = Located + more /\ session'.files = session.files
      /\ session'.end = session.end /\ session'.sources = session.sources
      /\ session'.odd = session.odd /\ session'.bent \in SUBSET {"result", "types"}
  BY DEF TookAtType
<1>2. session.end = NotYet /\ Current' = Current /\ Kind' = Kind /\ port' = port
  BY HearingFrame
<1>3. SessionType' /\ ~session'.asked /\ session'.from \subseteq {port}
  BY <1>1, HearingFrame, Steps, TookFrame DEF Hearing
<1>4. Located' = Located /\ Located \in Nat /\ Located > Last /\ Last = 4
  BY <1>1, Steps DEF Located, Diagnosed
<1>5. ~Early'
  BY <1>1, <1>4 DEF Early
<1>6. session'.step <= Located' + 1 /\ (session'.step > Located' => more = 1)
      /\ ~(session'.step < Last)
  BY <1>1, <1>4
<1>7. Progress'
  BY <1>1, <1>2, <1>3, <1>5, <1>6 DEF Progress, NotYet
<1>8. QED
  BY <1>1, <1>3, <1>7, HeardInv

LEMMA TypeInv ==
  ASSUME IInv, Hearing, NEW odd \in BOOLEAN, AcceptType(port, odd)
  PROVE  IInv'
<1> PICK g : g = Current.graph
  OBVIOUS
<1> DEFINE named == [Taken(port) EXCEPT !.step = Located]
<1>1. PICK pos \in Due :
        \/ EndWith("worker_crash") /\ UNCHANGED graphVars
        \/ session' = Taken(port) /\ UNCHANGED graphVars
        \/ session' = named /\ Visit(g, pos, FALSE, {})
        \/ /\ ~Straight /\ session' = named
           /\ Visit(g, pos, FALSE, DOMAIN g.kids[TypeAt(g, pos)])
  BY DEF AcceptType, Straight
<1>2. session.step = Located
  BY DEF AcceptType
<1>3. /\ Kind = "native" /\ session.files # 0 /\ g \in Graph
      /\ Sane(g) /\ (Straight => Owes(g)) /\ \A q \in Due : ~Skips(g, q)
  BY <1>1, <1>2, AskedEntry, Steps
<1>4. session.step + 1 = Located + 1 /\ Located + 0 = Located /\ session.bent \in SUBSET {"result", "types"}
  BY <1>2, Steps, HearingFrame
<1>5. ASSUME session' = named PROVE TookAtType(0) /\ Straight' = Straight
  BY <1>4, <1>5 DEF TookAtType, Took, Taken, Straight, IInv, SessionType
<1>6. ASSUME session' = Taken(port) PROVE TookAtType(1) /\ Straight' = Straight
  BY <1>4, <1>6 DEF TookAtType, Took, Taken, Straight, IInv, SessionType
<1> HIDE DEF named
<1>7. CASE EndWith("worker_crash") /\ UNCHANGED graphVars
  BY <1>7, BadAnswerInv DEF Errors
<1>8. CASE session' = Taken(port) /\ UNCHANGED graphVars
  <2>1. Sane(g)' = Sane(g) /\ Owes(g)' = Owes(g) /\ Due' = Due /\ \A q : Skips(g, q)' = Skips(g, q)
    BY <1>8, SameGraph
  <2>2. Sane(g)' /\ (Straight' => Owes(g)') /\ \A q \in Due' : ~Skips(g, q)'
    BY <1>3, <1>6, <1>8, <2>1
  <2>3. QED
    BY <1>3, <1>6, <1>8, <2>2, GraphGoesOn
<1>9. CASE session' = named /\ Visit(g, pos, FALSE, {})
  <2>1. Sane(g)' /\ (Straight => Owes(g)')
    BY <1>3, <1>9, VisitKeeps
  <2>2. QED
    BY <1>3, <1>5, <1>9, <2>1, GraphGoesOn
<1>10. CASE ~Straight /\ session' = named /\ Visit(g, pos, FALSE, DOMAIN g.kids[TypeAt(g, pos)])
  <2>1. Sane(g)'
    BY <1>3, <1>10, VisitKeeps
  <2>2. QED
    BY <1>3, <1>5, <1>10, <2>1, GraphGoesOn
<1>11. QED
  BY <1>1, <1>7, <1>8, <1>9, <1>10

LEMMA ChildrenInv ==
  ASSUME IInv, Hearing, NEW odd \in BOOLEAN, AcceptChildren(port, odd)
  PROVE  IInv'
<1> PICK g : g = Current.graph
  OBVIOUS
<1> DEFINE listed == [Taken(port) EXCEPT !.step = Located]
<1>1. PICK pos \in Due :
        \/ session' = listed /\ Visit(g, pos, odd, {})
        \/ /\ session' = [listed EXCEPT !.bent = @ \union {"types"}]
           /\ \E lost : Visit(g, pos, FALSE, lost)
        \/ EndWith("worker_crash") /\ UNCHANGED graphVars
  BY DEF AcceptChildren
<1>2. /\ Kind = "native" /\ session.files # 0 /\ g \in Graph
      /\ Sane(g) /\ (Straight => Owes(g)) /\ ~Skips(g, pos)
  BY <1>1, AskedEntry, Steps DEF AcceptChildren
<1>3. Located + 0 = Located /\ session.bent \in SUBSET {"result", "types"}
  BY Steps, HearingFrame
<1>4. CASE session' = listed /\ Visit(g, pos, odd, {})
  <2>1. Sane(g)' /\ (Straight => Owes(g)')
    BY <1>2, <1>4, VisitKeeps
  <2>2. TookAtType(0) /\ Straight' = Straight
    BY <1>3, <1>4 DEF TookAtType, Took, Taken, Straight, IInv, SessionType
  <2>3. QED
    BY <1>2, <2>1, <2>2, GraphGoesOn
<1>5. CASE /\ session' = [listed EXCEPT !.bent = @ \union {"types"}]
           /\ \E lost : Visit(g, pos, FALSE, lost)
  <2>1. Sane(g)'
    BY <1>2, <1>5, VisitKeeps
  <2>2. TookAtType(0) /\ ~Straight'
    BY <1>3, <1>5 DEF TookAtType, Took, Taken, Straight, IInv, SessionType
  <2>3. QED
    BY <1>2, <2>1, <2>2, GraphGoesOn
<1>6. CASE EndWith("worker_crash") /\ UNCHANGED graphVars
  BY <1>6, BadAnswerInv DEF Errors
<1>7. QED
  BY <1>1, <1>4, <1>5, <1>6

LEMMA ReceiveInv == ASSUME IInv, Receive PROVE IInv'
<1>1. PICK k \in DOMAIN mail :
        /\ IsFirst(k) /\ mail' = Without(k)
        /\ CASE mail[k].kind = "flood" -> EndWith("output_limit") /\ UNCHANGED graphVars
             [] mail[k].kind \in {"refusal", "exit"} ->
                  EndWith("worker_crash") /\ UNCHANGED graphVars
             [] mail[k].kind \in {"data", "odd"} ->
                  CASE Decoded(mail[k].to) = "ok" -> Accept(mail[k].port, mail[k].kind = "odd")
                    [] Decoded(mail[k].to) = "more" ->
                         session' = [session EXCEPT !.got = mail[k].to] /\ UNCHANGED graphVars
                    [] Decoded(mail[k].to) = "invalid" ->
                         /\ session' = [session EXCEPT !.asked = FALSE, !.got = mail[k].to,
                                                       !.end = "worker_crash"]
                         /\ UNCHANGED graphVars
  BY DEF Receive
<1>2. mail[k] \in Message /\ mail' \in Seq(Message) /\ mail[k].port = port
  BY <1>1, WithoutType DEF IInv, IsFirst, IsOwn
<1>3. Hearing
  BY <1>2 DEF Hearing, Receive
<1>4. mail[k].kind \in Kinds /\ mail[k].to \in Cut /\ Decoded(mail[k].to) \in {"ok", "more", "invalid"}
  BY <1>2 DEF Message, Decoded
<1>5. CASE \E end \in Errors : EndWith(end) /\ UNCHANGED graphVars
  BY <1>3, <1>5, BadAnswerInv
<1>6. CASE Accept(mail[k].port, mail[k].kind = "odd")
  <2>1. PICK odd \in BOOLEAN : Accept(port, odd)
    BY <1>2, <1>6
  <2>2. \/ AcceptOpening(port, odd) \/ AcceptPair(port, odd)
        \/ AcceptType(port, odd) \/ AcceptChildren(port, odd)
    BY <2>1 DEF Accept
  <2>3. QED
    BY <1>3, <2>2, OpeningInv, PairInv, TypeInv, ChildrenInv
<1>7. CASE /\ \/ session' = [session EXCEPT !.got = mail[k].to]
              \/ session' = [session EXCEPT !.asked = FALSE, !.got = mail[k].to,
                                            !.end = "worker_crash"]
           /\ UNCHANGED graphVars
  <2>1. /\ session'.step = session.step /\ session'.files = session.files
        /\ session'.asked => session.asked
        /\ session'.end = session.end \/ session'.end = "worker_crash"
        /\ session'.from = session.from /\ session'.sources = session.sources
        /\ session'.bent = session.bent
    BY <1>7 DEF IInv, SessionType
  <2>2. SessionType'
    BY <1>3, <1>4, <1>7, HearingFrame DEF Hearing, IInv, SessionType, Message, Errors
  <2>3. UNCHANGED <<setup, phase, at, port, graphVars>>
    BY <1>3, <1>7 DEF Hearing, world, control
  <2>4. Progress'
    BY <2>1, <2>3, QuietProgress DEF IInv, NotYet
  <2>5. session'.from \subseteq {port}
    BY <2>1 DEF IInv, OneSession
  <2>6. QED
    BY <1>3, <2>1, <2>2, <2>4, <2>5, HeardInv
<1>8. QED
  BY <1>1, <1>4, <1>5, <1>6, <1>7 DEF Kinds, Errors

------------------------------------------------------------------------------
(* Between the sessions *)

EvidenceType == [own : BOOLEAN, kind : {"none", "native", "node"}, named : BOOLEAN,
                 typed : BOOLEAN, whole : BOOLEAN]

\* No port is open afterwards, and nothing is left of a session.
AtRest == port' = NoPort /\ session' = NoSession /\ peer' = NoPeer /\ Bare'

LEMMA RestFrame ==
  ASSUME IInv, AtRest, UNCHANGED <<opened, mail>>
  PROVE  /\ SessionType' /\ OneSession' /\ Progress'
         /\ peer'.compiler = NoTree /\ session'.sources = NoTree
<1>1. NoSession \in [step : Nat, asked : BOOLEAN, got : Cut, odd : BOOLEAN,
                      bent : SUBSET {"result", "types"}, files : Nat, late : BOOLEAN,
                      end : Status \union Errors \union {NotYet}, from : SUBSET (1 .. opened), sources : Tree \union {NoTree}]
  BY DEF NoSession, Cut, Unread
<1>2. NoPeer \in [running : BOOLEAN, told : BOOLEAN, sent : Cut, foul : BOOLEAN,
                   compiler : Tree \union {NoTree}]
  BY DEF NoPeer, Cut, Unread
<1> HIDE DEF Cut
<1>3. SessionType'
  BY <1>1, <1>2 DEF AtRest, IInv, SessionType
<1>4. OneSession' /\ Progress'
  BY DEF AtRest, OneSession, Progress, NoSession
<1>5. QED
  BY <1>3, <1>4 DEF AtRest, NoPeer, NoSession

LEMMA SessionFrameRests ==
  ASSUME IInv, port = NoPort, UNCHANGED <<port, opened, session, peer, mail, graphVars>>
  PROVE  AtRest
<1>1. session = NoSession /\ peer = NoPeer /\ Bare
  BY DEF IInv, OneSession
<1>2. Bare'
  BY <1>1 DEF Bare, graphVars
<1>3. QED
  BY <1>1, <1>2 DEF AtRest

LEMMA WorldFrame ==
  ASSUME IInv, UNCHANGED <<world, cuts>>, Faulty \/ Fine, phase' \in Phases,
         at' \in 1 .. (Len(setup.projects) + 1)
  PROVE  WorldType'
  BY SpentFaults DEF IInv, WorldType, world

LEMMA ResultInv ==
  ASSUME IInv, AtRest, UNCHANGED <<world, cuts, opened, mail>>, Faulty \/ Fine,
         phase = "projects", at <= Len(setup.projects),
         NEW status \in Status, NEW proof \in EvidenceType, NEW view \in View,
         Result(status, proof, view),
         status = "ok" =>
           proof.own /\ (proof.kind = "native" /\ proof.named /\ proof.typed => proof.whole),
         SeenOnly(tree) => {view.compiler, view.sources} \subseteq {tree, NoTree}
  PROVE  IInv'
<1>1. /\ results' = Append(results, status) /\ evidence' = Append(evidence, proof)
      /\ views' = Append(views, view) /\ at' = at + 1
      /\ phase' = phase /\ before' = before /\ now' = now
      /\ candidate' = candidate /\ summary' = summary
  BY DEF Result
<1>2. /\ results \in Seq(Status) /\ evidence \in Seq(EvidenceType) /\ views \in Seq(View)
      /\ Len(results) = at - 1 /\ Len(evidence) = Len(results) /\ at \in Nat
      /\ summary = "none" /\ candidate = NoTree
  BY DEF IInv, ResultType, Books, EvidenceType, OneTree, WorldType
<1>3. Len(setup.projects) \in Nat /\ tree' = tree /\ edits' = edits /\ setup' = setup
  BY Settings DEF IInv, WorldType, world
<1>4. WorldType'
  BY <1>1, <1>2, <1>3, WorldFrame DEF IInv, WorldType
<1>5. ResultType'
  BY <1>1, <1>2 DEF IInv, ResultType, EvidenceType
<1>6. SessionType' /\ OneSession' /\ Progress' /\ peer'.compiler = NoTree /\ session'.sources = NoTree
  BY RestFrame
<1>7. Digests' /\ Books'
  BY <1>1, <1>2 DEF IInv, Digests, Books
<1>8. OneTree'
  <2>1. PICK t : t = tree
    OBVIOUS
  <2>2. SeenOnly(t) => SeenOnly(t)'
    <3>1. SUFFICES ASSUME SeenOnly(t), NEW k \in DOMAIN views'
                   PROVE  {views'[k].compiler, views'[k].sources} \subseteq {t, NoTree}
      BY <1>6 DEF SeenOnly
    <3>2. CASE k \in DOMAIN views
      BY <1>1, <1>2, <3>1, <3>2 DEF SeenOnly
    <3>3. CASE k = Len(views) + 1
      BY <1>1, <1>2, <2>1, <3>1, <3>3
    <3>4. QED
      BY <1>1, <1>2, <3>2, <3>3
  <2>3. SeenOnly(tree)' = SeenOnly(t)'
    BY <1>3, <2>1
  <2>4. QED
    BY <1>1, <1>3, <2>1, <2>2, <2>3 DEF IInv, OneTree
<1>9. OkIsWhole' /\ CandidateIsOneTree'
  <2>1. ASSUME NEW k \in DOMAIN results', results'[k] = "ok"
        PROVE  /\ evidence'[k].own
               /\ evidence'[k].kind = "native" /\ evidence'[k].named /\ evidence'[k].typed =>
                    evidence'[k].whole
    <3>1. CASE k \in DOMAIN results
      <4>1. results[k] = "ok" /\ evidence'[k] = evidence[k]
        BY <1>1, <1>2, <2>1, <3>1
      <4>2. QED
        BY <3>1, <4>1 DEF IInv, OkIsWhole
    <3>2. CASE k = Len(results) + 1
      <4>1. status = "ok" /\ evidence'[k] = proof
        BY <1>1, <1>2, <2>1, <3>2
      <4>2. QED
        BY <4>1
    <3>3. QED
      BY <1>1, <1>2, <3>1, <3>2
  <2>2. summary' # "ok" /\ candidate' = NoTree
    BY <1>1, <1>2
  <2>3. QED
    BY <2>1, <2>2 DEF OkIsWhole, CandidateIsOneTree
<1>10. QED
  BY <1>4, <1>5, <1>6, <1>7, <1>8, <1>9 DEF IInv

LEMMA NoAnalysisInv == ASSUME IInv, NoAnalysis PROVE IInv'
<1>1. AtRest /\ UNCHANGED <<world, cuts, opened, mail>>
  BY SessionFrameRests DEF NoAnalysis
<1>2. phase = "projects" /\ at <= Len(setup.projects)
  BY DEF NoAnalysis, Analysing
<1>3. PICK status \in {"failed", "unavailable"} :
        (Faulty \/ Fine) /\ Result(status, NoEvidence, NoView)
  BY DEF NoAnalysis
<1>4. NoEvidence \in EvidenceType /\ NoView \in View /\ status \in Status /\ status # "ok"
  BY DEF NoEvidence, EvidenceType, NoView, View, Status
<1>5. {NoView.compiler, NoView.sources} \subseteq {tree, NoTree}
  BY DEF NoView
<1>6. PICK proof, view : proof = NoEvidence /\ view = NoView
  OBVIOUS
<1>7. QED
  BY <1>1, <1>2, <1>3, <1>4, <1>5, <1>6, ResultInv

\* A change of phase or project that says nothing of a project, with the
\* observations as they may be.
LEMMA PhaseInv ==
  ASSUME IInv, AtRest, UNCHANGED <<world, cuts, opened, mail>>, Faulty \/ Fine,
         phase' \in Phases, at' \in 1 .. (Len(setup.projects) + 1),
         UNCHANGED <<views, results, evidence>>, ResultType', Digests', Books', OneTree',
         candidate' # NoTree /\ edits < 2 =>
           candidate' = now.digest /\ SeenOnly(now.digest) /\ phase = "after",
         summary' = "ok" =>
           Len(results) = Len(setup.projects) /\ \A k \in DOMAIN results : results[k] = "ok"
  PROVE  IInv'
<1>1. setup' = setup /\ edits' = edits
  BY DEF world
<1>2. WorldType'
  BY WorldFrame
<1>3. SessionType' /\ OneSession' /\ Progress'
  BY RestFrame
<1>4. OkIsWhole'
  BY <1>1 DEF IInv, OkIsWhole
<1>5. CandidateIsOneTree'
  BY <1>1 DEF CandidateIsOneTree, SeenOnly
<1>6. QED
  BY <1>2, <1>3, <1>4, <1>5 DEF IInv

LEMMA UnobservedInv ==
  ASSUME IInv, AtRest, UNCHANGED <<world, cuts, opened, mail>>, Faulty \/ Fine,
         phase \in {"before", "after"}, Unobserved
  PROVE  IInv'
<1>1. /\ phase' = (IF phase = "before" THEN "projects" ELSE "over") /\ at' = 1
      /\ now' = Nothing /\ views' = views /\ results' = results /\ evidence' = evidence
      /\ before' = before /\ candidate' = candidate /\ summary' = summary
  BY DEF Unobserved
<1>2. tree' = tree /\ tree \in Tree /\ NoTree \notin Tree /\ Len(setup.projects) \in Nat
      /\ edits' = edits
  BY Settings, TsAssumption DEF IInv, WorldType, world
<1>3. phase' \in Phases /\ at' \in 1 .. (Len(setup.projects) + 1)
  BY <1>1, <1>2 DEF Phases
<1>4. ResultType' /\ Digests'
  BY <1>1 DEF IInv, ResultType, Digests, Nothing
<1>5. Books'
  BY <1>1 DEF IInv, Books
<1>6. OneTree'
  BY <1>1, <1>2 DEF IInv, OneTree, Nothing
<1>7. candidate' = NoTree /\ (summary' = "ok" => summary = "ok")
  BY <1>1 DEF IInv, OneTree
<1>8. summary' = "ok" => Len(results) = Len(setup.projects) /\ \A k \in DOMAIN results : results[k] = "ok"
  BY <1>7 DEF IInv, OkIsWhole
<1>9. UNCHANGED <<views, results, evidence>>
  BY <1>1
<1>10. QED
  BY <1>3, <1>4, <1>5, <1>6, <1>7, <1>8, <1>9, PhaseInv

LEMMA ObservedInv ==
  ASSUME IInv, AtRest, UNCHANGED <<world, cuts, opened, mail>>, Faulty \/ Fine, Probing, Observed
  PROVE  IInv'
<1>1. /\ now' = [now EXCEPT !.names = Append(@, NamesOf[peer.compiler])] /\ at' = at + 1
      /\ phase' = phase /\ views' = views /\ results' = results /\ evidence' = evidence
      /\ before' = before /\ candidate' = candidate /\ summary' = summary
  BY DEF Observed
<1>2. tree' = tree /\ Len(setup.projects) \in Nat /\ edits' = edits /\ at \in Nat /\ at >= 1
      /\ phase \in {"before", "after"} /\ at <= Len(setup.projects)
  BY Settings DEF IInv, WorldType, world, Probing
<1>3. phase' \in Phases /\ at' \in 1 .. (Len(setup.projects) + 1)
  BY <1>1, <1>2 DEF Phases
<1>4. now'.digest = now.digest /\ now' = [digest |-> now'.digest, names |-> now'.names]
  BY <1>1 DEF IInv, Digests
<1>5. ResultType' /\ Digests' /\ Books'
  BY <1>1, <1>2, <1>4 DEF IInv, ResultType, Digests, Books
<1>6. OneTree'
  <2>1. ~Analysing'
    BY <1>1, <1>2 DEF Analysing
  <2>2. PICK d : d = now.digest
    OBVIOUS
  <2>3. SeenOnly(d) => SeenOnly(d)'
    BY <1>1, <2>1 DEF SeenOnly
  <2>4. SeenOnly(now.digest)' = SeenOnly(d)'
    BY <1>4, <2>2
  <2>5. QED
    BY <1>1, <1>2, <1>4, <2>2, <2>3, <2>4 DEF IInv, OneTree
<1>7. candidate' = NoTree /\ (summary' = "ok" => summary = "ok")
  BY <1>1, <1>2 DEF IInv, OneTree
<1>8. summary' = "ok" => Len(results) = Len(setup.projects) /\ \A k \in DOMAIN results : results[k] = "ok"
  BY <1>7 DEF IInv, OkIsWhole
<1>9. UNCHANGED <<views, results, evidence>>
  BY <1>1
<1>10. QED
  BY <1>3, <1>5, <1>6, <1>7, <1>8, <1>9, PhaseInv

LEMMA NoProbeInv == ASSUME IInv, NoProbe PROVE IInv'
<1>1. AtRest /\ UNCHANGED <<world, cuts, opened, mail>>
  BY SessionFrameRests DEF NoProbe
<1>2. phase \in {"before", "after"} /\ (Faulty \/ Fine) /\ Unobserved
  BY DEF NoProbe, Probing
<1>3. QED
  BY <1>1, <1>2, UnobservedInv

LEMMA CloseInv == ASSUME IInv, Close PROVE IInv'
<1>1. /\ port # NoPort /\ session.end # NotYet /\ port' = NoPort /\ peer' = NoPeer
      /\ session' = NoSession /\ Clear /\ UNCHANGED <<world, cuts, opened, mail>>
  BY DEF Close
<1>2. AtRest
  BY <1>1 DEF AtRest, Clear, Bare
<1>3. CASE Probing
  <2>1. (Faulty \/ Fine) /\ (Observed \/ Unobserved)
    BY <1>3 DEF Close
  <2>2. QED
    BY <1>1, <1>2, <1>3, <2>1, ObservedInv, UnobservedInv DEF Probing
<1>4. CASE ~Probing
  <2>1. Analysing /\ phase = "projects" /\ at <= Len(setup.projects)
    BY <1>1, <1>4 DEF IInv, OneSession, Analysing
  <2>2. PICK status, proof, view :
          /\ status = StatusOf(session.end) /\ proof = Evidence
          /\ view = [compiler |-> peer.compiler, sources |-> session.sources]
    OBVIOUS
  <2>3. Result(status, proof, view) /\ Fine
    BY <1>4, <2>2 DEF Close
  <2>4. session.end \in Status \union Errors
    BY <1>1 DEF IInv, SessionType
  <2>5. status \in Status /\ (status = "ok" => session.end = "ok")
    BY <2>2, <2>4 DEF StatusOf, Status, Errors
  <2>6. /\ proof.own = (session.from \subseteq {port}) /\ proof.kind = Kind
        /\ proof.named = (session.files = Current.files) /\ proof.typed = Straight
        /\ proof.whole = IsWhole(Current.graph)
        /\ proof = [own |-> proof.own, kind |-> proof.kind, named |-> proof.named,
                    typed |-> proof.typed, whole |-> proof.whole]
    BY <2>2 DEF Evidence, Straight
  <2>7. Kind \in {"native", "node"}
    BY <1>4 DEF Kind
  <2>8. proof \in EvidenceType
    <3>1. /\ proof.own \in BOOLEAN /\ proof.named \in BOOLEAN
          /\ proof.typed \in BOOLEAN /\ proof.whole \in BOOLEAN
      BY <2>6, Zenon DEF IsWhole, Straight
    <3>2. QED
      BY <2>6, <2>7, <3>1 DEF EvidenceType
  <2>9. view \in View
    BY <2>2 DEF View, IInv, SessionType
  <2>10. proof.own
    BY <2>6 DEF IInv, OneSession
  <2>11. ASSUME status = "ok", Kind = "native", session.files = Current.files, Straight
         PROVE  IsWhole(Current.graph)
    <3>1. session.step = Located /\ work = << >> /\ ~truncated
      BY <1>1, <2>5, <2>11 DEF IInv, Progress
    <3>2. CASE session.files = 0
      <4>1. Bare
        BY <1>1, <2>11, <3>2 DEF IInv, Progress, Early
      <4>2. Current.graph.locations = << >>
        BY <2>1, <2>11, <3>2, CurrentProject DEF IInv
      <4>3. QED
        BY <4>1, <4>2, EmptyOwesNothing
    <3>3. CASE session.files # 0
      <4>1. Owes(Current.graph)
        BY <1>1, <2>11, <3>1, <3>3, Steps DEF IInv, Progress, Early
      <4>2. QED
        BY <3>1, <4>1, DoneIsWhole
    <3>4. QED
      BY <3>2, <3>3
  <2>12. status = "ok" =>
           proof.own /\ (proof.kind = "native" /\ proof.named /\ proof.typed => proof.whole)
    BY <2>6, <2>10, <2>11
  <2>13. SeenOnly(tree) => {view.compiler, view.sources} \subseteq {tree, NoTree}
    BY <2>1, <2>2 DEF SeenOnly
  <2>14. QED
    BY <1>1, <1>2, <2>1, <2>3, <2>5, <2>8, <2>9, <2>12, <2>13, ResultInv
<1>5. QED
  BY <1>3, <1>4

\* A phase that ends has no port open.
LEMMA PhaseRests ==
  ASSUME IInv, ~Probing, ~Analysing, SessionFrame
  PROVE  AtRest /\ UNCHANGED <<opened, mail>>
<1>1. port = NoPort
  BY DEF IInv, OneSession
<1>2. QED
  BY <1>1, SessionFrameRests DEF SessionFrame

LEMMA BeginInv == ASSUME IInv, Begin PROVE IInv'
<1>1. /\ phase = "begin" /\ at' = at /\ views' = views /\ results' = results /\ evidence' = evidence
      /\ before' = before /\ candidate' = candidate
      /\ SessionFrame /\ UNCHANGED <<world, cuts>>
  BY DEF Begin
<1>2. AtRest /\ UNCHANGED <<opened, mail>>
  BY <1>1, PhaseRests DEF Probing, Analysing
<1>3. /\ Faulty \/ Fine
      /\ \/ phase' = "over" /\ summary' = "disabled" /\ now' = now
         \/ phase' = "before" /\ summary' = summary /\ now' = [digest |-> tree, names |-> << >>]
         \/ phase' = "projects" /\ summary' = summary /\ now' = now
  BY DEF Begin, Walk, Fine
<1>4. tree' = tree /\ tree \in Tree /\ NoTree \notin Tree /\ edits' = edits /\ at = 1
      /\ results = << >> /\ Len(setup.projects) \in Nat
  BY <1>1, Settings, TsAssumption DEF IInv, WorldType, world, Books
<1>5. phase' \in Phases /\ at' \in 1 .. (Len(setup.projects) + 1)
  BY <1>1, <1>3, <1>4 DEF Phases
<1>6. ResultType'
  BY <1>1, <1>3 DEF IInv, ResultType
<1>7. Digests'
  BY <1>1, <1>3, <1>4 DEF IInv, Digests
<1>8. Books'
  BY <1>1, <1>3, <1>4 DEF IInv, Books
<1>9. OneTree'
  BY <1>1, <1>3, <1>4 DEF IInv, OneTree
<1>10. candidate' = NoTree /\ summary' # "ok"
  BY <1>1, <1>3 DEF IInv, OneTree, Books
<1>11. UNCHANGED <<views, results, evidence>>
  BY <1>1
<1>12. QED
  BY <1>1, <1>2, <1>3, <1>5, <1>6, <1>7, <1>8, <1>9, <1>10, <1>11, PhaseInv

LEMMA EndBeforeInv == ASSUME IInv, EndBefore PROVE IInv'
<1>1. /\ phase = "before" /\ at > Len(setup.projects) /\ phase' = "projects" /\ at' = 1
      /\ before' = now /\ now' = Nothing /\ views' = views /\ results' = results
      /\ evidence' = evidence /\ candidate' = candidate /\ summary' = summary
      /\ SessionFrame /\ UNCHANGED <<world, cuts>> /\ (Faulty \/ Fine)
  BY DEF EndBefore, Fine
<1>2. tree' = tree /\ edits' = edits /\ Len(setup.projects) \in Nat /\ at \in Nat
      /\ ~(at <= Len(setup.projects))
  BY <1>1, Settings DEF IInv, WorldType, world
<1>3. AtRest /\ UNCHANGED <<opened, mail>>
  BY <1>1, <1>2, PhaseRests DEF Probing, Analysing
<1>4. phase' \in Phases /\ at' \in 1 .. (Len(setup.projects) + 1)
  BY <1>1, <1>2 DEF Phases
<1>5. ResultType' /\ Digests' /\ Books'
  BY <1>1 DEF IInv, ResultType, Digests, Books, Nothing
<1>6. OneTree'
  <2>1. SeenOnly(tree)'
    BY <1>1, <1>3, RestFrame DEF IInv, OneTree, SeenOnly
  <2>2. QED
    BY <1>1, <1>2, <2>1 DEF IInv, OneTree, Nothing
<1>7. candidate' = NoTree /\ summary' # "ok"
  BY <1>1 DEF IInv, OneTree, Books
<1>8. UNCHANGED <<views, results, evidence>>
  BY <1>1
<1>9. QED
  BY <1>1, <1>3, <1>4, <1>5, <1>6, <1>7, <1>8, PhaseInv

LEMMA AggregateOk ==
  ASSUME NEW S \in SUBSET Status, Aggregate(S) = "ok"
  PROVE  S = {"ok"}
<1>1. S \in {{"ok"}, {"unavailable"}, {"failed"}}
  BY DEF Aggregate
<1>2. CASE S = {"unavailable"}
  BY <1>2 DEF Aggregate, Status
<1>3. CASE S = {"failed"}
  BY <1>3 DEF Aggregate, Status
<1>4. QED
  BY <1>1, <1>2, <1>3

LEMMA AggregateType ==
  ASSUME NEW S \in SUBSET Status
  PROVE  Aggregate(S) \in Status
  BY DEF Aggregate, Status

LEMMA EndProjectsInv == ASSUME IInv, EndProjects PROVE IInv'
<1>1. /\ phase = "projects" /\ at > Len(setup.projects)
      /\ summary' = IF setup.projects = << >> THEN "no_project" ELSE Aggregate(ResultSet)
      /\ views' = views /\ results' = results /\ evidence' = evidence /\ before' = before
      /\ candidate' = candidate /\ SessionFrame /\ UNCHANGED <<world, cuts>>
  BY DEF EndProjects
<1>2. /\ Faulty \/ Fine
      /\ \/ phase' = "after" /\ at' = 1 /\ now' = [digest |-> tree, names |-> << >>]
         \/ phase' = "over" /\ at' = at /\ now' = now
  BY DEF EndProjects, Walk
<1>3. /\ tree' = tree /\ tree \in Tree /\ edits' = edits /\ Len(setup.projects) \in Nat
      /\ at \in 1 .. (Len(setup.projects) + 1) /\ ~(at <= Len(setup.projects))
  BY <1>1, Settings DEF IInv, WorldType, world
<1>4. AtRest /\ UNCHANGED <<opened, mail>>
  BY <1>1, <1>3, PhaseRests DEF Probing, Analysing
<1>5. phase' \in Phases /\ at' \in 1 .. (Len(setup.projects) + 1)
  BY <1>2, <1>3 DEF Phases
<1>6. ResultSet \in SUBSET Status
  BY DEF ResultSet, IInv, ResultType
<1>7. ResultType'
  BY <1>1, <1>6, AggregateType DEF IInv, ResultType
<1>8. Digests' /\ Books'
  BY <1>1, <1>2, <1>3 DEF IInv, Digests, Books
<1>9. OneTree'
  <2>1. PICK t : t = tree
    OBVIOUS
  <2>2. phase' = "after" /\ SeenOnly(t) => SeenOnly(t)'
    BY <1>1 DEF SeenOnly, Analysing
  <2>3. phase' = "after" => SeenOnly(now.digest)' = SeenOnly(t)'
    BY <1>2, <2>1
  <2>4. QED
    BY <1>1, <1>2, <1>3, <2>1, <2>2, <2>3 DEF IInv, OneTree
<1>10. candidate' = NoTree
  BY <1>1 DEF IInv, OneTree
<1>11. ASSUME summary' = "ok"
       PROVE  Len(results) = Len(setup.projects) /\ \A k \in DOMAIN results : results[k] = "ok"
  <2>1. Aggregate(ResultSet) = "ok"
    BY <1>1, <1>11
  <2>2. ResultSet = {"ok"}
    BY <1>6, <2>1, AggregateOk
  <2>3. Len(results) = at - 1 /\ at - 1 = Len(setup.projects)
    BY <1>1, <1>3 DEF IInv, Books
  <2>4. QED
    BY <2>2, <2>3 DEF ResultSet
<1>12. UNCHANGED <<views, results, evidence>>
  BY <1>1
<1>13. QED
  BY <1>1, <1>2, <1>4, <1>5, <1>7, <1>8, <1>9, <1>10, <1>11, <1>12, PhaseInv

LEMMA EndAfterInv == ASSUME IInv, EndAfter PROVE IInv'
<1>1. /\ phase = "after" /\ at > Len(setup.projects) /\ phase' = "over" /\ at' = at
      /\ candidate' = (IF now = before THEN now.digest ELSE NoTree)
      /\ before' = before /\ now' = now /\ views' = views /\ results' = results
      /\ evidence' = evidence /\ summary' = summary
      /\ SessionFrame /\ UNCHANGED <<world, cuts>> /\ (Faulty \/ Fine)
  BY DEF EndAfter, Fine
<1>2. tree' = tree /\ edits' = edits /\ at \in 1 .. (Len(setup.projects) + 1)
      /\ Len(setup.projects) \in Nat /\ ~(at <= Len(setup.projects))
  BY <1>1, Settings DEF IInv, WorldType, world
<1>3. AtRest /\ UNCHANGED <<opened, mail>>
  BY <1>1, <1>2, PhaseRests DEF Probing, Analysing
<1>4. phase' \in Phases /\ at' \in 1 .. (Len(setup.projects) + 1)
  BY <1>1, <1>2 DEF Phases
<1>5. ResultType' /\ Digests' /\ Books'
  BY <1>1 DEF IInv, ResultType, Digests, Books
<1>6. OneTree'
  BY <1>1, <1>2 DEF IInv, OneTree
<1>7. candidate' # NoTree /\ edits < 2 => candidate' = now.digest /\ SeenOnly(now.digest)
  BY <1>1 DEF IInv, OneTree
<1>8. summary' = "ok" => Len(results) = Len(setup.projects) /\ \A k \in DOMAIN results : results[k] = "ok"
  BY <1>1 DEF IInv, OkIsWhole
<1>9. UNCHANGED <<views, results, evidence>>
  BY <1>1
<1>10. QED
  BY <1>1, <1>3, <1>4, <1>5, <1>6, <1>7, <1>8, <1>9, PhaseInv

LEMMA CrashInv == ASSUME IInv, Crash PROVE IInv'
<1>1. /\ phase' = "over" /\ at' = at /\ summary' = "failed" /\ results' = << >>
      /\ evidence' = << >> /\ views' = << >> /\ before' = before /\ now' = now
      /\ candidate' = candidate /\ UNCHANGED <<world, cuts>> /\ (Faulty \/ Fine)
      /\ SessionFrame /\ port = NoPort /\ phase = "projects"
  BY DEF Crash, Analysing
<1>2. AtRest /\ UNCHANGED <<opened, mail>>
  BY <1>1, SessionFrameRests DEF SessionFrame
<1>3. SessionType' /\ OneSession' /\ Progress'
  BY <1>2, RestFrame
<1>4. WorldType'
  BY <1>1, WorldFrame DEF IInv, WorldType, Phases
<1>5. ResultType' /\ Digests' /\ Books'
  BY <1>1 DEF IInv, ResultType, Digests, Books, Status
<1>6. OneTree' /\ CandidateIsOneTree'
  BY <1>1 DEF IInv, OneTree, CandidateIsOneTree, world
<1>7. OkIsWhole'
  BY <1>1 DEF OkIsWhole
<1>8. QED
  BY <1>3, <1>4, <1>5, <1>6, <1>7 DEF IInv

LEMMA EditInv == ASSUME IInv, Edit PROVE IInv'
<1>1. /\ phase # "over" /\ edits < setup.edits /\ tree' \in Tree \ {tree} /\ edits' = edits + 1
      /\ setup' = setup /\ phase' = phase /\ at' = at /\ views' = views /\ results' = results
      /\ evidence' = evidence /\ before' = before /\ now' = now /\ candidate' = candidate
      /\ summary' = summary /\ session' = session /\ peer' = peer
      /\ UNCHANGED <<faults, cuts, port, opened, mail, graphVars>>
  BY DEF Edit, control, record
<1>2. WorldType'
  BY <1>1, Settings DEF IInv, WorldType
<1>3. SessionType' /\ ResultType' /\ Digests' /\ Books' /\ OkIsWhole'
  BY <1>1 DEF IInv, SessionType, ResultType, Digests, Books, OkIsWhole
<1>4. OneSession'
  <2>1. Bare' = Bare
    BY <1>1 DEF Bare, graphVars
  <2>2. QED
    BY <1>1, <2>1, SameProject DEF IInv, OneSession
<1>5. Progress'
  BY <1>1, QuietProgress DEF IInv
<1>6. OneTree' /\ CandidateIsOneTree'
  <2>1. edits \in Nat /\ candidate = NoTree /\ tree' # NoTree
    BY <1>1, TsAssumption DEF IInv, WorldType, OneTree
  <2>2. edits' < 2 => edits = 0
    BY <1>1, <2>1
  <2>3. edits' # 0
    BY <1>1, <2>1
  <2>4. PICK d : d = now.digest
    OBVIOUS
  <2>5. SeenOnly(d)' = SeenOnly(d) /\ SeenOnly(now.digest)' = SeenOnly(d)'
    BY <1>1, <2>4, SameProject DEF SeenOnly
  <2>6. edits' < 2 => before.digest # tree'
    BY <1>1, <2>1, <2>2 DEF IInv, OneTree
  <2>7. edits' < 2 => edits < 2
    BY <2>2
  <2>8. QED
    BY <1>1, <2>1, <2>3, <2>4, <2>5, <2>6, <2>7 DEF IInv, OneTree, CandidateIsOneTree
<1>7. QED
  BY <1>2, <1>3, <1>4, <1>5, <1>6 DEF IInv

LEMMA SeqGrows ==
  ASSUME NEW S, NEW T, S \subseteq T, NEW s \in Seq(S)
  PROVE  s \in Seq(T)
  OBVIOUS

LEMMA OpenInv == ASSUME IInv, Open PROVE IInv'
<1>1. /\ port = NoPort /\ (Probing \/ Analysing) /\ HasProgram
      /\ opened' = opened + 1 /\ port' = opened + 1
      /\ peer' = [NoPeer EXCEPT !.running = TRUE, !.told = (Kind = "node")]
      /\ session' = [NoSession EXCEPT !.asked = (Kind = "node")]
      /\ setup' = setup /\ tree' = tree /\ edits' = edits /\ phase' = phase /\ at' = at
      /\ UNCHANGED <<faults, cuts, mail, record, graphVars>>
  BY DEF Open, CanStart, world, control
<1>2. Kind' = Kind /\ Current' = Current /\ Probing' = Probing /\ Analysing' = Analysing
  BY <1>1, SameProject
<1>3. /\ session' = [step |-> 0, asked |-> (Kind = "node"), got |-> 0, odd |-> FALSE, bent |-> {},
                     files |-> 0, late |-> FALSE, end |-> NotYet, from |-> {}, sources |-> NoTree]
      /\ peer' = [running |-> TRUE, told |-> (Kind = "node"), sent |-> 0, foul |-> FALSE,
                  compiler |-> NoTree]
  BY <1>1 DEF NoSession, NoPeer, Unread
<1>4. opened \in Nat /\ (1 .. opened) \subseteq (1 .. opened') /\ opened' \in Nat /\ port' # NoPort
  BY <1>1 DEF IInv, SessionType, NoPort
<1>5. SessionType'
  <2>1. mail' \in Seq([port : 1 .. opened', kind : Kinds, to : Cut])
    <3>1. Message \subseteq [port : 1 .. opened', kind : Kinds, to : Cut]
      BY <1>4 DEF Message
    <3>2. mail \in Seq(Message) /\ mail' = mail
      BY <1>1 DEF IInv, SessionType, Message
    <3> HIDE DEF Message
    <3>3. QED
      BY <3>1, <3>2, SeqGrows
  <2>2. 0 \in Cut /\ (Kind = "node") \in BOOLEAN
    BY DEF Cut
  <2> HIDE DEF Cut
  <2>3. session' \in [step : Nat, asked : BOOLEAN, got : Cut, odd : BOOLEAN,
                      bent : SUBSET {"result", "types"}, files : Nat, late : BOOLEAN,
                      end : Status \union Errors \union {NotYet}, from : SUBSET (1 .. opened'), sources : Tree \union {NoTree}]
    BY <1>3, <2>2
  <2>4. peer' \in [running : BOOLEAN, told : BOOLEAN, sent : Cut, foul : BOOLEAN,
                   compiler : Tree \union {NoTree}]
    BY <1>3, <2>2
  <2>5. QED
    BY <1>1, <1>4, <2>1, <2>3, <2>4 DEF SessionType
<1>6. WorldType' /\ ResultType' /\ Digests' /\ Books' /\ OkIsWhole' /\ CandidateIsOneTree'
  BY <1>1 DEF IInv, WorldType, ResultType, Digests, Books, OkIsWhole, CandidateIsOneTree, record
<1>7. OneSession'
  BY <1>1, <1>2, <1>3, <1>4 DEF OneSession
<1>8. Bare /\ Bare'
  BY <1>1 DEF IInv, OneSession, Bare, graphVars
<1>9. Progress'
  <2>1. Located' = 4 /\ Last = 4
    BY <1>3, LastIs DEF Located, Diagnosed
  <2>2. Early'
    BY <1>3 DEF Early
  <2>3. session'.end # "ok"
    BY <1>3 DEF NotYet
  <2>4. QED
    BY <1>3, <1>8, <2>1, <2>2, <2>3 DEF Progress
<1>10. OneTree'
  <2>1. PICK t, d : t = tree /\ d = now.digest
    OBVIOUS
  <2>2. ASSUME NEW u, SeenOnly(u) PROVE SeenOnly(u)'
    <3>1. views' = views
      BY <1>1 DEF record
    <3>2. peer'.compiler = NoTree /\ session'.sources = NoTree
      BY <1>3
    <3>3. QED
      BY <2>2, <3>1, <3>2 DEF SeenOnly
  <2>3. SeenOnly(tree)' = SeenOnly(t)' /\ SeenOnly(now.digest)' = SeenOnly(d)'
    BY <1>1, <2>1 DEF record
  <2>4. QED
    BY <1>1, <2>1, <2>2, <2>3 DEF IInv, OneTree, record
<1>11. QED
  BY <1>5, <1>6, <1>7, <1>9, <1>10 DEF IInv

------------------------------------------------------------------------------
(* The theorems *)

LEMMA StutterInv == ASSUME IInv, UNCHANGED vars PROVE IInv'
<1>1. /\ setup' = setup /\ tree' = tree /\ edits' = edits /\ faults' = faults /\ cuts' = cuts
      /\ phase' = phase /\ at' = at /\ port' = port /\ opened' = opened /\ session' = session
      /\ peer' = peer /\ mail' = mail /\ views' = views /\ results' = results
      /\ evidence' = evidence /\ before' = before /\ now' = now /\ candidate' = candidate
      /\ summary' = summary /\ UNCHANGED graphVars
  BY DEF vars
<1>2. Kind' = Kind /\ Current' = Current /\ Probing' = Probing /\ Analysing' = Analysing
  BY <1>1, SameProject
<1>3. WorldType' /\ SessionType' /\ ResultType' /\ Digests' /\ Books' /\ OkIsWhole' /\ CandidateIsOneTree'
  BY <1>1 DEF IInv, WorldType, SessionType, ResultType, Digests, Books, OkIsWhole, CandidateIsOneTree
<1>4. OneSession'
  <2>1. Bare' = Bare
    BY <1>1 DEF Bare, graphVars
  <2>2. QED
    BY <1>1, <1>2, <2>1 DEF IInv, OneSession
<1>5. Progress'
  BY <1>1, QuietProgress DEF IInv
<1>6. OneTree'
  <2>1. PICK t, d : t = tree /\ d = now.digest
    OBVIOUS
  <2>2. ASSUME NEW u, SeenOnly(u) PROVE SeenOnly(u)'
    BY <1>1, <1>2, <2>2 DEF SeenOnly
  <2>3. SeenOnly(tree)' = SeenOnly(t)' /\ SeenOnly(now.digest)' = SeenOnly(d)'
    BY <1>1, <2>1
  <2>4. QED
    BY <1>1, <2>1, <2>2, <2>3 DEF IInv, OneTree
<1>7. QED
  BY <1>3, <1>4, <1>5, <1>6 DEF IInv

LEMMA NextInv == ASSUME IInv, [Next]_vars PROVE IInv'
<1>1. CASE Analyse
  BY <1>1, BeginInv, EndBeforeInv, EndProjectsInv, EndAfterInv, CrashInv, OpenInv, AskInv,
     SkipEntryInv, EndGraphInv, ReceiveInv, ReceiveWorkerInv, TimeoutInv, CloseInv, NoProbeInv,
     NoAnalysisInv DEF Analyse
<1>2. CASE Answer \/ Misanswer \/ Exit \/ Expire
  BY <1>2, PeerInv
<1>3. CASE Edit
  BY <1>3, EditInv
<1>4. CASE UNCHANGED vars
  BY <1>4, StutterInv
<1>5. QED
  BY <1>1, <1>2, <1>3, <1>4 DEF Next

LEMMA Invariance == Spec => []IInv
  BY InitInv, NextInv, PTL DEF Spec

\* symbolic_tsgo: "ok" is never said of a project whose graph was cut, whatever
\* the limits, the answers and the graph; and the analysis is "ok" only when
\* every project is (aggregate_status/1).
THEOREM OkMeansWhole == Spec => []OkIsWhole
<1>1. IInv => OkIsWhole
  BY DEF IInv
<1>2. QED
  BY <1>1, Invariance, PTL

\* symbolic_ts_inputs: a candidate is of the files that every compiler and every
\* reading of the sources saw, unless they changed twice.
THEOREM CandidateMeansOneTree == Spec => []CandidateIsOneTree
<1>1. IInv => CandidateIsOneTree
  BY DEF IInv
<1>2. QED
  BY <1>1, Invariance, PTL
------------------------------------------------------------------------------
(***************************************************************************)
(* The talk of a session and the program behind its port: a program which  *)
(* answers is heard, and a probe which succeeds has seen the files.        *)
(***************************************************************************)

OwnAt(k) == k \in DOMAIN mail /\ IsOwn(mail[k])

\* Who is to speak: as long as the program owes the rest of an answer, what has
\* come of it is in the mailbox or taken.
Turns ==
  /\ Kind = "node" => session.asked
  /\ peer.told => /\ peer.running /\ session.asked
                  /\ session.got <= peer.sent /\ peer.sent < All
  /\ \A k \in DOMAIN mail : OwnAt(k) =>
       /\ peer.told => mail[k].kind = "data" /\ mail[k].to <= peer.sent
       /\ ~session.asked => mail[k].kind = "exit"

\* Pieces come in their order, and behind the end nothing.
InOrder ==
  /\ \A i, j \in DOMAIN mail : OwnAt(i) /\ OwnAt(j) /\ i < j =>
       mail[i].kind # "exit" /\ (mail[j].kind = "exit" \/ mail[i].to < mail[j].to)
  /\ \A k \in DOMAIN mail : OwnAt(k) /\ mail[k].kind # "exit" => session.got < mail[k].to

\* Whatever is not as it should be is the program's doing.
Blame ==
  /\ session.odd \/ session.bent # {} => peer.foul
  /\ ~peer.running => peer.foul \/ Kind = "node"
  /\ \A k \in DOMAIN mail : OwnAt(k) =>
       /\ mail[k].kind \in {"refusal", "odd", "flood"} => peer.foul
       /\ mail[k].kind = "exit" => ~peer.running
  /\ Kind = "node" /\ ~peer.foul /\ ~peer.told =>
       \/ session.got = All
       \/ \E k \in DOMAIN mail : OwnAt(k) /\ mail[k].kind = "data" /\ mail[k].to = All

\* The compiler has read the files when its answer to updateSnapshot comes.
Read ==
  Kind = "probe" =>
    /\ session.step >= 3 => peer.compiler \in Tree
    /\ session.step = 2 =>
         /\ peer.told /\ peer.sent # Unread => peer.compiler \in Tree
         /\ \A k \in DOMAIN mail : OwnAt(k) /\ mail[k].kind # "exit" => peer.compiler \in Tree

Talk == port # NoPort /\ session.end = NotYet => Turns /\ InOrder /\ Blame /\ Read

Known == port # NoPort /\ Kind = "probe" /\ session.end = "ok" => peer.compiler \in Tree

NameSet == {NamesOf[t] : t \in Tree}
NamesType == before.names \in Seq(NameSet) /\ now.names \in Seq(NameSet)

TInv == /\ IInv /\ Talk /\ HonestProgramIsHeard /\ Known /\ NamesType

------------------------------------------------------------------------------
(* The mailbox *)

LEMMA Sent ==
  ASSUME SessionType, NEW kind, NEW to, Send(kind, to)
  PROVE  /\ \A k \in DOMAIN mail : k \in DOMAIN mail' /\ mail'[k] = mail[k] /\ k < Len(mail) + 1
         /\ Len(mail) + 1 \in DOMAIN mail'
         /\ mail'[Len(mail) + 1] = [port |-> port, kind |-> kind, to |-> to]
         /\ \A k \in DOMAIN mail' : k \in DOMAIN mail \/ k = Len(mail) + 1
<1>1. mail \in Seq(Message) /\ mail' = Append(mail, [port |-> port, kind |-> kind, to |-> to])
  BY DEF SessionType, Message, Send
<1> HIDE DEF Message
<1>2. QED
  BY <1>1

LEMMA Removed ==
  ASSUME SessionType, NEW k \in DOMAIN mail, mail' = Without(k)
  PROVE  /\ \A i \in DOMAIN mail' : i \in Nat /\
              \/ i < k /\ i \in DOMAIN mail /\ mail'[i] = mail[i]
              \/ i >= k /\ i + 1 \in DOMAIN mail /\ mail'[i] = mail[i + 1]
         /\ \A j \in DOMAIN mail : j # k => \E i \in DOMAIN mail' : mail'[i] = mail[j]
<1>1. mail \in Seq(Message) /\ k \in 1 .. Len(mail) /\ Len(mail) \in Nat
  BY DEF SessionType, Message
<1> HIDE DEF Message
<1> DEFINE front == SubSeq(mail, 1, k - 1)
           back == SubSeq(mail, k + 1, Len(mail))
<1>2. front \in Seq(Message) /\ Len(front) = k - 1 /\ \A i \in 1 .. (k - 1) : front[i] = mail[i]
  BY <1>1
<1>3. back \in Seq(Message) /\ Len(back) = Len(mail) - k
      /\ \A i \in 1 .. (Len(mail) - k) : back[i] = mail[k + i]
  BY <1>1
<1>4. mail' = front \o back
  BY DEF Without
<1> HIDE DEF front, back
<1>5. Len(mail') = Len(mail) - 1 /\ mail' \in Seq(Message)
  BY <1>1, <1>2, <1>3, <1>4
<1>6. \A i \in 1 .. (k - 1) : mail'[i] = mail[i]
  BY <1>1, <1>2, <1>3, <1>4
<1>7. \A i \in k .. (Len(mail) - 1) : mail'[i] = mail[i + 1]
  <2>1. ASSUME NEW i \in k .. (Len(mail) - 1) PROVE mail'[i] = mail[i + 1]
    <3>1. mail'[i] = back[i - (k - 1)]
      BY <1>1, <1>2, <1>3, <1>4
    <3>2. i - (k - 1) \in 1 .. (Len(mail) - k) /\ k + (i - (k - 1)) = i + 1
      BY <1>1
    <3>3. QED
      BY <1>3, <3>1, <3>2
  <2>2. QED
    BY <2>1
<1>8. DOMAIN mail' = 1 .. (Len(mail) - 1) /\ DOMAIN mail = 1 .. Len(mail)
  BY <1>1, <1>5
<1>9. \A i \in DOMAIN mail' : i \in Nat /\
        \/ i < k /\ i \in DOMAIN mail /\ mail'[i] = mail[i]
        \/ i >= k /\ i + 1 \in DOMAIN mail /\ mail'[i] = mail[i + 1]
  BY <1>1, <1>6, <1>7, <1>8
<1>10. ASSUME NEW j \in DOMAIN mail, j # k PROVE \E i \in DOMAIN mail' : mail'[i] = mail[j]
  <2>1. CASE j < k
    BY <1>1, <1>6, <1>8, <2>1
  <2>2. CASE j > k
    <3>1. j - 1 \in DOMAIN mail' /\ j - 1 \in k .. (Len(mail) - 1) /\ (j - 1) + 1 = j
      BY <1>1, <1>8, <2>2
    <3>2. QED
      BY <1>7, <3>1
  <2>3. QED
    BY <1>1, <1>8, <1>10, <2>1, <2>2
<1>11. QED
  BY <1>9, <1>10

------------------------------------------------------------------------------
(* The ends of sessions *)

\* What is to be shown of a step, besides the invariant it keeps.
Onward == Talk /\ HonestProgramIsHeard /\ Known /\ NamesType

\* Where a session may end in an error with an honest program.
AtLatinEnd == ~Current.utf8 /\ session.step = Located

LEMMA SameEnd ==
  ASSUME UNCHANGED <<setup, phase, at>>, session'.step = session.step,
         session'.files = session.files
  PROVE  AtLatinEnd' = AtLatinEnd
  BY SameProject DEF AtLatinEnd, Located, Diagnosed

LEMMA NamesFrame ==
  ASSUME NamesType, UNCHANGED <<before, now>>
  PROVE  NamesType'
  BY DEF NamesType

LEMMA EndRest ==
  ASSUME TInv, UNCHANGED <<world, control, port, peer, record>>,
         NEW end \in Status \union Errors, EndWith(end),
         end \in Errors => \/ peer.foul \/ session.late \/ (session.got \in InLength)
                          \/ (AtLatinEnd /\ end = "worker_crash"),
         end = "ok" => Kind # "probe"
  PROVE  Onward'
<1>1. /\ session'.end = end /\ session'.got = session.got /\ session'.late = session.late
      /\ session'.step = session.step /\ session'.files = session.files
      /\ peer' = peer /\ port' = port
  BY DEF EndWith, TInv, IInv, SessionType
<1>2. Kind' = Kind /\ AtLatinEnd' = AtLatinEnd
  BY <1>1, SameProject, SameEnd DEF world, control
<1>3. Talk'
  BY <1>1 DEF Talk, Status, Errors, NotYet
<1>4. HonestProgramIsHeard' /\ Known'
  BY <1>1, <1>2 DEF HonestProgramIsHeard, AtLatinEnd, Known
<1>5. NamesType'
  BY NamesFrame DEF TInv, record
<1>6. QED
  BY <1>3, <1>4, <1>5 DEF Onward

LEMMA TimeoutRest == ASSUME TInv, Timeout PROVE Onward'
<1>1. EndWith("timeout") /\ session.late /\ UNCHANGED <<world, control, port, peer, record>>
  BY DEF Timeout
<1>2. "timeout" \in Status \union Errors
  BY DEF Errors
<1>3. QED
  BY <1>1, <1>2, EndRest

LEMMA EndGraphRest == ASSUME TInv, EndGraph PROVE Onward'
<1>1. PICK end \in {"partial", "ok", "worker_crash"} :
        EndWith(end) /\ (end = "worker_crash" => Raises)
  BY DEF EndGraph
<1>2. /\ Kind = "native" /\ UNCHANGED <<world, control, port, peer, record>>
      /\ session.step = Located /\ port # NoPort /\ session.end = NotYet
  BY DEF EndGraph, AtEntry, Waiting
<1>3. end \in Status \union Errors /\ (end \in Errors => end = "worker_crash")
  BY DEF Status, Errors
<1>4. Raises => peer.foul \/ AtLatinEnd
  BY <1>2 DEF Raises, TInv, Talk, Blame, AtLatinEnd
<1>5. QED
  BY <1>1, <1>2, <1>3, <1>4, EndRest

LEMMA SkipEntryRest == ASSUME TInv, SkipEntry PROVE Onward'
<1>1. /\ session' = session /\ peer' = peer /\ port' = port /\ mail' = mail
      /\ before' = before /\ now' = now /\ Kind' = Kind /\ AtLatinEnd' = AtLatinEnd
  BY SameProject, SameEnd DEF SkipEntry, world, control, record
<1>2. Turns' = Turns /\ InOrder' = InOrder /\ Blame' = Blame /\ Read' = Read
  BY <1>1 DEF Turns, InOrder, Blame, Read, OwnAt, IsOwn
<1>3. Talk' /\ HonestProgramIsHeard' /\ Known'
  BY <1>1, <1>2 DEF TInv, Talk, HonestProgramIsHeard, AtLatinEnd, Known
<1>4. QED
  BY <1>1, <1>3, NamesFrame DEF Onward, TInv

LEMMA AskRest == ASSUME TInv, Ask PROVE Onward'
<1>1. /\ port # NoPort /\ session.end = NotYet /\ ~session.asked /\ port' = port /\ mail' = mail
      /\ UNCHANGED <<world, control, port, record>> /\ Kind' = Kind
  BY SameProject DEF Ask, Waiting, world, control
<1>2. Turns /\ InOrder /\ Blame /\ Read
  BY <1>1 DEF TInv, Talk
<1>3. Kind # "node"
  BY <1>1, <1>2 DEF Turns
<1>4. CASE peer.running
  <2>1. /\ session' = [session EXCEPT !.asked = TRUE, !.got = Unread]
        /\ peer' = [peer EXCEPT !.told = TRUE, !.sent = Unread]
    BY <1>4 DEF Ask
  <2>2. /\ session'.asked /\ session'.got = 0 /\ session'.odd = session.odd
        /\ session'.bent = session.bent
        /\ session'.step = session.step /\ session'.end = session.end
        /\ session'.late = session.late
        /\ peer'.told /\ peer'.sent = 0 /\ peer'.running /\ peer'.foul = peer.foul
        /\ peer'.compiler = peer.compiler
    BY <1>4, <2>1 DEF TInv, IInv, SessionType, Unread
  <2>3. \A k \in DOMAIN mail : OwnAt(k)' = OwnAt(k)
    BY <1>1 DEF OwnAt, IsOwn
  <2>4. \A k \in DOMAIN mail : ~OwnAt(k)
    BY <1>1, <1>2, <1>4 DEF Turns, Blame
  <2>5. Turns'
    BY <1>1, <1>3, <2>2, <2>3, <2>4 DEF Turns, All
  <2>6. InOrder'
    BY <1>1, <2>3, <2>4 DEF InOrder
  <2>7. Blame'
    BY <1>1, <1>2, <1>3, <2>2, <2>3, <2>4 DEF Blame
  <2>8. Read'
    BY <1>1, <1>2, <2>2, <2>3, <2>4 DEF Read, Unread
  <2>9. HonestProgramIsHeard' /\ Known'
    BY <1>1, <2>2 DEF HonestProgramIsHeard, Known, NotYet, Errors
  <2>10. NamesType'
    BY <1>1, NamesFrame DEF TInv, record
  <2>11. QED
    BY <2>5, <2>6, <2>7, <2>8, <2>9, <2>10 DEF Onward, Talk
<1>5. CASE ~peer.running
  <2>1. EndWith("worker_start") /\ UNCHANGED peer
    BY <1>5 DEF Ask
  <2>2. peer.foul
    BY <1>2, <1>3, <1>5 DEF Blame
  <2>3. "worker_start" \in Status \union Errors
    BY DEF Errors
  <2>4. QED
    BY <1>1, <2>1, <2>2, <2>3, EndRest
<1>6. QED
  BY <1>4, <1>5

\* A step by which the session and the program are what they were, or none is
\* left of them.
LEMMA AtRestRest ==
  ASSUME AtRest, NamesType'
  PROVE  Onward'
  BY DEF AtRest, Onward, Talk, HonestProgramIsHeard, Known, NoSession, Errors, NotYet

------------------------------------------------------------------------------
(* The program behind the port *)

\* What steps of the program and the clock leave alone.
LEMMA PeerRest ==
  ASSUME TInv, PeerFrame, port # NoPort,
         session' = session \/ session' = [session EXCEPT !.late = TRUE],
         peer.foul => peer'.foul, peer.compiler \in Tree => peer'.compiler \in Tree,
         session.end = NotYet => Turns' /\ InOrder' /\ Blame' /\ Read'
  PROVE  Onward'
<1>1. /\ port' = port /\ before' = before /\ now' = now /\ Kind' = Kind
  BY SameProject DEF PeerFrame, world, control, record
<1>2. /\ session'.end = session.end /\ session'.got = session.got
      /\ session'.step = session.step /\ session'.files = session.files
      /\ session.late => session'.late
  BY DEF TInv, IInv, SessionType
<1>3. Talk'
  BY <1>1, <1>2 DEF TInv, Talk
<1>a. AtLatinEnd' = AtLatinEnd
  BY <1>2, SameEnd DEF PeerFrame, world, control
<1>4. HonestProgramIsHeard' /\ Known'
  BY <1>1, <1>2, <1>a DEF TInv, HonestProgramIsHeard, AtLatinEnd, Known
<1>5. QED
  BY <1>1, <1>3, <1>4, NamesFrame DEF TInv, Onward

LEMMA PeerFields ==
  ASSUME TInv, Alive, PeerFrame
  PROVE  /\ port # NoPort /\ peer.running /\ port' = port /\ Kind' = Kind
         /\ session.end = NotYet => Turns /\ InOrder /\ Blame /\ Read
         /\ peer.sent \in 0 .. 8 /\ session.got \in 0 .. 8 /\ session.step \in Nat
         /\ SessionType /\ tree \in Tree
  BY SameProject DEF Alive, PeerFrame, world, control, TInv, Talk, IInv, SessionType, Cut, WorldType

\* The first piece of the answer to updateSnapshot comes from the files.
LEMMA ReadsTree ==
  ASSUME TInv, Alive, PeerFrame, session.end = NotYet, peer.told
  PROVE  /\ Kind = "probe" /\ session.step >= 2 => Reads \in Tree
         /\ peer.compiler \in Tree => Reads \in Tree
<1>1. Read /\ session.step \in Nat /\ tree \in Tree
  BY PeerFields
<1>2. peer.compiler \in Tree => Reads \in Tree
  BY <1>1 DEF Reads
<1>3. ASSUME Kind = "probe", session.step = 2 PROVE Reads \in Tree
  <2>1. session.step + 1 <= Last /\ Request = Opening[3]
    BY <1>3, LastIs DEF Request
  <2>2. Request = "updateSnapshot"
    BY <2>1 DEF Opening
  <2>3. QED
    BY <1>1, <1>3, <2>2 DEF Reads, Read
<1>4. Kind = "probe" /\ session.step >= 3 => Reads \in Tree
  BY <1>1, <1>2 DEF Read
<1>5. QED
  BY <1>1, <1>2, <1>3, <1>4

LEMMA MessageAt ==
  ASSUME TInv, NEW k \in DOMAIN mail
  PROVE  mail[k] \in Message /\ mail[k].to \in 0 .. 8 /\ mail[k].kind \in Kinds
<1>1. mail[k] \in Message
  BY WithoutType DEF TInv, IInv
<1>2. QED
  BY <1>1 DEF Message, Cut

LEMMA AnswerRest == ASSUME TInv, Answer PROVE Onward'
<1>1. PICK to \in Cut :
        /\ to > peer.sent /\ Send("data", to)
        /\ peer' = [peer EXCEPT !.told = (to # All), !.sent = IF to = All THEN Unread ELSE to,
                                !.compiler = Reads]
  BY DEF Answer
<1>2. Alive /\ PeerFrame /\ peer.told /\ session' = session
  BY DEF Answer
<1>3. /\ peer'.running = peer.running /\ peer'.told = (to # All) /\ peer'.foul = peer.foul
      /\ peer'.sent = (IF to = All THEN 0 ELSE to) /\ peer'.compiler = Reads /\ to \in 0 .. 8
  BY <1>1 DEF TInv, IInv, SessionType, Unread, Cut
<1>4. peer.compiler \in Tree => Reads \in Tree
  BY <1>2, PeerFields DEF Reads
<1>5. ASSUME session.end = NotYet PROVE Turns' /\ InOrder' /\ Blame' /\ Read'
  <2>1. Turns /\ InOrder /\ Blame /\ Read
    BY <1>2, <1>5, PeerFields
  <2>2. /\ \A k \in DOMAIN mail : k \in DOMAIN mail' /\ mail'[k] = mail[k] /\ k < Len(mail) + 1
        /\ Len(mail) + 1 \in DOMAIN mail'
        /\ mail'[Len(mail) + 1] = [port |-> port, kind |-> "data", to |-> to]
        /\ \A k \in DOMAIN mail' : k \in DOMAIN mail \/ k = Len(mail) + 1
    BY <1>1, <1>2, PeerFields, Sent
  <2>c. PICK last : last = Len(mail) + 1
    OBVIOUS
  <2>3. /\ \A k \in DOMAIN mail : OwnAt(k)' = OwnAt(k)
        /\ mail'[last].kind = "data" /\ mail'[last].to = to /\ Len(mail) \in Nat
    BY <1>2, <2>2, <2>c, PeerFields DEF OwnAt, IsOwn, SessionType
  <2>a. OwnAt(last)'
    BY <1>2, <2>2, <2>c, PeerFields DEF OwnAt, IsOwn
  <2>4. \A k \in DOMAIN mail : OwnAt(k) => mail[k].kind = "data" /\ mail[k].to <= peer.sent
                                            /\ mail[k].to \in 0 .. 8
    BY <1>2, <2>1, MessageAt DEF Turns
  <2>b. session.asked /\ session.got <= peer.sent /\ peer.sent < to
    BY <1>1, <1>2, <1>3, <2>1, PeerFields DEF Turns
  <2>5. Turns'
    <3>1. Kind' = "node" => session'.asked
      BY <1>2, <2>1, PeerFields DEF Turns
    <3>2. peer'.told => /\ peer'.running /\ session'.asked
                        /\ session'.got <= peer'.sent /\ peer'.sent < All
      <4>1. SUFFICES ASSUME to # 8 PROVE session.got <= to /\ to < 8
        BY <1>2, <1>3, <2>b, PeerFields DEF All
      <4>2. QED
        BY <1>2, <1>3, <2>b, <4>1, PeerFields
    <3>3. ASSUME NEW k \in DOMAIN mail', OwnAt(k)', peer'.told
          PROVE  mail'[k].kind = "data" /\ mail'[k].to <= peer'.sent
      <4>1. peer'.sent = to /\ peer.sent < to
        BY <1>3, <2>b, <3>3
      <4>2. CASE k \in DOMAIN mail
        BY <1>2, <1>3, <2>2, <2>3, <2>4, <3>3, <4>1, <4>2, PeerFields
      <4>3. CASE k = last
        BY <1>3, <2>3, <4>1, <4>3
      <4>4. QED
        BY <2>2, <4>2, <4>3, <2>c
    <3>4. session'.asked
      BY <1>2, <2>1 DEF Turns
    <3>5. QED
      BY <3>1, <3>2, <3>3, <3>4 DEF Turns
  <2>6. InOrder'
    <3>1. ASSUME NEW i \in DOMAIN mail', NEW j \in DOMAIN mail', OwnAt(i)', OwnAt(j)', i < j
          PROVE  mail'[i].kind # "exit" /\ (mail'[j].kind = "exit" \/ mail'[i].to < mail'[j].to)
      <4>1. i \in DOMAIN mail /\ (j \in DOMAIN mail \/ j = last)
        BY <2>2, <2>3, <3>1, <2>c
      <4>2. CASE j \in DOMAIN mail
        BY <2>1, <2>2, <2>3, <3>1, <4>1, <4>2 DEF InOrder
      <4>3. CASE j = last
        BY <1>2, <1>3, <2>2, <2>3, <2>4, <2>b, <3>1, <4>1, <4>3, PeerFields
      <4>4. QED
        BY <4>1, <4>2, <4>3
    <3>2. ASSUME NEW k \in DOMAIN mail', OwnAt(k)', mail'[k].kind # "exit"
          PROVE  session'.got < mail'[k].to
      <4>1. CASE k \in DOMAIN mail
        BY <1>2, <2>1, <2>2, <2>3, <3>2, <4>1 DEF InOrder
      <4>2. CASE k = last
        BY <1>1, <1>2, <1>3, <2>3, <2>b, <4>2, PeerFields
      <4>3. QED
        BY <2>2, <4>1, <4>2, <2>c
    <3>3. QED
      BY <3>1, <3>2 DEF InOrder
  <2>7. Blame'
    <3>1. (session'.odd \/ session'.bent # {} => peer'.foul) /\ peer'.running
      BY <1>2, <1>3, <2>1, PeerFields DEF Blame
    <3>2. ASSUME NEW k \in DOMAIN mail', OwnAt(k)'
          PROVE  mail'[k].kind \notin {"refusal", "odd", "flood", "exit"}
      BY <2>2, <2>3, <2>4, <3>2, <2>c
    <3>3. ~peer'.told => \E k \in DOMAIN mail' : OwnAt(k)' /\ mail'[k].kind = "data" /\ mail'[k].to = All
      BY <1>3, <2>2, <2>3, <2>a, <2>c
    <3>4. QED
      BY <3>1, <3>2, <3>3 DEF Blame
  <2>8. Read'
    BY <1>2, <1>3, <1>5, PeerFields, ReadsTree DEF Read
  <2>9. QED
    BY <2>5, <2>6, <2>7, <2>8
<1>6. QED
  BY <1>2, <1>3, <1>4, <1>5, PeerFields, PeerRest

LEMMA MisanswerRest == ASSUME TInv, Misanswer PROVE Onward'
<1>1. PICK kind \in {"refusal", "odd", "flood"} : Send(kind, All)
  BY DEF Misanswer
<1>2. Alive /\ PeerFrame /\ peer.told /\ peer.sent = 0 /\ session' = session
  BY DEF Misanswer, Unread
<1>3. /\ peer'.running = peer.running /\ ~peer'.told /\ peer'.foul
      /\ peer'.compiler = Reads
  BY DEF Misanswer, TInv, IInv, SessionType
<1>4. peer.compiler \in Tree => Reads \in Tree
  BY <1>2, PeerFields DEF Reads
<1>5. ASSUME session.end = NotYet PROVE Turns' /\ InOrder' /\ Blame' /\ Read'
  <2>1. Turns /\ InOrder /\ Blame /\ Read
    BY <1>2, <1>5, PeerFields
  <2>2. /\ \A k \in DOMAIN mail : k \in DOMAIN mail' /\ mail'[k] = mail[k] /\ k < Len(mail) + 1
        /\ Len(mail) + 1 \in DOMAIN mail'
        /\ mail'[Len(mail) + 1] = [port |-> port, kind |-> kind, to |-> All]
        /\ \A k \in DOMAIN mail' : k \in DOMAIN mail \/ k = Len(mail) + 1
    BY <1>1, <1>2, PeerFields, Sent
  <2>c. PICK last : last = Len(mail) + 1
    OBVIOUS
  <2>3. /\ \A k \in DOMAIN mail : OwnAt(k)' = OwnAt(k)
        /\ mail'[last].kind = kind /\ mail'[last].to = 8 /\ Len(mail) \in Nat
    BY <1>2, <2>2, <2>c, PeerFields DEF OwnAt, IsOwn, SessionType, All
  <2>4. \A k \in DOMAIN mail : OwnAt(k) => mail[k].kind = "data" /\ mail[k].to <= peer.sent
                                            /\ mail[k].to \in 0 .. 8
    BY <1>2, <2>1, MessageAt DEF Turns
  <2>5. session'.asked /\ session'.got <= 0
    BY <1>2, <2>1 DEF Turns
  <2>6. Turns'
    BY <1>3, <2>5 DEF Turns
  <2>7. InOrder'
    <3>1. ASSUME NEW i \in DOMAIN mail', NEW j \in DOMAIN mail', OwnAt(i)', OwnAt(j)', i < j
          PROVE  mail'[i].kind # "exit" /\ (mail'[j].kind = "exit" \/ mail'[i].to < mail'[j].to)
      <4>1. i \in DOMAIN mail /\ (j \in DOMAIN mail \/ j = last)
        BY <2>2, <2>3, <3>1, <2>c
      <4>2. CASE j \in DOMAIN mail
        BY <2>1, <2>2, <2>3, <3>1, <4>1, <4>2 DEF InOrder
      <4>3. CASE j = last
        BY <1>2, <2>2, <2>3, <2>4, <3>1, <4>1, <4>3
      <4>4. QED
        BY <4>1, <4>2, <4>3
    <3>2. ASSUME NEW k \in DOMAIN mail', OwnAt(k)', mail'[k].kind # "exit"
          PROVE  session'.got < mail'[k].to
      <4>1. CASE k \in DOMAIN mail
        BY <1>2, <2>1, <2>2, <2>3, <3>2, <4>1 DEF InOrder
      <4>2. CASE k = last
        BY <1>2, <2>3, <2>5, <4>2, PeerFields
      <4>3. QED
        BY <2>2, <4>1, <4>2, <2>c
    <3>3. QED
      BY <3>1, <3>2 DEF InOrder
  <2>8. Blame'
    <3>1. ASSUME NEW k \in DOMAIN mail', OwnAt(k)' PROVE mail'[k].kind # "exit"
      BY <2>2, <2>3, <2>4, <3>1, <2>c
    <3>2. QED
      BY <1>2, <1>3, <3>1, PeerFields DEF Blame
  <2>9. Read'
    BY <1>2, <1>3, <1>5, PeerFields, ReadsTree DEF Read
  <2>10. QED
    BY <2>6, <2>7, <2>8, <2>9
<1>6. QED
  BY <1>2, <1>3, <1>4, <1>5, PeerFields, PeerRest

LEMMA ExitRest == ASSUME TInv, Exit PROVE Onward'
<1>1. Send("exit", All) /\ Alive /\ PeerFrame /\ session' = session
  BY DEF Exit
<1>2. /\ ~peer'.running /\ ~peer'.told /\ (peer.foul => peer'.foul)
      /\ peer'.compiler = peer.compiler
      /\ peer'.foul \/ (Kind = "node" /\ ~peer.told /\ peer'.foul = peer.foul)
  BY DEF Exit, TInv, IInv, SessionType
<1>3. ASSUME session.end = NotYet PROVE Turns' /\ InOrder' /\ Blame' /\ Read'
  <2>1. Turns /\ InOrder /\ Blame /\ Read
    BY <1>1, <1>3, PeerFields
  <2>2. /\ \A k \in DOMAIN mail : k \in DOMAIN mail' /\ mail'[k] = mail[k] /\ k < Len(mail) + 1
        /\ Len(mail) + 1 \in DOMAIN mail'
        /\ mail'[Len(mail) + 1] = [port |-> port, kind |-> "exit", to |-> All]
        /\ \A k \in DOMAIN mail' : k \in DOMAIN mail \/ k = Len(mail) + 1
    BY <1>1, PeerFields, Sent
  <2>c. PICK last : last = Len(mail) + 1
    OBVIOUS
  <2>3. /\ \A k \in DOMAIN mail : OwnAt(k)' = OwnAt(k)
        /\ mail'[last].kind = "exit" /\ Len(mail) \in Nat
    BY <1>1, <2>2, <2>c, PeerFields DEF OwnAt, IsOwn, SessionType
  <2>4. \A k \in DOMAIN mail : OwnAt(k) => mail[k].kind # "exit"
    BY <1>1, <2>1, PeerFields DEF Blame
  <2>5. Turns'
    <3>1. Kind' = "node" => session'.asked
      BY <1>1, <2>1, PeerFields DEF Turns
    <3>2. ASSUME NEW k \in DOMAIN mail', OwnAt(k)', ~session'.asked
          PROVE  mail'[k].kind = "exit"
      BY <1>1, <2>1, <2>2, <2>3, <3>2, <2>c DEF Turns
    <3>3. QED
      BY <1>2, <3>1, <3>2 DEF Turns
  <2>6. InOrder'
    <3>1. ASSUME NEW i \in DOMAIN mail', NEW j \in DOMAIN mail', OwnAt(i)', OwnAt(j)', i < j
          PROVE  mail'[i].kind # "exit" /\ (mail'[j].kind = "exit" \/ mail'[i].to < mail'[j].to)
      <4>1. i \in DOMAIN mail /\ (j \in DOMAIN mail \/ j = last)
        BY <2>2, <2>3, <3>1, <2>c
      <4>2. CASE j \in DOMAIN mail
        BY <2>1, <2>2, <2>3, <3>1, <4>1, <4>2 DEF InOrder
      <4>3. CASE j = last
        BY <2>2, <2>3, <2>4, <3>1, <4>1, <4>3
      <4>4. QED
        BY <4>1, <4>2, <4>3
    <3>2. ASSUME NEW k \in DOMAIN mail', OwnAt(k)', mail'[k].kind # "exit"
          PROVE  session'.got < mail'[k].to
      <4>1. k \in DOMAIN mail
        BY <2>2, <2>3, <3>2, <2>c
      <4>2. QED
        BY <1>1, <2>1, <2>2, <2>3, <3>2, <4>1 DEF InOrder
    <3>3. QED
      BY <3>1, <3>2 DEF InOrder
  <2>7. Blame'
    <3>1. (session'.odd \/ session'.bent # {} => peer'.foul) /\ ~peer'.running
          /\ (~peer'.running => peer'.foul \/ Kind' = "node")
      BY <1>1, <1>2, <2>1, PeerFields DEF Blame
    <3>2. ASSUME NEW k \in DOMAIN mail', OwnAt(k)', mail'[k].kind \in {"refusal", "odd", "flood"}
          PROVE  peer'.foul
      BY <1>2, <2>1, <2>2, <2>3, <3>2, <2>c DEF Blame
    <3>3. ASSUME ~peer'.foul
          PROVE  \/ session'.got = All
                 \/ \E k \in DOMAIN mail' : OwnAt(k)' /\ mail'[k].kind = "data" /\ mail'[k].to = All
      BY <1>1, <1>2, <2>1, <2>2, <2>3, <3>3 DEF Blame
    <3>4. QED
      BY <3>1, <3>2, <3>3 DEF Blame
  <2>8. Read'
    <3>1. ASSUME Kind = "probe", session.step = 2, NEW k \in DOMAIN mail', OwnAt(k)',
                 mail'[k].kind # "exit"
          PROVE  peer'.compiler \in Tree
      BY <1>2, <2>1, <2>2, <2>3, <3>1, <2>c DEF Read
    <3>2. QED
      BY <1>1, <1>2, <2>1, <3>1, PeerFields DEF Read
  <2>9. QED
    BY <2>5, <2>6, <2>7, <2>8
<1>4. QED
  BY <1>1, <1>2, <1>3, PeerFields, PeerRest

LEMMA ExpireRest == ASSUME TInv, Expire PROVE Onward'
<1>1. /\ session' = [session EXCEPT !.late = TRUE] /\ PeerFrame /\ port # NoPort
      /\ peer' = peer /\ mail' = mail
  BY DEF Expire, Waiting
<1>2. /\ session'.step = session.step /\ session'.asked = session.asked
      /\ session'.got = session.got /\ session'.odd = session.odd
      /\ session'.bent = session.bent
      /\ session'.end = session.end /\ port' = port /\ Kind' = Kind
  BY <1>1, SameProject DEF TInv, IInv, SessionType, PeerFrame, world, control
<1>3. session.end = NotYet => Turns /\ InOrder /\ Blame /\ Read
  BY <1>1 DEF TInv, Talk
<1>4. Turns' = Turns /\ InOrder' = InOrder /\ Blame' = Blame /\ Read' = Read
  BY <1>1, <1>2 DEF Turns, InOrder, Blame, Read, OwnAt, IsOwn
<1>5. QED
  BY <1>1, <1>3, <1>4, PeerRest

------------------------------------------------------------------------------
(* Answers *)

\* The first message is taken: what remains is as it was, behind it.
LEMMA Taking ==
  ASSUME TInv, NEW k, IsFirst(k), mail' = Without(k), UNCHANGED port
  PROVE  /\ k \in DOMAIN mail /\ k \in Nat /\ OwnAt(k)
         /\ \A i \in DOMAIN mail' : OwnAt(i)' =>
              \E j \in DOMAIN mail : j \in Nat /\ k < j /\ OwnAt(j) /\ mail'[i] = mail[j]
         /\ \A i, h \in DOMAIN mail' : OwnAt(i)' /\ OwnAt(h)' /\ i < h =>
              \E j, l \in DOMAIN mail : /\ OwnAt(j) /\ OwnAt(l) /\ j < l
                                        /\ mail'[i] = mail[j] /\ mail'[h] = mail[l]
         /\ \A j \in DOMAIN mail : OwnAt(j) /\ j # k =>
              \E i \in DOMAIN mail' : OwnAt(i)' /\ mail'[i] = mail[j]
<1>1. k \in DOMAIN mail /\ OwnAt(k) /\ \A j \in 1 .. (k - 1) : ~IsOwn(mail[j])
  BY DEF IsFirst, OwnAt
<1>2. SessionType /\ DOMAIN mail \subseteq Nat \ {0}
  BY DEF TInv, IInv, SessionType
<1>3. /\ \A i \in DOMAIN mail' : i \in Nat /\
           \/ i < k /\ i \in DOMAIN mail /\ mail'[i] = mail[i]
           \/ i >= k /\ i + 1 \in DOMAIN mail /\ mail'[i] = mail[i + 1]
      /\ \A j \in DOMAIN mail : j # k => \E i \in DOMAIN mail' : mail'[i] = mail[j]
  BY <1>1, <1>2, Removed
<1>4. ASSUME NEW i \in DOMAIN mail', OwnAt(i)'
      PROVE  i \in Nat /\ i + 1 \in DOMAIN mail /\ k < i + 1 /\ OwnAt(i + 1) /\ mail'[i] = mail[i + 1]
  <2>1. mail'[i].port = port
    BY <1>4 DEF OwnAt, IsOwn
  <2>2. CASE i < k /\ i \in DOMAIN mail /\ mail'[i] = mail[i]
    <3>1. i \in 1 .. (k - 1) /\ IsOwn(mail[i])
      BY <1>1, <1>2, <2>1, <2>2 DEF IsOwn
    <3>2. QED
      BY <1>1, <3>1
  <2>3. CASE i >= k /\ i + 1 \in DOMAIN mail /\ mail'[i] = mail[i + 1]
    BY <1>1, <1>2, <1>3, <2>1, <2>3 DEF OwnAt, IsOwn
  <2>4. QED
    BY <1>3, <2>2, <2>3
<1>5. ASSUME NEW j \in DOMAIN mail, OwnAt(j), j # k
      PROVE  \E i \in DOMAIN mail' : OwnAt(i)' /\ mail'[i] = mail[j]
  BY <1>3, <1>5 DEF OwnAt, IsOwn
<1>6. ASSUME NEW i \in DOMAIN mail', NEW h \in DOMAIN mail', OwnAt(i)', OwnAt(h)', i < h
      PROVE  \E j, l \in DOMAIN mail : /\ OwnAt(j) /\ OwnAt(l) /\ j < l
                                       /\ mail'[i] = mail[j] /\ mail'[h] = mail[l]
  <2>1. i + 1 < h + 1
    BY <1>4, <1>6
  <2>2. QED
    BY <1>4, <1>6, <2>1
<1>7. QED
  BY <1>1, <1>2, <1>4, <1>5, <1>6

\* What is known of the first message.
LEMMA FirstKnown ==
  ASSUME TInv, Waiting, NEW k, IsFirst(k)
  PROVE  /\ Turns /\ InOrder /\ Blame /\ Read
         /\ mail[k].kind \in Kinds /\ mail[k].to \in 0 .. 8 /\ mail[k].port = port
         /\ k \in DOMAIN mail /\ OwnAt(k) /\ session.got \in 0 .. 8
  BY MessageAt DEF TInv, Talk, Waiting, IsFirst, OwnAt, IsOwn, IInv, SessionType, Cut

\* A piece is taken that does not end a session.
LEMMA PieceTalks ==
  ASSUME TInv, Waiting, NEW k, IsFirst(k), mail' = Without(k), mail[k].kind \notin {"exit", "flood"},
         UNCHANGED <<port, peer>>, Kind' = Kind,
         session'.got = mail[k].to, session'.asked = session.asked, session'.step = session.step,
         session'.odd => session.odd \/ mail[k].kind # "data", session'.bent = session.bent,
         Kind # "node" => session'.odd = session.odd
  PROVE  Turns' /\ InOrder' /\ Blame' /\ Read'
<1>1. /\ Turns /\ InOrder /\ Blame /\ Read
      /\ mail[k].kind \in Kinds /\ mail[k].to \in 0 .. 8 /\ session.got \in 0 .. 8
      /\ k \in DOMAIN mail /\ OwnAt(k)
  BY FirstKnown
<1>2. /\ \A i \in DOMAIN mail' : OwnAt(i)' =>
           \E j \in DOMAIN mail : j \in Nat /\ k < j /\ OwnAt(j) /\ mail'[i] = mail[j]
      /\ \A i, h \in DOMAIN mail' : OwnAt(i)' /\ OwnAt(h)' /\ i < h =>
           \E j, l \in DOMAIN mail : /\ OwnAt(j) /\ OwnAt(l) /\ j < l
                                     /\ mail'[i] = mail[j] /\ mail'[h] = mail[l]
      /\ \A j \in DOMAIN mail : OwnAt(j) /\ j # k =>
           \E i \in DOMAIN mail' : OwnAt(i)' /\ mail'[i] = mail[j]
  BY Taking
<1>3. peer' = peer
  OBVIOUS
<1>4. Turns'
  BY <1>1, <1>2, <1>3 DEF Turns
<1>5. InOrder'
  <2>1. ASSUME NEW i \in DOMAIN mail', NEW h \in DOMAIN mail', OwnAt(i)', OwnAt(h)', i < h
        PROVE  mail'[i].kind # "exit" /\ (mail'[h].kind = "exit" \/ mail'[i].to < mail'[h].to)
    BY <1>1, <1>2, <2>1 DEF InOrder
  <2>2. ASSUME NEW i \in DOMAIN mail', OwnAt(i)', mail'[i].kind # "exit"
        PROVE  session'.got < mail'[i].to
    BY <1>1, <1>2, <2>2 DEF InOrder
  <2>3. QED
    BY <2>1, <2>2 DEF InOrder
<1>6. Blame'
  <2>1. session'.odd \/ session'.bent # {} => peer.foul
    BY <1>1 DEF Blame, Kinds
  <2>2. (~peer.running => peer.foul \/ Kind = "node")
    BY <1>1 DEF Blame
  <2>3. ASSUME NEW i \in DOMAIN mail', OwnAt(i)'
        PROVE  /\ mail'[i].kind \in {"refusal", "odd", "flood"} => peer.foul
               /\ mail'[i].kind = "exit" => ~peer.running
    BY <1>1, <1>2, <2>3 DEF Blame
  <2>4. ASSUME Kind = "node", ~peer.foul, ~peer.told
        PROVE  \/ session'.got = All
               \/ \E i \in DOMAIN mail' : OwnAt(i)' /\ mail'[i].kind = "data" /\ mail'[i].to = All
    <3>1. session.got # All
      BY <1>1 DEF InOrder, All
    <3>2. PICK j \in DOMAIN mail : OwnAt(j) /\ mail[j].kind = "data" /\ mail[j].to = All
      BY <1>1, <2>4, <3>1 DEF Blame
    <3>3. QED
      BY <1>2, <3>2
  <2>5. QED
    BY <1>3, <2>1, <2>2, <2>3, <2>4 DEF Blame
<1>7. Read'
  BY <1>1, <1>2, <1>3 DEF Read
<1>8. QED
  BY <1>4, <1>5, <1>6, <1>7

LEMMA ReceiveWorkerRest == ASSUME TInv, ReceiveWorker PROVE Onward'
<1>1. PICK k \in DOMAIN mail :
        /\ IsFirst(k) /\ mail' = Without(k)
        /\ CASE mail[k].kind = "flood" -> EndWith("output_limit")
             [] mail[k].kind = "exit" ->
                  EndWith(IF session.got = All /\ ~session.odd THEN Current.report
                          ELSE "worker_crash")
             [] mail[k].kind \in {"data", "odd", "refusal"} ->
                  session' = [session EXCEPT !.got = mail[k].to, !.odd = (mail[k].kind # "data"),
                                             !.from = @ \union {mail[k].port}]
  BY DEF ReceiveWorker
<1>2. /\ UNCHANGED <<world, control, port, peer, record>> /\ Waiting /\ Kind = "node"
      /\ Kind' = Kind
  BY SameProject DEF ReceiveWorker, world, control
<1>3. /\ Turns /\ InOrder /\ Blame /\ mail[k].kind \in Kinds /\ OwnAt(k)
      /\ k \in DOMAIN mail /\ mail[k].to \in 0 .. 8
  BY <1>1, <1>2, FirstKnown
<1>4. CASE mail[k].kind = "flood"
  <2>1. EndWith("output_limit") /\ peer.foul /\ "output_limit" \in Status \union Errors
    BY <1>1, <1>3, <1>4 DEF Blame, Errors
  <2>2. QED
    BY <1>2, <2>1, EndRest
<1>5. CASE mail[k].kind = "exit"
  <2>1. ASSUME NEW j \in DOMAIN mail, OwnAt(j) PROVE j = k
    <3>1. j \in Nat /\ k \in Nat
      BY <1>1 DEF TInv, IInv, SessionType
    <3>2. ~(k < j)
      BY <1>3, <1>5, <2>1 DEF InOrder
    <3>3. ~(j < k)
      BY <1>1, <2>1, <3>1 DEF IsFirst, OwnAt, TInv, IInv, SessionType
    <3>4. QED
      BY <3>1, <3>2, <3>3
  <2>2. ~peer.told
    BY <1>3, <1>5 DEF Blame, Turns
  <2>3. peer.foul \/ (session.got = All /\ ~session.odd)
    BY <1>2, <1>3, <1>5, <2>1, <2>2 DEF Blame
  <2>4. Current.report \in Status
    <3>1. at <= Len(setup.projects)
      BY <1>2 DEF TInv, IInv, OneSession, Probing, Analysing, Waiting
    <3>2. QED
      BY <3>1, CurrentProject DEF TInv, IInv
  <2>5. PICK end \in Status \union {"worker_crash"} :
          EndWith(end) /\ (end = "worker_crash" => peer.foul)
    BY <1>1, <1>5, <2>3, <2>4 DEF Status
  <2>6. end \in Status \union Errors /\ (end \in Errors => peer.foul) /\ (end = "ok" => Kind # "probe")
    BY <1>2, <2>5 DEF Errors, Status
  <2>7. QED
    BY <1>2, <2>5, <2>6, EndRest
<1>6. CASE mail[k].kind \in {"data", "odd", "refusal"}
  <2>1. session' = [session EXCEPT !.got = mail[k].to, !.odd = (mail[k].kind # "data"),
                                   !.from = @ \union {mail[k].port}]
    BY <1>1, <1>6
  <2>2. /\ session'.got = mail[k].to /\ session'.odd = (mail[k].kind # "data")
        /\ session'.asked = session.asked /\ session'.step = session.step
        /\ session'.bent = session.bent
        /\ session'.end = session.end /\ session.end = NotYet
    BY <1>2, <2>1 DEF TInv, IInv, SessionType, Waiting
  <2>3. Turns' /\ InOrder' /\ Blame' /\ Read'
    BY <1>1, <1>2, <1>6, <2>2, PieceTalks
  <2>4. Talk' /\ HonestProgramIsHeard' /\ Known'
    BY <2>2, <2>3 DEF Talk, HonestProgramIsHeard, Known, NotYet, Errors
  <2>5. NamesType'
    BY <1>2, NamesFrame DEF TInv, record
  <2>6. QED
    BY <2>4, <2>5 DEF Onward
<1>7. QED
  BY <1>3, <1>4, <1>5, <1>6 DEF Kinds

\* What Accept does to a session.
LEMMA Accepted ==
  ASSUME TInv, Hearing, NEW odd \in BOOLEAN, Accept(port, odd)
  PROVE  \/ EndWith("worker_crash") /\ (odd \/ session.odd)
         \/ /\ ~session'.asked /\ session'.got = 0 /\ session'.end \in {NotYet, "ok"}
            /\ session'.odd \/ session'.bent # {} => odd \/ session.odd \/ session.bent # {}
            /\ Kind = "probe" => /\ session'.step = session.step + 1
                                 /\ session'.end = "ok" => session.step = 3
            /\ Kind # "probe" => session'.end = NotYet
<1>1. session.step \in Nat /\ session.end = NotYet /\ IInv /\ Last = 4 /\ Located >= 4 /\ SessionType
  BY Steps, HearingFrame DEF TInv, IInv
<1>2. /\ Taken(port).asked = FALSE /\ Taken(port).got = 0 /\ Taken(port).odd = session.odd
      /\ Taken(port).bent = session.bent
      /\ Taken(port).end = NotYet /\ Taken(port).step = session.step + 1
      /\ DOMAIN Taken(port) = DOMAIN session
      /\ DOMAIN session = {"step", "asked", "got", "odd", "bent", "files", "late", "end", "from",
                           "sources"}
  BY <1>1 DEF Taken, SessionType, Unread
<1>3. CASE AcceptOpening(port, odd)
  <2> DEFINE names == Request = "getSourceFileNames"
             bent == IF odd /\ Request = "updateSnapshot" THEN {"result"} ELSE session.bent
             files == IF names /\ Kind = "native" /\ ~odd THEN Current.files ELSE 0
             end == IF names /\ Kind = "probe" THEN "ok" ELSE NotYet
  <2>1. /\ session.step < Last
        /\ \/ odd /\ EndWith("worker_crash")
           \/ session' = [Taken(port) EXCEPT !.bent = bent, !.files = files, !.end = end]
    BY <1>2, <1>3 DEF AcceptOpening
  <2>2. names <=> session.step = 3
    BY <1>1, <2>1, Names
  <2>3. CASE session' = [Taken(port) EXCEPT !.bent = bent, !.files = files, !.end = end]
    <3>1. PICK b, f, e : b = bent /\ f = files /\ e = end
      OBVIOUS
    <3>2. e \in {NotYet, "ok"} /\ (e = "ok" => session.step = 3 /\ Kind = "probe")
      BY <2>2, <3>1 DEF NotYet
    <3>3. b # {} => odd \/ session.bent # {}
      BY <3>1
    <3> HIDE DEF bent, files, end, names
    <3>4. /\ session'.asked = FALSE /\ session'.got = 0 /\ session'.odd = session.odd
          /\ session'.bent = b /\ session'.end = e /\ session'.step = session.step + 1
      BY <1>2, <2>3, <3>1
    <3>5. QED
      BY <3>2, <3>3, <3>4
  <2>4. QED
    BY <2>1, <2>3
<1>4. CASE /\ Kind = "native"
           /\ AcceptPair(port, odd) \/ AcceptType(port, odd) \/ AcceptChildren(port, odd)
  <2>1. CASE AcceptPair(port, odd)
    <3>1. PICK o, b, u :
            \/ EndWith("worker_crash") /\ (odd \/ session.odd)
            \/ /\ session' = [Taken(port) EXCEPT !.odd = o, !.bent = b, !.sources = u]
               /\ o => odd
               /\ b # {} => odd \/ session.bent # {}
      <4> DEFINE second == Request = "secondOfPair"
      <4>1. PICK wrong \in BOOLEAN :
              /\ wrong => odd
              /\ IF second /\ (wrong \/ session.odd) THEN EndWith("worker_crash")
                 ELSE session' = [Taken(port) EXCEPT
                        !.odd = (wrong /\ ~second),
                        !.bent = IF odd /\ ~wrong THEN @ \union Bends ELSE @,
                        !.sources = IF session.step + 1 = Diagnosed THEN tree ELSE @]
        BY <2>1 DEF AcceptPair
      <4>2. CASE second /\ (wrong \/ session.odd)
        BY <4>1, <4>2
      <4>3. CASE ~(second /\ (wrong \/ session.odd))
        <5>1. PICK o, b, u :
                /\ o = (wrong /\ ~second)
                /\ b = IF odd /\ ~wrong THEN session.bent \union Bends ELSE session.bent
                /\ u = IF session.step + 1 = Diagnosed THEN tree ELSE session.sources
          OBVIOUS
        <5>2. Taken(port).sources = session.sources
          BY <1>1 DEF Taken, SessionType
        <5>3. session' = [Taken(port) EXCEPT !.odd = o, !.bent = b, !.sources = u]
          BY <1>2, <4>1, <4>3, <5>1, <5>2
        <5>4. (o => odd) /\ (b # {} => odd \/ session.bent # {})
          BY <4>1, <5>1
        <5>5. QED
          BY <4>1, <5>3, <5>4
      <4>4. QED
        BY <4>2, <4>3
    <3>2. CASE /\ session' = [Taken(port) EXCEPT !.odd = o, !.bent = b, !.sources = u]
               /\ o => odd
               /\ b # {} => odd \/ session.bent # {}
      BY <1>2, <1>4, <3>2
    <3>3. QED
      BY <3>1, <3>2
  <2>2. CASE AcceptType(port, odd) \/ AcceptChildren(port, odd)
    <3>1. \/ odd /\ EndWith("worker_crash")
          \/ session' = Taken(port) \/ session' = [Taken(port) EXCEPT !.step = Located]
          \/ /\ odd
             /\ session' = [[Taken(port) EXCEPT !.step = Located] EXCEPT !.bent = @ \union {"types"}]
      BY <2>2 DEF AcceptType, AcceptChildren
    <3>2. QED
      BY <1>2, <1>4, <3>1
  <2>3. QED
    BY <1>4, <2>1, <2>2
<1>5. session.step >= Last => Kind = "native"
  BY <1>1, BehindOpening
<1>6. \/ AcceptOpening(port, odd)
      \/ /\ Kind = "native"
         /\ AcceptPair(port, odd) \/ AcceptType(port, odd) \/ AcceptChildren(port, odd)
  BY <1>1, <1>5 DEF Accept
<1>7. QED
  BY <1>3, <1>4, <1>6

LEMMA AcceptRest ==
  ASSUME TInv, Hearing, NEW k, IsFirst(k), mail' = Without(k), mail[k].to = All,
         mail[k].kind \in {"data", "odd"}, Accept(port, mail[k].kind = "odd")
  PROVE  Onward'
<1> PICK odd \in BOOLEAN : odd = (mail[k].kind = "odd")
  OBVIOUS
<1>1. /\ Waiting /\ Kind # "node" /\ UNCHANGED <<world, control, port, peer, record>> /\ Kind' = Kind
      /\ session.end = NotYet /\ peer' = peer /\ port' = port /\ session.step \in Nat
  BY SameProject DEF Hearing, world, control, Waiting, TInv, IInv, SessionType
<1>2. /\ Turns /\ InOrder /\ Blame /\ Read /\ k \in DOMAIN mail /\ OwnAt(k)
      /\ session.got \in 0 .. 8
  BY <1>1, FirstKnown
<1>3. odd \/ session.odd \/ session.bent # {} => peer.foul
  BY <1>2 DEF Blame
<1>4. CASE EndWith("worker_crash") /\ (odd \/ session.odd)
  <2>1. "worker_crash" \in Status \union Errors
    BY DEF Errors
  <2>2. QED
    BY <1>1, <1>3, <1>4, <2>1, EndRest
<1>5. CASE /\ ~session'.asked /\ session'.got = 0 /\ session'.end \in {NotYet, "ok"}
           /\ session'.odd \/ session'.bent # {} => odd \/ session.odd \/ session.bent # {}
           /\ Kind = "probe" => /\ session'.step = session.step + 1
                                /\ session'.end = "ok" => session.step = 3
           /\ Kind # "probe" => session'.end = NotYet
  <2>1. /\ \A i \in DOMAIN mail' : OwnAt(i)' =>
             \E j \in DOMAIN mail : j \in Nat /\ k < j /\ OwnAt(j) /\ mail'[i] = mail[j]
        /\ \A i, h \in DOMAIN mail' : OwnAt(i)' /\ OwnAt(h)' /\ i < h =>
             \E j, l \in DOMAIN mail : /\ OwnAt(j) /\ OwnAt(l) /\ j < l
                                       /\ mail'[i] = mail[j] /\ mail'[h] = mail[l]
    BY <1>1, Taking
  <2>2. ASSUME NEW j \in DOMAIN mail, k < j, OwnAt(j) PROVE mail[j].kind = "exit"
    BY <1>2, <2>2, MessageAt DEF InOrder, All
  <2>3. \A i \in DOMAIN mail' : OwnAt(i)' => mail'[i].kind = "exit"
    BY <2>1, <2>2
  <2>4. ~peer.told
    BY <1>2 DEF Turns, All, TInv, IInv, SessionType, Cut
  <2>5. Turns'
    BY <1>1, <2>3, <2>4 DEF Turns
  <2>6. InOrder'
    BY <1>2, <2>1, <2>3 DEF InOrder
  <2>7. Blame'
    BY <1>1, <1>2, <1>3, <1>5, <2>1, <2>3 DEF Blame
  <2>8. Kind = "probe" /\ session.step >= 2 => peer.compiler \in Tree
    BY <1>1, <1>2 DEF Read
  <2>9. Read'
    BY <1>1, <1>5, <2>3, <2>4, <2>8 DEF Read
  <2>10. Talk' /\ HonestProgramIsHeard' /\ Known'
    BY <1>1, <1>5, <2>5, <2>6, <2>7, <2>8, <2>9
       DEF Talk, HonestProgramIsHeard, Known, NotYet, Errors
  <2>11. NamesType'
    BY <1>1, NamesFrame DEF TInv, record
  <2>12. QED
    BY <2>10, <2>11 DEF Onward
<1>6. QED
  BY <1>4, <1>5, Accepted

LEMMA ReceiveRest == ASSUME TInv, Receive PROVE Onward'
<1>1. PICK k \in DOMAIN mail :
        /\ IsFirst(k) /\ mail' = Without(k)
        /\ CASE mail[k].kind = "flood" -> EndWith("output_limit") /\ UNCHANGED graphVars
             [] mail[k].kind \in {"refusal", "exit"} ->
                  EndWith("worker_crash") /\ UNCHANGED graphVars
             [] mail[k].kind \in {"data", "odd"} ->
                  CASE Decoded(mail[k].to) = "ok" -> Accept(mail[k].port, mail[k].kind = "odd")
                    [] Decoded(mail[k].to) = "more" ->
                         session' = [session EXCEPT !.got = mail[k].to] /\ UNCHANGED graphVars
                    [] Decoded(mail[k].to) = "invalid" ->
                         /\ session' = [session EXCEPT !.asked = FALSE, !.got = mail[k].to,
                                                       !.end = "worker_crash"]
                         /\ UNCHANGED graphVars
  BY DEF Receive
<1>2. mail[k] \in Message /\ mail' \in Seq(Message) /\ mail[k].port = port
  BY <1>1, WithoutType DEF TInv, IInv, IsFirst, IsOwn
<1>3. Hearing
  BY <1>2 DEF Hearing, Receive
<1>4. /\ UNCHANGED <<world, control, port, peer, record>> /\ Waiting /\ Kind # "node" /\ Kind' = Kind
      /\ session.end = NotYet /\ port # NoPort
  BY SameProject DEF Receive, world, control, Waiting
<1>5. /\ Turns /\ InOrder /\ Blame /\ Read /\ mail[k].kind \in Kinds /\ OwnAt(k)
      /\ mail[k].to \in 0 .. 8
  BY <1>1, <1>4, FirstKnown
<1>6. CASE mail[k].kind \in {"flood", "refusal", "exit"}
  <2>1. PICK end \in {"output_limit", "worker_crash"} : EndWith(end)
    BY <1>1, <1>6
  <2>2. peer.foul
    BY <1>4, <1>5, <1>6 DEF Blame
  <2>3. end \in Status \union Errors /\ end # "ok"
    BY DEF Errors
  <2>4. QED
    BY <1>4, <2>1, <2>2, <2>3, EndRest
<1>7. CASE mail[k].kind \in {"data", "odd"} /\ Decoded(mail[k].to) = "ok"
  <2>1. Accept(port, mail[k].kind = "odd") /\ mail[k].to = All
    BY <1>1, <1>2, <1>7 DEF Decoded
  <2>2. QED
    BY <1>1, <1>3, <1>7, <2>1, AcceptRest
<1>8. CASE mail[k].kind \in {"data", "odd"} /\ Decoded(mail[k].to) = "more"
  <2>1. session' = [session EXCEPT !.got = mail[k].to]
    BY <1>1, <1>8
  <2>2. /\ session'.got = mail[k].to /\ session'.odd = session.odd
        /\ session'.asked = session.asked /\ session'.step = session.step
        /\ session'.bent = session.bent /\ session'.end = session.end
    BY <2>1 DEF TInv, IInv, SessionType
  <2>3. Turns' /\ InOrder' /\ Blame' /\ Read'
    BY <1>1, <1>4, <1>8, <2>2, PieceTalks
  <2>4. Talk' /\ HonestProgramIsHeard' /\ Known'
    BY <1>4, <2>2, <2>3 DEF Talk, HonestProgramIsHeard, Known, NotYet, Errors
  <2>5. NamesType'
    BY <1>4, NamesFrame DEF TInv, record
  <2>6. QED
    BY <2>4, <2>5 DEF Onward
<1>9. CASE mail[k].kind \in {"data", "odd"} /\ Decoded(mail[k].to) = "invalid"
  <2>1. session' = [session EXCEPT !.asked = FALSE, !.got = mail[k].to, !.end = "worker_crash"]
        /\ mail[k].to \in InLength
    BY <1>1, <1>9 DEF Decoded
  <2>2. session'.got \in InLength /\ session'.end = "worker_crash"
    BY <2>1 DEF TInv, IInv, SessionType
  <2>3. Talk' /\ HonestProgramIsHeard' /\ Known'
    BY <1>4, <2>2 DEF Talk, HonestProgramIsHeard, Known, NotYet
  <2>4. NamesType'
    BY <1>4, NamesFrame DEF TInv, record
  <2>5. QED
    BY <2>3, <2>4 DEF Onward
<1>10. Decoded(mail[k].to) \in {"ok", "more", "invalid"}
  BY DEF Decoded
<1>11. QED
  BY <1>5, <1>6, <1>7, <1>8, <1>9, <1>10 DEF Kinds

------------------------------------------------------------------------------
(* Between the sessions *)

LEMMA OpenRest == ASSUME TInv, Open, IInv' PROVE Onward'
<1>1. /\ opened' = opened + 1 /\ port' = opened + 1 /\ mail' = mail /\ Kind' = Kind
      /\ peer' = [NoPeer EXCEPT !.running = TRUE, !.told = (Kind = "node")]
      /\ session' = [NoSession EXCEPT !.asked = (Kind = "node")]
      /\ before' = before /\ now' = now
  BY SameProject DEF Open, world, control, record
<1>2. /\ session'.asked = (Kind = "node") /\ session'.got = 0 /\ session'.odd = FALSE
      /\ session'.bent = {} /\ session'.step = 0 /\ session'.end = NotYet
      /\ peer'.running = TRUE /\ peer'.told = (Kind = "node") /\ peer'.sent = 0
  BY <1>1 DEF NoSession, NoPeer, Unread
<1>3. \A k \in DOMAIN mail' : ~OwnAt(k)'
  <2>1. ASSUME NEW k \in DOMAIN mail PROVE mail[k].port \in 1 .. opened
    BY MessageAt DEF Message
  <2>2. opened \in Nat
    BY DEF TInv, IInv, SessionType
  <2>3. QED
    BY <1>1, <2>1, <2>2 DEF OwnAt, IsOwn
<1>4. Turns' /\ InOrder' /\ Read'
  <2>1. Turns'
    <3>1. Kind' = "node" => session'.asked
      BY <1>1, <1>2
    <3>2. peer'.told => session'.asked
      BY <1>2
    <3>3. peer'.running /\ session'.got <= peer'.sent /\ peer'.sent < All
      BY <1>2 DEF All
    <3>4. QED
      BY <1>3, <3>1, <3>2, <3>3 DEF Turns
  <2>2. InOrder'
    BY <1>3 DEF InOrder, OwnAt
  <2>3. Read'
    BY <1>1, <1>2, <1>3 DEF Read, OwnAt, Unread
  <2>4. QED
    BY <2>1, <2>2, <2>3
<1>5. Blame'
  BY <1>1, <1>2, <1>3 DEF Blame
<1>6. HonestProgramIsHeard' /\ Known'
  BY <1>2 DEF HonestProgramIsHeard, Known, NotYet, Errors
<1>7. QED
  BY <1>1, <1>4, <1>5, <1>6, NamesFrame DEF TInv, Onward, Talk

LEMMA CloseRest == ASSUME TInv, Close PROVE Onward'
<1>1. AtRest /\ port # NoPort
  BY DEF Close, AtRest, Clear, Bare
<1>2. NamesType'
  <2>1. CASE Probing /\ session.end = "ok" /\ Observed
    <3>1. Kind = "probe" /\ peer.compiler \in Tree
      BY <1>1, <2>1 DEF Kind, TInv, Known
    <3>2. NamesOf[peer.compiler] \in NameSet
      BY <3>1 DEF NameSet
    <3>3. now'.names = Append(now.names, NamesOf[peer.compiler]) /\ before' = before
      BY <2>1 DEF Observed, TInv, IInv, Digests
    <3>4. QED
      BY <3>2, <3>3 DEF TInv, NamesType
  <2>2. CASE Unobserved
    BY <2>2 DEF Unobserved, Nothing, TInv, NamesType
  <2>3. CASE before' = before /\ now' = now
    BY <2>3, NamesFrame DEF TInv
  <2>4. QED
    BY <2>1, <2>2, <2>3 DEF Close, Result
<1>3. QED
  BY <1>1, <1>2, AtRestRest

\* The steps at which no port is open.
LEMMA IdleRest ==
  ASSUME TInv, NoProbe \/ NoAnalysis \/ Begin \/ EndBefore \/ EndProjects \/ EndAfter \/ Crash
  PROVE  Onward'
<1>1. AtRest
  <2>1. CASE NoProbe \/ NoAnalysis
    BY <2>1, SessionFrameRests DEF NoProbe, NoAnalysis, TInv
  <2>2. CASE Crash
    BY <2>2, SessionFrameRests DEF Crash, SessionFrame, TInv
  <2>3. CASE Begin \/ EndBefore \/ EndProjects \/ EndAfter
    <3>1. at \in Nat /\ Len(setup.projects) \in Nat
      BY Settings DEF TInv, IInv, WorldType
    <3>2. ~Probing /\ ~Analysing /\ SessionFrame
      BY <2>3, <3>1 DEF Begin, EndBefore, EndProjects, EndAfter, Probing, Analysing
    <3>3. QED
      BY <3>2, PhaseRests DEF TInv
  <2>4. QED
    BY <2>1, <2>2, <2>3
<1>2. NamesType'
  <2>1. CASE NoProbe
    BY <2>1 DEF NoProbe, Unobserved, Nothing, TInv, NamesType
  <2>2. CASE NoAnalysis \/ Crash \/ EndAfter
    BY <2>2, NamesFrame DEF NoAnalysis, Result, Crash, EndAfter, TInv
  <2>3. CASE Begin \/ EndProjects
    <3>1. before' = before
      BY <2>3 DEF Begin, EndProjects
    <3>2. now' = now \/ Walk
      BY <2>3 DEF Begin, EndProjects
    <3>3. CASE Walk
      <4>1. now'.names = << >>
        BY <3>3 DEF Walk
      <4>2. QED
        BY <3>1, <4>1 DEF TInv, NamesType
    <3>4. QED
      BY <3>1, <3>2, <3>3, NamesFrame DEF TInv
  <2>4. CASE EndBefore
    BY <2>4 DEF EndBefore, Nothing, TInv, NamesType
  <2>5. QED
    BY <2>1, <2>2, <2>3, <2>4
<1>3. QED
  BY <1>1, <1>2, AtRestRest

LEMMA EditRest == ASSUME TInv, Edit \/ UNCHANGED vars PROVE Onward'
<1>1. /\ session' = session /\ peer' = peer /\ port' = port /\ mail' = mail
      /\ before' = before /\ now' = now /\ Kind' = Kind /\ AtLatinEnd' = AtLatinEnd
  BY SameProject, SameEnd DEF Edit, control, record, vars
<1>2. Turns' = Turns /\ InOrder' = InOrder /\ Blame' = Blame /\ Read' = Read
  BY <1>1 DEF Turns, InOrder, Blame, Read, OwnAt, IsOwn
<1>3. Talk' /\ HonestProgramIsHeard' /\ Known'
  BY <1>1, <1>2 DEF TInv, Talk, HonestProgramIsHeard, AtLatinEnd, Known
<1>4. QED
  BY <1>1, <1>3, NamesFrame DEF Onward, TInv

------------------------------------------------------------------------------
(* The theorems *)

LEMMA InitTalk == Init => TInv
<1> SUFFICES ASSUME Init PROVE TInv
  OBVIOUS
<1>1. IInv
  BY InitInv
<1>2. Talk /\ HonestProgramIsHeard /\ Known
  BY DEF Init, Talk, HonestProgramIsHeard, Known, NoSession, Errors, NotYet
<1>3. NamesType
  BY DEF Init, NamesType, Nothing
<1>4. QED
  BY <1>1, <1>2, <1>3 DEF TInv

LEMMA NextTalk == ASSUME TInv, [Next]_vars PROVE TInv'
<1>1. IInv'
  BY NextInv DEF TInv
<1>2. Onward'
  <2>1. CASE Analyse
    BY <1>1, <2>1, IdleRest, OpenRest, AskRest, SkipEntryRest, EndGraphRest, ReceiveRest,
       ReceiveWorkerRest, TimeoutRest, CloseRest DEF Analyse
  <2>2. CASE Answer \/ Misanswer \/ Exit \/ Expire
    BY <2>2, AnswerRest, MisanswerRest, ExitRest, ExpireRest
  <2>3. CASE Edit \/ UNCHANGED vars
    BY <2>3, EditRest
  <2>4. QED
    BY <2>1, <2>2, <2>3 DEF Next
<1>3. QED
  BY <1>1, <1>2 DEF TInv, Onward

LEMMA TalkInvariance == Spec => []TInv
  BY InitTalk, NextTalk, PTL DEF Spec

\* symbolic_tsgo: a compiler that answers what it is asked is not taken for a
\* broken one because of what an earlier session left in the mailbox.
THEOREM HonestIsHeard == Spec => []HonestProgramIsHeard
<1>1. TInv => HonestProgramIsHeard
  BY DEF TInv
<1>2. QED
  BY <1>1, TalkInvariance, PTL

LEMMA GraphHasType == ASSUME IInv PROVE GraphType
<1>1. CASE Bare
  <2>1. Cardinality(nodes) = 0 /\ Cardinality(edges) = 0 /\ MaxTypes \in Nat /\ MaxEdges \in Nat
    BY <1>1, FS_EmptySet, TypeGraphAssumption DEF Bare
  <2>2. work \in Seq(Group)
    BY <1>1 DEF Bare
  <2>3. nodes \subseteq Type /\ edges \subseteq nodes \X Nat /\ truncated \in BOOLEAN
    BY <1>1 DEF Bare
  <2>4. QED
    BY <2>1, <2>2, <2>3 DEF GraphType
<1>2. CASE ~Bare
  <2>1. Sane(Current.graph)
    BY <1>2 DEF IInv, OneSession, Progress
  <2>2. QED
    BY <2>1 DEF Sane, WorkType, Within, GraphType
<1>3. QED
  BY <1>1, <1>2

\* symbolic_ts_project: every variable keeps its type; the graph is within
\* ?MAX_TYPES and ?MAX_EDGES, and an observation holds what a compiler has read.
THEOREM TypeCorrect == Spec => []TypeOK
<1>1. ASSUME TInv PROVE TypeOK
  <2>1. WorldType /\ SessionType /\ ResultType /\ GraphType
    BY <1>1, GraphHasType DEF TInv, IInv
  <2>2. before \in Observation /\ now \in Observation
    BY <1>1 DEF TInv, IInv, Digests, NamesType, NameSet, Observation
  <2>3. QED
    BY <2>1, <2>2 DEF TypeOK
<1>2. QED
  BY <1>1, TalkInvariance, PTL
==============================================================================
