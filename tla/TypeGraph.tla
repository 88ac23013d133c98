------------------------------- MODULE TypeGraph -------------------------------
(***************************************************************************)
(* The bounded type graph of symbolic_tsgo (build_types/10): the types at  *)
(* the locations of a project and, depth first, what they are made of.     *)
(* Four limits cut it, and every cut must leave `truncated` behind, for it *)
(* is all that tells an analysis that is "partial" from one that is "ok".  *)
(*                                                                         *)
(* A graph is what the compiler would answer: `locations`, the type at     *)
(* each; `asks`, the types whose flags say they have children; `kids`, the *)
(* children of each.  The work list is kept as the groups of siblings it   *)
(* is made of: the positions `left` of those `of` one type, or of the      *)
(* locations, in ascending order.                                          *)
(*                                                                         *)
(* What is `lost` is what a malformed answer hides: an element of a list   *)
(* that is no map is dropped, and a type without flags has no children.    *)
(* Neither leaves a mark.                                                  *)
(***************************************************************************)
EXTENDS Integers, Sequences, FiniteSets

CONSTANTS
  Type,
  Top,           \* stands for the parent of the locations' types
  MaxLocations, MaxTypes, MaxEdges, MaxTypeDepth

Graph == [locations : Seq(Type), asks : SUBSET Type, kids : [Type -> Seq(Type)]]

ASSUME TypeGraphAssumption ==
  /\ Top \notin Type
  /\ {MaxLocations, MaxTypes, MaxEdges, MaxTypeDepth} \subseteq Nat

VARIABLES
  work,      \* what is still to be visited: groups of siblings
  nodes,     \* the types visited
  edges,     \* <<parent, position of the child>>
  truncated  \* something was left out

graphVars == <<work, nodes, edges, truncated>>

Group == [of : Type \union {Top}, left : SUBSET Nat, depth : Nat]

\* The siblings a group is about.
Members(g, of) == IF of = Top THEN g.locations ELSE g.kids[of]

\* A group without members is no work.
Grouped(of, left, depth) ==
  IF left = {} THEN << >> ELSE <<[of |-> of, left |-> left, depth |-> depth]>>

\* limit_list/2: the first n.
FirstOf(S, n) == {i \in S : Cardinality({j \in S : j <= i}) <= n}

Clear == work' = << >> /\ nodes' = {} /\ edges' = {} /\ truncated' = FALSE

\* The locations of the files, up to their limit, and of those the ones with a
\* type.
Locate(g, lost) ==
  LET kept == FirstOf(DOMAIN g.locations, MaxLocations)
  IN  /\ work' = Grouped(Top, kept \ lost, 0)
      /\ nodes' = {} /\ edges' = {}
      /\ truncated' = (kept # DOMAIN g.locations)

------------------------------------------------------------------------------
(* One entry of the work list *)

\* The entry that is due: the first position of the first group.
Due == IF work = << >> THEN {}
       ELSE {pos \in Head(work).left : \A q \in Head(work).left : pos <= q}
TypeAt(g, pos) == Members(g, Head(work).of)[pos]
Deep == Head(work).depth >= MaxTypeDepth

Rest(pos) == Grouped(Head(work).of, Head(work).left \ {pos}, Head(work).depth) \o Tail(work)

\* The entry is of a type already there, or of one too many.
Skips(g, pos) == TypeAt(g, pos) \in nodes \/ Cardinality(nodes) >= MaxTypes

\* Mutant of Skip: one type too many is passed over in silence.
Skip_Silently(g, pos) ==
  /\ Skips(g, pos)
  /\ work' = Rest(pos)
  /\ UNCHANGED <<nodes, edges, truncated>>

Skip(g, pos) ==
  /\ Skips(g, pos)
  /\ work' = Rest(pos)
  /\ truncated' = (truncated \/ TypeAt(g, pos) \notin nodes)
  /\ UNCHANGED <<nodes, edges>>

\* Children are asked for above the greatest depth only.
AsksChildren(g, pos) == TypeAt(g, pos) \in g.asks /\ ~Deep

\* limit_type_children/3: a child that is known stays, of the others the first
\* that fit, and their repetitions.
Fitting(g, t, offered) ==
  LET kids == g.kids[t]
      known == nodes \union {t}
      UpTo(i) == {j \in offered : j <= i}
      New(i) == {kids[j] : j \in UpTo(i)} \ known
      Fits(i) == Cardinality(New(i)) <= MaxTypes - Cardinality(nodes) - 1
  IN  {i \in offered : kids[i] \in known \/ \E j \in UpTo(i) : kids[j] = kids[i] /\ Fits(j)}

\* Mutant of Visit: a type is written down but not remembered.
Visit_Unseen(g, pos, odd, lost) ==
  LET t == TypeAt(g, pos)
      offered == IF AsksChildren(g, pos) /\ ~odd THEN DOMAIN g.kids[t] \ lost ELSE {}
      kept == FirstOf(Fitting(g, t, offered), MaxEdges - Cardinality(edges))
  IN  /\ edges' = edges \union ({t} \X kept)
      /\ work' = Grouped(t, kept, Head(work).depth + 1) \o Rest(pos)
      /\ truncated' = (truncated \/ (t \in g.asks /\ lost = {} /\ (Deep \/ odd)) \/ kept # offered)
      /\ UNCHANGED nodes

\* A new type, with the children the compiler answered; `odd` when what it
\* answered was no list.
Visit(g, pos, odd, lost) ==
  LET t == TypeAt(g, pos)
      offered == IF AsksChildren(g, pos) /\ ~odd THEN DOMAIN g.kids[t] \ lost ELSE {}
      kept == FirstOf(Fitting(g, t, offered), MaxEdges - Cardinality(edges))
  IN  /\ nodes' = nodes \union {t}
      /\ edges' = edges \union ({t} \X kept)
      /\ work' = Grouped(t, kept, Head(work).depth + 1) \o Rest(pos)
      /\ truncated' = (truncated \/ (t \in g.asks /\ lost = {} /\ (Deep \/ odd)) \/ kept # offered)

------------------------------------------------------------------------------
(* What the graph promises *)

\* Every location's type is there, and with a type all it is made of.
IsWhole(g) ==
  /\ \A i \in DOMAIN g.locations : g.locations[i] \in nodes
  /\ \A t \in nodes \intersect g.asks : \A i \in DOMAIN g.kids[t] :
       <<t, i>> \in edges /\ g.kids[t][i] \in nodes

\* However large the project, the graph stays within its limits (?MAX_TYPES,
\* ?MAX_EDGES).
GraphType ==
  /\ work \in Seq(Group)
  /\ nodes \subseteq Type /\ edges \subseteq nodes \X Nat
  /\ Cardinality(nodes) <= MaxTypes /\ Cardinality(edges) <= MaxEdges
  /\ truncated \in BOOLEAN
===============================================================================
