------------------------------ MODULE Discovery ------------------------------
(***************************************************************************)
(* Which files a scan looks at: the ignore rules (symbolic_gitignore) and  *)
(* the walk over the configured paths (symbolic_parse).                    *)
(*                                                                         *)
(* A path is the sequence of its names below the outermost directory.      *)
(* Globs are abstracted to the set of paths they match.  What is on disk   *)
(* when a scan discovers is passed in: `present` are the files that exist, *)
(* `ignore` the rules of each directory's .gitignore and the directories   *)
(* that hold .git, `fault` the one call of the file system that fails, if  *)
(* any does.                                                               *)
(***************************************************************************)
EXTENDS Naturals, Sequences, SequencesExt, FiniteSets

CONSTANTS
  Listing,       \* every path, in the order lists:sort/1 gives the entries
  SourceFile,    \* files with an extension in ?SCAN_EXTENSIONS
  Directory,     \* directories, and links to directories
  Link,          \* the links among them
  DefaultRules   \* default_rules/0: node_modules/ and .git/

\* What a walk that throws stands for; a path of no tree.
Failed == <<"throw">>

\* Every directory above a listed path is one, and none is named like a source.
ASSUME DiscoveryAssumption ==
  /\ Listing \in Seq(Seq(STRING) \ {<< >>, Failed})
  /\ SourceFile \subseteq ToSet(Listing) /\ Directory \subseteq ToSet(Listing) \union {<< >>}
  /\ SourceFile \intersect Directory = {} /\ Link \subseteq Directory
  /\ \A path \in ToSet(Listing) : \A n \in 0 .. Len(path) - 1 : SubSeq(path, 1, n) \in Directory

\* `body` is what the pattern matches: paths from the directory that declares
\* it when it is anchored, the last names of a path when it is not.
Rule == [body : SUBSET Seq(STRING), anchored : BOOLEAN, negate : BOOLEAN, dirOnly : BOOLEAN]

ASSUME RuleAssumption == DefaultRules \in Seq(Rule)

Ignore == [rules : [Directory -> Seq(Rule)], git : SUBSET Directory]

\* The call that fails: on a path, is it a directory or a file (any error is a
\* no); on a directory, list its entries, inspect it after it was found to be
\* one, read its .gitignore, or look for its .git.
NoFault == [path |-> << >>, call |-> "none"]
Fault   == {NoFault} \union [path : Directory \union SourceFile, call : {"stat"}]
                    \union [path : Directory, call : {"list", "inspect", "read", "git"}]

\* A .gitignore that cannot be read has no rules, a .git that cannot be looked
\* at is none.
Legible(ignore, fault) ==
  [rules |-> [dir \in Directory |-> IF fault = [path |-> dir, call |-> "read"]
                                   THEN << >> ELSE ignore.rules[dir]],
   git   |-> {dir \in ignore.git : fault # [path |-> dir, call |-> "git"]}]

Matches(rule, path) ==
  IF rule.anchored THEN path \in rule.body ELSE \E end \in rule.body : IsSuffix(end, path)

Applies(rule, path, isDir) == (rule.dirOnly => isDir) /\ Matches(rule, path)

\* The directories whose rules count: from the nearest one that holds .git
\* down to the scanned one, or the scanned one alone.
Scopes(dir, git) ==
  LET roots == {n \in 0 .. Len(dir) : SubSeq(dir, 1, n) \in git}
      top   == CHOOSE n \in roots : \A m \in roots : m <= n
  IN IF roots = {} THEN <<dir>>
     ELSE [k \in 1 .. Len(dir) - top + 1 |-> SubSeq(dir, 1, top + k - 1)]

RulesOf(dir, ignore) == DefaultRules \o ignore.rules[dir]

\* Later rules win; `before` is what outer directories have said.
IgnoredBy(path, isDir, rules, before) ==
  FoldLeft(LAMBDA ignored, rule : IF Applies(rule, path, isDir) THEN ~rule.negate ELSE ignored,
           before, rules)

\* Rules see the path from the directory that declares them.
Ignored(path, isDir, root, ignore) ==
  FoldLeft(LAMBDA ignored, dir : IgnoredBy(SubSeq(path, Len(dir) + 1, Len(path)), isDir,
                                           RulesOf(dir, ignore), ignored),
           FALSE, Scopes(root, ignore.git))

IsDir(path, fault) == path \in Directory /\ fault # [path |-> path, call |-> "stat"]

\* walk/3 over a directory and walk_entry/4 over each of its entries.  A throw
\* anywhere is a throw of the whole; what is no directory and not named like a
\* source is passed over.
Walk(root, present, ignore, fault) ==
  LET walk[dir \in Directory] ==
        LET visit(path) ==
              IF Front(path) # dir \/ path \notin present \union Directory THEN << >>
              ELSE IF ~IsDir(path, fault)
              THEN IF path \notin SourceFile \/ Ignored(path, FALSE, root, ignore)
                   THEN << >> ELSE <<path>>
              ELSE IF fault = [path |-> path, call |-> "inspect"] THEN <<Failed>>
              ELSE IF path \in Link \/ Ignored(path, TRUE, root, ignore) THEN << >>
              ELSE walk[path]
        IN IF fault = [path |-> dir, call |-> "list"] THEN <<Failed>>
           ELSE FlattenSeq([k \in DOMAIN Listing |-> visit(Listing[k])])
  IN walk[root]

\* A configured path that is a file is taken whatever the rules say, and is an
\* error if it is gone, of a kind nobody extracts, or cannot be looked at.
DiscoverPath(path, present, ignore, fault) ==
  CASE IsDir(path, fault) -> Walk(path, present, ignore, fault)
    [] path \in SourceFile \intersect present /\ fault # [path |-> path, call |-> "stat"] -> <<path>>
    [] OTHER -> <<Failed>>

\* Overlapping paths list a file once.
UniqueFiles(files) ==
  FoldLeft(LAMBDA kept, f : IF f \in ToSet(kept) THEN kept ELSE Append(kept, f), << >>, files)

Discovered(roots, present, ignore, fault) ==
  UniqueFiles(FlattenSeq([k \in DOMAIN roots |->
                            DiscoverPath(roots[k], present, Legible(ignore, fault), fault)]))

------------------------------------------------------------------------------
(* Reference: what the documentation promises of the walk *)

\* "Later wins": the last of all rules that applies, outer scopes first.
RuleSaysIgnored(path, isDir, root, ignore) ==
  LET scopes   == Scopes(root, ignore.git)
      below(k) == SubSeq(path, Len(scopes[k]) + 1, Len(path))
      rule(h)  == RulesOf(scopes[h[1]], ignore)[h[2]]
      hits == UNION {{h \in {k} \X DOMAIN RulesOf(scopes[k], ignore) :
                        Applies(rule(h), below(k), isDir)} : k \in DOMAIN scopes}
      After(h, g) == h[1] > g[1] \/ (h[1] = g[1] /\ h[2] >= g[2])
  IN \E last \in hits : ~rule(last).negate /\ \A hit \in hits : After(last, hit)

\* The directories a fault makes look like none.
Unseen(fault) == IF fault.call = "stat" THEN {fault.path} \intersect Directory ELSE {}

\* The files below a directory that no rule takes away, neither themselves nor
\* with a directory above them, and that no link leads to.  `unseen` are
\* directories that are passed over: the documentation knows none.
DueBelow(root, present, ignore, unseen) ==
  {f \in SourceFile \intersect present :
     /\ IsStrictPrefix(root, f) /\ ~RuleSaysIgnored(f, FALSE, root, ignore)
     /\ \A d \in Directory : IsStrictPrefix(root, d) /\ IsStrictPrefix(d, f) =>
          d \notin Link \union unseen /\ ~RuleSaysIgnored(d, TRUE, root, ignore)}

Due(roots, present, ignore, unseen) ==
  UNION {IF path \in Directory THEN DueBelow(path, present, ignore, unseen) ELSE {path} :
           path \in ToSet(roots)}
=============================================================================
