----------------------------- MODULE MCTypeScript -----------------------------
EXTENDS TsProject

CONSTANTS a, b, c, d
MCType == {a, b, c, d}

NoKids == [t \in MCType |-> << >>]

\* One type at one location.
Single == [locations |-> <<a>>, asks |-> {}, kids |-> NoKids]
\* A union that contains itself, a type twice, and a third type under them.
Knot   == [locations |-> <<a, b>>, asks |-> {a, b},
           kids |-> [NoKids EXCEPT ![a] = <<b, a, b>>, ![b] = <<c>>]]
\* More locations than the limit.
Wide   == [locations |-> <<a, b, a>>, asks |-> {}, kids |-> NoKids]
\* More types than the limit, with a known one behind those that are cut.
Large  == [locations |-> <<a>>, asks |-> {a}, kids |-> [NoKids EXCEPT ![a] = <<b, c, d, b>>]]
\* A location's type behind those the first one is made of, at the limit.
Crowd  == [locations |-> <<a, d>>, asks |-> {a}, kids |-> [NoKids EXCEPT ![a] = <<b, c>>]]
\* More edges than the limit.
Dense  == [locations |-> <<a, b>>, asks |-> {a, b},
           kids |-> [NoKids EXCEPT ![a] = <<b, a, b>>, ![b] = <<a, a>>]]
\* Deeper than the limit.
Deeper == [locations |-> <<a>>, asks |-> {a, b, c},
           kids |-> [NoKids EXCEPT ![a] = <<b>>, ![b] = <<c>>, ![c] = <<a>>]]

MCTree == {"first", "second", "third"}
MCNamesOf == [t \in MCTree |-> IF t = "third" THEN "more" ELSE "same"]

Native(graph) == [config |-> TRUE, native |-> TRUE, node |-> FALSE, report |-> "ok",
                  files |-> 1, utf8 |-> TRUE, graph |-> graph]
Worker(report) == [Native(Single) EXCEPT !.native = FALSE, !.node = TRUE, !.report = report]
Latin == [Native(Single) EXCEPT !.utf8 = FALSE]
Missing == [Native(Single) EXCEPT !.config = FALSE]
Nowhere == [Native(Single) EXCEPT !.native = FALSE]

Run(projects, faulty, pieces) ==
  [enabled |-> TRUE, capture |-> FALSE, projects |-> projects, tree |-> "first",
   edits |-> 0, faults |-> faulty, cuts |-> pieces]

MCSetup ==
  {[Run(<<Native(Single)>>, 1, 0) EXCEPT !.capture = TRUE, !.edits = 2],
   [Run(<<Native(Single), Worker("ok")>>, 0, 0) EXCEPT !.capture = TRUE],
   [Run(<<Native(Single)>>, 0, 0) EXCEPT !.enabled = FALSE],
   Run(<< >>, 0, 0),
   Run(<<Native(Single), Native(Single)>>, 1, 1),
   Run(<<Native(Single), Worker("ok")>>, 1, 1),
   Run(<<Worker("partial"), Native(Single)>>, 1, 1),
   Run(<<Missing, Nowhere, Worker("failed")>>, 1, 0),
   Run(<<Latin>>, 0, 0)}
  \union {Run(<<Native(graph)>>, 1, 1) : graph \in {Knot, Wide, Large, Crowd, Dense, Deeper}}
===============================================================================
