-------------------------------- MODULE MCScan --------------------------------
EXTENDS Scan

\* A repository with a module that takes its documentation from doc/guide, a
\* directory of Python, a link to it, and installed packages.
Main    == <<"main.erl">>
Guide   == <<"doc", "guide.md">>
Util    == <<"lib", "util.py">>
Linked  == <<"link", "util.py">>
Package == <<"node_modules", "package.py">>
Top == << >>

MCListing == << <<"doc">>, Guide, <<"lib">>, Util, <<"link">>, Linked, Main, <<"node_modules">>, Package >>
MCSourceFile == {Main, Guide, Util, Linked, Package}
MCDirectory == {Top, <<"doc">>, <<"lib">>, <<"link">>, <<"node_modules">>}
MCLink == {<<"link">>}
MCDefaultRules == << [body |-> {<<"node_modules">>}, anchored |-> FALSE, negate |-> FALSE, dirOnly |-> TRUE] >>

MCDocs == [f \in MCSourceFile |-> IF f = Main THEN Guide ELSE NoFile]
MCLanguageOf == [f \in MCSourceFile |->
  IF f = Main THEN "erlang" ELSE IF f = Guide THEN "markdown" ELSE "python"]

NoRules == [rules |-> [d \in MCDirectory |-> << >>], git |-> {Top}]
Hide(name)   == [body |-> {<<name>>}, anchored |-> FALSE, negate |-> FALSE, dirOnly |-> FALSE]
HideDir(dir) == [body |-> {dir}, anchored |-> TRUE, negate |-> FALSE, dirOnly |-> TRUE]
Show(name)   == [body |-> {<<name>>}, anchored |-> FALSE, negate |-> TRUE, dirOnly |-> FALSE]

\* The files that change.
MCEdited == {Guide}

\* Everything; and overlapping paths, a rule of the repository undone by one of
\* the scanned directory, and a directory whose file cannot be shown again.
Plain == [roots |-> <<Top>>, ignore |-> NoRules]
Ruled == [roots |-> << <<"doc">>, Guide, Top>>,
          ignore |-> [NoRules EXCEPT
            !.rules[Top] = <<Hide("guide.md"), HideDir(<<"lib">>), Show("util.py")>>,
            !.rules[<<"doc">>] = <<Show("guide.md")>>]]
MCLayout == {Plain, Ruled}
OneLayout == {Plain}

\* A directory is not listed, one is not inspected after it was seen to be one,
\* one is not seen at all, nor is a file; rules and .git are not read.
Fails(path, call) == [path |-> path, call |-> call]
MCFaults == {Fails(<<"doc">>, "list"), Fails(<<"lib">>, "inspect"), Fails(<<"lib">>, "stat"),
             Fails(Guide, "stat"), Fails(Top, "read"), Fails(Top, "git")}
===============================================================================
