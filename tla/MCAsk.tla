-------------------------------- MODULE MCAsk --------------------------------
(* Small bases of facts, drawn from a pool, and the questions about them. *)
EXTENDS Ask, FiniteSetsExt

CONSTANT MaxFacts  \* bound: facts in a base

Functions == {<<"f", 1>>, <<"f", 2>>, <<"g", 0>>}

MCFiles == {"a", "b"}
MCSplit == [n \in {"f", "g", "h", "m.f", "f/x", "f_g"} |-> IF n = "m.f" THEN <<"m", "f">> ELSE <<>>]

Definition(n, a, f) == [of |-> "defines", name |-> n, arity |-> a, file |-> f]
CallOf(n, a, shape, callee, b, f) ==
  [of |-> "calls", caller |-> n, callerArity |-> a, shape |-> shape, module |-> "m",
   name |-> callee, arity |-> b, file |-> f]
AtLine(p, n, a, w, f) == [of |-> p, name |-> n, arity |-> a, word |-> w, file |-> f, line |-> 1]

Definitions == {Definition("f", 1, "a"), Definition("f", 2, "b"), Definition("g", 0, "b"),
                Definition("f", Undefined, "a")}
CallFacts == {CallOf("g", 0, "local", "f", 1, "a"), CallOf("g", 0, "remote", "f", 2, "b"),
              CallOf("f", 1, "member", "f", 1, "b"), CallOf("f", Undefined, "local", "h", 0, "a"),
              CallOf("f/x", 0, "local", "f", 1, "b"), CallOf(NoName, Undefined, "local", "f", 1, "a"),
              CallOf("f", 2, "local", "f", 1, "b")}
Mentions == {AtLine("return", "g", 0, "", "a"), AtLine("return", "g", 0, "", "b"),
             AtLine("ref", "g", 0, "h", "b"), AtLine("key", "g", 0, "f", "a")}
Notes == {[of |-> "note", file |-> "a"]}

\* A base of a few facts about calls, or about what a function mentions.
MCWorlds ==
  UNION {kSubset(k, Definitions \union CallFacts \union Notes) : k \in 0 .. MaxFacts}
  \union {ms \union ds : ms \in SUBSET Mentions,
                         ds \in {{Definition("g", 0, "b")}, {Definition("g", 0, "b"), Definition("f", 1, "a")}}}

\* The candidates a span of words can give.
Spans == {<<Ident("f", Undefined)>>, <<Ident("f", 1)>>, <<Ident("g", Undefined)>>,
          <<Ident("h", Undefined)>>, <<Ident("h", 1)>>, <<Ident("m.f", Undefined)>>, <<>>,
          <<Ident("f_g", Undefined), Ident("f", Undefined), Ident("g", Undefined)>>}
Asked(form, op, subjects, objects, patterns) ==
  [form : {form}, op : op, subject : subjects, object : objects, pattern : patterns]

One == {<<Ident("f", 1)>>, <<Ident("g", 0)>>, <<Ident("h", 0)>>}

MCQuestions ==
  Asked("grammar", {"calls"}, One, One, {{}})
  \union Asked("grammar", {"defines"}, One, {<<>>}, {{}})
  \union Asked("grammar", {"callers", "count"}, {<<>>}, One, {{}})
  \union Asked("words", {"calls"}, {<<Ident("g", Undefined)>>, <<Ident("f", Undefined)>>}, Spans, {{}})
  \union Asked("words", {"callers", "count", "call_sites"}, {<<>>}, Spans, {{}})
  \union Asked("words", {"calls_file"}, {<<>>}, Spans, {{"b"}})
  \union Asked("words", {"uses", "returns"}, {<<Ident("g", Undefined)>>, <<Ident("f", Undefined)>>},
               {<<Ident("h", Undefined)>>, <<Ident("f", Undefined)>>}, {{}})
  \union Asked("words", {"defines", "def_site"}, Spans, {<<>>}, {{}})
  \union Asked("words", {"file_scanned"}, {<<>>}, {<<>>}, {{"a"}, {"b"}})

==============================================================================
