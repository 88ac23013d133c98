# A verification project for symbolic-tools

symbolic-tools scans a source tree into Prolog facts, keeps them in a DETS
database, and answers queries about them from a command line and from an MCP
server.  This directory holds TLA+ modules of its stateful parts, the TLC
configurations that check them, and TLAPS proofs of every safety property that
the passing runs check: of the store, the project cache and its tracker, the
transport, the session, the scan, the TypeScript analysis and the questions.

Every module is written from the Erlang source.  `PROJECT.json` maps each
definition to the lines it models; a definition that stands for several
statements names all of them.

## The system

| Part | State | Operations | Talks to |
| --- | --- | --- | --- |
| Fact store (`symbolic_fact_store`, `symbolic_file_cache`) | database, scan metadata, per-file sidecar, text index; `.stage` and `.backup` files | `write_bundle/4`, `write/2`, `read/1`, metadata and sidecar reads | the file system; called by the project cache and the CLI |
| Project cache (`symbolic_codebase`) | snapshots by project, current project, refresh job | `parse`, `query`, `ask`, `facts`, `overview`, start-up refresh | fact store, scan, status tracker, proof workers, refresh worker |
| Status tracker (`symbolic_operation_status`) | operation shown, last operation, monitor | `started`, `phase`, `project`, `finished`, `cancelled`, `DOWN`, `status` | casts from the cache and the refresh worker |
| MCP transport (`symbolic_stdio`) | tools, workers, ids in flight, draining flag | lines, tool results, `DOWN`, end of input | reader process, tool workers, stdout |
| MCP handlers (`symbolic_serve`) | none | one function per tool | project cache, status tracker |
| Prolog session (`prolog_session`) | one erlog state | `consult`, `consult_string`, `load_facts`, `load_database`, `query` | a proof worker per query |
| Session registry (`prolog_session_registry`, `_sup`) | id to pid table | `start_session`, `end_session`, `lookup`, `DOWN` | sessions; used by tests only |
| Scan (`symbolic_parse`) | none beyond one scan | discovery, batches of extraction workers, per-file cache | extractors, ignore rules, project cache, CLI |
| Ignore rules, configuration (`symbolic_gitignore`, `symbolic_config`) | none | pattern matching, walk-up discovery | scan, cache, CLI |
| TypeScript analysis (`symbolic_ts_project`, `symbolic_tsgo`, `symbolic_ts_inputs`) | none beyond one analysis; the process's mailbox outlives it | sessions with a compiler, message framing, bounded type graph, observation of the inputs, aggregate status | the native compiler or a Node worker, one port at a time; called by the scan |
| Questions (`symbolic_ask`) | none beyond one question | understand, resolve names, gate, prove, cite, judge completeness | a one-shot session per question; run by the CLI or inside the project cache |
| Query, search, check, extract | none | rules discovery, goal validation, ranking | a one-shot session each |
| Extractors, native libraries | none | syntax tree to facts | tree-sitter |

The server is one tree of processes: `symbolic_serve:run/0` starts the tracker,
the cache and the transport, all linked, registers the tools and only then lets
the reader begin.  A request is a line; the adapter gives each `tools/call` a
worker; the worker calls the cache and waits; the cache handles one call at a
time and spends the whole of a parse inside it.  The tracker is told by casts
and never calls anybody, so `status` answers while the cache is busy.  When the
adapter stops, everything stops; the next start resumes the saved snapshot and
refreshes it in a worker of its own.

What is hard here: the refresh worker, clients and the tracker run against a
cache that is in the middle of something; casts of two senders arrive in any
order; a proof's result and its deadline race; a worker's result, its death and
the end of input race; replacing three files is not atomic, may fail at every
step and may be cut short by the end of the program; an answer of a compiler
comes in any pieces or never, after its port was closed, or about files that
have changed since; and a question is a dozen queries any of which may fail. 
`PROJECT.json` lists these hazards at their lines with the properties that
answer them.

## Modules

**FactStore** models every file operation of a write as a step that may fail:
staging, moving the old files aside, renaming the new ones in, the rollback,
discarding, pruning the sidecar, the text index, and the in-place write of the
older interface.  The program may die between any two steps.  A file's content
is the number of the write that produced it, so a torn pair is two different
numbers.  `PairPresent`, `CacheTrusted` and `IndexUsed` are the rules by which
readers decide what to believe.  **Snapshot** is what the store promises a
program that starts: one whole generation or none, never an older one than
before unless its replacement is rolled back.  `FactStore!KeepsPromise` is the
refinement; facts written in place belong to no bundle and count as none.

**OperationStatus** is the tracker, with one queue of casts per sender.
**Codebase** extends it with the two processes that send them.  The cache's
handlers are split where something else can happen in between: a parse is
scan, load, persist, publish; a query is its proof.  A snapshot is the version
of the sources it was scanned from, which is all that order and staleness
depend on.  `FailJob` is `safely/2` with every error branch: a parse or a
publication may end with an error after any step and keeps the state.
`Restart` is the end of the program at any moment; by Snapshot it finds the old
database, the new one or none.

**Stdio** is the transport.  The adapter's mailbox is what each sender has under
way: lines in their order, then the end of input, and a result or a `DOWN` per
worker; messages of different senders arrive in any order.

**PrologSession** is one session.  Its state is the set of calls whose effects
it contains, which is what the properties about lost and leaked effects need.

**Discovery** says which files a scan looks at: the ignore rules of each
directory, scope by scope, and the walk that applies them, next to a reference
that says of every file whether the documentation promises it.  It has no state.
A tree is the listing of its paths; that every directory above a listed path is one
is all that is assumed of it.  One call of the file system may fail, which does not
mean the same everywhere: a listing that fails, or an inspection of what was just
seen to be a directory, throws; a `stat` that fails makes a directory look like a
file nobody extracts, a configured path like none; rules that cannot be read are no
rules, and a `.git` that cannot be looked at is none.
**Scan** is a scan over a tree that changes meanwhile: discovery, batches of
workers, their results in the scanning process's mailbox, the report, and the
per-file cache it reads and writes.  A worker reads its file, extracts it and
reads it again, each a step.  A file's content is a number and so is its hash;
facts are the contents and the extractor they were made from, which is what a
stale cache would get wrong.  `unseen` keeps the directories that were taken for
files.  `edits` counts the changes of each file and `began`
keeps what it was when the scan began, so that "nothing changed meanwhile" can be
said.  A scan's workers outlive it when it crashes.
Scan is not composed with Codebase: to the cache of projects a scan is the step
`Scan` of a parse or a refresh, and to a scan its caller is `Publish`,
`PublishFails` and `Cancel`.

**TypeGraph** is `build_types/10`: the types at a project's locations and, depth
first, what they are made of, under four limits.  A graph is what a compiler
would answer; `work` is the list of the code, kept as the groups of siblings it is
made of.  What is `lost` is what a malformed answer hides without a mark: elements
of a list of types that are no maps, and types without flags.  **TsProject** extends it with everything around: `analyze_safe/3` as a
`phase` and the project it is `at`; a session with the program behind a port
(`Open`, `Ask`, `Receive`, `ReceiveWorker`, `Timeout`, `Close`), whose `step`
counts the answers taken; the program itself, external, which sends pieces of an
answer, misbehaves, ends or is silent (of a malformed answer the session either ends, or
goes on as if nothing were wrong and remembers in `bent` what is); the mailbox, where a closed port's messages
stay; and the files, which an editor changes at any moment.  An observation is
the digest of the files and what each probe found; a file state is a model value
and so is its digest.  Its caller is the scan, which waits for it; the two are not
composed.

**Ask** is the pipeline of one question, a step for each thing the code asks its
session: the file and the names a question's words spell, the gates that refuse an
unknown function, the relation's proof, the citations, and the last step that
holds the answer against the completeness of the scan; `todo` holds the steps
still to be taken, which are taken in the code's order.  Facts are records of a
predicate, a function, a callee and a file; words are the candidates they spell.
Any query may fail or run into its deadline; where the code takes that for an
empty answer, `swallowed` records it.  `sources` is what the repository holds
and `facts` what the scan has of it, so that a claim of absence can be held
against the former.

**MCFactStore**, **MCCodebase**, **MCStdio**, **MCScan**, **MCTypeScript** and
**MCAsk** give model values to TLC.  **FactStoreProofs**, **StdioProofs**,
**CodebaseProofs**, **PrologSessionProofs**, **DiscoveryProofs**, **ScanProofs**,
**TsProjectProofs** (TypeGraph and TsProject) and **AskProofs** hold the theorems.
Definitions called `X_...` right before a definition `X` are broken variants of
it, one for each property, against which the properties are tested.

## Runs

| Run | Question | Result |
| --- | --- | --- |
| MCFactStore | do failures, deaths and clock granularity ever leave files that readers misread, and is Snapshot kept? | holds |
| FactStoreUndoFails | does a failed write leave the previous pair in its place if the rollback's own steps can fail too? | violated |
| MCCodebase | do snapshots go only forward, is the default project the last parsed, is every call answered? | holds |
| CodebaseStatus | is what the tracker shows true, and does it settle? | holds |
| CodebaseParseShown | is the parse that superseded a refresh shown? | violated |
| MCStdio | one response per request, the limit, nothing lost at the end of input, every request answered? | holds |
| PrologSession | own answers, no trace of killed queries, no lost effects, every call answered? | holds |
| PrologSessionFailure | does a failing goal leave the session unchanged? | violated |
| MCScan | is every promised file reported once, but below a directory that was not seen, with its own facts, of the bytes its hash names, by this build; does every scan end? | holds |
| ScanCache | does a scan report what it would without its cache? | violated |
| MCTypeScript | is ok only said of a whole graph of one's own, is a program that answers heard, is a candidate of the files analysed, does every analysis end? | holds |
| MCAsk | is what is said so, absence only claimed where it is known, and are citations complete when they say so? | holds |

Violated runs are disagreements between a comment or a document and the code;
`findings` in `PROJECT.json` quotes both sides.

In FactStoreUndoFails the second write fails to install its database, and the
rename that should bring the first one back fails too: the database's path is empty
and the old database stays under its `.backup` name.  The rollback ignores the result
of its deletes as well (`src/src/symbolic_fact_store.erl:105`): a first write that
fails may leave a database where none was.  The comment speaks of a previous pair, so
the property asks for one.

Bounds.  The store: three writes (one to replace, one to fail, one after), two
failures (the second can hit the rollback or the cleanup of the first), one
death, three clock values (same second, next, later).  The cache: one client is
enough for a queue of two because it may give up and call again; two projects
tell "this project" from "any project"; two runs of the program make one
restart; one edit makes a newer and an older version.  CodebaseStatus has one
project and no edits because the tracker never sees contents.  The transport:
three lines against a limit of two reach the limit, three ids allow all to be
different, and a repeated id is in the set too.  The session: three calls let a
killed proof's late result meet two later calls.  The scan: one scan fills the
cache and one uses it; three files against a limit of two make two batches; one
file changes twice, which includes away and back; one fault, at any step of any
process, where a discovery's is one of six: a listing, an inspection, the `stat` of a
directory and of a file, the reading of rules and the look for `.git`; one new build
between the scans.  MCScan's tree is laid out in two ways: without rules; and with
overlapping paths, a rule that a `.gitignore` further in undoes, and an ignored
directory whose file a later rule tries in vain to show.  There are 559,000 states. 
ScanCache needs only the first layout and no fault.

The TypeScript analysis: up to three projects, with a compiler, with a worker,
without either and without a configuration, since an earlier session's messages
need a later one and a status is aggregated from several.  Two edits, which
include away and back; one fault of a program or of the file system, and one
answer in two pieces, cut at any of eight places.  The limits are 2 locations, 3
types, 4 edges and depth 2; six graphs go beyond every one of them, and some
types contain themselves.  One setup has a project whose files are not UTF-8 and a
compiler without faults.  There are 369,000 states.  The questions: every base of
up to four of twelve facts about definitions and calls, and bases of what a
function mentions; some names have two definitions, some arities and callers are
not known; two files, each lost or not; one query that fails; two citations at
most, so that there can be one caller too many; 4.1 million states.

Symmetry is not used: the runs check liveness too.

Deadlock is not checked: every one of these systems may stop (no more writes,
calls or lines within the bounds, or the adapter has ended).

Fairness.  A process that has something to do does it (Erlang's scheduler): weak
fairness of the cache, of the worker, of the tracker's casts, of the adapter and
of the session; in Scan, of the scanning process and its workers together: as
long as some of them can go on, one does.  Extraction returns; where it would
not, `parallel_map/2` waits for ever, and so would the scan.  Exit signals are
delivered.  Handlers return, because each call they make has a timeout or an
answer.  Deadlines pass.  Clients, editors, failures, deaths of the program and
the kill of a worker have no fairness.  In TsProject the analysing process goes
on whenever it can and its deadlines pass (`receive ... after`); nothing is
assumed of the programs behind the ports.  Ask states no fairness and no
liveness: each of its steps returns.

## Proofs

All theorems are for every value of the constants.

*FactStoreProofs*.  The inductive invariant `IInv` adds to the types, for each value
of the writer's control, what is in the final, staged and backed-up files relative to
`before`: what has been moved aside is exactly `saved`, what has been renamed in
is exactly `installed`, the rest is as it was.  It holds where a rollback's own
renames work (`~UndoMayFail`, the condition the violated run shows to be needed).
From it follow `FailedWriteKeepsPrevious` (a rollback run to its end restores
`before`), `NoTornPair` (the metadata is missing whenever the database differs from
it) and `KeepsPromise`: every step of the writer, of its failures and of its deaths
is a step of Snapshot or leaves what it speaks of as it was.
The other theorems need no such condition, because what is answered ok has not been
rolled back.  `Progress` follows a write forward only, and gives
`CommittedBundleIsWhole`; `Dated` says that a database the index was not made from
is at least as young as the index, and gives `StaleIndexOnlyWithinASecond`.

*StdioProofs*: the invariant ties a worker's process state to the number of
answers its line has (an awaited worker's line has none, a line neither awaited
nor still to be taken has exactly one unless it is a notice), and the ids map to
the set of awaited workers.  `OneResponse`, `IdsAreWorkers`, `NothingLostAtEof`
and `KnownToolIsFound` follow; the last is proved and in no run.

*CodebaseProofs*, for any clients, projects, calls, edits and runs.  A refresh is
safe because it never overlaps a parse that matters: while the cache has its
refresh job no parse has begun in this run, so what the worker scanned is still at
least as new as the database and the cache (`Refreshing`), and taking the result
ends the job.  `Jobs` carries that to the publication, `Fresh` orders what is
served, the database and the sources, and `Inbox` says that the message that starts
the refresh is first of all, so that a second worker cannot be.  From these follow
`SnapshotsNeverGoBack`, with restarts at any moment, `CurrentIsLastParsed`,
`ServedIsSaved` and `RefreshingIsLive`.  `TypeOK` needs that calls lie in the
mailbox in the order they were made (`Counting`).  The tracker has an invariant of
its own, `StatusInv`: every cast under way belongs to whoever sent it (`Mail`), an
operation that is shown and over has the news of its end still on the way (`Shown`),
and what is remembered ended as it says or, where the cache killed the worker before
it told, as superseded or crashed (`Remembered`).  `NoGhostOperation` is `Shown` with
no casts under way; `LastOutcomeIsTrue` is `Remembered`.

*PrologSessionProofs*: the invariant has four parts.  `Waiting`: a call still to
be made or handled has no worker, no answer and no effect.  `InHand`: the call
in hand has a worker whose proof began from the session's present state and adds
nothing but its own effect (`TypeCorrect` is proved with it). 
`ResultsAreProofs`: a result in the mailbox is one of a proof that ended. 
`EffectsAreOld`: only handled calls have effects.

*DiscoveryProofs*, for every tree, all ignore rules, links, configured paths and
any call that fails: discovery throws only if a directory's listing or its second
inspection fails, or a configured path is not there or cannot be looked at; what it
finds otherwise is, each file once, what the reference promises, given the rules that
could be read and the directories that were not seen (`DiscoveredIsDue`).  Of what
the reference promises when all are seen, just the files below an unseen directory
are missing (`UnseenHideWhatIsBelow`).  Rules and scopes are folded and the walk recurses over
directories; both are recursive functions, which TLA+ defines by CHOOSE.  So each is
first shown to have a solution, and the one chosen then satisfies its equation.  The
rest is induction on a number (`CountUp`, from the least number at which a claim
fails): on rules and scopes for `LastOfAllDecides`, "later wins"; and, for the walk,
on the levels between a directory and the depth of the tree, from the deepest up.
The tree is assumed to be one (`DiscoveryAssumption`) and rules to be rules.

*ScanProofs*, for any tree, rules, languages, limits, faults and edits.  An entry
of the cache passes through a worker and a result before it is saved, so the
invariant says of all three that its facts are of the bytes it names or the file
has changed twice.  What makes that inductive is what a worker knows half-way:
while it extracts, its file is what it read or has changed since; once it has
extracted, facts of other bytes mean one change, and the return of the first
bytes another (`ReadIsCurrent`, `ChangeIsCounted`).  `ReportIsCurrent` takes a second
invariant, `Current`: what the cache, a worker or a result holds under a hash was
made by the build the cache is marked with, whatever is under way in a scan is of the
file it is for, and while that file has not changed since the scan began, of the file
as it is.  Workers that a crashed scan
left behind are no exception, because they never share the number of a later scan
(`NobodyAhead`).  `NothingIsMissing` is `HasItsFiles`: only `Begin` gives a scan
files, and those are `DiscoveredIsDue`'s but for what lies below a directory in
`unseen`.  `TypeOK` adds the bounds.

*TsProjectProofs* begins with the type graph, for any graph and any limits: unless
`truncated` is set, whatever the graph should hold is there or on the work list
(`Owes`).  A visit keeps that because a child that does not fit, an entry that is
passed over and a depth that is reached each set `truncated`.  What a malformed answer
hides is owed by nobody, so it is claimed only while no list of types had a malformed
element (`Straight`).  When the list is empty
nothing is owed any more, and the graph is whole (`DoneIsWhole`).

Then the analysis, for any number of projects, edits, faults and pieces.
`Progress` says how far a session is and that its graph owes only what the list
holds from the moment the locations are known; with it, `OkMeansWhole` is
`DoneIsWhole`.  `OneSession` says that data is taken of the open port only.
`OneTree` gives `CandidateMeansOneTree`: if the files have changed once at most
and are still as first observed, then everything seen since is that one state.

That a program which answers is heard takes an invariant about
both ends and the mailbox between.  `Turns`: while a program owes an answer,
nothing of an earlier one is left.  `InOrder`: pieces lie in the mailbox as they
were sent, behind what has been taken.  `Blame`: what is malformed, and an end
before its time, is the program's doing, and so is whatever makes a result raise; but
for a source that is not UTF-8, which only the very end of a session meets
(`AtLatinEnd`).  `Read`: a probe's compiler has read
the files when its answer comes, which `TypeCorrect` needs for what a probe
observed.  Ports are numbered as they are opened, so no message in the mailbox
has the number of a port still to come.

*AskProofs*, for any bases, questions, limits and failing queries.  `NamesAre` says
what the steps that resolve a question's names have found: a candidate names whatever
can be meant by it (`StandsFor`), and unless a query that failed was `swallowed`, the
facts hold no other function that can (`OnlyOne`; `Exactly` where the arity must agree
too).  From the step that makes the answer, `SaidIsSo` and `AllIsSaid` hold it against
the sources, the second for a scan that lost nothing; `Judged` says that what depends
on the scan's completeness has been held against it once that step is done; `Cited`
follows the citations.  `EverythingSaidIsSo`, `NothingIsMissed` and `CitationsCover`
follow.  Which candidate is the first that is defined takes the least of a set of
numbers, the one induction there is.  Assumed are that a scan is finite and its facts
are of the shape extractors write (`WorldAssumption`), and of the questions what the
grammar guarantees (`QuestionAssumption`).

Only checked by TLC: liveness (`EveryCallIsAnswered`, `RefreshEnds`, `StatusSettles`,
`EveryLineIsAnswered`, `StopsAfterEof`, `ScanEnds`, `AnalysisEnds`), which is out of
this prover's reach, as are the violated properties, of course.  A model is proved
about, not the program: what a module abstracts, the proofs do not see.

## Known limits of what was found to hold

`LastOutcomeIsTrue` lets a cancelled refresh be shown as crashed: the kill and
the cancelled cast race, and both describe the same event.  The tracker shows one
owner at a time, so a query that is handled while the refresh is shown is not
recorded at all.  `ServedIsSaved` relies on a failed write leaving the old
database, which is FactStore's property under `~UndoMayFail`.  Two programs that
write one database at once (the CLI and a server) are outside FactStore.
`write/2`, which replaces the database in place and which only tests call, can
leave the old metadata and sidecar beside new facts when deleting the metadata
fails; no property is stated of it.

`OneChangeIsCaught` is as far as the code goes: a file that changes while it is
extracted and is changed back before it is read again is cached with facts of the
content in between.  `docs/incremental-parsing.md` does not except that case.
`ReportIsCurrent` speaks of the languages whose extractor is in
`symbolic_file_cache:version/0`; `ts_extract_python` is not, so a new Python
extractor leaves old entries in use, and a module that takes its documentation
from another file keeps the old text until it changes itself (ScanCache).  A
worker whose second read fails logs that it skips its file's facts and returns
them all the same, beside the error, though it caches nothing.  A rule cannot
show a file again whose directory is ignored: the walk does not enter it.

`docs/incremental-parsing.md` says: "If a configured directory cannot be listed or
inspected during discovery, the entire parse fails with its path and reason."  That
holds of listing.  But `filelib:is_dir/1` is false on any error of its stat
(`src/src/symbolic_parse.erl:295`), so a directory that cannot be inspected is taken for
a file without an extension and passed over, and the report that lacks the files below
calls itself complete; only a `read_link_info` that fails right after is_dir succeeded
throws.  `NothingIsMissing` excepts the files below such a directory.  A `.gitignore` that cannot be
read counts as none (`src/src/symbolic_gitignore.erl:47`), and a `.git` that cannot be
looked at likewise (63): what a report owes is judged by the rules that could be read.

In Scan, paths are names and not spellings, discovery is one step, an extractor
reads its file and its documentation file in one step, and the workers of a
killed refresh are gone at once: they run on, but only read, and nobody has
their results.

The TypeScript analysis.  `decode_bin/1` takes a piece that ends between a marker
and its length for a bad message (`src/src/symbolic_tsgo.erl:797`), so an honest
compiler may be called a broken one; `HonestProgramIsHeard` excepts it.  An
answer to getSourceFileNames that is no list is taken for a project without files
and ends in "ok" (628), and elements of a list of types that are no maps (400, 480) are
dropped while a type without flags is not asked for children, also without a mark;
`OkIsWhole` excepts both.  When a source is not UTF-8, the place of a diagnostic behind
the first such byte cannot be turned into bytes (715): the match raises, and a
session in which the compiler has answered everything ends as invalid_worker_output,
with status "failed" and no types; `HonestProgramIsHeard` excepts that end.  A candidate may contain a project
that is "partial" because its program said too much, where the comment speaks of
"successfully analyzed" ones (`src/src/symbolic_ts_inputs.erl:33`).  A candidate
says nothing of the scan's own facts, which are older than the first observation.
Without a candidate, the sources that are read once more for positions may be
other than those the compiler saw.  A truncated graph may have edges to types it
does not hold.  Every session and every probe has a deadline of its own, a port's
late messages stay in the mailbox, a worker's exit status is ignored, and a
directory that cannot be made for a worker's request drops every project's
result.  In the model the walk over the workspace is one step, and how far an
answer has come is one of eight places.

Questions.  `EverythingSaidIsSo`, `NothingIsMissed` and `CitationsCover` except,
by name, what the code does otherwise:

- a query of the session that fails or runs into its deadline is taken for an
  empty answer by `source_fact_entries` (`src/src/symbolic_ask.erl:1197`), so a file is "not
  scanned" and a name resolves to another function than it would (`swallowed`);
- whether a function returns what it mentions is judged by its line alone, which
  two files' functions of one name and arity can share;
- a name that is not known loses the arity that came with it, and the last
  candidate stands for it;
- a file without a definition, comment, paragraph or key is "not scanned";
- "no such function" and "no such arity" are said without regard to what the scan
  has lost;
- names with a "/" are split at it; call sites of a dotted name leave out the
  remote calls that the callers of it include (1056);
- a function whose arity is not known (a shell function) and a callee of articles
  only end the question with an exception (962, 1749), in the cache's process
  when an MCP client asks; the comment at 246 says that cannot be.

## Not modelled

The program is Erlang and Rust; the C files under `src/c_src` are generated or
vendored tree-sitter parsers, which this project takes for granted.  None of their
lines is mapped, by intent: what is mapped is Erlang.

- Session registry and its supervisor: only tests start them.
- Configuration, the query command's discovery of rules: a walk up the
  directories and the reading of a file; planned below against a reference.
- Claim extraction and checking (`symbolic_extract`, `symbolic_check`): sequential and
  stateless around a language model and a grammar of words.
- Of the questions: how the grammar and the tagger make out words, prose search,
  handles, `uses` in a file, configuration keys, and the order of callers before
  the citations are cut.
- Of the TypeScript analysis: where the compiler is found, which locations are asked
  about, positions in UTF-16, the facts made of a result, the script of the Node worker.
- Text search: ranking and tokens.  The handlers: wording and validation of
  arguments.
- Prolog builtins, command line and reports, language extractors: pure functions
  of their input, one case per term or node, without state.
- Native bindings and vendored grammars: third-party or pure.

## Plan

Done, in the order of what decides whether answers are right: store, cache with
tracker, transport, session; scan; TypeScript analysis; questions.  Next:

1. The handlers and Ask composed with the cache: a question is asked while a
   refresh publishes.
2. Pure algorithms against reference definitions: UTF-16 positions, search ranking,
   the configuration and rules found by walking up, goal validation.
3. Proofs: of what 1 and 2 add; of the algorithms against their references by the
   same induction as DiscoveryProofs.

Not planned: the rest of what is listed under "Not modelled".
