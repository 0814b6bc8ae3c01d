# Verification of pony-lsp

TLA+ modules, TLC configurations and TLAPS proofs kept beside the pony-lsp
repository: the Pony language server (`upstream/tools/pony-lsp`), the query
engine and syntax libraries under it (`upstream/tools/lib/ponylang`), and the
repository's own tools (`tools/`): the guard of the grammar, the generator of
the token table, the lexer agreement check and the corpus pipeline.

`PROJECT.json` names, for every definition that models code, the lines it was
translated from; which run checks which property; and which change of the code
each property notices. Paths below are relative to the repository's root;
`lsp/` stands for `upstream/tools/pony-lsp/` and `lib/` for
`upstream/tools/lib/ponylang/`.

Run a check with `tlc -config X.cfg M`, a proof with `tlapm M.tla`.

## 1. The system

An editor talks JSON-RPC over standard input and output to one `LanguageServer`
actor. It makes a `WorkspaceManager` actor for every Pony workspace it finds,
routes what is about a document to the manager of its directory, and shares one
`PonyCompiler` actor among them. A manager keeps two views of its documents: the
modules of the last compile (libponyc, over FFI, seconds long, of what is on
disk) and the buffers, which it hands to a `Binder`. The binder answers from
syntax alone, through an incremental query engine. Actors share no state; every
behaviour runs to its end and takes its messages in the order they were sent by
any one sender.

Beside the server is a second front end of the language, `tools/checker`, made
of rules that must agree with ponyc, and the Python tools that keep it so. They
are sequential programs that hand files to one another through `make`: what they
can get wrong is what a file still says after something it was made of changed,
or after the program that writes it was stopped.

| Component | State | Operations | Hard behaviour | What makes it correct |
|---|---|---|---|---|
| Query engine (`lib/pony_query`) | revision, per query the revision it changed at and was verified at, what it read; frames of the calls in progress | `set_input`, `demand`, `_bring_current`, `_run`, the runner's callback | re-entrant through the runner; early cut-off by backdating; dependencies that change from run to run | an answer is what evaluating from nothing gives; nothing runs twice in a revision; nothing is looked into that is not needed |
| Compiler actor (`lsp/compiler_notify.pony`) | settings seen or not, queue, run number | `apply_settings`, `compile` | compiles asked for before the settings come are queued and released in reverse; several managers share the run numbers | one result for every request, none older than one taken |
| Document and package state (`lsp/workspace/state.pony`) | text, version, edited or not; module and diagnostics with the run they are of | `set_text`, `mark_saved`, `update`, `add_diagnostic`, package `update`, `insert_new` | runs, text versions and client versions count separately | what is shown follows the package's last compile; unsaved edits are noticed |
| Workspace manager (`lsp/workspace/workspace_manager.pony`) | packages, what is awaited, global errors, binder | four document notifications, `done_compiling`, twenty requests | a compile is long and everything else goes on; which package a document belongs to changes as directories become packages | positions are refused or right; published errors are taken back; a rename never edits a moved buffer |
| Language server (`lsp/language_server.pony`) | lifecycle state, ids, requests it expects answers to, router, the client's abilities | `handle_request`, `handle_response`, `handle_notification`, `send_request` | requests in both directions, in any order, in any state | each request answered once; each response reaches what asked; settings arrive |
| Router, aggregator (`lsp/workspace/`) | managers by directory; answers still missing | `find_workspace`, `workspace_symbol`, `add_results`, `dispose` | several broadcasts collected at once | one whole answer for each |
| Base protocol (`lsp/notifier.pony`) | buffer, headers, mode | `apply` | messages cut anywhere, several in a chunk, broken frames | the same messages come out however the stream is cut |
| Binder (`lib/pony_bind`) | inputs and memos in typed tables, interned paths, the project of package directories | `set_source`, `set_package_files`, `add_package`, demands | re-entrancy; positions looked up outside the queries | a resolution is what resolving from nothing gives |
| Token table and lexer (`tools/gen_token_kinds.py`, `lib/pony_syntax/lexer.pony`) | position in the source, the tokens so far, whether a newline has been passed | generate; `_scan`, a branch per kind of token | tables tried first match first, though the order is only that of the text; runs to an end of source that comes in their middle | tokens cover the source, none is empty, symbols and newline forms are ponyc's |
| Parser (`lib/pony_syntax/parser.pony`) | event array, cursor, open nodes, marks and chains, depth | `start`, `finish`, `wrap`, `chain`, `bump`, `descend`, `ascend` | sizes patched when a node closes; nodes put in front of what has been laid down; nesting limit | the array is the tree the rules built and holds every token once; no more than a bounded stack is used |
| Analysis, grammar rules, line index (`lib/pony_analysis`, `lib/pony_syntax`) | none | projections of a tree; offsets and positions | scopes; recovery | a use is bound to the declaration in scope; positions go there and back |
| Feature handlers (`lsp/workspace/*.pony`) | none | hover, rename, references, hierarchies, hints | none of their own: whether the state they read may be used | see the manager |
| libponyc bridge (`lib/pony_compiler`) | a compile session | compile, AST access | FFI lifetimes | a session is freed after its last use |
| Checker (`tools/checker`) | packages found, caches per package, failed passes | load, resolve, passes, report | caches filled on first use; one ladder of passes for the whole program | what is reported is what the first pass that fails finds |
| Grammar guard (`tools/grammar_guard.py`) | colours of rules, path of the walk, first cycle | `main`, `visit` | a guard covers a rule's calls only after it | a grammar it passes cannot recurse without going through `descend` |
| Corpus pipeline (`tools/corpus/extract_corpus.py`, `pass_reach.py`, `corpus_report.py`) | manifest, cases, reach file, verdict file | the three programs, as `make` chains them and as they are run by hand | interruption anywhere; files older than what they are about | a report that succeeds is about every case, and about the case as it is |
| Agreement oracles (`message_oracle.py`, `column_oracle.py`) | counts; manifest and reach file they find | run ponyc and the checker per case | stale cases, timeouts, multi-line messages | a run that succeeds has compared all there was to compare |
| Lexer agreement (`tools/agreement/check.py`) | files listed, streams of both dumpers | compare, over the runs `xargs` makes | a dumper that dies in the middle | a difference is reported |
| Scanner, corral data, URIs, measurement tools | none that outlives a call | | | |

`PROJECT.json` "components" says of each what is modelled; "hazards" lists what
is hard to test, each at its line, with the property that would catch it. Section 4
ends with hazards that were seen and are not in the list.

## 2. Modules

| Module | Models | Uses |
|---|---|---|
| `QueryBodies` | the queries a runner computes, as deterministic bodies; evaluation from nothing | |
| `QueryOracle` | what any engine promises: an answer is the value over the inputs as they are | `QueryBodies` |
| `QueryEngine` | the engine, one step per decision of the innermost call | `QueryBodies`; `QueryOracle` by refinement |
| `PonyCompiler` | the compiler actor | |
| `CompileProtocol` | compiler and managers, of a manager only what is between the two | `PonyCompiler` |
| `DocumentState` | document and package state as operators on records | |
| `Workspace` | one whole manager with client, wire, disk, compiler and other managers | `DocumentState`, `PonyCompiler`; `CompileProtocol` by refinement |
| `Requests` | what the manager may answer to each request | `Workspace` |
| `LanguageServer` | server, client, router, aggregators, progress, settings | `CompileProtocol` |
| `Framing` | the base protocol | |
| `TokenKinds` | the generator of the token table | |
| `Lexer` | the scan of a source | `TokenKinds` |
| `SourceTree` | a parse as a tree, with no array and no sizes | |
| `TreeBuilder` | the parser's array and the rules that fill it | |
| `Syntax` | scan and parse together | `Lexer`, `TreeBuilder` |
| `ParsedTree` | the tree the array stands for | `Syntax`; `SourceTree` by refinement |
| `GrammarGuard` | the guard's walk of the rules' calls | |
| `GrammarDescent` | the parser's recursion over a grammar that passed | `GrammarGuard` |
| `Extraction`, `PassReach`, `CorpusReport` | what each program of the pipeline makes of one case, as operators | |
| `Corpus` | the programs over the files they leave | the three above |
| `Oracles` | the message and the column oracle | |
| `Agreement` | the lexer agreement check | |
| `QueryEngineProofs`, `CompileProtocolProofs`, `WorkspaceProofs`, `ServerProofs`, `SyntaxProofs`, `GrammarProofs`, `CorpusProofs`, `OracleProofs` | theorems about the modules they are named for (`WorkspaceProofs`: `Workspace` and `Requests`; `ServerProofs`: `LanguageServer` and `Framing`; `SyntaxProofs`: `Lexer`, `TreeBuilder`, `Syntax`; `OracleProofs`: `Oracles` and `Agreement`) | |
| `MC...` | instances for TLC: one for each of the modules above that is run, and `MCPonyLsp`, `MCPonySyntax`, `MCTools`, which put instances side by side | |

Where a definition is preceded by others of the same form that nothing uses
(`CountMinusOne` before `Count`), those are plausible bugs of the code it models;
each property has one that breaks it.

Models that do not touch one another share a run: a behaviour is of one of them,
`part` says of which, and the variables of the others stay as they began. Each
action is a disjunct of its own there, so that each is seen to happen.

| Run | Instance | Expected | What it is about |
|---|---|---|---|
| `engine` | `MCQueryEngine` | pass | the query engine |
| `workspace`, `requests` | `MCWorkspace` | pass | nested packages and other writers; a package of two files and changes out of order |
| `workspace_unsaved`, `workspace_saved`, `workspace_rename` | `MCWorkspace` | violation | section 4 |
| `server` | `MCPonyLsp` | pass | the server and its client; the base protocol |
| `server_waits` | `MCServer` | violation | section 4 |
| `syntax` | `MCPonySyntax` | pass | scan and parse of small sources; the grammar guard |
| `tools` | `MCTools` | pass | the corpus pipeline; the oracles; the lexer agreement check |
| `corpus_stopped`, `corpus_split` | `MCCorpus` | violation | section 4 |

### The query engine

`demand`, `_bring_current` and `_run` call one another through the runner; their
activations are on `stack`, innermost last, in one of four phases: entering,
walking recorded dependencies, running the body (which is also the `_Frame`), or
returning. `entries` is `_entries`, `value` the runner's tables. The engine knows
queries only by id, so bodies are constants: `NextRead(q, seen)` is what the body
reads next after the values seen, `Result` what it ends with; `Rank` is the
assumption that queries do not read in cycles (the engine has no cycle handling,
and says so). `add` is part of `Init`: the entry it pushes stays untouched until
the query is set or demanded. The revision is a natural number, its overflow at
2^64 edits is not modelled.

`MCQueryEngine` takes the sheet of `tests/_query_tests.pony`: three inputs, a sum,
a cell that chooses which of two cells it reads, and a sum above both, modulo 2
so that two edits can cancel. Two edits (MaxRevision 3) are enough for a branch
to be left, changed behind its back, and taken again. Run `engine` checks that a
memo marked current is right (`VerifiedIsRight`); that only what a fresh
evaluation needs is looked into (`OnlyWhatIsNeeded`); that nothing is run twice
(`RunsOncePerRevision`); that the engine implements the oracle (`OracleSpec`);
and, with weak fairness of `Step` (a demand is one synchronous call that the
runtime keeps executing), that demands return (`DemandReturns`).

### The compiler and its managers

One action is one behaviour. `mailbox` holds `compile` messages, `finished[m]`
the `done_compiling` messages for m. Before settings arrive requests move from
the mailbox to `pending`; the first `apply_settings` sends them to the actor
again, last first. Requests of different senders may be taken in any order
relative to settings, which is exactly what the runtime allows.

### The workspace manager and its requests

`Workspace` has a manager with its client, the ordered wire of notifications
between them, the disk (saves of this client and writes of other programs) and
what libponyc may find. `packages` holds the state of packages and documents
with their runs; `source` and `synced` are what the binder has been given.
`done_compiling` is one action for success and one for failure, each with all it
does: the packages of the program, the modules, the awaited files, diagnostics
and what is published. With `Reordering` changes may overtake each other (the
version check of `set_text` is about that); with `Outsiders` other programs write
files. `Requests` gives for every handler the set of answers it may send, with
the text each position in it was computed from; requests change nothing, so they
are operators on the state, and the properties quantify over all of them.

Run `workspace`: a package and one in the directory below it, two managers, five
acts of the client; one file in each package. Run `requests`: one package of two
files, so that a rename starting in one may edit the other, with three texts of
which one does not compile and changes out of order. Five acts (open, edit, save,
edit, close or open again) reach every combination of a buffer ahead of, equal
to, and behind the last compile that succeeded and the last that failed. Versions
are bounded by `MaxVersion`, 3 and 4: two and three edits of a document that stays
open. In `requests` the two texts that compile are interchangeable (a symmetry set;
the run has invariants only). Neither run assumes fairness.

Two properties of `requests` say less than the manager's comments do, and each has a
violation run for the whole. `CompiledFromDisk`: the text on the disk has been
compiled, or was put aside while a compile ran; that it is then compiled is
`SavedIsCompiled`. `SettledRenameIsSafe`: no edit of a rename is placed by positions
of another text in a document the last compile has the state of; that none is in any
open document, also before a saved text has been compiled, is `RenameIsSafe`.
`Settled`, in `RefusedOrRight` too, means that all the client sent of the document
has been handled, no compile runs, and the last one succeeded with it.
`ShownErrorsAreCurrent` is about open documents: those closed or forgotten show what
they show until a compile finds them again.

### The language server

`wire` is what the client has sent and the server has not taken, `sends` the
`send_request` messages to itself from itself and the managers, `mail` and
`settingsMail` the mailboxes of managers and compiler. The client may send
anything at any time (requests before initialize or after shutdown, a second
initialize, notifications before the first, an initialize whose params are no object
or whose id is no number), as long as the server has no more than `Ahead` of its
messages to take, and answers what it is asked in any order; it may decline a progress
token. Answers of a manager about a document are one step here; `Requests` has
what is in them. The listener of a progress token is an actor of its own that
sends one notification: here it sends it at once. `dispose` and `send_request`
wait in queues of their own, so that the server may take them in any order
relative to the wire.

Run `server`: four acts of the client (initialize, initialized and two more), two of
them untaken at a time (`Ahead`: two messages can overtake what they are about, and
two answers each other), two managers and two clients: one that has progress and ids
that are strings, and no settings to wait for; and one that is asked for its
settings, registers for changes of them and has its views refreshed. Four acts are
enough for two broadcasts, two compiles of one manager, or a change of the settings
while they are being asked for. Fairness: every actor with a message is scheduled
(the runtime's promise), and the client answers what it is asked; it need not ask
for anything, and nothing is assumed after `exit`.

`RequestsAnswered` excepts what the code does not answer: an `initialize` whose
params are no object, taken while the server is uninitialized (`Heeded`).
`AskedCompilesEnd` is about clients that are asked for their settings, or are not
waited for, and ends with shutdown, as the server ignores responses from then on. A
third client, which registers for changes but has no configuration to be asked for,
is that of run `server_waits`: for it `CompilesEndWhileUp`, which is about any
client, fails.

### The base protocol

`Framing` has bytes as atoms: a line break, a header, a piece of content. The
client writes frames one after the other on the wire, while bytes of those before
arrive and are read; each frame says what it should give, and `FramesAssumption`
that this is what its bytes say, line by line. `\r\n` is one atom (the buffered
reader looks for `\n` and drops a `\r` before it). Run `server` takes all
streams of up to three of eight frames and all ways of cutting them: errors,
contents with line breaks, contents of no length, headers that would leak from
one message to the next.

### Token table, lexer and parser

`TokenKinds` takes ponyc's tables (sequences of text and name) and gives what
`gen_token_kinds.py` prints: the symbols by descending length with newline forms
joined, the keywords, the names. `Lexer` scans one of `Sources` with it. A loop
that looks for the end of a run one byte at a time is its end; loops that take
escapes, pairs or depth into account are steps of their own, so that the end of
the source can come anywhere in them. It leaves `tokens`: kind, offset and width,
the `Eof` token last.

`TreeBuilder` is the parser's array element by element: `start` puts a node with
a size to be patched, `wrap` puts one in front of what has been laid down since
a mark, a chain lays its wrappers down when it closes. The rules of the grammar
are replaced by any that keep to what all of them keep to: what a rule has
opened, marked or chained it is done with, innermost first, before it returns.
`SourceTree` is a tree with no array; `ArrayIsTree` (`ParsedTree`) is the
refinement, the mapping reading the array as the tree its sizes say. `Syntax` is
both stages: the parser reads what the lexer left.

Run `syntax`: all sources of up to four bytes (five over the alphabets where a
token may be so long) over alphabets of numbers, names, symbols, comments and
quotes; an excerpt of ponyc's tables with symbols that are prefixes of each
other. Those of two bytes and one of three are parsed, with up to two nodes
below the root and three rules in progress: enough for a node wrapped while one
is open, a chain of two, and trivia between any two of them.
`EveryByteIsInOneToken`, `SymbolIsPonycs` (longest match against ponyc's own
search of its table), `NewlineFormIsRight`; `Lossless`, `NodesBeginAtTokens` and
`ArrayIsTree` of the array.

### The grammar guard

A grammar is what the tool reads off the sources: for each rule the calls it
makes outside of a descent, those after one, and whether it guards at all.
`GrammarGuard` is the walk over what is left, child by child in any order;
`GrammarDescent` has the parser call rules of a grammar that passed, `_depth`
counted on every path. Run `syntax`: every call graph of three rules, any of
them guarded, a limit of two; symmetric in the rules. Three rules are enough for
a cycle that is entered from outside and for two that share a rule.

### The corpus pipeline and the oracles

`Corpus` keeps the files: cases, manifest, reach file, verdict file. Each program is
a sequence of steps as long as its loop, reading the case it is at and writing what
it writes where the code writes it; `Interrupt` may stop it between any two, with a
torn last line if it writes as it goes. `make` chains them as the Makefile does; the
report may also be run by hand. ponyc is a function of the files of a case (first
pass that errs, passes that time out), the checker any verdict. The tests of ponyc
may be edited between runs. A message is the sequence of the literals it is written
as, all of which C joins; the row of a test that has it in one has it whole.
`RowsAreAsserted`: a row has the pass its test asserts and the beginning of a
message it asserts, the whole of it where no string of the call is split; that it is
always the whole is `AssertionsAreWhole`, which run `corpus_split` refutes.
`ReachIsTrue`: a record is what ponyc does with the case as it was, and is read for
the case it is of. `PassIsWhole`: a target that succeeds has judged every case.
`ReportIsPonycs`: what a report credits is as ponyc has it. Run `tools`: two tests,
of a suite whose definitions embed the pass and of one that takes it per call, one
edit, one interruption; two of either only repeat what one has left behind. Among
what the tests may be: one that is no case, one with a fixture package, one whose
fixture leads out of its directory, and one whose message is in two literals.

`Oracles` has both oracles over any manifest and any reach file: what earlier
runs left is whatever it is. Run `tools`: two cases, outputs of up to two
lines, any timeouts. `NothingIsNarrowed` is about the cases not compared:
skipped only for what the code says it skips for.

### The lexer agreement check

`Agreement` has the list of sources cut by `xargs` into any runs; in each, two
dumpers print a part per source until one may die. Run `tools`: three
sources, three streams, one death. `AgreementIsSeen` says that no difference
goes unreported, but for one the code cannot see: in the last source of a run
whose dumper died (section 4).

### Fairness

Only `engine`, `server` and `server_waits` assume any, as given above: a call that is running
goes on, an actor with a message is scheduled, and a client answers what it is
asked. The tools are sequential programs whose properties are about where they
end, not that they do. Deadlock is not checked where the system may stop: a
client that says nothing more, a program that has ended.

## 3. Proofs

All theorems hold for every value of the constants.

**Engine** (`QueryEngineProofs`), from `BodiesAssumption` and
`AcyclicBodies` (bodies yield values, and read at most `MaxReads` queries, all of
lower rank) and `EngineAssumption`. That a memo is right is not inductive: a memo
of an old revision need not be right at all. The invariant `IInv` says what is
kept of it: as long as what the body read *first* has not changed since, running
the body now would go the way the recorded run went, as far as the first change
(`MemoOf`). This is exactly what walking dependencies in order and stopping at the
first change needs, and it is not affected when an edit comes. Dependencies were
verified no earlier than what read them. `StackOK` says where each call in
progress is. There is a lemma per action (`EnterFirstKeeps` ... `SetInputKeeps`),
on lemmas about pushing, popping and storing. Then:

- `Inductive`, `TypeCorrect`: `IInv` and the type invariant;
- `MemosAreRight`: a memo verified now is what its body gives now;
- `NothingElseIsLookedInto`: what is on the stack is needed for what was asked for.
  `Needed` is the least set of queries that holds what is asked for and what each
  of its queries reads when it is evaluated afresh; it is stated without
  recursion, as what every set closed in this way has. The proof goes up the
  stack: each call that waits does so for a read its query makes afresh, as a
  walk through recorded dependencies only goes on while they are what they were;
- `NoSecondRun`: no query is entered while in progress or run again in a revision;
- `BackdatingIsExact`: changed_at moves exactly when the result does;
- `ImplementsOracle`: the engine implements `QueryOracle`. The witness of each
  answer is the table, restricted to what is verified now (`VerifiedExplains`).

**Compile protocol** (`CompileProtocolProofs`), for any managers and packages:
`OneCompileEach` (`_compiling` is true exactly while one request or result is on
its way), `NoResultIsOld`, `RunsIncrease`, `TypeCorrect`. The invariant adds to
the stated properties that results of one manager are in order of their runs and
that all runs are below the next one.

**Workspace** (`WorkspaceProofs`), from `WorkspaceAssumption` (what the disk and
the other programs are). `ManagerKeepsProtocol`: every step of the manager, with
its documents, packages, editor and disk, maps to a step of `CompileProtocol` or
to a stutter, results without what they found (`Told`). The delicate step is a
compile that ends: `done_compiling` may ask for another for the files that were
put aside, and the map holds only as it never does so while one is on its way.
The protocol bounds the runs it models, so the proof has to show that the
manager stays within that bound: `Paid` counts the compiles there may still be
against the acts of the editor that ask for them. It needs to know that a compile
that ends never pays for a new one: what was put aside is looked for under the base
name of the file, and no package's path is that. Through
`INSTANCE CompileProtocolProofs` the protocol's theorems then hold of the manager:
`ManagerHasOneCompile`, and `ManagerHearsNews`, that the branch for an "older
result" is never taken.

**Documents and answers** (`WorkspaceProofs`), on top of `StateIsSound`,
`ManagerHasOneCompile` and `ManagerHearsNews`. The invariant `DInv`
(`DocumentsAreSound`) says of each document that what is on its way to the manager,
what the manager has of it in packages, binder and list of what is shown, and the
client's buffer and the disk are of one piece. It has one part for each thing that
can come apart: a package's run and module against its documents' (`PackagesSound`);
openings and closings on the wire against what the manager knows as open
(`Sessions`); that a package is found for what was opened (`Founds`); the run what
is shown is from (`Known`); the versions sent and received (`Versions`); the newest
text, which is here or on its way (`Arrives`); the mark of being edited (`Dirty`);
what the compiler read against the disk (`Compiles`). A step takes messages off the
wire and puts others on it, so the proof has lemmas on what survives of the messages
about one document (`Survives`), and one lemma per handler on the state of that
document.

- `DocumentsHaveTheirModules`, `OldErrorsAreTakenBack`: with any nesting of packages,
  order of changes and writes of other programs.
- `SyntaxIsOfTheBuffer`, `BuffersAreAnswered`: if no document can move to a nearer
  package (`Flat`: it is looked for in one directory), or changes arrive in their
  order (`~Reordering`). With neither, the document that moves loses its versions, and
  an older change that comes late wins: TLC finds it.
- `UnsavedIsStale`: under `Flat`. Nested packages are thus the only cause of what
  run `workspace_unsaved` finds.
- `ModulesAreOfTheDisk`: under `~Outsiders`, as nobody tells the manager that
  another program has written a file; but for texts that were put aside as they were
  saved, which no compile comes back to (run `workspace_saved`).
- `AnswersAreRefusedOrRight`, `RenamesAreSafe`: under `Flat` and `~Outsiders`, for these two
  reasons; of renames, in settled documents (run `workspace_rename` has the others).

These are the conditions run `requests` has, which takes changes in any order.

**Base protocol** (`ServerProofs`), for any set of frames that say what they give
(`FramesAssumption`), streams of any length and every way to cut them. `FramedInv` places the
reader: what it has taken ends within the frame after the last it has handed on,
at the start of a header line or of the content, and `length` is what the lines of that
frame read so far say, with nothing left of the frame before
(`ReaderIsWithin`). So `MessagesComeOutInOrder` and `WholeFramesAreHandedOn`. The
proof has a lemma for each line that can be read (`EmptyLineIsRead`,
`HeaderLineIsRead`), which rest on the first line break of the buffer being that
of the frame's line: a buffer never reaches past an unread blank line unseen.

**Language server** (`ServerProofs`), from
`ServerAssumption` (finitely many managers, a bound on the client's acts, and a
settings value is not the value for none).

- `ServerKeepsProtocol`: each step of the server is one of the protocol or a
  stutter, so `OneCompileInServer`.
- `ServerExpectsResponses`. The invariant `EInv`: ids of expectations are distinct
  and below the next id, what the client is asked is expected, and a response on
  its way is the only one to its request. `initialize` sets the next id to one
  that may have been used: that is sound only because nothing has been asked for
  before (`NothingYet`), which in turn needs that no manager, document or setting
  exists before it.
- `RequestsAnsweredOnce`, `SymbolsComeWhole`. The invariant `Sound` says that a
  request that is on the wire, in the mail of one manager, or with an aggregator is
  in one of these places only and has no answer yet, and that an aggregator's count
  is the number of managers whose results it does not have; a manager's mail has
  each of these requests at most once. (A request is in none once it is answered, or
  is an `initialize` that is not.) Its parts are operators of the queues, so that a
  step is two lemmas: one takes a request from one place (`TakeWire`,
  `TakeMailSound`), one puts it into another (`AnswerIt`, `PostDocument`,
  `PostSymbols`, `SymbolsFound`, `ResultsAdded`). `RequestsHaveOnePlace` is the
  invariant itself.
- `SettingsArrive`. The invariant `SInv`: what is on the wire is no older than what is
  in the compiler's mailbox, and that no older than what the compiler has
  (`Ordered`); and until the newest value has arrived it is held, carried by a
  message, or a request for it is on its way (`Coming`). That an answer reaches the
  request for the settings it belongs to is `EInv`'s part.

**Lexer** (`SyntaxProofs`), for any sources and any tables with `TablesAssumption`
(no text is empty): `Covers` (the tokens are the source, in order, none empty, the end last),
`Advances` (every step of a scan takes it further or ends it: no input makes it
loop) and `TypeCorrect`. The invariant adds where in a token a scan is that has
escapes or depth to follow. There is a lemma per branch, on `PushKeeps` (a token
laid down) and `GoesKeeps` (a step in the middle of one). With ponyc's tables as
they are (`PonycsTablesAssumption`: no text before a longer one that begins with it,
newline forms after what they are forms of, one symbol with a `#`),
`SymbolsArePonycs` and `NewlineFormsAreRight`. The entry ponyc takes first is the only
longest one of those that match (`FirstIsPonycs`); that the branches before the
table take no symbol away rests on no two entries being made one kind
(`KindsDiffer`). For the newline forms the invariant says that `after_newline` is what
the tokens so far say of the next (`NewlineIsKnown`, `AfterIs`). They are theorems of
the scan alone; a parse leaves it as it is (`ScanIsUndisturbed`).

**Tree builder** (`SyntaxProofs`), for any tokens, any kinds of node and any order in
which rules that close what they open may start, wrap, chain and recover; a node kind
is no kind of token (`NodeKindsAssumption`).

- `NodesBegin`. A node is often put in front of what has been laid down long before, so
  what must not begin with trivia is everything a running rule has so far, from the
  moment it has any (`RulesBegun`): trivia is flushed before a mark or chain is made,
  and where nothing has been laid down since, the next token is no trivia (`Quiet`). A
  wrapper moves what comes behind it. That no node's range is cut by one needs that
  ranges end where the array ends or before the next running rule's begin (`Ended`),
  that rules are nested as their indices are (`Nested`), and that each recorded wrapper
  of a chain ends where some range of the array will end once those before it are laid
  down (`ChainsReach`). `Shape` is all of this; TLC checked it, on the run's instance
  with four nodes and four rules, before it was proved. There is a lemma for each
  change of the array (`EmitKeeps`, `OpenKeeps`, `InsertKeeps`, `FillKeeps`,
  `RecordKeeps`, `PopKeeps`), and the actions are made of those.
- `NothingIsLost`. `Whole` has, beside `Shape`: the leaves are the tokens taken
  (`IsTiled`, a map from tokens to places that each change of the array moves
  along), and the offset is where the last of them ends, which uses `Covers` on the
  tokens (`OffsetIs`). At the end of a parse the token taken last is `Eof`, which the scan
  puts nowhere but last (`EofIs`), so all are taken and the root's width is the source's.

**Grammar** (`GrammarProofs`), for any finite set of rules, any grammar and any
limit. Of the tool: grey rules are the path, each called by the one below; what
is black leads only to black and has no cycle in it. So `PrintedCycleIsOne` and
`PassedHasNoCycle`. Of a grammar that passed: `_depth` is the number of rules on the
stack that have descended (`DepthIsPaired`); two occurrences of one rule at equal
depth would be a cycle that goes through no guard, so rules at equal depth are
distinct; by counting, the stack has at most (limit + 1) times as many frames as
there are rules (`RecursionIsBounded`).

**Corpus pipeline** (`CorpusProofs`), for any tests, edits and interruptions, any
ponyc and any checker. `SuitesAssumption`: each call follows its suite's define, in
one of the three shapes that `extract_corpus.py:76-81` names. `PonycAssumption`:
ponyc first errs at a pass of the ladder or at none. The invariant (`Typed`,
`Extracts`, `Reads`): the tests an extraction has come past have their rows and
whole directories; what the ladder and the batch read is every test as it is, since
`make` extracts all suites before them and nothing is edited meanwhile; each line
they have made is of the row at its place. A record is true whatever times out:
ponyc errs at every pass from its first on, so a run that ends settles the passes on
one side of it (`RejectIsTrue`, `AcceptIsTrue`). What the code takes for the message
is the first literal of the first argument that has one and is no pass, so the first
of an asserted message (`RowsSayWhatTestsAssert`), and all of it if there is but one
(`OneLiteral`). That gives `RowsAreAsserted` and `ReachIsTrue`. A report is a
function of the files, so `PassIsWhole` and `ReportIsPonycs` need only that files
left behind hold lines of the right kind, no case twice: `ReportIs` says what a
report with code 0 has found of each row, `TrueRecordSays` what a true record then
says of ponyc.

**Oracles** (`OracleProofs`), for any cases, manifest, reach file, exceptions,
outputs and timeouts. `OraclesAssumption`: a case is once in the files
(`extract_corpus.py` and `pass_reach.py` key rows by the directory), a message is
no empty column, and lines are in one of the forms the regular expressions of the
oracles tell apart. The
invariant (`OracleInv`): the loop only started on a fresh reach file; a case it has
not come to has left nothing; of a case it has come past, `found` says exactly
whether it was a miss (`MessageDone`) or which messages are misplaced
(`ColumnDone`). At the end every case has been come past, which gives
`RejectsForPonycsReason` and, with freshness, `NothingIsNarrowed`. For
`SitsWherePonycPutsIt` the code compares sorted lists of places, that is, how often
each occurs, and the property asks for a one-to-one pairing of lines: lines at one
place are as many on both sides just if there is a bijection between them, and the
bijections place by place make up the pairing (`EqualSpreadsPair`,
`PairsHaveEqualSpreads`).

**Lexer agreement check** (`OracleProofs`), for any list of sources, any cuts of
it, any streams and any number of deaths. `AgreementAssumption`: a source is listed
once (`find`), and what is printed of a source is not nothing. The invariant
(`CheckInv`): in a run, a side that is done printed in full what comes before
some place, which is past the list or where it died, and nothing of what comes
after (`DumpDone`). So if a run reports nothing that place is past the list or
the last source of it, and the sources before are lexed alike (`UnfoundIsSame`);
if neither side died all is printed, and what is reported is what differs
(`FoundIfDiffers`). Each source is in the list of one run: the cuts grow and the
last is the end (`PlacesOfNextRun`).

**Model-checked only.** Liveness (`DemandReturns`, `RequestsAnswered`,
`AskedCompilesEnd`), which the prover cannot do. `ArrayIsTree`, whose refinement
mapping reads the array as a tree by recursion over it.

## 4. What the runs found

Each has a run that reaches it.

- `workspace_unsaved`: a document opened before its directory is a package is
  looked for in another package afterwards, and its unsaved edits are forgotten
  (`workspace_manager.pony:95`, documented at 495-496).
- `workspace_saved`: a document saved while a compile runs is put aside, and when the
  compile ends its file name is compared with the paths of packages
  (`workspace_manager.pony:185`), of which none is ever equal: the saved text is not
  compiled, against 48-49 and 208. (The proof of `ManagerKeepsProtocol` rests on it.)
- `workspace_rename`: a save makes a document count as unedited while the module kept is
  of an older text (`state.pony:194`, 170-172), so until a compile of what was saved has
  succeeded a rename edits by old positions (against `workspace_manager.pony:516-521`).
- `server_waits`: a client that can only register for changes of its configuration is
  never asked for it; compiles wait until the user changes it
  (`language_server.pony:557`, against 624-625).
- `corpus_stopped`: a row of the manifest that has neither a verdict nor a record
  in the reach file is passed over; with a reach file older than the manifest a
  batch that stopped early gives a report that succeeds (`corpus_report.py:105`,
  against 136-137).
- `corpus_split`: of a message that is written as several string literals the row has
  the first alone (`extract_corpus.py:161,163`, against 148), while sources and fixtures
  are joined from all of theirs.

Noticed, without a run of their own. In the server:

- A client that asks for diagnostics gets the last one of those a compile
  reported (`state.pony:277`, 259-260).
- A header line without `": "` is dropped and parsing stops as if more data were
  needed; a whole message behind it waits for the next chunk. `NothingWaits`
  leaves such streams out. A frame without a usable length leaves its content to
  be read as headers.
- The begin of a progress waits for the client and may follow its end
  (`workspace_manager.pony:351`).
- `pony_query/engine.pony:45` says an input is never run; asked about before it is
  set, it is (line 85), and nothing changes.
- A document closed and opened again numbers its texts from 1 again; one closed
  with unsaved edits leaves the text of its buffer in the binder, and
  `workspace/symbol` goes on searching it (`workspace_manager.pony:666`).
- `declared_at` (`pony_bind/binder.pony:211`) compares name and kind but not the
  owner: of two members of one name in a file, both are found at the first.
- The call and type hierarchies do not ask whether the buffer has moved.
- An `initialize` whose params are no object is not answered.

In the tools:

- `extract_corpus.unescape` replaces `\n` before `\\`, so an escaped backslash
  before an n becomes a line break. Two TEST_F of one suite and name write one
  directory. An interrupted extraction leaves new cases beside the old manifest,
  which the oracles go on using (`Oracles` takes any manifest for this).
- A torn verdict counts as a rejection. A reach file of older tests with the same
  names is not noticed (`corpus_report.py:15-17` says so).
- A message with a `;`, a line break or a tab in it breaks the line it is written to.
- The guard looks at rules one by one and does not see calls made through a value.
- `check.py` sees a dumper that dies only if the other goes on: in the last
  source of a run a difference is lost, and the dumpers' exit codes are not
  looked at. `mutate.py`, run several times by `xargs`, writes its mutants over
  those of the run before (`mutate.py:6`, `Makefile:86`), and `make mutants` ends in a
  `grep` whose result hides the check's.

Hazards seen and not in the list: headers of one message left for the next
(`notifier.pony:103`, which `InOrder` would notice), a case that times out passed over
(`message_oracle.py:66`, in `NothingIsNarrowed`), a package's reuse sites kept from
its first use (`loader.pony:778`), routing by folder when folders are nested
(`workspace_router.pony:17`), and the lines given above.

## 5. Not modelled, and why

- **Binder**: what it adds to the engine are positions looked up outside the
  queries; see the plan. `Workspace` has the text it is given of each file.
- **Grammar rules, analysis, feature handlers, rules of the checker's passes**:
  long case analyses over trees without interaction. What the grammar's rules
  have in common is in `TreeBuilder` and `GrammarDescent`.
- **Line index, URIs, LSP values, scanner, corral data**: conversions and reads
  at start-up.
- **Loader of the checker**: see the plan.
- **libponyc bridge**: FFI over a compiler that is outside of the repository; its
  outcome is a choice in `Workspace`.
- **Measurement tools** keep nothing; `itemparse` is an experiment with the paths
  of one machine in it. `mutate.py` writes one file after another.
- Of modelled components: `find_workspace`'s walk up the directories, progress of
  compiles in `Workspace` (it is in `LanguageServer`), errors of a compile that are
  about no file, JSON, search paths and defines, `pass_reach --limit`, `corpus_report
  --list`, `dump --reprint` and `--facts`, the regular expressions of the Python tools.

## 6. Plan

Done: all of section 2. What would come next, in order:

1. `Binder` over `QueryEngine`: its tables and queries, and what it looks up
   outside them: positions by name and kind, package paths, texts of closed
   documents. Abstract specification: resolution from nothing. Theorem: what of
   `VerifiedIsRight` carries over to a search over all packages.
2. `Loader`: the worklist of packages, its caches and the ladder of passes;
   reports do not depend on the order of discovery.
3. `find_workspace` as an operator beside `LanguageServer`, with managers that
   replace one another; `LineIndex` over all small texts.
4. Proofs: every safety property of a passing run but `ArrayIsTree` is a theorem;
   properties of values defined by recursion stay with TLC. What is left is to
   prove what the modules above will add.
