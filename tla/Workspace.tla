------------------------------- MODULE Workspace -------------------------------
(***************************************************************************)
(* One workspace manager (workspace/workspace_manager.pony) between its    *)
(* client and the compiler it shares with the other managers.              *)
(*                                                                         *)
(* The client edits buffers, and its notifications travel in order on      *)
(* `wire`; a save writes the disk before the server hears of it.  Each     *)
(* notification and each result of a compile is handled in one behaviour   *)
(* of the manager, which is one step here; so is a compile, which sees the *)
(* disk as it is then.                                                     *)
(***************************************************************************)
EXTENDS PonyCompiler, DocumentState, FiniteSets

CONSTANTS
  Here,            \* this manager
  Files,
  Texts,
  DoesNotCompile,  \* the texts a compile fails on
  Malformed,       \* those among them whose syntax is already wrong
  Dir(_),          \* Path.dir of a file: the package it is in
  Above(_),        \* Path.dir of a file, and of that, and so on
  Base(_),         \* Path.base of a file
  Uses(_),         \* the packages of a program, by its main package
  ErrorsIn(_),     \* how many errors a compile reports in a text
  Budget,          \* bound: no more than this many acts of client and others
  MaxVersion,      \* bound: no more edits than this in one session
  Reordering,      \* whether a change may overtake an earlier one
  Outsiders        \* whether other programs write files too

ASSUME WorkspaceAssumption ==
  /\ Here \in Managers
  /\ Malformed \subseteq DoesNotCompile
  /\ \A f \in Files : Dir(f) \in Packages /\ Head(Above(f)) = Dir(f)
  /\ \A f \in Files : Above(f) \in Seq(Packages) \ {<<>>}
  /\ \A f \in Files : Base(f) \notin Packages      \* a name, not a path
  /\ \A p \in Packages : p \in Uses(p) /\ Uses(p) \subseteq Packages
  /\ \A text \in DoesNotCompile : ErrorsIn(text) \in Nat \ {0}
  /\ None \notin Packages /\ None \notin Texts
  /\ \A fs \in SUBSET Files : None \notin [fs -> Texts]
  /\ Budget \in Nat

VARIABLES
  budget,          \* what is left of Budget
  disk,            \* the text of each file
  buffer,          \* the client's text of each open document
  version,         \* the client's version of it, 0 if it is not open
  wire,            \* notifications sent and not yet handled
  shown,           \* the diagnostics the client shows for each document
  packages,        \* _packages: a PackageState per directory
  source,          \* the binder's text of each file
  synced,          \* _binder_packages
  compiling,       \* _compiling, of every manager
  awaiting,        \* _awaiting_compilation_for
  compileRun       \* _compile_run, of every manager

clientVars == <<budget, disk, buffer, version>>
managerVars == <<packages, source, synced, compiling, awaiting, compileRun>>
vars == <<compilerVars, clientVars, wire, shown, managerVars>>

FilesIn(p) == {f \in Files : Dir(f) = p}

\* What the client shows: nothing yet, what the server said of the syntax of
\* its text number `at`, or so many errors of run `at`.
Nothing == [from |-> "none", at |-> 0, of |-> 0]
Syntax(n, text) == [from |-> "syntax", at |-> n, of |-> text]
Errors(run, count) == [from |-> "compile", at |-> run, of |-> count]

Init ==
  /\ CompilerInit
  /\ budget = Budget
  /\ disk \in [Files -> Texts]
  /\ buffer = disk
  /\ version = [f \in Files |-> 0]
  /\ wire = <<>>
  /\ shown = [f \in Files |-> Nothing]
  /\ packages = <<>>
  /\ source = [f \in Files |-> None]
  /\ synced = {}
  /\ compiling = [m \in Managers |-> FALSE]
  /\ awaiting = <<>>
  /\ compileRun = [m \in Managers |-> 0]

------------------------------------------------------------------------------
(* The client.                                                             *)

Say(kind, f, text, v) ==
  wire' = Append(wire, [kind |-> kind, file |-> f, text |-> text, version |-> v])

Act ==
  /\ budget > 0
  /\ budget' = budget - 1
  /\ UNCHANGED <<compilerVars, shown, managerVars>>

Open(f) ==
  /\ Act
  /\ version[f] = 0
  /\ version' = [version EXCEPT ![f] = 1]
  /\ buffer' = [buffer EXCEPT ![f] = disk[f]]
  /\ Say("open", f, disk[f], 1)
  /\ UNCHANGED disk

Edit(f, text) ==
  /\ Act
  /\ version[f] \in 1..(MaxVersion - 1)
  /\ text # buffer[f]
  /\ version' = [version EXCEPT ![f] = @ + 1]
  /\ buffer' = [buffer EXCEPT ![f] = text]
  /\ Say("change", f, text, version[f] + 1)
  /\ UNCHANGED disk

Save(f) ==
  /\ Act
  /\ version[f] > 0
  /\ disk' = [disk EXCEPT ![f] = buffer[f]]
  /\ Say("save", f, buffer[f], version[f])
  /\ UNCHANGED <<buffer, version>>

\* Closing without saving discards the edits.
Close(f) ==
  /\ Act
  /\ version[f] > 0
  /\ version' = [version EXCEPT ![f] = 0]
  /\ buffer' = [buffer EXCEPT ![f] = disk[f]]
  /\ Say("close", f, disk[f], version[f])
  /\ UNCHANGED disk

\* Another program writes a file the client does not have open.
WriteFile(f, text) ==
  /\ Outsiders
  /\ Act
  /\ version[f] = 0
  /\ text # disk[f]
  /\ disk' = [disk EXCEPT ![f] = text]
  /\ buffer' = [buffer EXCEPT ![f] = text]
  /\ UNCHANGED <<version, wire>>

------------------------------------------------------------------------------
(* The manager's own operations.                                           *)

\* _find_workspace_package: the nearest directory that is a package already.
FindPackage(f) ==
  LET found == {k \in 1..Len(Above(f)) : Above(f)[k] \in DOMAIN packages}
      nearest == {Above(f)[k] : k \in {k \in found : \A l \in found : k <= l}}
  IN  IF nearest = {} THEN None ELSE CHOOSE p \in nearest : TRUE

\* _ensure_package.
Ensure(pkgs, p) ==
  [q \in DOMAIN pkgs \cup {p} |-> IF q \in DOMAIN pkgs THEN pkgs[q] ELSE NewPackage]

\* The packages with document f of package p made f's new state doc.
WithState(pkgs, p, f, doc) ==
  [Ensure(pkgs, p) EXCEPT ![p] = [WithDocument(@, f) EXCEPT !.docs[f] = doc]]

\* The state of document f in package p, made if there was none.
StateOf(pkgs, p, f) == WithDocument(Ensure(pkgs, p)[p], f).docs[f]

\* _document_stale and _workspace_stale.
DocumentStale(f) ==
  LET p == FindPackage(f)
  IN  p # None /\ f \in DOMAIN packages[p].docs /\ packages[p].docs[f].edited
WorkspaceStale == \E p \in DOMAIN packages : AnyStale(packages[p])

\* _compile, of each of these packages.
CompileAll(ps) == Send([i \in 1..Len(ps) |-> [by |-> Here, package |-> ps[i]]])

\* _sync_binder_package, once a package: a file the client has said nothing
\* about is read from the disk.
Synced(texts, p) ==
  [f \in Files |-> IF p \notin synced /\ Dir(f) = p /\ texts[f] = None
                     THEN disk[f] ELSE texts[f]]

\* _publish_syntax_diagnostics.
ShowSyntaxOnlyWrong(f, doc) ==
  shown' = IF doc.text \in Malformed THEN [shown EXCEPT ![f] = Syntax(doc.textVersion, doc.text)]
           ELSE shown
ShowSyntax(f, doc) == shown' = [shown EXCEPT ![f] = Syntax(doc.textVersion, doc.text)]

\* What is put aside while a compile runs: the hash of the text that was saved,
\* or of the module the document had.  They are hashes of different bytes: of a
\* String, and of a source with its terminator.
TextHash(text) == [of |-> text, terminated |-> FALSE]
ModuleHash(module) == IF module = None THEN None ELSE [of |-> module, terminated |-> TRUE]

PutAsideOnce(f, hash) ==
  [g \in DOMAIN awaiting \cup {f} |-> IF g \in DOMAIN awaiting THEN awaiting[g] ELSE hash]
PutAside(f, hash) ==
  [g \in DOMAIN awaiting \cup {f} |-> IF g = f THEN hash ELSE awaiting[g]]

BusyNever == FALSE
Busy == compiling[Here]

\* Put aside while a compile runs, or compiled at once.
AskOrAwait(p, f, hash) ==
  IF Busy
    THEN /\ awaiting' = PutAside(f, hash)
         /\ UNCHANGED <<mailbox, compiling>>
    ELSE /\ CompileAll(<<p>>)
         /\ compiling' = [compiling EXCEPT ![Here] = TRUE]
         /\ UNCHANGED awaiting

------------------------------------------------------------------------------
(* What the client says, handled.                                          *)

\* Message i of the wire is next: the first, or a change overtaking changes of
\* the same document.
IsNext(i, kind) ==
  /\ wire[i].kind = kind
  /\ \A j \in 1..(i - 1) :
       Reordering /\ kind = "change" /\ wire[j].kind = kind /\ wire[j].file = wire[i].file

Handled(i) ==
  /\ wire' = RemoveAt(wire, i)
  /\ UNCHANGED <<clientVars, gotSettings, pending, nextRun, finished, compileRun>>

DidOpen(i) ==
  LET f == wire[i].file
      p == IF FindPackage(f) = None THEN Dir(f) ELSE FindPackage(f)
      old == StateOf(packages, p, f)
      taken == Takes(old, wire[i].version)
      doc == IF taken THEN WithText(old, wire[i].text, wire[i].version, TRUE) ELSE old
  IN
  /\ IsNext(i, "open")
  /\ Handled(i)
  /\ packages' = WithState(packages, p, f, doc)
  /\ IF taken
       THEN /\ source' = Synced([source EXCEPT ![f] = doc.text], p)
            /\ synced' = synced \cup {p}
            /\ ShowSyntax(f, doc)
       ELSE UNCHANGED <<source, synced, shown>>
  /\ IF NeedsCompilation(doc)
       THEN AskOrAwait(p, f, ModuleHash(Module(doc)))
       ELSE UNCHANGED <<mailbox, compiling, awaiting>>

DidChange(i) ==
  LET f == wire[i].file
      p == FindPackage(f)
      old == StateOf(packages, p, f)
      taken == Takes(old, wire[i].version)
      doc == IF taken THEN WithText(old, wire[i].text, wire[i].version, FALSE) ELSE old
  IN
  /\ IsNext(i, "change")
  /\ Handled(i)
  /\ UNCHANGED <<mailbox, compiling, awaiting, synced>>
  /\ IF p = None
       THEN UNCHANGED <<packages, source, shown>>
       ELSE /\ packages' = WithState(packages, p, f, doc)
            /\ IF taken
                 THEN source' = [source EXCEPT ![f] = doc.text] /\ ShowSyntax(f, doc)
                 ELSE UNCHANGED <<source, shown>>

DidSave(i) ==
  LET f == wire[i].file
      p == FindPackage(f)
  IN
  /\ IsNext(i, "save")
  /\ Handled(i)
  /\ UNCHANGED <<source, synced, shown>>
  /\ IF p = None
       THEN UNCHANGED <<packages, mailbox, compiling, awaiting>>
       ELSE /\ packages' = WithState(packages, p, f, Saved(StateOf(packages, p, f)))
            /\ AskOrAwait(p, f, TextHash(wire[i].text))

DidClose(i) ==
  LET f == wire[i].file
      p == FindPackage(f)
  IN
  /\ IsNext(i, "close")
  /\ Handled(i)
  /\ UNCHANGED <<source, synced, shown, mailbox, compiling, awaiting>>
  /\ packages' = IF p = None THEN packages
                 ELSE [packages EXCEPT ![p] = WithoutDocument(@, f)]

------------------------------------------------------------------------------
(* The compiler, and what it finds.                                        *)

\* A program compiles if every file of it does; otherwise there are errors in
\* every file that does not: how many in each, whatever their order.  (Errors
\* about no file, which the manager sends on by themselves, are left out.)
Outcome(p) ==
  LET program == [q \in Uses(p) |-> [f \in FilesIn(q) |-> disk[f]]]
      broken == {f \in UNION {FilesIn(q) : q \in Uses(p)} : disk[f] \in DoesNotCompile}
  IN  IF broken = {} THEN [ok |-> TRUE, program |-> program]
      ELSE [ok |-> FALSE, errors |-> [f \in broken |-> ErrorsIn(disk[f])]]

CompilerStep ==
  /\ \/ ApplySettings
     \/ Defer
     \/ Compile(Outcome(Head(mailbox).package))
  /\ UNCHANGED <<clientVars, wire, shown, managerVars>>

------------------------------------------------------------------------------
(* done_compiling.                                                         *)

\* The packages with what a successful run found in each package of a program.
WithRun(run, program) ==
  LET known == DOMAIN packages \cup DOMAIN program
      pkg(p) == IF p \in DOMAIN packages THEN packages[p] ELSE NewPackage
  IN  [p \in known |->
         IF p \in DOMAIN program THEN WithProgram(pkg(p), run, program[p]) ELSE pkg(p)]

\* The packages with the errors of a failed run, in the documents whose
\* package can be found.
WithErrors(run, errors) ==
  [p \in DOMAIN packages |->
     LET wrong == {f \in DOMAIN errors : FindPackage(f) = p}
     IN  [packages[p] EXCEPT !.docs = [f \in DOMAIN @ \cup wrong |->
            IF f \in wrong THEN WithDiagnostics(StateOf(packages, p, f), run, errors[f])
            ELSE packages[p].docs[f]]]]

\* The package an awaited file is looked for in.
AwaitedInDir(f) == Dir(f)
AwaitedIn(f) == Base(f)

\* Those the packages of this program have a document for, and whether what
\* was compiled is not what was put aside.
Awaited(pkgs, p) ==
  {f \in DOMAIN awaiting : AwaitedIn(f) = p /\ f \in DOMAIN pkgs[p].docs}
IsOutdated(pkgs, p) ==
  \E f \in Awaited(pkgs, p) : awaiting[f] # ModuleHash(Module(pkgs[p].docs[f]))

\* The errors of a run the client is sent, by file: an empty list for every
\* document there is a state of.
PublishedOnly(run, errors) ==
  [f \in Files |-> IF f \in DOMAIN errors THEN Errors(run, errors[f]) ELSE shown[f]]
Published(run, errors) ==
  LET documents == UNION {DOMAIN packages[p].docs : p \in DOMAIN packages}
  IN  [f \in Files |-> IF f \in DOMAIN errors THEN Errors(run, errors[f])
                       ELSE IF f \in documents THEN Errors(run, 0) ELSE shown[f]]

DoneStep ==
  /\ finished[Here] # <<>>
  /\ Take(Here)
  /\ UNCHANGED <<clientVars, wire, gotSettings, pending, nextRun, source, synced>>

IsNews(run) == run > compileRun[Here]

DoneOk ==
  LET done == Head(finished[Here])
      program == done.result.program
      pkgs == WithRun(done.run, program)
      again == {p \in DOMAIN program : IsOutdated(pkgs, p)}
  IN
  /\ DoneStep
  /\ done.result.ok
  /\ IF IsNews(done.run)
       THEN /\ compileRun' = [compileRun EXCEPT ![Here] = done.run]
            /\ packages' = pkgs
            /\ shown' = Published(done.run, <<>>)
            /\ awaiting' = [f \in DOMAIN awaiting \
                              UNION {Awaited(pkgs, p) : p \in DOMAIN program} |-> awaiting[f]]
            /\ CompileAll([i \in 1..Cardinality(again) |-> done.package])
            /\ compiling' = [compiling EXCEPT ![Here] = again # {}]
       ELSE /\ compiling' = [compiling EXCEPT ![Here] = FALSE]
            /\ UNCHANGED <<compileRun, packages, shown, awaiting, mailbox>>

DoneFailed ==
  LET done == Head(finished[Here])
      errors == done.result.errors
  IN
  /\ DoneStep
  /\ ~done.result.ok
  /\ compiling' = [compiling EXCEPT ![Here] = FALSE]
  /\ UNCHANGED <<awaiting, mailbox>>
  /\ IF IsNews(done.run)
       THEN /\ compileRun' = [compileRun EXCEPT ![Here] = done.run]
            /\ packages' = WithErrors(done.run, errors)
            /\ shown' = Published(done.run, errors)
       ELSE UNCHANGED <<compileRun, packages, shown>>

------------------------------------------------------------------------------
(* The other managers, as far as the compiler tells.                       *)

OtherAsks(m, p) ==
  /\ budget > 0
  /\ ~compiling[m]
  /\ budget' = budget - 1
  /\ Send(<<[by |-> m, package |-> p]>>)
  /\ compiling' = [compiling EXCEPT ![m] = TRUE]
  /\ UNCHANGED <<gotSettings, pending, nextRun, finished, disk, buffer, version,
                 wire, shown, packages, source, synced, awaiting, compileRun>>

OtherDone(m) ==
  /\ finished[m] # <<>>
  /\ Take(m)
  /\ compiling' = [compiling EXCEPT ![m] = FALSE]
  /\ LET run == Head(finished[m]).run IN
     compileRun' = [compileRun EXCEPT ![m] = IF run > @ THEN run ELSE @]
  /\ UNCHANGED <<gotSettings, pending, nextRun, mailbox, clientVars, wire, shown,
                 packages, source, synced, awaiting>>

Others == Managers \ {Here}

Next ==
  \/ \E f \in Files : Open(f)
  \/ \E f \in Files, text \in Texts : Edit(f, text)
  \/ \E f \in Files : Save(f)
  \/ \E f \in Files : Close(f)
  \/ \E f \in Files, text \in Texts : WriteFile(f, text)
  \/ \E i \in 1..Len(wire) : DidOpen(i)
  \/ \E i \in 1..Len(wire) : DidChange(i)
  \/ \E i \in 1..Len(wire) : DidSave(i)
  \/ \E i \in 1..Len(wire) : DidClose(i)
  \/ DoneOk
  \/ DoneFailed
  \/ \E m \in Others, p \in Packages : OtherAsks(m, p)
  \/ \E m \in Others : OtherDone(m)
  \/ CompilerStep

Spec == Init /\ [][Next]_vars
------------------------------------------------------------------------------
(* Properties.                                                             *)

\* Nothing the client has said of f is still to be handled.
Heard(f) == \A i \in 1..Len(wire) : wire[i].file # f

\* What the managers are told, without what was found.
Bare(results) == [i \in 1..Len(results) |-> [results[i] EXCEPT !.result = None]]
Told == [m \in Managers |-> Bare(finished[m])]

\* The manager keeps to the protocol between managers and compiler: one compile
\* of its own at a time, every result taken as newer than the one before.
Protocol == INSTANCE CompileProtocol WITH
  NoResult <- None, MaxRuns <- Budget, finished <- Told

KeepsProtocol == Protocol!Spec

\* A document shows what its package's last compile has for it, whichever of
\* the two came first and however often the document was closed in between.
DocumentsFollowPackages ==
  \A p \in DOMAIN packages : \A f \in DOMAIN packages[p].docs :
    ModuleOf(packages[p], f) # None =>
      Module(packages[p].docs[f]) = ModuleOf(packages[p], f)

\* What the client shows of a buffer's syntax is about the buffer as it is.
ShownSyntaxIsCurrent ==
  \A f \in Files : version[f] > 0 /\ Heard(f) /\ shown[f].from = "syntax" =>
    shown[f].of = buffer[f]

\* The text f has on the disk was put aside, or nothing was known of f when it was.
PutAsideAsSaved(f) == f \in DOMAIN awaiting /\ awaiting[f] \in {None, TextHash(disk[f])}

\* Of a file the last run has compiled, its module.
LastCompiled(f) ==
  {Module(packages[p].docs[f]) : p \in {q \in DOMAIN packages :
     f \in DOMAIN packages[q].docs /\ packages[q].docs[f].run = compileRun[Here]}} \ {None}

\* When no compile runs and all has been handled, what the last run has compiled
\* is what is on the disk, unless that was put aside while a compile ran, and with
\* it the text to compile again: no save is lost before it is written down.  (That
\* what is written down is compiled again is another matter: SavedIsCompiled.)
CompiledFromDisk ==
  \A f \in Files : version[f] > 0 /\ Heard(f) /\ ~compiling[Here] =>
    \A text \in LastCompiled(f) : text = disk[f] \/ PutAsideAsSaved(f)

\* A program with a file saved while a compile ran "needs another compilation": when
\* none runs and all has been handled, what the last run has compiled is what is on
\* the disk, whenever it was saved.
SavedIsCompiled ==
  \A f \in Files : version[f] > 0 /\ Heard(f) /\ ~compiling[Here] =>
    \A text \in LastCompiled(f) : text = disk[f]

\* "Whether this document's buffer has moved past what was compiled": an open
\* document with unsaved edits is refused answers that are positions.
DirtyIsStale ==
  \A f \in Files : version[f] > 0 /\ Heard(f) /\ buffer[f] # disk[f] => DocumentStale(f)

\* "Pre-fill with empty list of errors for all files": of an open document no
\* error of an earlier run is shown once a later one has been handled.
ShownErrorsAreCurrent ==
  \A f \in Files : version[f] > 0 /\ Heard(f) /\ shown[f].from = "compile" /\ shown[f].of > 0 =>
    shown[f].at = compileRun[Here]

==============================================================================
