----------------------------- MODULE DocumentState -----------------------------
(***************************************************************************)
(* What a workspace manager knows of its packages and documents:           *)
(* FromCompilerRun, DocumentState and PackageState of workspace/state.pony *)
(* as values, each method that changes one an operator on it.  A module is *)
(* the text it was compiled from; the position index, the symbols and the  *)
(* hash are functions of it, written whenever it is.                       *)
(***************************************************************************)
EXTENDS Integers, Sequences

CONSTANT None      \* Pony's None

\* FromCompilerRun.
Empty == [run |-> 0, thing |-> None]
Updated(x, run, thing) == IF run >= x.run THEN [run |-> run, thing |-> thing] ELSE x
Get(x, run) == IF run = x.run THEN x.thing ELSE None

------------------------------------------------------------------------------
(* DocumentState.                                                          *)

NewDocument ==
  [run |-> 0, module |-> Empty, diagnostics |-> Empty,
   text |-> None, textVersion |-> 0, clientVersion |-> -1, edited |-> FALSE]

Module(doc) == Get(doc.module, doc.run)
Diagnostics(doc) == Get(doc.diagnostics, doc.run)
NeedsCompilation(doc) == Module(doc) = None /\ Diagnostics(doc) = None

\* `update`: the module of a newer run, or of the same.
WithModule(doc, run, module) ==
  IF run < doc.run THEN doc
  ELSE [doc EXCEPT !.run = run, !.module = Updated(@, run, module)]

\* `set_text` drops what arrives after a newer version.
TakesAny(doc, version) == TRUE
Takes(doc, version) == doc.text = None \/ version >= doc.clientVersion

WithText(doc, text, version, fromDisk) ==
  [doc EXCEPT !.text = text, !.clientVersion = version,
              !.textVersion = @ + 1, !.edited = ~fromDisk]

\* `mark_saved`.
Saved(doc) == [doc EXCEPT !.edited = FALSE]

\* `add_diagnostic`, of n > 0 diagnostics one after the other: of diagnostics only
\* their number matters here.  Those of a newer run replace what is there, each
\* the one before it too, for the document is still of its older run.
WithDiagnostics(doc, run, n) ==
  LET had == IF doc.diagnostics.thing = None THEN 0 ELSE doc.diagnostics.thing
  IN  IF run = doc.run
        THEN [doc EXCEPT !.diagnostics = Updated(@, run, had + n)]
      ELSE IF run > doc.run
        THEN [doc EXCEPT !.diagnostics = Updated(@, run, 1)]
      ELSE doc

------------------------------------------------------------------------------
(* PackageState.  `program` is the compiled package: its modules by file.  *)

NewPackage == [run |-> 0, program |-> Empty, docs |-> <<>>]

Program(pkg) == Get(pkg.program, pkg.run)

\* What the package's last compile has for a file.
ModuleOf(pkg, file) ==
  IF Program(pkg) = None \/ file \notin DOMAIN Program(pkg) THEN None
  ELSE Program(pkg)[file]

\* `insert_new`: populated from the last compile.
InsertedBlank(pkg, file) == NewDocument
Inserted(pkg, file) ==
  IF ModuleOf(pkg, file) = None THEN NewDocument
  ELSE WithModule(NewDocument, pkg.run, ModuleOf(pkg, file))

\* `ensure_document`.
WithDocument(pkg, file) ==
  IF file \in DOMAIN pkg.docs THEN pkg
  ELSE [pkg EXCEPT !.docs = [f \in DOMAIN @ \cup {file} |->
                               IF f = file THEN Inserted(pkg, f) ELSE pkg.docs[f]]]

\* `remove_document`.
WithoutDocument(pkg, file) ==
  [pkg EXCEPT !.docs = [f \in DOMAIN @ \ {file} |-> @[f]]]

\* `update`: the package, and every document it has a module for.
WithProgram(pkg, run, program) ==
  IF run < pkg.run THEN pkg
  ELSE [pkg EXCEPT !.run = run, !.program = Updated(@, run, program),
          !.docs = [f \in DOMAIN @ |->
            IF f \in DOMAIN program THEN WithModule(@[f], run, program[f]) ELSE @[f]]]

AnyStale(pkg) == \E f \in DOMAIN pkg.docs : pkg.docs[f].edited
==============================================================================
