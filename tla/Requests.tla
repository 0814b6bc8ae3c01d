------------------------------- MODULE Requests -------------------------------
(***************************************************************************)
(* What a workspace manager answers (the request behaviours of             *)
(* workspace/workspace_manager.pony).  A request changes nothing but memos *)
(* of the binder and sends one response, so each handler is the set of     *)
(* responses it may send in a state, over all positions that may be asked  *)
(* about.  Of a response matters which texts the positions in it were      *)
(* computed from: pairs of a file and its text.                            *)
(*                                                                         *)
(* A request without a usable position gets an error before anything is    *)
(* looked at.  Definitions in a package other than the document's own are  *)
(* left out: their text is of the same run as the document's.              *)
(***************************************************************************)
EXTENDS Workspace

CONSTANT NoText      \* the empty text: what the binder reads of a file it was never given

Null == [kind |-> "null", at |-> {}]
Failed == [kind |-> "error", at |-> {}]
Items(at) == [kind |-> "items", at |-> at]

------------------------------------------------------------------------------
(* What answers are made from.                                             *)

HasState(f) == FindPackage(f) # None /\ f \in DOMAIN packages[FindPackage(f)].docs
StateFound(f) == packages[FindPackage(f)].docs[f]

\* _get_index_and_module.
CompiledText(f) == IF HasState(f) THEN Module(StateFound(f)) ELSE None
Compiled(f) == CompiledText(f) # None

\* Positions in the module itself; in its package, as of the same run; in every
\* module of every package of the last compiles (_WorkspaceWalk).
InModule(f) == {<<f, CompiledText(f)>>}
ModulesOf(p) == {<<g, ModuleOf(packages[p], g)>> :
                   g \in {h \in Files : ModuleOf(packages[p], h) # None}}
InProgram(f) == InModule(f) \cup ModulesOf(FindPackage(f))
InWorkspace == UNION {ModulesOf(p) : p \in DOMAIN packages}

\* Positions in what the binder has read of a file (_document_facts).
TextRead(f) == IF source[f] = None THEN NoText ELSE source[f]
InBuffer(f) == {<<f, TextRead(f)>>}

\* _refuse_if_stale.
UnlessStale(f, answers) == IF DocumentStale(f) THEN {Null} ELSE answers

IfCompiled(f, answers) == IF Compiled(f) THEN answers ELSE {Null}

------------------------------------------------------------------------------
(* The handlers.                                                           *)

\* The range is left out when the buffer has moved.
HoverAlwaysRanged(f) == IfCompiled(f, {Null, Items(InModule(f))})
Hover(f) ==
  IfCompiled(f, {Null, Items(IF DocumentStale(f) THEN {} ELSE InModule(f))})

DocumentHighlight(f) == UnlessStale(f, IfCompiled(f, {Items(InModule(f))}))

References(f) == UnlessStale(f, IfCompiled(f, {Items(InWorkspace)}))

PrepareRename(f) == UnlessStale(f, IfCompiled(f, {Failed, Items(InModule(f))}))

\* A rename asks about every document, not only the one it starts in.
RenameOfStale(f) == DocumentStale(f)
RenameRefused(f) == WorkspaceStale
Rename(f) ==
  IF RenameRefused(f) THEN {Failed} ELSE IfCompiled(f, {Failed, Items(InWorkspace)})

\* What the buffer can answer, it answers: a binding in it, or a declaration in
\* any file the binder has been given.
GotoDefinition(f) ==
  {Items(InBuffer(f))}
    \cup {Items(InBuffer(g)) : g \in {h \in Files : source[h] # None}}
    \cup UnlessStale(f, IfCompiled(f, {Items(InProgram(f))}))

TypeDefinition(f) == UnlessStale(f, IfCompiled(f, {Items(InProgram(f))}))

\* Syntax is all an outline or a fold needs: the binder always has facts.
OfBuffer(f) == {IF HasState(f) THEN Items(InBuffer(f)) ELSE Null}
DocumentSymbols(f) == OfBuffer(f)
FoldingRange(f) == OfBuffer(f)
SelectionRange(f) == {Items(InBuffer(f))}

WorkspaceSymbol == {Items(UNION {InBuffer(f) : f \in {g \in Files : source[g] # None}})}

InlayHint(f) ==
  IF DocumentStale(f) THEN {Items({})} ELSE IfCompiled(f, {Items(InModule(f))})

\* The hierarchies do not ask whether the buffer has moved.
CallHierarchyPrepare(f) == IfCompiled(f, {Null, Items(InProgram(f))})
CallHierarchyIncoming(f) == IfCompiled(f, {Null, Items(InWorkspace)})
CallHierarchyOutgoing(f) == IfCompiled(f, {Null, Items(InProgram(f))})
TypeHierarchyPrepare(f) == IfCompiled(f, {Null, Items(InProgram(f))})
TypeHierarchySupertypes(f) == IfCompiled(f, {Null, Items(InProgram(f))})
TypeHierarchySubtypes(f) == IfCompiled(f, {Null, Items(InWorkspace)})

------------------------------------------------------------------------------
(* Properties.                                                             *)

\* The disk's text of f was put aside while a compile ran, and its module is still
\* of another: nothing compiles it but its next save (SavedIsCompiled).
Forgotten(f) == PutAsideAsSaved(f) /\ CompiledText(f) # disk[f]

\* A document the client has open and has said nothing of that is still to be
\* handled, while no compile runs, and that was not forgotten.
Quiet(f) == version[f] > 0 /\ Heard(f) /\ ~compiling[Here] /\ ~Forgotten(f)

\* The last compile has been of the package of f, and succeeded.
UpToDate(f) == HasState(f) /\ StateFound(f).run = compileRun[Here]
Settled(f) == Quiet(f) /\ UpToDate(f)

\* The requests that ask whether the document has moved.
AsksIfStale(f) ==
  UNION {Hover(f), DocumentHighlight(f), References(f), PrepareRename(f),
         TypeDefinition(f), InlayHint(f)}

\* All that is answered from a compile, whether it asks or not.
FromCompile(f) ==
  AsksIfStale(f) \cup
  UNION {Rename(f), GotoDefinition(f), CallHierarchyPrepare(f), CallHierarchyIncoming(f),
         CallHierarchyOutgoing(f), TypeHierarchyPrepare(f), TypeHierarchySupertypes(f),
         TypeHierarchySubtypes(f)}

\* Of settled documents, what asks whether the document has moved is refused or
\* about the buffer the client has; and no request, also of another document, is
\* answered about an older text of one not known to be edited.
RefusedOrRight ==
  \A f \in Files :
    /\ \A answer \in AsksIfStale(f) : \A at \in answer.at :
         at[1] = f /\ Settled(f) => at[2] = buffer[f]
    /\ \A answer \in FromCompile(f) : \A at \in answer.at :
         Settled(at[1]) /\ ~DocumentStale(at[1]) => at[2] = buffer[at[1]]

\* No edit of a rename is placed in a settled document by positions of another text
\* of it, whichever document the rename starts in and whether that one is settled.
SettledRenameIsSafe ==
  \A f \in Files : \A answer \in Rename(f) : \A at \in answer.at :
    Settled(at[1]) => at[2] = buffer[at[1]]

\* "An edit for a file the user has since changed lands at coordinates that have
\* moved", and so a rename is refused: no edit is placed by positions of another text
\* in any document the client has open and the manager has heard all of, also while
\* what was saved is being compiled, or could not be.
RenameIsSafe ==
  \A f \in Files : \A answer \in Rename(f) : \A at \in answer.at :
    version[at[1]] > 0 /\ Heard(at[1]) => at[2] = buffer[at[1]]

\* Answered from the buffer, an answer is about every buffer as the client has
\* it, through unsaved edits, broken syntax and compiles in between.
BufferAnswersAreCurrent ==
  \A f \in Files :
    \A answer \in UNION {DocumentSymbols(f), FoldingRange(f), SelectionRange(f), WorkspaceSymbol} :
      \A at \in answer.at : version[at[1]] > 0 /\ Heard(at[1]) => at[2] = buffer[at[1]]
==============================================================================
