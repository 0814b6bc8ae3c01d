---------------------------- MODULE CompileProtocol ----------------------------
(***************************************************************************)
(* The compiler and its clients, with everything left out of a manager     *)
(* that is not between the two: whether it has asked (`_compiling`) and    *)
(* the newest run it has heard of (`_compile_run`).  Workspace.tla has the *)
(* whole manager, and is checked to keep to this protocol; in              *)
(* LanguageServer.tla it runs between the server and its client.           *)
(***************************************************************************)
EXTENDS PonyCompiler

CONSTANTS
  NoResult,        \* what a compile finds is not this module's business
  MaxRuns          \* bound: no more than this many compiles

VARIABLES
  compiling,       \* _compiling of each manager
  compileRun       \* _compile_run of each manager

vars == <<gotSettings, pending, nextRun, mailbox, finished, compiling, compileRun>>

Init ==
  /\ CompilerInit
  /\ compiling = [m \in Managers |-> FALSE]
  /\ compileRun = [m \in Managers |-> 0]

\* Requests made so far.
Requests == nextRun - 1 + Len(mailbox) + Len(pending)

MayAskAlways(m) == TRUE
MayAsk(m) == ~compiling[m]

\* A manager opens or saves a document while no compile of its own is running
\* (did_open, did_save), and asks for package p.
Ask(m, p) ==
  /\ MayAsk(m)
  /\ Requests < MaxRuns
  /\ Send(<<[by |-> m, package |-> p]>>)
  /\ compiling' = [compiling EXCEPT ![m] = TRUE]
  /\ UNCHANGED <<gotSettings, pending, nextRun, finished, compileRun>>

\* done_compiling: the manager takes the result, if it is a newer one.
Done(m) ==
  /\ finished[m] # <<>>
  /\ LET run == Head(finished[m]).run IN
     compileRun' = [compileRun EXCEPT ![m] = IF run > @ THEN run ELSE @]
  /\ compiling' = [compiling EXCEPT ![m] = FALSE]
  /\ Take(m)
  /\ UNCHANGED <<gotSettings, pending, nextRun, mailbox>>

CompilerStep ==
  /\ UNCHANGED <<compiling, compileRun>>
  /\ ApplySettings \/ Defer \/ Compile(NoResult)

Next ==
  \/ \E m \in Managers, p \in Packages : Ask(m, p)
  \/ \E m \in Managers : Done(m)
  \/ CompilerStep

Spec == Init /\ [][Next]_vars
------------------------------------------------------------------------------
(* Properties.                                                             *)

Result == [package : Packages, result : {NoResult}, run : Nat \ {0}]

\* Every part of the state is what its declarations say it is.
TypeOK ==
  /\ gotSettings \in BOOLEAN
  /\ pending \in Seq(Request)
  /\ nextRun \in Nat \ {0}
  /\ mailbox \in Seq(Request)
  /\ finished \in [Managers -> Seq(Result)]
  /\ compiling \in [Managers -> BOOLEAN]
  /\ compileRun \in [Managers -> Nat]

\* A manager that is compiling has exactly one request or result on its way,
\* and one that is not has none: `_compiling` is true of the whole time between
\* a request and its result and of no other, whatever waits for settings.
OneInFlight ==
  \A m \in Managers :
    IF compiling[m] THEN \E place \in Places(m) : Places(m) = {place}
                    ELSE Places(m) = {}

\* What a manager has not yet heard is newer than what it has: no result is
\* ever dropped as older, whichever managers the runs in between were for.
ResultsAreNews ==
  \A m \in Managers : \A i \in 1..Len(finished[m]) :
    compileRun[m] < finished[m][i].run /\ finished[m][i].run < nextRun

\* No two managers are ever told of the same run, and none twice.
RunsAreUnique ==
  [][\A m, n \in Managers : compileRun'[m] # compileRun[m] =>
       compileRun'[m] > compileRun[m] /\ (n # m => compileRun'[m] # compileRun'[n])]_vars
==============================================================================
