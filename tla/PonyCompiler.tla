----------------------------- MODULE PonyCompiler -----------------------------
(***************************************************************************)
(* The actor of compiler_notify.pony that every workspace manager shares:  *)
(* it runs one compile at a time, and none before the settings have come.  *)
(* One action is one behaviour of the actor, run to its end as the runtime *)
(* runs it; `mailbox` holds the `compile` messages it has not taken, and   *)
(* finished[m] the `done_compiling` messages manager m has not taken.      *)
(* What a compile finds is the business of the module that extends this.   *)
(***************************************************************************)
EXTENDS Naturals, Sequences, SequencesExt

CONSTANTS
  Managers,        \* the workspace managers
  Packages         \* the package directories a manager can ask about

VARIABLES
  gotSettings,     \* _got_settings
  pending,         \* _compilation_queue
  nextRun,         \* _run_id_gen
  mailbox,
  finished

compilerVars == <<gotSettings, pending, nextRun, mailbox, finished>>

Request == [by : Managers, package : Packages]

\* Where the requests and results of m are on their way.
Waiting(requests, m) == {i \in 1..Len(requests) : requests[i].by = m}
Places(m) ==
  ({"mailbox"} \X Waiting(mailbox, m)) \cup ({"pending"} \X Waiting(pending, m))
    \cup ({"finished"} \X (1..Len(finished[m])))

\* Runs are counted from 1: a manager that has heard of none holds 0.
FirstRun == 1

CompilerInit ==
  /\ gotSettings = FALSE
  /\ pending = <<>>
  /\ nextRun = FirstRun
  /\ mailbox = <<>>
  /\ finished = [m \in Managers |-> <<>>]

\* What a manager that sends these requests adds.
Send(requests) == mailbox' = mailbox \o requests

\* The order the first settings release what has been waiting in.
ReleasedNever == <<>>
Released == Reverse(pending)

\* `apply_settings` for the first time: the queue is popped from its end and
\* sent to the actor itself.  Later settings change only what is compiled.
ApplySettings ==
  /\ ~gotSettings
  /\ gotSettings' = TRUE
  /\ Send(Released)
  /\ pending' = <<>>
  /\ UNCHANGED <<nextRun, finished>>

\* `compile` before the settings: it waits.
Defer ==
  /\ mailbox # <<>>
  /\ ~gotSettings
  /\ pending' = Append(pending, Head(mailbox))
  /\ mailbox' = Tail(mailbox)
  /\ UNCHANGED <<gotSettings, nextRun, finished>>

\* The number of the run that ends, and what the next one gets.
RunAfter == nextRun + 1

\* `compile`: libponyc runs, the run gets its number, the result is sent.
Compile(result) ==
  /\ mailbox # <<>>
  /\ gotSettings
  /\ LET r == Head(mailbox) IN
     finished' = [finished EXCEPT ![r.by] =
       Append(@, [package |-> r.package, result |-> result, run |-> nextRun])]
  /\ nextRun' = RunAfter
  /\ mailbox' = Tail(mailbox)
  /\ UNCHANGED <<gotSettings, pending>>

\* The oldest result of m has been taken.
Take(m) == finished' = [finished EXCEPT ![m] = Tail(@)]
===============================================================================
