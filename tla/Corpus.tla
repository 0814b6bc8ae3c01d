-------------------------------- MODULE Corpus --------------------------------
(***************************************************************************)
(* The agreement pipeline of tools/corpus: `make corpus-cases`,            *)
(* `pass-reach` and `checker-corpus`, and the report run by hand.  They    *)
(* are programs that hand files to one another, one after another; any of  *)
(* them may be interrupted, and ponyc's tests may change between two runs. *)
(*                                                                         *)
(* ponyc's tests, ponyc and the checker are outside of these programs: a   *)
(* test is a block (see Extraction), ponyc a function of the files of a    *)
(* case, and the checker gives any verdict.                                *)
(***************************************************************************)
EXTENDS Extraction, PassReach, CorpusReport

CONSTANTS
  Order,            \* the tests, as listdir and the files have them
  BlocksOf(_),      \* the blocks a test may have; with no verdict it is as good as absent
  DefsOf(_),        \* the #defines of a suite
  ErrsFrom(_),      \* the first pass at which ponyc errs on some files
  Diverges(_),      \* ... and whether by its divergence guard
  Lateness,         \* the sets of passes that may time out in one probe
  MaxEdits, MaxInterrupts

Keys == {Order[i] : i \in DOMAIN Order}
Suites == {SuiteOf(k) : k \in Keys}

ASSUME CorpusAssumption ==
  /\ MaxEdits \in Nat /\ MaxInterrupts \in Nat
  /\ \A i, j \in DOMAIN Order : i # j => Order[i] # Order[j]
  /\ \A l \in Lateness : l \subseteq Passes

EmptyCase == [main |-> None, fixtures |-> {}]
CaseOf(block) == [main |-> MainOf(block), fixtures |-> Inside(FixturesOf(block))]

\* What the directory of a case may hold, its extraction done or interrupted.
Programs(k) ==
  {EmptyCase} \cup UNION { {CaseOf(b), [CaseOf(b) EXCEPT !.fixtures = {}]} :
                             b \in {x \in BlocksOf(k) : IsCase(x)} }

ASSUME SuitesAssumption ==
  /\ Order \in Seq(Keys)
  /\ \A k \in Keys : \A b \in BlocksOf(k) :
       IsCase(b) => FollowsDefine(StatedBy(b), Define(DefsOf(SuiteOf(k)), StatedBy(b).macro))

ASSUME PonycAssumption ==
  \A k \in Keys : \A program \in Programs(k) : ErrsFrom(program) \in 1..NeverErrs

VARIABLES
  tests,       \* ponyc's tests
  cases,       \* the directory of each case
  manifest,    \* manifest.tsv
  reach,       \* reach.tsv
  verdicts,    \* checker_verdicts.tsv
  job,         \* the program that runs, where it is and what it holds
  outcome,     \* what the last one ended with
  edits, interrupts

files == <<cases, manifest, reach, verdicts>>
vars == <<tests, files, job, outcome, edits, interrupts>>

NoFile == <<>>
NoJob == [goal |-> "none", step |-> "idle", suites |-> {}, at |-> 0, rows |-> <<>>]
NoReport == [code |-> 0, read |-> {}, agreed |-> {}, total |-> 0]
NoOutcome == [goal |-> "none", scored |-> FALSE, report |-> NoReport]

Init ==
  /\ tests \in [Keys -> UNION {BlocksOf(k) : k \in Keys}]
  /\ \A k \in Keys : tests[k] \in BlocksOf(k)
  /\ cases = [k \in Keys |-> EmptyCase]
  /\ manifest = NoFile /\ reach = NoReach /\ verdicts = NoFile
  /\ job = NoJob
  /\ outcome = NoOutcome
  /\ edits = 0 /\ interrupts = 0

Idle == job.step = "idle"
At(step) == job.step = step
Key == Order[job.at]
Block == tests[Key]
Defs == DefsOf(SuiteOf(Key))
Run(step) == job' = [job EXCEPT !.step = step, !.at = 1, !.rows = <<>>]
Fails == job' = NoJob /\ outcome' = [NoOutcome EXCEPT !.goal = job.goal, !.report.code = 1]
Succeeds == job' = NoJob /\ outcome' = [NoOutcome EXCEPT !.goal = job.goal]

\* Another ponyc is checked out.
Edit(k, b) ==
  /\ Idle /\ edits < MaxEdits
  /\ b # tests[k]
  /\ tests' = [tests EXCEPT ![k] = b]
  /\ outcome' = NoOutcome
  /\ edits' = edits + 1
  /\ UNCHANGED <<files, job, interrupts>>

\* Each of the targets begins with an extraction; by hand it may be of some suites.
Make(goal, suites) ==
  /\ Idle
  /\ suites # Suites => goal = "corpus-cases"
  /\ job' = [NoJob EXCEPT !.goal = goal, !.step = "block", !.suites = suites, !.at = 1]
  /\ outcome' = NoOutcome
  /\ UNCHANGED <<tests, files, edits, interrupts>>

-------------------------------------------------------------------------------
(* extract_corpus.py.                                                      *)

InBlock == At("block") /\ job.at \in DOMAIN Order
IsExtracted == SuiteOf(Key) \in job.suites /\ IsCase(Block)

PassOver ==
  /\ InBlock /\ ~IsExtracted
  /\ job' = [job EXCEPT !.at = @ + 1]
  /\ UNCHANGED <<tests, files, outcome, edits, interrupts>>

\* shutil.rmtree, os.makedirs
ClearedNot(k) == cases[k]
Cleared(k) == EmptyCase

Clear ==
  /\ InBlock /\ IsExtracted
  /\ cases' = [cases EXCEPT ![Key] = Cleared(Key)]
  /\ job' = [job EXCEPT !.step = "main"]
  /\ UNCHANGED <<tests, manifest, reach, verdicts, outcome, edits, interrupts>>

WriteMain ==
  /\ At("main")
  /\ cases' = [cases EXCEPT ![Key].main = MainOf(Block)]
  /\ job' = [job EXCEPT !.step = "fixtures"]
  /\ UNCHANGED <<tests, manifest, reach, verdicts, outcome, edits, interrupts>>

\* A file of a name that is there already is written over.
Overwritten(old, new) == {f \in old : \A g \in new : <<f.package, f.file>> # <<g.package, g.file>>} \cup new

WriteFixtures ==
  /\ At("fixtures")
  /\ cases' = [cases EXCEPT ![Key].fixtures = Overwritten(@, Inside(FixturesOf(Block)))]
  /\ job' = [job EXCEPT !.step = "block", !.at = @ + 1, !.rows = Append(@, RowOf(Key, Block, Defs))]
  /\ UNCHANGED <<tests, manifest, reach, verdicts, outcome, edits, interrupts>>

\* After this the extraction is done, and what its target needs next begins.
WriteManifest ==
  /\ At("block") /\ job.at > Len(Order)
  /\ manifest' = job.rows
  /\ \/ job.goal = "corpus-cases" /\ Succeeds
     \/ job.goal = "pass-reach" /\ Run("probe") /\ UNCHANGED outcome
     \/ job.goal = "checker-corpus" /\ reach # NoReach /\ Run("batch") /\ UNCHANGED outcome
     \/ job.goal = "checker-corpus" /\ reach = NoReach /\ Fails
  /\ UNCHANGED <<tests, cases, reach, verdicts, edits, interrupts>>

-------------------------------------------------------------------------------
(* pass_reach.py, the checker's batch, corpus_report.py.                   *)

Row == manifest[job.at]
AtRow(step) == At(step) /\ job.at \in DOMAIN manifest
RowsDone(step) == At(step) /\ job.at > Len(manifest)

Probe(late) ==
  /\ AtRow("probe")
  /\ LET program == cases[Row.key] IN
     job' = [job EXCEPT !.at = @ + 1,
                        !.rows = Append(@, RecordOf(Row, ErrsFrom(program), late, Diverges(program)))]
  /\ UNCHANGED <<tests, files, outcome, edits, interrupts>>

\* The records are written before the rates are computed, which fails without a case.
WriteReach ==
  /\ RowsDone("probe")
  /\ reach' = job.rows
  /\ IF Valid(job.rows) = {} THEN Fails ELSE Succeeds
  /\ UNCHANGED <<tests, cases, manifest, verdicts, edits, interrupts>>

Judge(got) ==
  /\ AtRow("batch")
  /\ job' = [job EXCEPT !.at = @ + 1, !.rows = Append(@, [key |-> Row.key, got |-> got])]
  /\ UNCHANGED <<tests, files, outcome, edits, interrupts>>

Ended(goal, reachFile, only) ==
  [goal |-> goal, scored |-> reachFile # NoReach,
   report |-> Report(manifest, verdicts', reachFile, only)]

WriteVerdicts ==
  /\ RowsDone("batch")
  /\ verdicts' = job.rows
  /\ job' = NoJob
  /\ outcome' = Ended(job.goal, reach, AllSuites)
  /\ UNCHANGED <<tests, cases, manifest, reach, edits, interrupts>>

ReportByHand(withReach, only) ==
  /\ Idle
  /\ withReach => reach # NoReach
  /\ UNCHANGED verdicts
  /\ outcome' = Ended("report", IF withReach THEN reach ELSE NoReach, only)
  /\ UNCHANGED <<tests, cases, manifest, reach, job, edits, interrupts>>

(***************************************************************************)
(* A file that was being written is left with the lines that reached it,   *)
(* the last of them perhaps cut short; what was only held is gone.  The    *)
(* verdicts are written as they are found.                                 *)
(***************************************************************************)
Cut(lines, torn) ==
  {SubSeq(lines, 1, n) : n \in 0..Len(lines)}
    \cup {Append(SubSeq(lines, 1, n - 1), torn[n]) : n \in DOMAIN lines}
TornRows == [n \in DOMAIN job.rows |-> Torn]
TornVerdicts == [n \in DOMAIN job.rows |-> [job.rows[n] EXCEPT !.got = "torn"]]

Interrupt ==
  /\ ~Idle /\ interrupts < MaxInterrupts
  /\ job' = NoJob
  /\ outcome' = NoOutcome
  /\ interrupts' = interrupts + 1
  /\ UNCHANGED <<tests, cases, edits>>
  /\ IF At("block") /\ job.at > Len(Order) THEN manifest' \in Cut(job.rows, TornRows)
     ELSE UNCHANGED manifest
  /\ IF RowsDone("probe") THEN reach' \in Cut(job.rows, TornRows) ELSE UNCHANGED reach
  /\ IF At("batch") THEN verdicts' \in Cut(job.rows, TornVerdicts)
     ELSE UNCHANGED verdicts

Next ==
  \/ \E k \in Keys : \E b \in BlocksOf(k) : Edit(k, b)
  \/ \E goal \in {"corpus-cases", "pass-reach", "checker-corpus"}, suites \in SUBSET Suites \ {{}} : Make(goal, suites)
  \/ PassOver \/ Clear \/ WriteMain \/ WriteFixtures \/ WriteManifest
  \/ \E late \in Lateness : Probe(late)
  \/ WriteReach
  \/ \E got \in {"ok", "fail", "load-failed"} : Judge(got)
  \/ WriteVerdicts
  \/ \E withReach \in BOOLEAN, only \in {AllSuites} \cup {{s} : s \in Suites} : ReportByHand(withReach, only)
  \/ Interrupt

Spec == Init /\ [][Next]_vars

-------------------------------------------------------------------------------
(***************************************************************************)
(* A row has the pass its test asserts, whichever of the shapes the        *)
(* suite's define has: an extra parameter is the pass only if it is named  *)
(* so (extract_corpus.py:76-81).  Its message is no pass and no text of    *)
(* another place, but the beginning of one the test asserts, and the whole *)
(* of it where no string of the call is split.                             *)
(***************************************************************************)
Begins(message, whole) ==
  /\ message # <<>> /\ Len(message) =< Len(whole)
  /\ \A n \in DOMAIN message : message[n] = whole[n]

RowsAreAsserted ==
  At("block") =>
    \A i \in DOMAIN job.rows :
      LET row == job.rows[i]
          call == StatedBy(tests[row.key])
          d == Define(DefsOf(SuiteOf(row.key)), call.macro)
      IN /\ row.target = AssertedPass(call, d)
         /\ IF row.expect = "accept" \/ AssertedMessages(call, d) = {} THEN row.message = <<>>
            ELSE \E m \in AssertedMessages(call, d) :
                   Begins(row.message, m) /\ (Unsplit(call) => row.message = m)

(***************************************************************************)
(* The instrument says what ponyc does: the earliest pass that errs, and   *)
(* which accepts full ponyc rejects; it sets a case aside only where ponyc *)
(* disagrees with the test, or was too slow (pass_reach.py:4-8, 26-32).    *)
(***************************************************************************)
ReachIsTrue ==
  At("probe") =>
    \A i \in DOMAIN job.rows :
      RecordIsTrue(job.rows[i], manifest[i], ErrsFrom(cases[manifest[i].key]))

(***************************************************************************)
(* `make checker-corpus` succeeds only over the tests as they are: every   *)
(* case they have, with the files they give it and no others, was judged,  *)
(* or is recorded as one that does not count.  "A verdict file truncated   *)
(* by a crash" and a case that could not be loaded fail it                 *)
(* (corpus_report.py:14-21; extract_corpus.py:218-220).                    *)
(***************************************************************************)
Plain(k) == IsCase(tests[k])

PassIsWhole ==
  outcome.goal = "checker-corpus" /\ outcome.report.code = 0 =>
    /\ KeysIn(manifest) = {k \in Keys : Plain(k)}
    /\ \A k \in KeysIn(manifest) :
         /\ cases[k] = CaseOf(tests[k])
         /\ \/ k \in InvalidKeys(reach)
            \/ k \in KeysIn(verdicts) /\ LineOf(verdicts, k).got \in {"ok", "fail"}

\* The reach file is of the cases as they are.
ReachHolds ==
  /\ reach # NoReach /\ Whole(reach) /\ Whole(manifest)
  /\ \A k \in KeysIn(manifest) :
       /\ k \in KeysIn(reach)
       /\ RecordIsTrue(LineOf(reach, k), LineOf(manifest, k), ErrsFrom(cases[k]))

\* The report succeeds only if the checker rejected no case that ponyc accepts.
FalseRejectionsFail ==
  outcome.scored /\ outcome.report.code = 0 /\ ReachHolds =>
    \A k \in outcome.report.read :
      /\ LineOf(manifest, k).expect = "accept"
      /\ ErrsFrom(cases[k]) = NeverErrs
      /\ LineOf(reach, k).expect # "invalid"
      => LineOf(verdicts, k).got = "ok"

\* Agreement is booked to the pass ponyc rejects the case in, and that on a
\* case only full ponyc rejects to none.
CreditIsPonycs ==
  outcome.scored /\ ReachHolds =>
    \A k \in Keys, credit \in {"(accepts)", "(limited accepts)"} \cup Passes :
      <<k, credit>> \in outcome.report.agreed =>
        LET from == ErrsFrom(cases[k])
            row == LineOf(manifest, k)
        IN CASE credit = "(accepts)" -> row.expect = "accept" /\ from > Index("final")
             [] credit = "(limited accepts)" -> row.expect = "accept" /\ from =< Index("final")
             [] credit \in Passes -> row.expect = "reject" /\ from = Index(credit)

(***************************************************************************)
(* With a reach file of the cases as they are, "the gate fails on the      *)
(* first" case the checker wrongly rejects (corpus_report.py:201-203), and *)
(* agreement is credited as ponyc has it (corpus_report.py:122-132).       *)
(***************************************************************************)
ReportIsPonycs == FalseRejectionsFail /\ CreditIsPonycs

-------------------------------------------------------------------------------
(***************************************************************************)
(* A row has "ponyc's message" (extract_corpus.py:148), all of it: the     *)
(* message a test asserts is the string C makes of the literals it is      *)
(* written as.                                                             *)
(***************************************************************************)
AssertionsAreWhole ==
  At("block") =>
    \A i \in DOMAIN job.rows :
      LET row == job.rows[i]
          call == StatedBy(tests[row.key])
          asserted == AssertedMessages(call, Define(DefsOf(SuiteOf(row.key)), call.macro))
      IN row.expect = "reject" /\ asserted # {} => row.message \in asserted

(***************************************************************************)
(* "A verdict file that stops early -- a mid-batch crash -- must fail      *)
(* loudly" (corpus_report.py:136-137): a report that succeeds has read a   *)
(* verdict of each case that is not set aside.                             *)
(***************************************************************************)
StoppedBatchFails ==
  outcome.scored /\ outcome.report.code = 0 =>
    \A k \in outcome.report.read : k \in InvalidKeys(reach) \/ k \in KeysIn(verdicts)
===============================================================================
