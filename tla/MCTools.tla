-------------------------------- MODULE MCTools --------------------------------
(* The tools beside the checker: the corpus pipeline, the oracles over its      *)
(* files, and the agreement of the lexers.  Three models side by side: a        *)
(* behaviour is of one of them, which `part` says, and the others stay as they  *)
(* began.                                                                       *)
EXTENDS MCCorpus, MCOracles, MCAgreement

VARIABLE part   \* bound: "corpus", "oracles" or "agreement"

allVars == <<part, vars, oracleVars, checkVars>>

FirstTests == tests = [k \in Keys |-> CHOOSE b \in BlocksOf(k) : TRUE]
NoFiles ==
  /\ manifestMessage = [k \in CaseKeys |-> NoRow]
  /\ reachVerdict = [k \in CaseKeys |-> NoRow]
  /\ torn = FALSE
  /\ exceptions = {}
NoneRead ==
  /\ parts = <<Len(Corpus)>>
  /\ lexed = [s \in Sides |-> [f \in Files |-> Unreadable]]

PartsInit ==
  \/ part = "corpus" /\ NoFiles /\ NoneRead /\ Init /\ OracleInit /\ CheckInit
  \/ part = "oracles" /\ FirstTests /\ NoneRead /\ Init /\ OracleInit /\ CheckInit
  \/ part = "agreement" /\ FirstTests /\ NoFiles /\ Init /\ OracleInit /\ CheckInit

InCorpus == part = "corpus" /\ UNCHANGED <<part, oracleVars, checkVars>>
InOracles == part = "oracles" /\ UNCHANGED <<part, vars, checkVars>>
InAgreement == part = "agreement" /\ UNCHANGED <<part, vars, oracleVars>>

PartsNext ==
  \/ \E k \in Keys : \E b \in BlocksOf(k) : InCorpus /\ Edit(k, b)
  \/ \E goal \in {"corpus-cases", "pass-reach", "checker-corpus"}, suites \in SUBSET Suites \ {{}} :
       InCorpus /\ Make(goal, suites)
  \/ InCorpus /\ PassOver
  \/ InCorpus /\ Clear
  \/ InCorpus /\ WriteMain
  \/ InCorpus /\ WriteFixtures
  \/ InCorpus /\ WriteManifest
  \/ \E late \in Lateness : InCorpus /\ Probe(late)
  \/ InCorpus /\ WriteReach
  \/ \E got \in {"ok", "fail", "load-failed"} : InCorpus /\ Judge(got)
  \/ InCorpus /\ WriteVerdicts
  \/ \E withReach \in BOOLEAN, only \in {AllSuites} \cup {{s} : s \in Suites} :
       InCorpus /\ ReportByHand(withReach, only)
  \/ InCorpus /\ Interrupt
  \/ \E t \in {"message", "column"} : InOracles /\ Start(t)
  \/ InOracles /\ MessageSkip
  \/ InOracles /\ MessageTimeout
  \/ \E exit \in {0, 1, 255}, output \in Outputs : InOracles /\ MessageRun(exit, output)
  \/ InOracles /\ ColumnSkip
  \/ InOracles /\ ColumnTimeout
  \/ \E theirs, ours \in Outputs : InOracles /\ ColumnRun(theirs, ours)
  \/ \E side \in Sides :
       \/ InAgreement /\ Dump(side)
       \/ InAgreement /\ DumpDies(side)
       \/ InAgreement /\ Dumped(side)
  \/ InAgreement /\ Compare

PartsSpec == PartsInit /\ [][PartsNext]_allVars
================================================================================
