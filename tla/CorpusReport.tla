----------------------------- MODULE CorpusReport -----------------------------
(***************************************************************************)
(* tools/corpus/corpus_report.py: the checker's verdicts against ponyc's.  *)
(* The manifest, the verdict file and the reach file are sequences of      *)
(* lines; a case's directory is known by its key.  `Torn` is a line of the *)
(* reach file that was cut short, and "torn" a verdict that was.           *)
(***************************************************************************)
EXTENDS Naturals, Sequences, FiniteSets

CONSTANTS
  Torn,
  NoReach,    \* no --reach
  AllSuites,  \* no --suites
  SuiteOf(_)  \* of a key

KeysIn(lines) == {lines[i].key : i \in DOMAIN lines}
LineOf(lines, k) ==
  lines[CHOOSE i \in DOMAIN lines : lines[i].key = k /\ \A j \in DOMAIN lines : lines[j].key = k => j =< i]

Whole(lines) == \A i \in DOMAIN lines : lines[i] # Torn

\* What the reach file says.  Without it every case counts.
InvalidKeys(reach) == {k \in KeysIn(reach) : LineOf(reach, k).expect = "invalid"}
Universe(reach) == KeysIn(reach) \ InvalidKeys(reach)

\* Where a definition is preceded by others of the same form, these are
\* plausible bugs in the code it models, and used nowhere.
LimitedEvery(reach) == {k \in Universe(reach) : LineOf(reach, k).expect = "accept"}
Limited(reach) == {k \in Universe(reach) : LineOf(reach, k).full = "limited"}

\* An accept that full ponyc rejects expects a rejection.
Expected(row, reach) == IF row.key \in Limited(reach) THEN "reject" ELSE row.expect
Ours(got) == IF got = "ok" THEN "accept" ELSE "reject"

\* Where an agreement comes from.
CreditOfTarget(row, reach) ==
  IF Expected(row, reach) = "accept" THEN "(accepts)" ELSE row.target
Credit(row, reach) ==
  IF Expected(row, reach) = "accept" THEN "(accepts)"
  ELSE IF row.key \in Limited(reach) THEN "(limited accepts)"
  ELSE IF row.key \in KeysIn(reach) /\ LineOf(reach, row.key).expect = "reject"
    THEN LineOf(reach, row.key).earliest
  ELSE row.target

(***************************************************************************)
(* The rows that are read fall into those outside of the universe, those   *)
(* with no verdict, those that could not be loaded, and those that count.  *)
(***************************************************************************)
Report(manifest, verdicts, reach, only) ==
  LET torn == reach # NoReach /\ ~Whole(reach)
      known == IF reach = NoReach \/ torn THEN <<>> ELSE reach
      rows == {manifest[i] : i \in {j \in DOMAIN manifest : manifest[j] # Torn}}
      read == IF only = AllSuites THEN rows ELSE {r \in rows : SuiteOf(r.key) \in only}
      counted == {r \in read : reach = NoReach \/ r.key \in Universe(known)}
      judged == {r \in read : r.key \in KeysIn(verdicts)}
      Got(r) == LineOf(verdicts, r.key).got
      unreached == {r \in judged \ counted : r.key \notin InvalidKeys(known)}
      missing == counted \ judged
      loadFailed == {r \in counted \cap judged : Got(r) = "load-failed"}
      scored == (counted \cap judged) \ loadFailed
      agreed == {r \in scored : Ours(Got(r)) = Expected(r, known)}
      wrong == {r \in scored \ agreed : Expected(r, known) = "accept"}
      total == Cardinality(scored \cup loadFailed)
  IN [ code |-> IF torn THEN 2
                ELSE IF ~Whole(manifest) THEN 1
                ELSE IF total = 0 \/ wrong \cup missing \cup loadFailed \cup unreached # {} THEN 2
                ELSE 0,
       read |-> {r.key : r \in read},
       agreed |-> {<<r.key, Credit(r, known)>> : r \in agreed},
       total |-> total ]
===============================================================================
