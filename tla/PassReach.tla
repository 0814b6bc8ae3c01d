------------------------------ MODULE PassReach ------------------------------
(***************************************************************************)
(* tools/corpus/pass_reach.py: what ponyc does with one case, found by     *)
(* running it up to one pass after another.  ponyc is outside of this      *)
(* repository: `from` is the number of the first pass at which it errors   *)
(* on the case, NeverErrs if there is none, and `late` are the passes a    *)
(* run up to which exceeds the timeout.                                    *)
(***************************************************************************)
EXTENDS Naturals, Sequences

LADDER ==
  <<"parse", "syntax", "sugar", "scope", "import", "name",
    "typealias_recursion", "flatten", "traits", "refer", "expr",
    "completeness", "verify", "final", "c", "reach", "paint", "ir">>

Passes == {LADDER[i] : i \in DOMAIN LADDER}
Index(p) == CHOOSE i \in DOMAIN LADDER : LADDER[i] = p
NeverErrs == Len(LADDER) + 1

\* One row of reach.tsv; its third column is `expect`, or "invalid".
Record(row, expect, full, earliest, why, guard) ==
  [key |-> row.key, expect |-> expect, target |-> row.target,
   full |-> full, earliest |-> earliest, why |-> why, guard |-> guard]
Invalid(row, why) == Record(row, "invalid", "-", "-", why, "-")

\* errs of run(): None when the run takes too long
Runs(p, from, late) ==
  IF p \in late THEN "timeout" ELSE IF Index(p) >= from THEN "errs" ELSE "clean"

BeforeFinal(target) == Index(target) < Index("final")

AcceptRecord(row, from, late) ==
  LET here == Runs(row.target, from, late)
      full == Runs("final", from, late)
  IN CASE here = "timeout" -> Invalid(row, "timeout")
       [] here = "errs" -> Invalid(row, "accept errors")
       [] here = "clean" /\ ~BeforeFinal(row.target) -> Record(row, "accept", "-", "-", "-", "-")
       [] here = "clean" /\ BeforeFinal(row.target) ->
            IF full = "timeout" THEN Invalid(row, "timeout")
            ELSE Record(row, "accept", IF full = "errs" THEN "limited" ELSE "-", "-", "-", "-")

\* LADDER[: target_i + 1]
ProbedShort(target) == 1..(Index(target) - 1)
Probed(target) == 1..Index(target)

\* The probe stops at the first pass that errs or takes too long.
RejectRecord(row, from, late, diverges) ==
  LET stops == {i \in Probed(row.target) : Runs(LADDER[i], from, late) # "clean"}
      first == LADDER[CHOOSE i \in stops : \A j \in stops : i =< j]
  IN IF stops = {} THEN Invalid(row, "reject clean")
     ELSE IF Runs(first, from, late) = "timeout" THEN Invalid(row, "timeout")
     ELSE Record(row, "reject", "-", first, "-", IF diverges THEN "guard" ELSE "-")

RecordOf(row, from, late, diverges) ==
  IF row.target \notin Passes THEN Invalid(row, "unknown target")
  ELSE IF row.expect = "accept" THEN AcceptRecord(row, from, late)
  ELSE RejectRecord(row, from, late, diverges)

\* The cases every number is about.  There is no rate when there is none: `pts`
\* divides by their count after the records are written.
Valid(records) == {i \in DOMAIN records : records[i].expect # "invalid"}

-------------------------------------------------------------------------------
(***************************************************************************)
(* What a record says of a case, without the ladder.  A case whose probe   *)
(* took too long is set aside, whatever it is.                             *)
(***************************************************************************)
RecordIsTrue(r, row, from) ==
  LET target == Index(row.target)
      final == Index("final")
  IN /\ r.key = row.key
     /\ \/ r.expect = "invalid" /\ r.why = "timeout" /\ row.target \in Passes
        \/ r.expect = "invalid" /\ row.target \notin Passes
        \/ row.target \in Passes /\
           IF row.expect = "accept"
             THEN IF from =< target THEN r.expect = "invalid"
                  ELSE r.expect = "accept" /\ (r.full = "limited" <=> from =< final)
             ELSE IF from > target THEN r.expect = "invalid"
                  ELSE r.expect = "reject" /\ Index(r.earliest) = from
===============================================================================
