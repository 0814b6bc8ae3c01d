---------------------------- MODULE MCQueryEngine ----------------------------
(***************************************************************************)
(* The engine over the cells of `_Sheet` (tests/_query_tests.pony): three  *)
(* input cells, a sum, a cell that chooses which of two cells to read, and *)
(* a sum above both.  Sums are modulo 2, so that two edits can cancel.     *)
(***************************************************************************)
EXTENDS QueryEngine, TLC

MCInputs == {"cond", "a", "b"}
MCQueries == MCInputs \cup {"inner", "pick", "top"}

Sum == "inner" :> <<"a", "b">> @@ "top" :> <<"pick", "a">>

\* choose: the condition, then one of the two branches.
Condition == "cond"
WhenSet == "inner"
Otherwise == "b"

MCNextRead(q, seen) ==
  IF q = "pick"
    THEN CASE Len(seen) = 0 -> Condition
           [] Len(seen) = 1 -> IF seen[1] # 0 THEN WhenSet ELSE Otherwise
           [] OTHER -> Done
    ELSE IF Len(seen) < Len(Sum[q]) THEN Sum[q][Len(seen) + 1] ELSE Done

MCResult(q, seen) ==
  IF q = "pick"
    THEN IF Len(seen) = 2 THEN seen[2] ELSE 0
    ELSE IF Len(seen) = 2 THEN (seen[1] + seen[2]) % 2 ELSE 0

MCRank(q) == CASE q = "top" -> 3 [] q = "pick" -> 2 [] q = "inner" -> 1 [] OTHER -> 0
=============================================================================
