------------------------------- MODULE MCOracles -------------------------------
(* Two cases and two messages; what is written to stderr is up to two lines.    *)
EXTENDS Oracles

CONSTANTS c1, c2, m1, m2

MCCaseOrder == <<c1, c2>>
Absolute(m, p) == [text |-> m, at |-> p, spelled |-> "absolute"]
Given(m, p) == [text |-> m, at |-> p, spelled |-> "given"]
Info(m) == [text |-> m, at |-> 1, spelled |-> "indented"]
MCOutputs ==
  {<<>>, <<Absolute(m1, 1)>>, <<Given(m1, 1)>>, <<Given(m1, 1), Info(m1)>>, <<Info(m2)>>,
   <<Absolute(m1, 1), Absolute(m1, 1)>>, <<Absolute(m1, 1), Given(m1, 2)>>, <<Given(m1, 2), Absolute(m1, 1)>>,
   <<Absolute(m2, 1), Absolute(m1, 2)>>}
================================================================================
