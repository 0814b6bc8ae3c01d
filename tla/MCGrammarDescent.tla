--------------------------- MODULE MCGrammarDescent ---------------------------
(* Every grammar of the rules in which no call is made both ways, and in     *)
(* which what lies outside of a descent closes no cycle of its own.          *)
EXTENDS GrammarDescent, TLC

MCGrammars ==
  { g \in [plain : [Rules -> SUBSET Rules], covered : [Rules -> SUBSET Rules],
           guarded : SUBSET Rules] :
      /\ \A r \in Rules : g.plain[r] \cap g.covered[r] = {}
      /\ \A r \in Rules \ g.guarded : g.covered[r] = {}
      /\ GuardsCoverRecursion(g) }

RuleSymmetry == Permutations(Rules)
===============================================================================
