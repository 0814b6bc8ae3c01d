----------------------------- MODULE GrammarGuard -----------------------------
(***************************************************************************)
(* tools/grammar_guard.py: the check `make test` makes of the call graph   *)
(* of the grammar's rules.  What the tool reads off the sources is a       *)
(* grammar: for each rule the calls it makes outside of a descent, the     *)
(* calls it makes after one, and whether it calls `too_deep` or `descend`. *)
(* The names of a source file, and the regular expressions that find them, *)
(* are not modelled; children are taken in any order.                      *)
(***************************************************************************)
EXTENDS Naturals, Sequences, FiniteSets

CONSTANTS
  Rules,      \* the primitives of pony_syntax
  Grammars    \* the grammars the tool is run on

ASSUME RulesAreFinite == IsFiniteSet(Rules)

(***************************************************************************)
(* A rule with no guard makes no guarded call.  A rule that descends as it *)
(* is entered has plain = {}; one that descends in a branch has both.      *)
(***************************************************************************)
ASSUME GrammarsAreWellFormed ==
  \A g \in Grammars :
    /\ g = [plain |-> g.plain, covered |-> g.covered, guarded |-> g.guarded]
    /\ g.plain \in [Rules -> SUBSET Rules]
    /\ g.covered \in [Rules -> SUBSET Rules]
    /\ g.guarded \in SUBSET Rules
    /\ \A r \in Rules \ g.guarded : g.covered[r] = {}

(***************************************************************************)
(* Every rule of a cyclic set has a callee in the set: a set with a cycle  *)
(* in it, and what leads into the cycle.                                   *)
(***************************************************************************)
Cyclic(S, callees) == S # {} /\ \A r \in S : \E c \in callees[r] : c \in S

\* The graph that remains when guarded rules are removed.
Unguarded(g) == Rules \ g.guarded
Remaining(g) ==
  [r \in Rules |-> IF r \in Unguarded(g) THEN g.plain[r] \cap Unguarded(g) ELSE {}]

(***************************************************************************)
(* "every current guard sits at rule entry or covers the only recursive    *)
(* branch" (grammar_guard.py:14-16): the calls a guarded rule makes        *)
(* outside of its descent close no cycle of their own.                     *)
(***************************************************************************)
GuardsCoverRecursion(g) ==
  \A S \in SUBSET Rules :
    Cyclic(S, g.plain) => \E T \in SUBSET S : Cyclic(T, Remaining(g))

VARIABLES
  grammar,   \* what was read from the sources
  colour,    \* colour
  path,      \* stack: the rules being visited, with the children left of each
  verdict,   \* what main returns: walking until it does
  cycle      \* the cycle that is printed

guardVars == <<grammar, colour, path, verdict, cycle>>

Children(r) == Remaining(grammar)[r]

(***************************************************************************)
(* Where a definition is preceded by others of the same form, these are    *)
(* plausible bugs in the code it models: they are used nowhere, and show   *)
(* which property would notice each.                                       *)
(***************************************************************************)
VisitingNotItself(r) == [rule |-> r, todo |-> Children(r) \ {r}]
Visiting(r) == [rule |-> r, todo |-> Children(r)]
OnTop(s) == s[Len(s)]
Popped(s) == SubSeq(s, 1, Len(s) - 1)

GuardInit ==
  /\ grammar \in Grammars
  /\ colour = [r \in Rules |-> "white"]
  /\ path = <<>>
  /\ verdict = "walking"
  /\ cycle = <<>>

\* for root in graph
Root(r) ==
  /\ verdict = "walking"
  /\ path = <<>>
  /\ r \in Unguarded(grammar)
  /\ colour[r] = "white"
  /\ colour' = [colour EXCEPT ![r] = "grey"]
  /\ path' = <<Visiting(r)>>
  /\ UNCHANGED <<grammar, verdict, cycle>>

\* The child that is looked at is not looked at again.
LookedAtAll(c) == [path EXCEPT ![Len(path)].todo = {}]
Looked(c) == [path EXCEPT ![Len(path)].todo = @ \ {c}]

InTurn(c) ==
  /\ verdict = "walking"
  /\ path # <<>>
  /\ c \in OnTop(path).todo

\* path[path.index(child):]
PathFromRoot(i) == [j \in 1..Len(path) |-> path[j].rule]
PathFrom(i) == [j \in 1..(Len(path) - i + 1) |-> path[i + j - 1].rule]

\* A grey child: the path from it to here is printed, and the build fails.
Report(c) ==
  /\ InTurn(c)
  /\ colour[c] = "grey"
  /\ verdict' = "cyclic"
  /\ \E i \in 1..Len(path) :
       /\ path[i].rule = c
       /\ cycle' = PathFrom(i)
  /\ UNCHANGED <<grammar, colour, path>>

Descend(c) ==
  /\ InTurn(c)
  /\ colour[c] = "white"
  /\ colour' = [colour EXCEPT ![c] = "grey"]
  /\ path' = Append(Looked(c), Visiting(c))
  /\ UNCHANGED <<grammar, verdict, cycle>>

PassBy(c) ==
  /\ InTurn(c)
  /\ colour[c] = "black"
  /\ path' = Looked(c)
  /\ UNCHANGED <<grammar, colour, verdict, cycle>>

\* not advanced
Leave ==
  /\ verdict = "walking"
  /\ path # <<>>
  /\ OnTop(path).todo = {}
  /\ colour' = [colour EXCEPT ![OnTop(path).rule] = "black"]
  /\ path' = Popped(path)
  /\ UNCHANGED <<grammar, verdict, cycle>>

AllVisited ==
  /\ verdict = "walking"
  /\ path = <<>>
  /\ \A r \in Unguarded(grammar) : colour[r] # "white"
  /\ verdict' = "clean"
  /\ UNCHANGED <<grammar, colour, path, cycle>>

GuardNext ==
  \/ \E r \in Rules : Root(r) \/ Report(r) \/ Descend(r) \/ PassBy(r)
  \/ Leave
  \/ AllVisited

-------------------------------------------------------------------------------
GuardTypeOK ==
  /\ grammar \in Grammars
  /\ colour \in [Rules -> {"white", "grey", "black"}]
  /\ path \in Seq([rule : Rules, todo : SUBSET Rules])
  /\ verdict \in {"walking", "clean", "cyclic"}
  /\ cycle \in Seq(Rules)

(***************************************************************************)
(* A cycle that fails the build is one: each of its rules calls the next,  *)
(* the last calls the first, and none of them has a guard                  *)
(* (grammar_guard.py:87-95).                                               *)
(***************************************************************************)
ReportedIsCycle ==
  verdict = "cyclic" =>
    /\ cycle # <<>>
    /\ \A i \in DOMAIN cycle :
         cycle[IF i = Len(cycle) THEN 1 ELSE i + 1] \in Remaining(grammar)[cycle[i]]

(***************************************************************************)
(* A grammar that passes has no cycle without a guarded rule               *)
(* (grammar_guard.py:2, "Fail when a grammar recursion cycle contains no   *)
(* depth-guarded rule"): whatever the order the rules were visited in, a   *)
(* rule that was left had all its callees visited.                         *)
(***************************************************************************)
CleanIsAcyclic ==
  verdict = "clean" => \A S \in SUBSET Rules : ~Cyclic(S, Remaining(grammar))
===============================================================================
