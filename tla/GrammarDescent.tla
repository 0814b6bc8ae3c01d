---------------------------- MODULE GrammarDescent ----------------------------
(***************************************************************************)
(* The recursion of the parser (pony_syntax/parser.pony) over a grammar    *)
(* that `make test` let pass.  `stack` is the machine stack, a frame for   *)
(* each rule that has been called, with the value `_depth` had then.       *)
(* Tokens are not modelled: a rule calls any of its callees, as often as   *)
(* the source it is given makes it.                                        *)
(***************************************************************************)
EXTENDS GrammarGuard

CONSTANT MaxNesting   \* _MaxNesting()

ASSUME MaxNestingIsNat == MaxNesting \in Nat
ASSUME GuardsCover == \A g \in Grammars : GuardsCoverRecursion(g)

VARIABLES
  stack,    \* the rules that have been called
  nesting   \* _depth

descentVars == <<stack, nesting>>
parserVars == <<guardVars, descentVars>>

DescentInit == GuardInit /\ stack = <<>> /\ nesting = 0

Frame(r) == [rule |-> r, depth |-> nesting]

\* The rule on top has called `descend`, and not yet `ascend`.
Descended == nesting = OnTop(stack).depth + 1

Tool == GuardNext /\ UNCHANGED descentVars

\* Parse: a parse begins with a parser of its own.
BeginParse(r) ==
  /\ verdict = "clean"
  /\ stack = <<>>
  /\ stack' = <<Frame(r)>>
  /\ UNCHANGED <<guardVars, nesting>>

Calling(r) ==
  IF Descended THEN grammar.covered[r] ELSE grammar.plain[r]

Call(c) ==
  /\ stack # <<>>
  /\ c \in Calling(OnTop(stack).rule)
  /\ stack' = Append(stack, Frame(c))
  /\ UNCHANGED <<guardVars, nesting>>

\* descend(): what _depth is, whether the limit is exceeded or not.
DepthBelow(d) == d + 1

\* too_deep(), refusing: the level is left again.
DepthRefusedKept(d) == DepthBelow(d)
DepthRefused(d) == DepthBelow(d) - 1

\* A rule that is refused returns at once, having taken its depth back.
Guard ==
  /\ stack # <<>>
  /\ OnTop(stack).rule \in grammar.guarded
  /\ ~Descended
  /\ IF DepthBelow(nesting) > MaxNesting
       THEN stack' = Popped(stack) /\ nesting' = DepthRefused(nesting)
       ELSE nesting' = DepthBelow(nesting) /\ UNCHANGED stack
  /\ UNCHANGED guardVars

\* A rule returns; one that has descended ascends first.
ReturnFromRule ==
  /\ stack # <<>>
  /\ stack' = Popped(stack)
  /\ nesting' = IF Descended THEN nesting - 1 ELSE nesting
  /\ UNCHANGED guardVars

DescentNext == Tool \/ (\E r \in Rules : BeginParse(r) \/ Call(r)) \/ Guard \/ ReturnFromRule

DescentSpec == DescentInit /\ [][DescentNext]_parserVars

-------------------------------------------------------------------------------
DescentTypeOK ==
  /\ GuardTypeOK
  /\ stack \in Seq([rule : Rules, depth : Nat])
  /\ nesting \in Nat

(***************************************************************************)
(* "Every `descend` is paired with one `ascend`, on the refusal path too"  *)
(* (parser.pony:140-141): the depth is the number of rules on the stack    *)
(* that have descended.  A frame whose successor was called at another     *)
(* depth has descended, once; nothing else moves the counter.              *)
(***************************************************************************)
DepthIsBalanced ==
  /\ nesting =< MaxNesting
  /\ stack = <<>> => nesting = 0
  /\ stack # <<>> => stack[1].depth = 0 /\ nesting \in {OnTop(stack).depth, OnTop(stack).depth + 1}
  /\ \A i \in 1..(Len(stack) - 1) :
       stack[i + 1].depth \in {stack[i].depth, stack[i].depth + 1}

(***************************************************************************)
(* What the guard is for: a grammar the tool lets pass cannot grow the     *)
(* machine stack beyond a bound, whatever the source (grammar_guard.py:2   *)
(* and Makefile, grammar-guard).  Between two descents no rule is called   *)
(* twice.                                                                  *)
(***************************************************************************)
StackIsBounded == Len(stack) =< (MaxNesting + 1) * Cardinality(Rules)
===============================================================================
