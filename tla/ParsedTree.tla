------------------------------ MODULE ParsedTree ------------------------------
(***************************************************************************)
(* The tree that the array of pony_syntax's parser stands for, at each     *)
(* step of a parse: what a reader of the array makes of its sizes.         *)
(***************************************************************************)
EXTENDS Syntax

\* The trees a stretch of elements stands for, by their sizes.
RECURSIVE Forest(_)
Forest(es) ==
  IF es = <<>> THEN <<>>
  ELSE LET e == Head(es)
           size == IF e.size \in 1 .. Len(es) THEN e.size ELSE 1
       IN <<[kind |-> e.kind, width |-> e.width, trees |-> Forest(SubSeq(es, 2, size))]>>
            \o Forest(SubSeq(es, size + 1, Len(es)))

\* What a rule that is under way has so far, its wrappers where they will be.
Begin(k) == IF rules[k].what = "node" THEN rules[k].index + 1 ELSE rules[k].index
Stop(k) == IF k = Len(rules) THEN Len(elems) ELSE rules[k + 1].index
FrameOf(k) ==
  [kind |-> IF rules[k].what = "node" THEN elems[rules[k].index + 1].kind ELSE "mark",
   trees |-> Forest(Reverse(rules[k].wraps) \o SubSeq(elems, Begin(k) + 1, Stop(k)))]

Tree == INSTANCE SourceTree WITH
  Root <- Parser!NdModule, Error <- Parser!NdError,
  Streams <- Seq([kind : STRING, width : Nat]),
  unread <- SubSeq(stream, index + 1, Len(stream)),
  frames <- IF Parser!Built THEN <<[kind |-> "mark", trees |-> Forest(elems)]>>
            ELSE [k \in DOMAIN rules |-> FrameOf(k)]

(***************************************************************************)
(* The array is the tree its rules built, at each step: sizes and widths   *)
(* are right, and a chain's wrappers are where "the same sequence of       *)
(* wrap_from calls would have" put them (parser.pony:302-304).             *)
(***************************************************************************)
ArrayIsTree == Tree!TreeSpec
================================================================================
