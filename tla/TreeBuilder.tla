------------------------------ MODULE TreeBuilder -----------------------------
(***************************************************************************)
(* pony_syntax/parser.pony: Parser as a builder of one flat array, element *)
(* by element, with the wrappers of chains laid down when a chain closes.  *)
(* The rules of the grammar are any that keep to what its rules keep to:   *)
(* what a rule has opened, marked or chained it is done with before it     *)
(* returns, innermost first.  Indices and offsets count from 0.  Syntax    *)
(* gives it the tokens of a source, as sequences of [kind, width].         *)
(***************************************************************************)
EXTENDS Naturals, Sequences, SequencesExt

CONSTANTS
  Trivia,      \* _is_trivia
  NodeKinds,
  MaxNodes,    \* bound: of nodes in a tree
  MaxRules     \* bound: of nodes, marks and chains that are under way

NdModule == "NdModule"
NdError == "NdError"

VARIABLES
  stream,      \* _stream
  index,       \* _index: the tokens that have been taken
  offset,      \* _offset
  elems,       \* _elems: [kind, width, size]
  rules        \* what the running rules hold: an entry of _open, a mark or a chain

\* A rule's [what, index, from, wraps]; only a chain has wraps.
Held(what, at, from) == [what |-> what, index |-> at, from |-> from, wraps |-> <<>>]
Top == rules[Len(rules)]
Below == SubSeq(rules, 1, Len(rules) - 1)

Init ==
  /\ stream = <<>>
  /\ index = 0 /\ offset = 0
  /\ elems = <<>> /\ rules = <<>>

\* _peek: the index of the next token at or after i that is not trivia.
Peek(i) ==
  CHOOSE k \in i .. Len(stream) :
    /\ k = Len(stream) \/ stream[k + 1].kind \notin Trivia
    /\ \A l \in i .. k - 1 : stream[l + 1].kind \in Trivia
At(i) == IF Peek(i) = Len(stream) THEN "TkEof" ELSE stream[Peek(i) + 1].kind
Eof == At(index) = "TkEof"

\* The tokens before `to` are emitted, one after another.
WidthTo(to) ==
  LET sum[k \in index .. to] == IF k = index THEN 0 ELSE sum[k - 1] + stream[k].width
  IN sum[to]
Leaf(token) == [kind |-> token.kind, width |-> token.width, size |-> 1]
Emitted(to) == elems \o [k \in 1 .. to - index |-> Leaf(stream[index + k])]
Emit(to) == index' = to /\ offset' = offset + WidthTo(to)

Flushed == Peek(index)
Bumped == IF Flushed < Len(stream) THEN Flushed + 1 ELSE Flushed

Wrapper(kind, width, size) == [kind |-> kind, width |-> width, size |-> size]
InsertedAt(at, more) == SubSeq(elems, 1, at) \o more \o SubSeq(elems, at + 1, Len(elems))

Nodes == Len(SelectSeq(elems, LAMBDA e : e.kind \in NodeKinds \cup {NdModule, NdError}))
Pending == FoldSeq(LAMBDA r, sum : Len(r.wraps) + sum, 0, rules)
Room == Nodes + Pending < MaxNodes

-------------------------------------------------------------------------------
\* Before the root is open there is nothing trivia could go to.
StartModule(tokens) ==
  /\ elems = <<>>
  /\ stream' = tokens
  /\ elems' = <<Wrapper(NdModule, 0, 0)>>
  /\ rules' = <<Held("node", 0, 0)>>
  /\ UNCHANGED <<index, offset>>

Running == rules # <<>>

Start(kind) ==
  /\ Running /\ Room /\ Len(rules) < MaxRules
  /\ Emit(Flushed)
  /\ elems' = Append(Emitted(Flushed), Wrapper(kind, 0, 0))
  /\ rules' = Append(rules, Held("node", Len(Emitted(Flushed)), offset'))
  /\ UNCHANGED stream

\* finish(): the element a node was opened with is filled in.
ClosedIn(es, node, to) ==
  [es EXCEPT ![node.index + 1].width = to - node.from, ![node.index + 1].size = Len(es) - node.index]

Finish ==
  /\ Len(rules) > 1 /\ Top.what = "node"
  /\ elems' = ClosedIn(elems, Top, offset)
  /\ rules' = Below
  /\ UNCHANGED <<stream, index, offset>>

\* Where a definition is preceded by others of the same form, these are
\* plausible bugs in the code it models, and used nowhere.
CheckpointUnflushed(what) ==
  /\ Running /\ Len(rules) < MaxRules
  /\ Emit(index)
  /\ elems' = Emitted(index)
  /\ rules' = Append(rules, Held(what, Len(elems'), offset'))
  /\ UNCHANGED stream
Checkpoint(what) ==
  /\ Running /\ Len(rules) < MaxRules
  /\ Emit(Flushed)
  /\ elems' = Emitted(Flushed)
  /\ rules' = Append(rules, Held(what, Len(elems'), offset'))
  /\ UNCHANGED stream

WrapFrom(kind) ==
  /\ Running /\ Top.what = "mark" /\ Room
  /\ elems' = InsertedAt(Top.index, <<Wrapper(kind, offset - Top.from, Len(elems) - Top.index + 1)>>)
  /\ UNCHANGED <<stream, index, offset, rules>>

\* A rule that returns forgets its mark.
Return ==
  /\ Running /\ Top.what = "mark"
  /\ rules' = Below
  /\ UNCHANGED <<stream, index, offset, elems>>

\* record(): the wrappers before this one are yet to come.
RecordedBare(chain, kind) ==
  Append(chain.wraps, Wrapper(kind, offset - chain.from, Len(elems) - chain.index + 1))
Recorded(chain, kind) ==
  Append(chain.wraps, Wrapper(kind, offset - chain.from, Len(elems) - chain.index + Len(chain.wraps) + 1))

ChainWrap(kind) ==
  /\ Running /\ Top.what = "chain" /\ Room
  /\ rules' = [rules EXCEPT ![Len(rules)].wraps = Recorded(Top, kind)]
  /\ UNCHANGED <<stream, index, offset, elems>>

\* The last that was recorded covers the whole chain, and comes first.
CloseChainForward ==
  /\ Running /\ Top.what = "chain"
  /\ LET k == Len(Top.wraps)
         tail == [l \in 1 .. Len(elems) - Top.index |->
                    elems[Top.index + (IF k = 0 THEN l ELSE ((l - 1) % k) + 1)]]
     IN elems' = SubSeq(elems, 1, Top.index) \o Reverse(Top.wraps) \o tail
  /\ rules' = Below
  /\ UNCHANGED <<stream, index, offset>>
CloseChain ==
  /\ Running /\ Top.what = "chain"
  /\ elems' = InsertedAt(Top.index, Reverse(Top.wraps))
  /\ rules' = Below
  /\ UNCHANGED <<stream, index, offset>>

\* bump(), or expect() where its token is there; a rule never takes the end.
Bump ==
  /\ Running /\ ~Eof
  /\ Emit(Bumped)
  /\ elems' = Emitted(Bumped)
  /\ UNCHANGED <<stream, rules>>

\* Where recovery ends: at the end, or at the first token of resync but one.
RecoveredTo(resync) ==
  CHOOSE k \in Bumped .. Len(stream) :
    /\ At(k) \in resync \cup {"TkEof"}
    /\ k = Bumped \/ stream[k].kind \notin Trivia
    /\ \A l \in Bumped .. k - 1 : At(l) \notin resync \cup {"TkEof"}

ErrorAndRecover(resync) ==
  /\ Running /\ ~Eof /\ Room
  /\ Emit(RecoveredTo(resync))
  /\ LET error == Held("node", Len(Emitted(Flushed)), offset + WidthTo(Flushed))
         opened == Append(Emitted(Flushed), Wrapper(NdError, 0, 0))
         rest == SubSeq(Emitted(RecoveredTo(resync)), error.index + 1, Len(Emitted(RecoveredTo(resync))))
     IN elems' = ClosedIn(opened \o rest, error, offset')
  /\ UNCHANGED <<stream, rules>>

\* The end of _Module: what is left, the end itself among it, is the root's.
End ==
  /\ Len(rules) = 1 /\ Eof
  /\ Emit(Bumped)
  /\ elems' = ClosedIn(Emitted(Bumped), Top, offset')
  /\ rules' = <<>>
  /\ UNCHANGED stream

Kinds == {stream[k].kind : k \in DOMAIN stream}

Step ==
  \/ Finish \/ Return \/ CloseChain \/ Bump \/ End
  \/ \E kind \in NodeKinds : Start(kind) \/ WrapFrom(kind) \/ ChainWrap(kind)
  \/ \E what \in {"mark", "chain"} : Checkpoint(what)
  \/ \E resync \in SUBSET Kinds : ErrorAndRecover(resync)

-------------------------------------------------------------------------------
IsNode(e) == e.kind \in NodeKinds \cup {NdModule, NdError}
Built == rules = <<>> /\ elems # <<>>

(***************************************************************************)
(* "A node begins at its first real token: `is Bar` and not ` is Bar`"     *)
(* (parser.pony:205-206), however it came to be: only the root begins with *)
(* white space or a comment.                                               *)
(***************************************************************************)
NodesBeginAtTokens ==
  \A k \in 2 .. Len(elems) :
    IsNode(elems[k]) /\ elems[k].size > 1 =>
      LET leaves == {l \in k .. k + elems[k].size - 1 : ~IsNode(elems[l])}
      IN \A l \in leaves : elems[l].kind \in Trivia => \E m \in leaves : m < l
===============================================================================
