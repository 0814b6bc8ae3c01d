------------------------------ MODULE SourceTree ------------------------------
(***************************************************************************)
(* What a parse of pony_syntax builds, with no array and no sizes: a tree  *)
(* whose leaves are the tokens in their order.  A rule that is under way   *)
(* has a frame: a node it has opened, or a place (a mark) it may put nodes *)
(* around what has been read since.                                        *)
(***************************************************************************)
EXTENDS Naturals, Sequences, SequencesExt

CONSTANTS
  Streams,     \* the sources, as sequences of tokens [kind, width]
  Trivia,      \* the kinds of white space and comments
  NodeKinds,
  Root,        \* the kind of the root
  Error        \* the kind of what is left out in recovering

VARIABLES
  unread,      \* the tokens that are not in the tree yet
  frames       \* [kind, trees], innermost last; kind is Mark where it is no node

Mark == "mark"

treeVars == <<unread, frames>>

\* A leaf has no trees; a node covers what its trees cover.
Width(trees) == FoldSeq(LAMBDA t, sum : t.width + sum, 0, trees)
Leaf(token) == [kind |-> token.kind, width |-> token.width, trees |-> <<>>]
Node(kind, trees) == [kind |-> kind, width |-> Width(trees), trees |-> trees]
Leaves(n) == [k \in 1 .. n |-> Leaf(unread[k])]

TreeInit == unread = <<>> /\ frames = <<>>

Unread(n) == SubSeq(unread, n + 1, Len(unread))
Below == SubSeq(frames, 1, Len(frames) - 1)
Top == frames[Len(frames)]
With(inner, trees) ==
  IF inner = <<>> THEN <<[kind |-> Mark, trees |-> trees]>>
  ELSE [inner EXCEPT ![Len(inner)].trees = @ \o trees]

\* What stands between two tokens belongs to the frame that is under way.
Blanks == {n \in 0 .. Len(unread) : \A k \in 1 .. n : unread[k].kind \in Trivia}

Begin ==
  /\ unread' \in Streams
  /\ frames = <<>>
  /\ frames' = <<[kind |-> Root, trees |-> <<>>]>>

Read(n) ==
  /\ n \in 1 .. Len(unread) /\ unread' = Unread(n)
  /\ frames # <<>>
  /\ frames' = With(frames, Leaves(n))

Open(kind, n) ==
  /\ n \in Blanks /\ unread' = Unread(n)
  /\ frames # <<>>
  /\ frames' = Append(With(frames, Leaves(n)), [kind |-> kind, trees |-> <<>>])

Close ==
  /\ UNCHANGED unread
  /\ Len(frames) > 1 /\ Top.kind # Mark
  /\ frames' = With(Below, <<Node(Top.kind, Top.trees)>>)

Wrap(kind) ==
  /\ UNCHANGED unread
  /\ frames # <<>> /\ Top.kind = Mark
  /\ frames' = [frames EXCEPT ![Len(frames)].trees = <<Node(kind, @)>>]

Forget ==
  /\ UNCHANGED unread
  /\ Len(frames) > 1 /\ Top.kind = Mark
  /\ frames' = With(Below, Top.trees)

\* A stretch that is not understood becomes a node of its own.
Recover(n, m) ==
  /\ n \in Blanks /\ m \in n + 1 .. Len(unread) /\ unread' = Unread(m)
  /\ frames # <<>>
  /\ frames' = With(frames, Leaves(n) \o <<Node(Error, SubSeq(Leaves(m), n + 1, m))>>)

\* The root ends with the last token, and is all that is left.
Finish ==
  /\ unread # <<>> /\ unread' = <<>>
  /\ Len(frames) = 1 /\ Top.kind = Root
  /\ frames' = With(<<>>, <<Node(Root, Top.trees \o Leaves(Len(unread)))>>)

TreeNext ==
  \/ Begin \/ Close \/ Forget \/ Finish
  \/ \E n \in 1 .. Len(unread) : Read(n)
  \/ \E kind \in NodeKinds \cup {Mark}, n \in 0 .. Len(unread) : Open(kind, n)
  \/ \E kind \in NodeKinds : Wrap(kind)
  \/ \E n, m \in 0 .. Len(unread) : Recover(n, m)

TreeSpec == TreeInit /\ [][TreeNext]_treeVars
===============================================================================
