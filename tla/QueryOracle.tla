----------------------------- MODULE QueryOracle -----------------------------
(***************************************************************************)
(* What an incremental engine promises whoever asks it: the answer to a    *)
(* query is the value its body has over the inputs as they are now, as if  *)
(* nothing had ever been remembered.  No revisions, no memo, no            *)
(* dependencies: QueryEngine implements this.                              *)
(***************************************************************************)
EXTENDS QueryBodies

CONSTANT Idle        \* nobody is asking

VARIABLES
  input,             \* the value of every input
  asked,             \* the query being answered, or Idle
  answer             \* the answer just given, a query and its value, or Idle

vars == <<input, asked, answer>>

Init ==
  /\ input = [i \in Inputs |-> Unset]
  /\ asked = Idle
  /\ answer = Idle

SetInput(i, v) ==
  /\ asked = Idle
  /\ input' = [input EXCEPT ![i] = v]
  /\ answer' = Idle
  /\ UNCHANGED asked

Ask(q) ==
  /\ asked = Idle
  /\ asked' = q
  /\ answer' = Idle
  /\ UNCHANGED input

Answer ==
  /\ asked # Idle
  /\ asked' = Idle
  /\ \E S \in SUBSET Queries : \E truth \in [S -> Values] :
       /\ Explains(truth, input)
       /\ asked \in S
       /\ answer' = [query |-> asked, value |-> truth[asked]]
  /\ UNCHANGED input

Next ==
  \/ \E i \in Inputs, v \in Values : SetInput(i, v)
  \/ \E q \in Queries : Ask(q)
  \/ Answer

Spec == Init /\ [][Next]_vars
=============================================================================
