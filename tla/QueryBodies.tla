----------------------------- MODULE QueryBodies -----------------------------
(***************************************************************************)
(* The queries a QueryRunner can be asked to compute (query_runner.pony),  *)
(* as the engine sees them: it knows a query only by its id, and learns    *)
(* what the query reads by being asked for it.  A body is deterministic,   *)
(* as `run` has to be: the next query it reads depends only on the values  *)
(* it has read so far, and so does the result it ends with.  `_Sheet` in   *)
(* tests/_query_tests.pony and `Binder` in pony_bind/binder.pony are the   *)
(* two runners the repository has; MCQueryEngine instantiates the first.   *)
(***************************************************************************)
EXTENDS Naturals, Sequences

CONSTANTS
  Queries,         \* every query a caller may register
  Inputs,          \* the queries whose value is given, never computed
  Values,          \* the results the caller's tables hold
  Unset,           \* what reading an input that was never set yields
  NoValue,         \* the table has no entry for the query
  Done,            \* a body that reads no more
  MaxReads,        \* bound: no body reads more than this many results
  NextRead(_, _),  \* NextRead(q, seen): what the body of q reads next, or Done
  Result(_, _),    \* Result(q, seen): what the body of q produces at the end
  Rank(_)          \* queries read only queries of lower rank: no cycles

\* The values a body may have read so far, in the order it read them.
Readings == UNION {[1..n -> Values] : n \in 0..MaxReads}

ASSUME BodiesAssumption ==
  /\ Inputs \subseteq Queries
  /\ Unset \in Values
  /\ NoValue \notin Values
  /\ Done \notin Queries
  /\ MaxReads \in Nat
  /\ \A q \in Queries : Rank(q) \in Nat

ASSUME AcyclicBodies ==
  \A q \in Queries \ Inputs : \A seen \in Readings :
    /\ NextRead(q, seen) \in Queries \cup {Done}
    /\ NextRead(q, seen) # Done =>
         /\ Rank(NextRead(q, seen)) < Rank(q)
         /\ Len(seen) < MaxReads
    /\ Result(q, seen) \in Values

\* The body of q, run when every query r has the value truth[r], begins by
\* reading these values, or reads these and ends.
Sees(q, truth, seen) ==
  \A i \in 1..Len(seen) :
    LET r == NextRead(q, SubSeq(seen, 1, i - 1))
    IN  r \in DOMAIN truth /\ seen[i] = truth[r]

RunsTo(q, truth, seen) == NextRead(q, seen) = Done /\ Sees(q, truth, seen)

\* truth gives a set of queries, closed under what their bodies read, the
\* values their bodies produce from these inputs.  Bodies are acyclic, so two
\* assignments that explain the same query agree on it.
Explains(truth, input) ==
  \A q \in DOMAIN truth :
    IF q \in Inputs
      THEN truth[q] = input[q]
      ELSE \E seen \in Readings : RunsTo(q, truth, seen) /\ truth[q] = Result(q, seen)

------------------------------------------------------------------------------
(* The reference evaluator: no memo, every body run every time.            *)

Inquiries == {<<input, q, r>> : input \in [Inputs -> Values], q \in Queries, r \in Queries}

\* Over these inputs the body of q reads r, when what it reads before has the
\* values that the bodies of that give.
FreshReads ==
  {c \in Inquiries : c[2] \notin Inputs /\
     \E S \in SUBSET Queries : \E truth \in [S -> Values] :
       /\ Explains(truth, c[1])
       /\ \E seen \in Readings : Sees(c[2], truth, seen) /\ NextRead(c[2], seen) = c[3]}

\* Computing q from nothing computes r, which may be q itself: r is in every set
\* that has q and all that its members read.
Needed ==
  {c \in Inquiries :
     \A S \in SUBSET Queries :
       /\ c[2] \in S
       /\ \A p \in S, r \in Queries : <<c[1], p, r>> \in FreshReads => r \in S
       => c[3] \in S}
=============================================================================
