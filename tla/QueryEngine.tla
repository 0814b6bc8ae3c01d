----------------------------- MODULE QueryEngine -----------------------------
(***************************************************************************)
(* The incremental engine of pony_query/engine.pony: revisions,            *)
(* dependencies and backdating for one set of queries, together with the   *)
(* table of results its QueryRunner keeps.                                 *)
(*                                                                         *)
(* `demand`, `_bring_current` and `_run` call one another through the      *)
(* runner, so their activations are explicit here: `stack` holds the calls *)
(* in progress, the innermost last, and one step of the model is one       *)
(* decision of the innermost call.  An activation of phase "run" is also   *)
(* the `_Frame` of that run: its `reads` is what the frame has recorded.   *)
(***************************************************************************)
EXTENDS QueryBodies

CONSTANTS
  Idle,            \* no answer yet, nobody asking
  MaxRevision      \* bound: no more than MaxRevision - 1 edits

ASSUME EngineAssumption ==
  /\ Idle \notin Queries
  /\ MaxRevision \in Nat \ {0}

VARIABLES
  revision,        \* _revision
  entries,         \* _entries: changed_at, verified_at and deps per query
  value,           \* the runner's tables of inputs and results
  stack,           \* the calls in progress, _frames among them
  answer           \* what the caller has just read out of the table, or Idle

vars == <<revision, entries, value, stack, answer>>

Entry == [changed : Nat, verified : Nat, deps : Seq(Queries)]

Activation ==
  [query : Queries,
   since : Nat,                                \* the `since` of _bring_current
   phase : {"enter", "walk", "run", "done"},
   at : Nat,                                   \* deps walked and found unmoved
   reads : Seq(Queries),                       \* _Frame.reads
   seen : Readings]                            \* what the body read, in order

Call(q, since) ==
  [query |-> q, since |-> since, phase |-> "enter",
   at |-> 0, reads |-> <<>>, seen |-> <<>>]

Depth == Len(stack)
Top == stack[Depth]
Caller == stack[Depth - 1]

\* What the runner reads next, if it is the runner's turn.
Wanted == IF Top.query \in Inputs THEN Done ELSE NextRead(Top.query, Top.seen)

\* Only `add` makes an id, so every id in circulation names an entry; the one
\* `add` pushes is never changed before the query is first set or demanded, so
\* each query has it from the start.
Init ==
  /\ revision = 1
  /\ entries = [q \in Queries |-> [changed |-> 0, verified |-> 0, deps |-> <<>>]]
  /\ value = [q \in Queries |-> IF q \in Inputs THEN Unset ELSE NoValue]
  /\ stack = <<>>
  /\ answer = Idle

------------------------------------------------------------------------------
(* What the caller does.  Where a definition is preceded by others of the  *)
(* same form, these are plausible bugs in the code it models: they are     *)
(* used nowhere, and show which property would notice each.                *)

\* What `set_input` writes: changed and verified now.
InputEntryUnmoved(i) == [changed |-> entries[i].changed, verified |-> revision + 1,
                         deps |-> entries[i].deps]
InputEntry(i) == [changed |-> revision + 1, verified |-> revision + 1, deps |-> entries[i].deps]

\* `set_input`, after the caller has stored the value in its own table.
SetInput(i, v) ==
  /\ stack = <<>>
  /\ revision < MaxRevision
  /\ revision' = revision + 1
  /\ value' = [value EXCEPT ![i] = v]
  /\ entries' = [entries EXCEPT ![i] = InputEntry(i)]
  /\ answer' = Idle
  /\ UNCHANGED stack

\* `demand` from outside any computation: there is no frame to record it in.
Demand(q) ==
  /\ stack = <<>>
  /\ stack' = <<Call(q, 0)>>
  /\ answer' = Idle
  /\ UNCHANGED <<revision, entries, value>>

------------------------------------------------------------------------------
(* _bring_current.                                                         *)

Become(a) == stack' = [stack EXCEPT ![Depth] = a]

Verified == entries[Top.query].verified
Deps == entries[Top.query].deps

IsCurrentNever == FALSE
IsCurrent == Verified = revision

\* The dependency the walk has come to.
NextDependencyLast == Deps[Len(Deps) - Top.at]
NextDependency == Deps[Top.at + 1]

\* The entry of a query whose dependencies have all been walked.
Checked(q) == [entries[q] EXCEPT !.verified = revision]

\* Never computed: run it.  `_run` pushes an empty frame.
EnterFirst ==
  /\ stack # <<>>
  /\ Top.phase = "enter"
  /\ Verified = 0
  /\ Become([Top EXCEPT !.phase = "run"])
  /\ UNCHANGED <<revision, entries, value, answer>>

\* Already verified at this revision: nothing to do.
EnterCurrent ==
  /\ stack # <<>>
  /\ Top.phase = "enter"
  /\ Verified # 0
  /\ IsCurrent
  /\ Become([Top EXCEPT !.phase = "done"])
  /\ UNCHANGED <<revision, entries, value, answer>>

\* Verified at an older revision: walk what it read, in the order it read it.
EnterWalk ==
  /\ stack # <<>>
  /\ Top.phase = "enter"
  /\ Verified # 0
  /\ ~IsCurrent
  /\ Become([Top EXCEPT !.phase = "walk"])
  /\ UNCHANGED <<revision, entries, value, answer>>

\* The walk descends into the next dependency.  Nothing is recorded.
WalkDependency ==
  /\ stack # <<>>
  /\ Top.phase = "walk"
  /\ Top.at < Len(Deps)
  /\ stack' = Append(stack, Call(NextDependency, Verified))
  /\ UNCHANGED <<revision, entries, value, answer>>

\* Nothing it read has moved: the memo stands, and is marked as checked.
WalkClean ==
  /\ stack # <<>>
  /\ Top.phase = "walk"
  /\ Top.at = Len(Deps)
  /\ entries' = [entries EXCEPT ![Top.query] = Checked(Top.query)]
  /\ Become([Top EXCEPT !.phase = "done"])
  /\ UNCHANGED <<revision, value, answer>>

------------------------------------------------------------------------------
(* _run, and the runner it calls back.                                     *)

\* What the frame of the body holds once it has read r.
Reads(r) == Append(Top.reads, r)

\* The body asks for another result: `demand` records the read, then brings
\* the query current.
Read ==
  /\ stack # <<>>
  /\ Top.phase = "run"
  /\ Wanted # Done
  /\ stack' = Append([stack EXCEPT ![Depth] = [Top EXCEPT !.reads = Reads(Wanted)]],
                     Call(Wanted, 0))
  /\ UNCHANGED <<revision, entries, value, answer>>

\* When the result of q last changed, now that the body has computed it: the
\* old date if it computed what it computed before.
ChangedAtNever(q, computed) == entries[q].changed
ChangedAt(q, computed) == IF value[q] # computed THEN revision ELSE entries[q].changed

\* The body ends.  The runner stores the result and says whether it differs
\* from the one it replaced; an input asked about before it was ever set has
\* no value and nothing changed.
Finish ==
  LET q == Top.query
      computed == IF q \in Inputs THEN value[q] ELSE Result(q, Top.seen)
  IN
  /\ stack # <<>>
  /\ Top.phase = "run"
  /\ Wanted = Done
  /\ value' = [value EXCEPT ![q] = computed]
  /\ entries' = [entries EXCEPT ![q] =
       [changed |-> ChangedAt(q, computed), verified |-> revision, deps |-> Top.reads]]
  /\ Become([Top EXCEPT !.phase = "done"])
  /\ UNCHANGED <<revision, answer>>

------------------------------------------------------------------------------
(* The return of _bring_current.                                           *)

\* Did the result of the query that returns change after `since`?
Moved == entries[Top.query].changed > Top.since

\* The innermost call ends, and the one that made it goes on as a.
Resume(a) == stack' = [SubSeq(stack, 1, Depth - 1) EXCEPT ![Depth - 1] = a]

\* How far the walk has come.
PassedNot == Caller.at
Passed == Caller.at + 1

\* To a walk: the first dependency that changed ends it and the query runs.
ReturnToWalk ==
  /\ Depth > 1
  /\ Top.phase = "done"
  /\ Caller.phase = "walk"
  /\ Resume(IF Moved THEN [Caller EXCEPT !.phase = "run"] ELSE [Caller EXCEPT !.at = Passed])
  /\ UNCHANGED <<revision, entries, value, answer>>

\* To a body: it reads the result out of the table and goes on.
ReturnToBody ==
  /\ Depth > 1
  /\ Top.phase = "done"
  /\ Caller.phase = "run"
  /\ Resume([Caller EXCEPT !.seen = Append(@, value[Top.query])])
  /\ UNCHANGED <<revision, entries, value, answer>>

\* To whoever asked from outside: it reads the answer out of the table.
ReturnToCaller ==
  /\ Depth = 1
  /\ Top.phase = "done"
  /\ stack' = <<>>
  /\ answer' = [query |-> Top.query, value |-> value[Top.query]]
  /\ UNCHANGED <<revision, entries, value>>

------------------------------------------------------------------------------
Step ==
  \/ EnterFirst \/ EnterCurrent \/ EnterWalk
  \/ WalkDependency \/ WalkClean
  \/ Read \/ Finish
  \/ ReturnToWalk \/ ReturnToBody \/ ReturnToCaller

Next ==
  \/ \E i \in Inputs, v \in Values : SetInput(i, v)
  \/ \E q \in Queries : Demand(q)
  \/ EnterFirst \/ EnterCurrent \/ EnterWalk
  \/ WalkDependency \/ WalkClean
  \/ Read \/ Finish
  \/ ReturnToWalk \/ ReturnToBody \/ ReturnToCaller

\* One demand is one synchronous call: once made, it keeps being executed.
Fairness == WF_vars(Step)

Spec == Init /\ [][Next]_vars
FairSpec == Spec /\ Fairness
------------------------------------------------------------------------------
(* Properties.                                                             *)

InputValues == [i \in Inputs |-> value[i]]

\* The values in the table of the first k - 1 of the queries ds.
SeenBefore(ds, k) == [i \in 1..(k - 1) |-> value[ds[i]]]

\* Every part of the engine's state is what its declarations say it is, and a
\* result changed no later than it was verified, which was no later than now.
TypeOK ==
  /\ revision \in 1..MaxRevision
  /\ entries \in [Queries -> Entry]
  /\ \A q \in Queries : entries[q].changed <= entries[q].verified
                     /\ entries[q].verified <= revision
  /\ value \in [Queries -> Values \cup {NoValue}]
  /\ \A i \in Inputs : value[i] \in Values
  /\ stack \in Seq(Activation)
  /\ answer \in {Idle} \cup [query : Queries, value : Values]

\* Running the body of q on the table as it is now would read exactly what the
\* engine has recorded as its dependencies, and produce the memoized result.
Memoized(q) ==
  LET ds == entries[q].deps
      all == SeenBefore(ds, Len(ds) + 1)
  IN  /\ \A k \in 1..Len(ds) : ds[k] = NextRead(q, SeenBefore(ds, k))
      /\ NextRead(q, all) = Done
      /\ value[q] = Result(q, all)

\* A result verified at the current revision is the one its body would produce
\* now, and everything it read is itself verified at the current revision.
VerifiedIsRight ==
  \A q \in Queries \ Inputs : entries[q].verified = revision =>
    /\ Memoized(q)
    /\ \A k \in 1..Len(entries[q].deps) : entries[entries[q].deps[k]].verified = revision

\* Whatever the engine looks into while it answers, walks included, is a query
\* that answering from nothing would compute too.  This is what walking the
\* dependencies in the order they were read, and stopping at the first that
\* changed, buys: a branch no longer taken is not brought up to date.
OnlyWhatIsNeeded ==
  \A i \in 1..Depth : <<InputValues, stack[1].query, stack[i].query>> \in Needed

\* No query is run while it is already in progress, nor a second time in a
\* revision that has already verified it.
RunsOncePerRevision ==
  /\ \A i, j \in 1..Depth : i # j => stack[i].query # stack[j].query
  /\ \A i \in 1..Depth : stack[i].phase \in {"walk", "run"} =>
       entries[stack[i].query].verified < revision

\* Backdating, both ways: changed_at moves exactly when the stored result does.
ChangedMeansDifferent ==
  [][\A q \in Queries \ Inputs :
       entries'[q].changed # entries[q].changed <=> value'[q] # value[q]]_vars

\* Every demand returns.
DemandReturns == stack # <<>> ~> stack = <<>>

------------------------------------------------------------------------------
(* Why it holds: the inductive invariant.                                  *)

\* What a query read is of lower rank and was verified no earlier than it was;
\* and as long as what it read first has not changed since, running its body
\* now would go the way the recorded run went.  The memo is what that run
\* produced, if nothing it read has changed.
MemoOf(q) ==
  LET e == entries[q]
      ds == e.deps
  IN
  /\ q \in Inputs => ds = <<>>
  /\ \A k \in 1..Len(ds) : /\ Rank(ds[k]) < Rank(q)
                          /\ entries[ds[k]].verified >= e.verified
  /\ q \notin Inputs /\ e.verified > 0 =>
       /\ value[q] \in Values
       /\ Len(ds) <= MaxReads
       /\ \A k \in 1..(Len(ds) + 1) :
            (\A j \in 1..(k - 1) : entries[ds[j]].changed <= e.verified) =>
              IF k <= Len(ds)
                THEN ds[k] = NextRead(q, SeenBefore(ds, k))
                ELSE /\ NextRead(q, SeenBefore(ds, k)) = Done
                     /\ value[q] = Result(q, SeenBefore(ds, k))

\* A call in progress: what a walk has passed is verified and unmoved; what a
\* body has read is verified, is what it would read again, and was read right.
ActivationOK(a) ==
  LET q == a.query
      e == entries[q]
  IN
  /\ a.phase \in {"enter", "walk"} => a.reads = <<>> /\ a.seen = <<>>
  /\ a.phase = "enter" => a.at = 0
  /\ a.phase = "walk" =>
       /\ 0 < e.verified /\ e.verified < revision
       /\ a.at <= Len(e.deps)
       /\ \A k \in 1..a.at : /\ entries[e.deps[k]].verified = revision
                            /\ entries[e.deps[k]].changed <= e.verified
  /\ a.phase = "run" =>
       /\ e.verified < revision
       /\ q \in Inputs => a.reads = <<>>
       /\ Len(a.reads) \in {Len(a.seen), Len(a.seen) + 1}
       /\ \A k \in 1..Len(a.reads) :
            /\ a.reads[k] = NextRead(q, SeenBefore(a.reads, k))
            /\ Rank(a.reads[k]) < Rank(q)
       /\ \A k \in 1..Len(a.seen) :
            /\ entries[a.reads[k]].verified = revision
            /\ a.seen[k] = value[a.reads[k]]
  /\ a.phase = "done" => e.verified = revision

\* A call and the call it is waiting for.
Waits(a, b) ==
  \/ /\ a.phase = "walk"
     /\ a.at < Len(entries[a.query].deps)
     /\ b.query = entries[a.query].deps[a.at + 1]
     /\ b.since = entries[a.query].verified
  \/ /\ a.phase = "run"
     /\ Len(a.reads) = Len(a.seen) + 1
     /\ b.query = a.reads[Len(a.reads)]

StackOK ==
  /\ \A i \in 1..Depth : ActivationOK(stack[i])
  /\ \A i \in 1..(Depth - 1) : Waits(stack[i], stack[i + 1])
  /\ \A i, j \in 1..Depth : i < j => Rank(stack[j].query) < Rank(stack[i].query)
  /\ stack # <<>> /\ Top.phase = "run" => Len(Top.reads) = Len(Top.seen)

IInv ==
  /\ TypeOK
  /\ \A q \in Queries : MemoOf(q)
  /\ StackOK

\* The engine answers as the oracle does, whatever it remembers.
Oracle == INSTANCE QueryOracle WITH
  input <- InputValues,
  asked <- IF stack = <<>> THEN Idle ELSE stack[1].query

OracleSpec == Oracle!Spec
=============================================================================
