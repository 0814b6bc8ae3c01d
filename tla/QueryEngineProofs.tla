--------------------------- MODULE QueryEngineProofs --------------------------
(***************************************************************************)
(* Theorems about QueryEngine, for every set of queries with acyclic       *)
(* bodies.  IInv is the inductive invariant; what it takes to keep it is   *)
(* one lemma about storing a result (StoreKeeps), and one step per action. *)
(***************************************************************************)
EXTENDS QueryEngine, SequenceTheorems, WellFoundedInduction, TLAPS

USE BodiesAssumption, EngineAssumption

\* A reading one longer is still a reading, as long as the body reads more.
LEMMA ReadingsGrow ==
  ASSUME NEW s \in Readings, NEW v \in Values, Len(s) < MaxReads
  PROVE  /\ Append(s, v) \in Readings
         /\ Len(Append(s, v)) = Len(s) + 1
         /\ \A k \in 1..Len(s) : Append(s, v)[k] = s[k]
         /\ Append(s, v)[Len(s) + 1] = v
<1>1. PICK n \in 0..MaxReads : s \in [1..n -> Values]
  BY DEF Readings
<1>2. s \in Seq(Values) /\ Len(s) = n
  BY <1>1
<1>3. /\ Append(s, v) \in Seq(Values) 
      /\ Len(Append(s, v)) = n + 1
      /\ \A k \in 1..n : Append(s, v)[k] = s[k]
      /\ Append(s, v)[n + 1] = v
  BY <1>2, AppendProperties
<1>4. Append(s, v) \in [1..(n + 1) -> Values]
  BY <1>3, LenProperties
<1>5. n + 1 \in 0..MaxReads
  BY <1>2
<1> QED
  BY <1>2, <1>3, <1>4, <1>5 DEF Readings

LEMMA ReadingsAreSeqs ==
  ASSUME NEW s \in Readings
  PROVE  s \in Seq(Values) /\ Len(s) \in 0..MaxReads /\ s \in [1..Len(s) -> Values]
BY DEF Readings

LEMMA EmptyReading == <<>> \in Readings /\ Len(<<>>) = 0
<1>1. <<>> \in [1..0 -> Values] 
  OBVIOUS
<1>2. 0 \in 0..MaxReads 
  OBVIOUS
<1> QED BY <1>1, <1>2 DEF Readings

\* What a memo or a body has seen is a reading.
LEMMA SeenIsReading ==
  ASSUME TypeOK, NEW ds \in Seq(Queries), NEW k \in 1..(Len(ds) + 1), k - 1 <= MaxReads,
         \A j \in 1..(k - 1) : value[ds[j]] \in Values
  PROVE  /\ SeenBefore(ds, k) \in Readings
         /\ Len(SeenBefore(ds, k)) = k - 1
<1>1. SeenBefore(ds, k) \in [1..(k - 1) -> Values]
  BY DEF SeenBefore
<1>2. Len(SeenBefore(ds, k)) = k - 1
  BY DEF SeenBefore
<1>3. k - 1 \in 0..MaxReads
  OBVIOUS
<1> QED
  BY <1>1, <1>2, <1>3 DEF Readings

\* What was seen before an earlier read is the beginning of what was seen.
LEMMA SeenPrefix ==
  ASSUME NEW ds, NEW l \in Nat, \A j \in 1..(l - 1) : value[ds[j]] \in Values
  PROVE  \A k \in 1..l : SubSeq(SeenBefore(ds, l), 1, k - 1) = SeenBefore(ds, k)
<1> TAKE k \in 1..l
<1>1. PICK s : s = SeenBefore(ds, l)
  OBVIOUS
<1>2. \A j \in 1..(k - 1) : s[j] = value[ds[j]] /\ s[j] \in Values
  BY <1>1 DEF SeenBefore
<1>3. k \in Int /\ k - 1 \in Int /\ 1 \in Int
  OBVIOUS
<1>4. /\ SubSeq(s, 1, k - 1) \in Seq(Values)
      /\ Len(SubSeq(s, 1, k - 1)) = IF 1 <= k - 1 THEN k - 1 - 1 + 1 ELSE 0
      /\ \A j \in 1..(k - 1 - 1 + 1) : SubSeq(s, 1, k - 1)[j] = s[1 + j - 1]
  BY <1>2, <1>3, SubSeqProperties
<1>5. /\ SubSeq(s, 1, k - 1) \in Seq(Values)
      /\ Len(SubSeq(s, 1, k - 1)) = k - 1
      /\ \A j \in 1..(k - 1) : SubSeq(s, 1, k - 1)[j] = value[ds[j]]
  BY <1>2, <1>4
<1>6. SubSeq(s, 1, k - 1) \in [1..(k - 1) -> Values]
  BY <1>5, LenProperties
<1>7. SubSeq(s, 1, k - 1) = [j \in 1..(k - 1) |-> value[ds[j]]]
  BY <1>5, <1>6
<1> QED  BY <1>1, <1>7 DEF SeenBefore

\* A result that is verified is a value.
LEMMA VerifiedHasValue ==
  ASSUME IInv, NEW q \in Queries, entries[q].verified > 0
  PROVE  value[q] \in Values
BY DEF IInv, TypeOK, MemoOf

------------------------------------------------------------------------------
(* Storing a result.                                                       *)

\* Marking a query verified now, with a result that is either the one it had or
\* is marked changed now, disturbs neither the memo of another query nor any
\* other call in progress.
LEMMA StoreKeeps ==
  ASSUME TypeOK, \A p \in Queries : MemoOf(p),
         NEW q \in Queries, entries[q].verified < revision,
         revision' = revision,
         NEW e \in Entry, e.verified = revision,
         e.changed \in {entries[q].changed, revision},
         entries' = [entries EXCEPT ![q] = e],
         NEW v \in Values, value' = [value EXCEPT ![q] = v],
         v # value[q] => e.changed = revision
  PROVE  /\ \A p \in Queries \ {q} : MemoOf(p)'
         /\ \A a \in Activation : a.query # q /\ ActivationOK(a) => ActivationOK(a)'
<1> USE DEF Entry
<1>t. /\ entries \in [Queries -> Entry] /\ revision \in Nat
      /\ value \in [Queries -> Values \cup {NoValue}]
      /\ entries' \in [Queries -> Entry]
  BY DEF TypeOK
<1>1. /\ entries'[q] = e
      /\ \A p \in Queries \ {q} : entries'[p] = entries[p] /\ value'[p] = value[p]
      /\ value'[q] = v
  BY <1>t
<1>2. ASSUME NEW p \in Queries \ {q} PROVE MemoOf(p)'
  <2> DEFINE ds == entries[p].deps
  <2>1. ds \in Seq(Queries) /\ \A k \in 1..Len(ds) : ds[k] \in Queries
    BY <1>t, LenProperties
  <2>2. /\ p \in Inputs => ds = <<>>
        /\ \A k \in 1..Len(ds) : /\ Rank(ds[k]) < Rank(p)
                                 /\ entries'[ds[k]].verified >= entries[p].verified
    <3>1. MemoOf(p)
      OBVIOUS
    <3>2. entries[p].verified <= revision
      BY DEF TypeOK
    <3> QED BY <1>1, <1>t, <2>1, <3>1, <3>2 DEF MemoOf
  <2>3. ASSUME p \notin Inputs, entries[p].verified > 0,
               NEW k \in 1..(Len(ds) + 1),
               \A j \in 1..(k - 1) : entries'[ds[j]].changed <= entries[p].verified
        PROVE  IF k <= Len(ds)
                 THEN ds[k] = NextRead(p, SeenBefore(ds, k)')
                 ELSE /\ NextRead(p, SeenBefore(ds, k)') = Done
                      /\ value[p] = Result(p, SeenBefore(ds, k)')
    <3>1. \A j \in 1..(k - 1) : /\ entries'[ds[j]].changed = entries[ds[j]].changed
                                /\ value'[ds[j]] = value[ds[j]]
      <4> TAKE j \in 1..(k - 1)
      <4>1. ds[j] \in Queries /\ entries[ds[j]].verified >= entries[p].verified
        BY <2>1 DEF MemoOf
      <4>2. CASE ds[j] # q
        BY <4>1, <4>2, <1>1
      <4>3. CASE ds[j] = q
        <5>1. entries[p].verified < revision
          BY <4>1, <4>3, <1>t, <2>1
        <5>2. e.changed # revision
          <6>1. entries'[ds[j]].changed <= entries[p].verified
            BY <2>3
          <6>2. e.changed <= entries[p].verified
            BY <6>1, <4>3, <1>1
          <6>3. e.changed \in Nat /\ entries[p].verified \in Nat
            BY <1>t
          <6> QED BY <6>2, <6>3, <5>1, <1>t
        <5> QED BY <5>2, <4>3, <1>1
      <4> QED BY <4>2, <4>3
    <3>2. SeenBefore(ds, k)' = SeenBefore(ds, k)
      BY <3>1 DEF SeenBefore
    <3>3. \A j \in 1..(k - 1) : entries[ds[j]].changed <= entries[p].verified
      BY <3>1, <2>3
    <3> QED BY <3>2, <3>3, <2>3 DEF MemoOf
  <2> QED BY <2>2, <2>3, <1>1 DEF MemoOf
<1>3. ASSUME NEW a \in Activation, a.query # q, ActivationOK(a) PROVE ActivationOK(a)'
  <2> DEFINE ds == entries[a.query].deps
  <2>1. /\ a.query \in Queries
        /\ ds \in Seq(Queries) /\ \A k \in 1..Len(ds) : ds[k] \in Queries
        /\ a.reads \in Seq(Queries) /\ \A k \in 1..Len(a.reads) : a.reads[k] \in Queries
        /\ a.seen \in Readings /\ Len(a.seen) \in Nat /\ Len(a.reads) \in Nat
        /\ a.at \in Nat
    <3>1. /\ a.query \in Queries /\ a.reads \in Seq(Queries) /\ a.seen \in Readings
          /\ a.at \in Nat
      BY DEF Activation
    <3>2. ds \in Seq(Queries)
      BY <3>1, <1>t
    <3>3. Len(a.seen) \in Nat
      BY <3>1, ReadingsAreSeqs
    <3> QED BY <3>1, <3>2, <3>3, LenProperties
  <2>2. entries'[a.query] = entries[a.query]
    BY <1>1, <1>3, <2>1
  <2>3. ASSUME a.phase = "walk"
        PROVE  \A k \in 1..a.at : /\ entries'[ds[k]].verified = revision
                                  /\ entries'[ds[k]].changed <= entries[a.query].verified
    <3> TAKE k \in 1..a.at
    <3>1. /\ ds[k] \in Queries
          /\ entries[ds[k]].verified = revision
          /\ entries[ds[k]].changed <= entries[a.query].verified
      BY <2>1, <2>3, <1>3 DEF ActivationOK
    <3>2. ds[k] # q
      BY <3>1, <1>t
    <3> QED BY <3>1, <3>2, <1>1
  <2>4. ASSUME a.phase = "run"
        PROVE  /\ \A k \in 1..Len(a.reads) : a.reads[k] = NextRead(a.query, SeenBefore(a.reads, k)')
               /\ \A k \in 1..Len(a.seen) : /\ entries'[a.reads[k]].verified = revision
                                             /\ a.seen[k] = value'[a.reads[k]]
    <3>1. /\ Len(a.reads) \in {Len(a.seen), Len(a.seen) + 1}
          /\ \A k \in 1..Len(a.seen) : /\ entries[a.reads[k]].verified = revision
                                        /\ a.seen[k] = value[a.reads[k]]
          /\ \A k \in 1..Len(a.reads) : a.reads[k] = NextRead(a.query, SeenBefore(a.reads, k))
      BY <2>4, <1>3 DEF ActivationOK
    <3>2. \A k \in 1..Len(a.seen) : /\ a.reads[k] # q
                                    /\ entries'[a.reads[k]] = entries[a.reads[k]]
                                    /\ value'[a.reads[k]] = value[a.reads[k]]
      <4> TAKE k \in 1..Len(a.seen)
      <4>1. a.reads[k] \in Queries /\ entries[a.reads[k]].verified = revision
        BY <3>1, <2>1
      <4>2. a.reads[k] # q
        BY <4>1, <1>t
      <4> QED BY <4>1, <4>2, <1>1
    <3>3. \A k \in 1..Len(a.reads) : SeenBefore(a.reads, k)' = SeenBefore(a.reads, k)
      <4> TAKE k \in 1..Len(a.reads)
      <4>1. \A i \in 1..(k - 1) : i \in 1..Len(a.seen)
        <5>1. PICK m \in Nat : m = Len(a.seen) /\ Len(a.reads) \in {m, m + 1}
          BY <3>1, <2>1, ReadingsAreSeqs
        <5> QED
          BY <5>1
      <4>2. \A i \in 1..(k - 1) : value'[a.reads[i]] = value[a.reads[i]]
        BY <4>1, <3>2
      <4> QED
        BY <4>2 DEF SeenBefore
    <3> QED BY <3>1, <3>2, <3>3
  <2> QED BY <2>2, <2>3, <2>4, <1>3 DEF ActivationOK
<1> QED BY <1>2, <1>3
------------------------------------------------------------------------------
(* What the three things an engine step does to the stack leave alone.     *)

LEMMA TopReplaced ==
  ASSUME NEW s \in Seq(Activation), s # <<>>, NEW a \in Activation
  PROVE  LET t == [s EXCEPT ![Len(s)] = a]
         IN  /\ t \in Seq(Activation) /\ Len(t) = Len(s) /\ Len(s) \in Nat \ {0}
             /\ t[Len(s)] = a
             /\ \A i \in 1..(Len(s) - 1) : t[i] = s[i]
<1>1. Len(s) \in Nat \ {0} /\ Len(s) \in 1..Len(s)
  BY EmptySeq
<1> QED BY <1>1, ExceptSeq

LEMMA Pushed ==
  ASSUME NEW s \in Seq(Activation), s # <<>>, NEW a \in Activation, NEW b \in Activation
  PROVE  LET t == Append([s EXCEPT ![Len(s)] = a], b)
         IN  /\ t \in Seq(Activation) /\ Len(t) = Len(s) + 1 /\ Len(s) \in Nat \ {0}
             /\ t[Len(s) + 1] = b
             /\ t[Len(s)] = a
             /\ \A i \in 1..(Len(s) - 1) : t[i] = s[i]
<1> DEFINE r == [s EXCEPT ![Len(s)] = a]
<1>1. /\ r \in Seq(Activation) /\ Len(r) = Len(s) /\ Len(s) \in Nat \ {0}
      /\ r[Len(s)] = a
      /\ \A i \in 1..(Len(s) - 1) : r[i] = s[i]
  BY TopReplaced
<1> HIDE DEF r
<1>2. /\ Append(r, b) \in Seq(Activation)
      /\ Len(Append(r, b)) = Len(r) + 1
      /\ \A i \in 1..Len(r) : Append(r, b)[i] = r[i]
      /\ Append(r, b)[Len(r) + 1] = b
  BY <1>1, AppendProperties
<1>3. /\ Append(r, b) \in Seq(Activation) /\ Len(Append(r, b)) = Len(s) + 1
      /\ Len(s) \in Nat \ {0}
      /\ Append(r, b)[Len(s) + 1] = b
      /\ Append(r, b)[Len(s)] = a
      /\ \A i \in 1..(Len(s) - 1) : Append(r, b)[i] = s[i]
  BY <1>1, <1>2
<1> QED BY <1>3 DEF r

LEMMA Popped ==
  ASSUME NEW s \in Seq(Activation), Len(s) > 1, NEW a \in Activation
  PROVE  LET n == Len(s) - 1
             t == [SubSeq(s, 1, n) EXCEPT ![n] = a]
         IN  /\ t \in Seq(Activation) /\ Len(t) = n /\ n \in Nat \ {0}
             /\ SubSeq(s, 1, n)[n] = s[n]
             /\ t[n] = a
             /\ \A i \in 1..(n - 1) : t[i] = s[i]
<1> DEFINE n == Len(s) - 1
           r == SubSeq(s, 1, n)
<1>1. n \in Nat \ {0} /\ Len(s) \in Nat /\ \A i \in 1..n : s[i] \in Activation
  <2>1. Len(s) \in Nat /\ \A i \in 1..Len(s) : s[i] \in Activation
    BY LenProperties
  <2> QED BY <2>1
<1>2. /\ r \in Seq(Activation) /\ Len(r) = n
      /\ \A i \in 1..n : r[i] = s[i]
  <2>1. /\ 1 \in Int /\ n \in Int /\ 1 <= n /\ n - 1 + 1 = n
    BY <1>1
  <2> HIDE DEF n
  <2>2. /\ SubSeq(s, 1, n) \in Seq(Activation)
        /\ Len(SubSeq(s, 1, n)) = n
        /\ \A i \in 1..n : SubSeq(s, 1, n)[i] = s[1 + i - 1]
    BY <2>1, <1>1, SubSeqProperties
  <2> QED BY <2>2
<1> HIDE DEF r
<1>3. n \in 1..Len(r)
  BY <1>1, <1>2
<1>4. /\ [r EXCEPT ![n] = a] \in Seq(Activation)
      /\ Len([r EXCEPT ![n] = a]) = Len(r)
      /\ \A j \in 1..Len(r) : [r EXCEPT ![n] = a][j] = IF j = n THEN a ELSE r[j]
  BY <1>2, <1>3, ExceptSeq
<1>5. /\ [r EXCEPT ![n] = a] \in Seq(Activation) /\ Len([r EXCEPT ![n] = a]) = n
      /\ r[n] = s[n] /\ [r EXCEPT ![n] = a][n] = a
      /\ \A i \in 1..(n - 1) : [r EXCEPT ![n] = a][i] = s[i]
  BY <1>1, <1>2, <1>4
<1> QED BY <1>1, <1>5 DEF r

------------------------------------------------------------------------------
(* What a step that touches neither entries nor results leaves alone.      *)

LEMMA Unmoved ==
  ASSUME UNCHANGED <<revision, entries, value>>
  PROVE  /\ \A x : ActivationOK(x)' <=> ActivationOK(x)
         /\ \A x, y : Waits(x, y)' <=> Waits(x, y)
         /\ \A q : MemoOf(q)' <=> MemoOf(q)
<1>1. revision' = revision /\ entries' = entries /\ value' = value
  OBVIOUS
<1>2. \A ds, k : SeenBefore(ds, k)' = SeenBefore(ds, k)
  BY <1>1 DEF SeenBefore
<1>3. \A x : ActivationOK(x)' <=> ActivationOK(x)
  BY <1>1, <1>2 DEF ActivationOK
<1>4. \A x, y : Waits(x, y)' <=> Waits(x, y)
  BY <1>1 DEF Waits
<1>5. \A q : MemoOf(q)' <=> MemoOf(q)
  BY <1>1, <1>2 DEF MemoOf
<1> QED BY <1>3, <1>4, <1>5

\* A call found in the stack after the step is judged after the step.
LEMMA Judged ==
  ASSUME NEW i, NEW x, x = stack'[i], ActivationOK(x)'
  PROVE  ActivationOK(stack[i])'
BY DEF ActivationOK, SeenBefore

------------------------------------------------------------------------------
(* Keeping the stack well-formed.                                          *)

\* The innermost call goes on to its next phase.
LEMMA BecomeKeeps ==
  ASSUME IInv, stack # <<>>,
         NEW a \in Activation, a.query = Top.query, a.since = Top.since,
         stack' = [stack EXCEPT ![Depth] = a],
         ActivationOK(a)',
         a.phase = "run" => Len(a.reads) = Len(a.seen),
         \A i \in 1..(Depth - 1), x \in Activation :
           x = stack[i] => /\ ActivationOK(x)'
                           /\ entries'[x.query] = entries[x.query]
  PROVE  stack' \in Seq(Activation) /\ StackOK'
<1>1. /\ stack' \in Seq(Activation) /\ Len(stack') = Depth /\ Depth \in Nat \ {0}
      /\ stack'[Depth] = a
      /\ \A i \in 1..(Depth - 1) : stack'[i] = stack[i]
  BY TopReplaced DEF IInv, TypeOK, Depth
<1>e. \A i \in 1..Depth : stack[i] \in Activation
  BY LenProperties DEF IInv, TypeOK, Depth
<1>2. \A i \in 1..Depth : ActivationOK(stack[i])'
  <2> TAKE i \in 1..Depth
  <2>1. PICK x \in Activation : x = stack'[i] /\ ActivationOK(x)'
    <3>1. CASE i = Depth
      BY <3>1, <1>1
    <3>2. CASE i # Depth
      BY <3>2, <1>1, <1>e
    <3> QED BY <3>1, <3>2
  <2> QED BY <2>1, Judged
<1>3. \A i \in 1..(Depth - 1) : Waits(stack[i], stack[i + 1])'
  <2> TAKE i \in 1..(Depth - 1)
  <2>1. Waits(stack[i], stack[i + 1]) /\ stack'[i] = stack[i]
    BY <1>1 DEF IInv, StackOK
  <2>2. /\ stack'[i + 1].query = stack[i + 1].query
        /\ stack'[i + 1].since = stack[i + 1].since
    BY <1>1 DEF Top
  <2>3. entries'[stack[i].query] = entries[stack[i].query]
    BY <1>e, <1>1
  <2> QED BY <2>1, <2>2, <2>3 DEF Waits
<1>4. \A i, j \in 1..Depth : i < j => Rank(stack'[j].query) < Rank(stack'[i].query)
  BY <1>1 DEF IInv, StackOK, Top
<1> QED
  <2>1. Depth' = Depth /\ Top' = a
    BY <1>1 DEF Depth, Top
  <2> QED BY <1>1, <1>2, <1>3, <1>4, <2>1 DEF StackOK

\* The innermost call makes another.
LEMMA PushKeeps ==
  ASSUME IInv, stack # <<>>, UNCHANGED <<revision, entries, value>>,
         NEW a \in Activation, a.query = Top.query, a.since = Top.since,
         NEW b \in Activation, ActivationOK(b), b.phase = "enter",
         stack' = Append([stack EXCEPT ![Depth] = a], b),
         ActivationOK(a), Waits(a, b), Rank(b.query) < Rank(a.query)
  PROVE  stack' \in Seq(Activation) /\ StackOK'
<1>1. /\ stack' \in Seq(Activation) /\ Len(stack') = Depth + 1 /\ Depth \in Nat \ {0}
      /\ stack'[Depth + 1] = b
      /\ stack'[Depth] = a
      /\ \A i \in 1..(Depth - 1) : stack'[i] = stack[i]
  BY Pushed DEF IInv, TypeOK, Depth
<1>2. \A i \in 1..(Depth + 1) : ActivationOK(stack'[i])
  BY <1>1 DEF IInv, StackOK
<1>3. \A i \in 1..Depth : Waits(stack'[i], stack'[i + 1])
  <2> TAKE i \in 1..Depth
  <2>1. CASE i = Depth
    BY <1>1, <2>1
  <2>2. CASE i < Depth
    <3>1. Waits(stack[i], stack[i + 1]) /\ stack'[i] = stack[i]
      BY <1>1, <2>2 DEF IInv, StackOK
    <3>2. /\ stack'[i + 1].query = stack[i + 1].query
          /\ stack'[i + 1].since = stack[i + 1].since
      BY <1>1, <2>2 DEF Top
    <3> QED BY <3>1, <3>2 DEF Waits
  <2> QED BY <2>1, <2>2, <1>1
<1>4. \A i, j \in 1..(Depth + 1) : i < j => Rank(stack'[j].query) < Rank(stack'[i].query)
  <2>0. \A i \in 1..Depth : stack[i] \in Activation
    BY LenProperties DEF IInv, TypeOK, Depth
  <2>1. \A i \in 1..Depth : /\ stack[i].query \in Queries
                            /\ stack'[i].query = stack[i].query
                            /\ Rank(stack[i].query) \in Nat
    <3> TAKE i \in 1..Depth
    <3>1. stack[i].query \in Queries
      BY <2>0 DEF Activation
    <3>2. stack'[i].query = stack[i].query
      BY <1>1 DEF Top
    <3> QED BY <3>1, <3>2
  <2>2. b.query \in Queries /\ Rank(b.query) \in Nat
    BY DEF Activation
  <2>3. \A i, j \in 1..Depth : i < j => Rank(stack'[j].query) < Rank(stack'[i].query)
    BY <2>1, <1>1 DEF IInv, StackOK
  <2>4. \A i \in 1..Depth : Rank(b.query) < Rank(stack'[i].query)
    BY <2>1, <2>2, <2>3, <1>1 DEF Top
  <2> QED BY <2>3, <2>4, <1>1
<1> QED
  <2>1. Depth' = Depth + 1 /\ Top' = b
    BY <1>1 DEF Depth, Top
  <2>2. \A i \in 1..(Depth + 1) : ActivationOK(stack[i])'
    <3> TAKE i \in 1..(Depth + 1)
    <3>1. PICK x : x = stack'[i]
      OBVIOUS
    <3>2. ActivationOK(x)'
      BY <1>2, <3>1, Unmoved
    <3> QED BY <3>1, <3>2, Judged
  <2>3. \A i \in 1..Depth : Waits(stack[i], stack[i + 1])'
    BY <1>3 DEF Waits
  <2> QED BY <1>1, <1>4, <2>1, <2>2, <2>3 DEF StackOK

\* The innermost call returns to the one that made it.
LEMMA PopKeeps ==
  ASSUME IInv, Depth > 1, UNCHANGED <<revision, entries, value>>,
         NEW a \in Activation, a.query = Caller.query, a.since = Caller.since,
         Resume(a),
         ActivationOK(a),
         a.phase = "run" => Len(a.reads) = Len(a.seen)
  PROVE  stack' \in Seq(Activation) /\ StackOK'
<1> DEFINE n == Depth - 1
<1>1. /\ stack' \in Seq(Activation) /\ Len(stack') = n /\ n \in Nat \ {0} /\ Depth \in Nat
      /\ stack'[n] = a
      /\ \A i \in 1..(n - 1) : stack'[i] = stack[i]
  BY Popped, LenProperties DEF IInv, TypeOK, Depth, Resume
<1>2. \A i \in 1..n : ActivationOK(stack'[i])
  BY <1>1 DEF IInv, StackOK
<1>3. \A i \in 1..(n - 1) : Waits(stack'[i], stack'[i + 1])
  <2> TAKE i \in 1..(n - 1)
  <2>1. Waits(stack[i], stack[i + 1]) /\ stack'[i] = stack[i]
    BY <1>1 DEF IInv, StackOK
  <2>2. /\ stack'[i + 1].query = stack[i + 1].query
        /\ stack'[i + 1].since = stack[i + 1].since
    BY <1>1 DEF Caller
  <2> QED BY <2>1, <2>2 DEF Waits
<1>4. \A i, j \in 1..n : i < j => Rank(stack'[j].query) < Rank(stack'[i].query)
  <2>1. \A i \in 1..n : stack'[i].query = stack[i].query
    BY <1>1 DEF Caller
  <2>2. \A i, j \in 1..Depth : i < j => Rank(stack[j].query) < Rank(stack[i].query)
    BY DEF IInv, StackOK
  <2> QED BY <1>1, <2>1, <2>2
<1> QED
  <2>1. Depth' = n /\ Top' = a
    BY <1>1 DEF Depth, Top
  <2>2. \A i \in 1..n : ActivationOK(stack[i])'
    <3> TAKE i \in 1..n
    <3>1. PICK x : x = stack'[i]
      OBVIOUS
    <3>2. ActivationOK(x)'
      BY <1>2, <3>1, Unmoved
    <3> QED BY <3>1, <3>2, Judged
  <2>3. \A i \in 1..(n - 1) : Waits(stack[i], stack[i + 1])'
    BY <1>3 DEF Waits
  <2> QED BY <1>1, <1>4, <2>1, <2>2, <2>3 DEF StackOK
------------------------------------------------------------------------------
(* The innermost call and its caller.                                      *)

LEMMA TopFacts ==
  ASSUME IInv, stack # <<>>
  PROVE  /\ Depth \in Nat \ {0} /\ Top = stack[Depth]
         /\ Top \in Activation /\ ActivationOK(Top)
         /\ Top.query \in Queries /\ entries[Top.query] \in Entry /\ MemoOf(Top.query)
         /\ Top.reads \in Seq(Queries) /\ Top.seen \in Readings
         /\ \A i \in 1..(Depth - 1) : stack[i] \in Activation /\ ActivationOK(stack[i])
                                       /\ stack[i].query # Top.query
<1>1. stack \in Seq(Activation) /\ Depth \in Nat \ {0} /\ Top = stack[Depth]
  BY EmptySeq DEF IInv, TypeOK, Depth, Top
<1>2. \A i \in 1..Depth : stack[i] \in Activation /\ ActivationOK(stack[i])
  BY <1>1, LenProperties DEF IInv, StackOK, Depth
<1>3. Top \in Activation /\ ActivationOK(Top)
  BY <1>1, <1>2
<1>4. Top.query \in Queries /\ Top.reads \in Seq(Queries) /\ Top.seen \in Readings
  BY <1>3 DEF Activation
<1>5. entries[Top.query] \in Entry /\ MemoOf(Top.query)
  BY <1>4 DEF IInv, TypeOK
<1>6. \A i \in 1..(Depth - 1) : stack[i].query # Top.query
  <2> TAKE i \in 1..(Depth - 1)
  <2>1. Rank(stack[Depth].query) < Rank(stack[i].query)
    BY <1>1 DEF IInv, StackOK
  <2>2. Rank(Top.query) \in Nat
    BY <1>4
  <2> QED BY <2>1, <2>2, <1>1
<1> QED BY <1>1, <1>2, <1>3, <1>4, <1>5, <1>6

LEMMA CallerFacts ==
  ASSUME IInv, Depth > 1
  PROVE  LET p == Caller
         IN  /\ stack # <<>>
             /\ p \in Activation /\ ActivationOK(p) /\ Waits(p, Top)
             /\ p.query \in Queries /\ entries[p.query] \in Entry
             /\ p.reads \in Seq(Queries) /\ p.seen \in Readings /\ p.at \in Nat
<1>1. stack \in Seq(Activation) /\ Depth \in Nat /\ Depth - 1 \in 1..Depth /\ stack # <<>>
  BY LenProperties DEF IInv, TypeOK, Depth
<1>2. Caller \in Activation /\ ActivationOK(Caller)
  BY <1>1, ElementOfSeq DEF IInv, TypeOK, StackOK, Depth, Caller
<1>3. Waits(Caller, Top)
  BY <1>1 DEF IInv, StackOK, Top, Caller
<1>4. Caller.query \in Queries /\ entries[Caller.query] \in Entry
  BY <1>2 DEF Activation, IInv, TypeOK
<1>5. /\ Caller.reads \in Seq(Queries)
      /\ Caller.seen \in Readings /\ Caller.at \in Nat
  BY <1>2 DEF Activation
<1> QED BY <1>1, <1>2, <1>3, <1>4, <1>5

\* A step inside one demand: who asked, and for what, stays as it was.
Continues ==
  stack # <<>> /\ stack' # <<>> /\ stack'[1].query = stack[1].query

\* The root of the stack is the call made from outside; it stays where it is
\* until it returns.
LEMMA RootStays ==
  ASSUME IInv, stack # <<>>,
         \/ \E a \in Activation : a.query = Top.query /\ Become(a)
         \/ \E a, b \in Activation : /\ a.query = Top.query
                                     /\ stack' = Append([stack EXCEPT ![Depth] = a], b)
         \/ Depth > 1 /\ \E a \in Activation : a.query = Caller.query /\ Resume(a)
  PROVE  Continues
<1>1. stack \in Seq(Activation) /\ Depth = Len(stack) /\ Depth \in Nat \ {0}
      /\ Top = stack[Depth]
  BY TopFacts DEF IInv, TypeOK, Depth
<1>2. ASSUME NEW a \in Activation, a.query = Top.query, Become(a)
      PROVE  stack' # <<>> /\ stack'[1].query = stack[1].query
  <2>1. /\ stack' \in Seq(Activation) /\ Len(stack') = Depth
        /\ stack'[Depth] = a /\ \A i \in 1..(Depth - 1) : stack'[i] = stack[i]
    BY <1>1, <1>2, TopReplaced DEF Become
  <2>2. stack' # <<>>
    BY <1>1, <2>1, EmptySeq
  <2>3. Depth = 1 \/ 1 \in 1..(Depth - 1)
    BY <1>1
  <2> QED BY <1>1, <1>2, <2>1, <2>2, <2>3
<1>3. ASSUME NEW a \in Activation, NEW b \in Activation, a.query = Top.query,
             stack' = Append([stack EXCEPT ![Depth] = a], b)
      PROVE  stack' # <<>> /\ stack'[1].query = stack[1].query
  <2>1. /\ Len(stack') = Depth + 1
        /\ stack'[Depth] = a /\ \A i \in 1..(Depth - 1) : stack'[i] = stack[i]
    BY <1>1, <1>3, Pushed
  <2>2. stack' # <<>>
    BY <1>1, <2>1, EmptySeq
  <2>3. Depth = 1 \/ 1 \in 1..(Depth - 1)
    BY <1>1
  <2> QED BY <1>1, <1>3, <2>1, <2>2, <2>3
<1>4. ASSUME Depth > 1, NEW a \in Activation, a.query = Caller.query, Resume(a)
      PROVE  stack' # <<>> /\ stack'[1].query = stack[1].query
  <2>1. /\ Len(stack') = Depth - 1
        /\ stack'[Depth - 1] = a /\ \A i \in 1..(Depth - 2) : stack'[i] = stack[i]
    BY <1>1, <1>4, Popped DEF Resume
  <2>2. stack' # <<>>
    BY <1>1, <1>4, <2>1, EmptySeq
  <2>3. Depth - 1 = 1 \/ 1 \in 1..(Depth - 2)
    BY <1>1, <1>4
  <2> QED BY <1>4, <2>1, <2>2, <2>3 DEF Caller
<1> QED BY <1>2, <1>3, <1>4 DEF Continues

\* A step that moves the innermost call on and touches nothing else.
LEMMA PhaseStep ==
  ASSUME IInv, stack # <<>>, UNCHANGED <<revision, entries, value, answer>>,
         NEW a \in Activation, a.query = Top.query, a.since = Top.since,
         Become(a), ActivationOK(a),
         a.phase = "run" => Len(a.reads) = Len(a.seen)
  PROVE  IInv' /\ Continues
<1>1. ActivationOK(a)' /\ \A x : ActivationOK(x) => ActivationOK(x)'
  BY Unmoved
<1>2. \A j \in 1..(Depth - 1), x \in Activation :
         x = stack[j] => ActivationOK(x)' /\ entries'[x.query] = entries[x.query]
  BY <1>1, TopFacts
<1>3. stack' \in Seq(Activation) /\ StackOK'
  BY <1>1, <1>2, BecomeKeeps DEF Become
<1>4. TypeOK'
  BY <1>3 DEF IInv, TypeOK, Entry
<1>5. \A q \in Queries : MemoOf(q)'
  BY Unmoved DEF IInv
<1>c. Continues
  BY RootStays
<1> QED BY <1>3, <1>4, <1>5, <1>c DEF IInv

LEMMA EnterFirstKeeps == ASSUME IInv, EnterFirst PROVE IInv' /\ Continues
<1> DEFINE a == [Top EXCEPT !.phase = "run"]
<1>1. stack # <<>> /\ Top \in Activation /\ ActivationOK(Top) /\ Top.phase = "enter"
  BY TopFacts DEF EnterFirst
<1>2. a \in Activation /\ a.query = Top.query /\ a.since = Top.since
  BY <1>1 DEF Activation
<1>3. a.reads = <<>> /\ a.seen = <<>> /\ a.phase = "run"
  BY <1>1 DEF Activation, ActivationOK
<1>4. entries[a.query].verified < revision
  BY <1>2 DEF EnterFirst, Verified, IInv, TypeOK
<1> HIDE DEF a
<1>5. ActivationOK(a)
  BY <1>3, <1>4 DEF ActivationOK
<1> QED BY <1>1, <1>2, <1>3, <1>5, PhaseStep DEF EnterFirst, a

LEMMA EnterCurrentKeeps == ASSUME IInv, EnterCurrent PROVE IInv' /\ Continues
<1> DEFINE a == [Top EXCEPT !.phase = "done"]
<1>1. stack # <<>> /\ Top \in Activation /\ ActivationOK(Top) /\ Top.phase = "enter"
  BY TopFacts DEF EnterCurrent
<1>2. a \in Activation /\ a.query = Top.query /\ a.since = Top.since /\ a.phase = "done"
  BY <1>1 DEF Activation
<1>3. entries[a.query].verified = revision
  BY <1>2 DEF EnterCurrent, IsCurrent, Verified
<1> HIDE DEF a
<1>4. ActivationOK(a)
  BY <1>2, <1>3 DEF ActivationOK
<1> QED BY <1>1, <1>2, <1>4, PhaseStep DEF EnterCurrent, a

LEMMA EnterWalkKeeps == ASSUME IInv, EnterWalk PROVE IInv' /\ Continues
<1> DEFINE a == [Top EXCEPT !.phase = "walk"]
<1>1. /\ stack # <<>> /\ Top \in Activation /\ ActivationOK(Top) /\ Top.phase = "enter"
      /\ entries[Top.query] \in Entry /\ Top.query \in Queries
  BY TopFacts DEF EnterWalk
<1>2. a \in Activation /\ a.query = Top.query /\ a.since = Top.since /\ a.phase = "walk"
  BY <1>1 DEF Activation
<1>3. a.reads = <<>> /\ a.seen = <<>> /\ a.at = 0
  BY <1>1 DEF Activation, ActivationOK
<1>4. 0 < entries[a.query].verified /\ entries[a.query].verified < revision
  BY <1>1, <1>2 DEF EnterWalk, IsCurrent, Verified, IInv, TypeOK, Entry
<1>5. 0 <= Len(entries[a.query].deps)
  BY <1>1, <1>2, LenProperties DEF Entry
<1> HIDE DEF a
<1>6. ActivationOK(a)
  BY <1>2, <1>3, <1>4, <1>5 DEF ActivationOK
<1> QED BY <1>1, <1>2, <1>6, PhaseStep DEF EnterWalk, a

\* A call has just been made: nothing is known of it but whom it is about.
LEMMA CallFacts ==
  ASSUME NEW q \in Queries, NEW since \in Nat
  PROVE  /\ Call(q, since) \in Activation /\ ActivationOK(Call(q, since))
         /\ Call(q, since).query = q /\ Call(q, since).since = since
         /\ Call(q, since).phase = "enter"
<1>1. <<>> \in Seq(Queries) /\ <<>> \in Readings
  BY EmptySeq, EmptyReading
<1> QED BY <1>1 DEF Call, Activation, ActivationOK

\* A step that makes a call and touches nothing else.
LEMMA CallStep ==
  ASSUME IInv, stack # <<>>, UNCHANGED <<revision, entries, value, answer>>,
         NEW a \in Activation, a.query = Top.query, a.since = Top.since,
         NEW q \in Queries, NEW since \in Nat,
         stack' = Append([stack EXCEPT ![Depth] = a], Call(q, since)),
         ActivationOK(a), Waits(a, Call(q, since)), Rank(q) < Rank(a.query)
  PROVE  IInv' /\ Continues
<1>1. stack' \in Seq(Activation) /\ StackOK'
  BY CallFacts, PushKeeps
<1>2. TypeOK'
  BY <1>1 DEF IInv, TypeOK, Entry
<1>3. \A p \in Queries : MemoOf(p)'
  BY Unmoved DEF IInv
<1>c. Continues
  BY CallFacts, RootStays
<1> QED BY <1>1, <1>2, <1>3, <1>c DEF IInv

LEMMA WalkDependencyKeeps == ASSUME IInv, WalkDependency PROVE IInv' /\ Continues
<1> DEFINE d == NextDependency
<1>1. /\ stack # <<>> /\ Top \in Activation /\ ActivationOK(Top) /\ Top.phase = "walk"
      /\ entries[Top.query] \in Entry /\ Top.query \in Queries /\ MemoOf(Top.query)
      /\ Depth \in Nat \ {0} /\ Top = stack[Depth]
  BY TopFacts DEF WalkDependency
<1>2. Top.at \in Nat /\ Deps \in Seq(Queries) /\ Verified \in Nat /\ Top.at < Len(Deps)
  BY <1>1 DEF Activation, Entry, Deps, Verified, WalkDependency
<1>3. /\ Len(Deps) \in Nat /\ Top.at + 1 \in 1..Len(Deps) /\ d \in Queries
      /\ d = Deps[Top.at + 1]
  BY <1>2, LenProperties DEF NextDependency
<1>4. Rank(d) < Rank(Top.query)
  BY <1>1, <1>3 DEF MemoOf, Deps
<1>5. [stack EXCEPT ![Depth] = Top] = stack
  BY <1>1, LenProperties DEF IInv, TypeOK, Depth
<1>6. stack' = Append([stack EXCEPT ![Depth] = Top], Call(d, Verified))
  BY <1>5 DEF WalkDependency
<1>7. Waits(Top, Call(d, Verified))
  <2>1. Call(d, Verified).query = d /\ Call(d, Verified).since = Verified
    BY <1>2, <1>3, CallFacts
  <2> QED BY <1>1, <1>2, <1>3, <2>1 DEF Waits, Deps, Verified
<1> HIDE DEF d
<1> QED BY <1>1, <1>2, <1>3, <1>4, <1>6, <1>7, CallStep DEF WalkDependency

\* What a body that is not waiting has read determines what it reads next.
LEMMA BodyFacts ==
  ASSUME IInv, stack # <<>>, Top.phase = "run"
  PROVE  /\ Len(Top.reads) = Len(Top.seen) /\ Len(Top.seen) \in 0..MaxReads
         /\ SeenBefore(Top.reads, Len(Top.reads) + 1) = Top.seen
         /\ \A k \in 1..Len(Top.reads) : /\ Top.reads[k] \in Queries
                                         /\ entries[Top.reads[k]].verified = revision
<1>1. /\ ActivationOK(Top) /\ Top.reads \in Seq(Queries) /\ Top.seen \in Readings
      /\ Len(Top.reads) = Len(Top.seen)
  BY TopFacts DEF IInv, StackOK
<1>2. /\ Len(Top.seen) \in 0..MaxReads /\ Top.seen \in [1..Len(Top.seen) -> Values]
      /\ \A k \in 1..Len(Top.reads) : Top.reads[k] \in Queries
  BY <1>1, ReadingsAreSeqs, LenProperties
<1>3. \A k \in 1..Len(Top.seen) : /\ entries[Top.reads[k]].verified = revision
                                  /\ Top.seen[k] = value[Top.reads[k]]
  BY <1>1 DEF ActivationOK
<1>4. SeenBefore(Top.reads, Len(Top.reads) + 1) = Top.seen
  BY <1>1, <1>2, <1>3 DEF SeenBefore
<1> QED BY <1>1, <1>2, <1>3, <1>4

LEMMA ReadKeeps == ASSUME IInv, Read PROVE IInv' /\ Continues
<1> DEFINE q == Top.query
           rs == Reads(Wanted)
           a == [Top EXCEPT !.reads = rs]
           n == Len(Top.reads)
<1>1. /\ stack # <<>> /\ Top \in Activation /\ ActivationOK(Top) /\ Top.phase = "run"
      /\ q \in Queries /\ Top.reads \in Seq(Queries) /\ Top.seen \in Readings
      /\ Top = stack[Depth] /\ Depth \in Nat \ {0}
  BY TopFacts DEF Read
<1>2. q \in Queries \ Inputs /\ Wanted = NextRead(q, Top.seen) /\ Wanted # Done
  BY <1>1 DEF Read, Wanted
<1>3. Wanted \in Queries /\ Rank(Wanted) < Rank(q)
  BY <1>1, <1>2, AcyclicBodies
<1>4. /\ n = Len(Top.seen) /\ n \in Nat
      /\ SeenBefore(Top.reads, n + 1) = Top.seen
  BY <1>1, BodyFacts
<1>5. /\ rs \in Seq(Queries) /\ Len(rs) = n + 1 /\ rs[n + 1] = Wanted
      /\ \A k \in 1..n : rs[k] = Top.reads[k]
  BY <1>1, <1>3, AppendProperties DEF Reads
<1>6. /\ a \in Activation /\ a.query = q /\ a.since = Top.since /\ a.phase = "run"
      /\ a.reads = rs /\ a.seen = Top.seen
  BY <1>1, <1>5 DEF Activation
<1>7. \A k \in 1..(n + 1) : SeenBefore(rs, k) = SeenBefore(Top.reads, k)
  <2> HIDE DEF rs, n
  <2> TAKE k \in 1..(n + 1)
  <2>1. \A i \in 1..(k - 1) : i \in 1..n
    BY <1>4
  <2>2. \A i \in 1..(k - 1) : rs[i] = Top.reads[i]
    BY <2>1, <1>5
  <2> QED BY <2>2 DEF SeenBefore
<1>8. \A k \in 1..(n + 1) : rs[k] = NextRead(q, SeenBefore(rs, k)) /\ Rank(rs[k]) < Rank(q)
  <2> TAKE k \in 1..(n + 1)
  <2>1. CASE k = n + 1
    BY <2>1, <1>2, <1>3, <1>4, <1>5, <1>7
  <2>2. CASE k # n + 1
    <3>1. k \in 1..n
      BY <2>2, <1>4
    <3>2. Top.reads[k] = NextRead(q, SeenBefore(Top.reads, k)) /\ Rank(Top.reads[k]) < Rank(q)
      BY <3>1, <1>1 DEF ActivationOK
    <3> QED BY <3>1, <3>2, <1>5, <1>7
  <2> QED BY <2>1, <2>2
<1>9. \A k \in 1..Len(Top.seen) : /\ entries[rs[k]].verified = revision
                                  /\ Top.seen[k] = value[rs[k]]
  <2>1. \A k \in 1..Len(Top.seen) : /\ entries[Top.reads[k]].verified = revision
                                  /\ Top.seen[k] = value[Top.reads[k]]
    BY <1>1 DEF ActivationOK
  <2> HIDE DEF rs, n
  <2> QED BY <2>1, <1>4, <1>5
<1>10. entries[q].verified < revision
  BY <1>1 DEF ActivationOK
<1>11. stack' = Append([stack EXCEPT ![Depth] = a], Call(Wanted, 0))
  BY <1>1 DEF Read
<1> HIDE DEF a, rs
<1>12. ActivationOK(a)
  BY <1>2, <1>4, <1>5, <1>6, <1>8, <1>9, <1>10 DEF ActivationOK
<1>13. Waits(a, Call(Wanted, 0))
  BY <1>3, <1>4, <1>5, <1>6, CallFacts DEF Waits
<1> QED BY <1>1, <1>3, <1>6, <1>11, <1>12, <1>13, CallStep DEF Read

\* A step that stores a result, marks the query verified and ends the call.
LEMMA StoreStep ==
  ASSUME IInv, stack # <<>>, NEW q, q = Top.query, entries[q].verified < revision,
         NEW e \in Entry, e.verified = revision,
         e.changed \in {entries[q].changed, revision},
         NEW v \in Values, v # value[q] => e.changed = revision,
         revision' = revision, answer' = answer,
         entries' = [entries EXCEPT ![q] = e],
         value' = [value EXCEPT ![q] = v],
         Become([Top EXCEPT !.phase = "done"]),
         MemoOf(q)'
  PROVE  IInv' /\ Continues
<1> DEFINE top == [Top EXCEPT !.phase = "done"]
<1>1. /\ Top \in Activation /\ q \in Queries /\ entries[q] \in Entry
      /\ \A i \in 1..(Depth - 1) : stack[i] \in Activation /\ ActivationOK(stack[i])
                                    /\ stack[i].query # q
  BY TopFacts
<1>2. TypeOK /\ \A p \in Queries : MemoOf(p)
  BY DEF IInv
<1>3. /\ \A p \in Queries \ {q} : MemoOf(p)'
      /\ \A x \in Activation : x.query # q /\ ActivationOK(x) => ActivationOK(x)'
  BY <1>1, <1>2, StoreKeeps
<1>4. PICK a \in Activation : /\ a = top /\ a.query = q /\ a.since = Top.since
                             /\ a.phase = "done"
  BY <1>1 DEF Activation
<1>5. entries'[q] = e /\ \A p \in Queries : p # q => entries'[p] = entries[p]
  BY <1>1, <1>2 DEF TypeOK
<1>6. \A i \in 1..(Depth - 1), x \in Activation :
        x = stack[i] => ActivationOK(x)' /\ entries'[x.query] = entries[x.query]
  <2> TAKE i \in 1..(Depth - 1), x \in Activation
  <2> HAVE x = stack[i]
  <2>1. x.query # q /\ ActivationOK(x) /\ x.query \in Queries
    BY <1>1 DEF Activation
  <2> QED BY <2>1, <1>3, <1>5
<1>7. stack' = [stack EXCEPT ![Depth] = a]
  BY <1>4 DEF Become
<1> HIDE DEF top
<1>8. ActivationOK(a)'
  BY <1>4, <1>5 DEF ActivationOK
<1>9. stack' \in Seq(Activation) /\ StackOK'
  BY <1>4, <1>6, <1>7, <1>8, BecomeKeeps
<1>10. TypeOK'
  <2>1. entries' \in [Queries -> Entry] /\ value' \in [Queries -> Values \cup {NoValue}]
    BY <1>1, <1>2 DEF TypeOK
  <2>2. \A p \in Queries : entries'[p].changed <= entries'[p].verified
                          /\ entries'[p].verified <= revision
    <3> TAKE p \in Queries
    <3>1. entries[q].changed <= entries[q].verified /\ revision \in Nat
      BY <1>1, <1>2 DEF TypeOK
    <3>2. entries[q].changed \in Nat /\ entries[q].verified \in Nat
      BY <1>1 DEF Entry
    <3>3. e.changed <= revision
      BY <3>1, <3>2
    <3> QED BY <1>2, <1>5, <3>1, <3>3 DEF TypeOK
  <2>3. \A i \in Inputs : value'[i] \in Values
    BY <1>1, <1>2 DEF TypeOK
  <2> QED BY <1>2, <1>9, <2>1, <2>2, <2>3 DEF TypeOK
<1>11. \A p \in Queries : MemoOf(p)'
  BY <1>3
<1>c. Continues
  <2>1. a.query = Top.query /\ Become(a)
    BY <1>4, <1>7 DEF Become
  <2> QED BY <2>1, RootStays
<1> QED BY <1>9, <1>10, <1>11, <1>c DEF IInv

LEMMA WalkCleanKeeps == ASSUME IInv, WalkClean PROVE IInv' /\ Continues
<1>q. PICK q, ds : q = Top.query /\ ds = entries[q].deps
  OBVIOUS
<1> DEFINE e == [entries[q] EXCEPT !.verified = revision]
<1>1. /\ stack # <<>> /\ Top \in Activation /\ ActivationOK(Top) /\ Top.phase = "walk"
      /\ q \in Queries /\ entries[q] \in Entry /\ MemoOf(q) /\ TypeOK
  BY <1>q, TopFacts DEF WalkClean, IInv
<1>2. /\ 0 < entries[q].verified /\ entries[q].verified < revision
      /\ \A k \in 1..Len(ds) : /\ entries[ds[k]].verified = revision
                              /\ entries[ds[k]].changed <= entries[q].verified
  BY <1>q, <1>1 DEF ActivationOK, WalkClean, Deps
<1>3. value[q] \in Values /\ revision \in Nat
  BY <1>1, <1>2, VerifiedHasValue DEF TypeOK
<1>4. /\ e \in Entry /\ e.verified = revision /\ e.changed = entries[q].changed
      /\ e.deps = ds
  BY <1>q, <1>1, <1>3 DEF Entry
<1>5. /\ revision' = revision /\ answer' = answer /\ value' = [value EXCEPT ![q] = value[q]]
      /\ value' = value
      /\ entries' = [entries EXCEPT ![q] = e]
  BY <1>q, <1>1 DEF WalkClean, Checked, TypeOK
<1> HIDE DEF e
<1>6. /\ ds \in Seq(Queries) /\ Len(ds) \in Nat
      /\ \A k \in 1..Len(ds) : ds[k] \in Queries
  BY <1>q, <1>1, LenProperties DEF Entry
<1>7. entries'[q] = e /\ \A p \in Queries : p # q => entries'[p] = entries[p]
  BY <1>1, <1>5 DEF TypeOK
<1>8. MemoOf(q)'
  <2>1. \A k : SeenBefore(ds, k)' = SeenBefore(ds, k)
    BY <1>5 DEF SeenBefore
  <2>2. /\ q \in Inputs => ds = <<>>
        /\ \A k \in 1..Len(ds) : Rank(ds[k]) < Rank(q)
    BY <1>q, <1>1 DEF MemoOf
  <2>3. \A k \in 1..Len(ds) : entries'[ds[k]].verified = revision
    BY <1>2, <1>4, <1>6, <1>7
  <2>4. q \notin Inputs => \A k \in 1..(Len(ds) + 1) :
          IF k <= Len(ds)
            THEN ds[k] = NextRead(q, SeenBefore(ds, k))
            ELSE /\ NextRead(q, SeenBefore(ds, k)) = Done
                 /\ value[q] = Result(q, SeenBefore(ds, k))
    BY <1>q, <1>1, <1>2, <1>6 DEF MemoOf
  <2>5. q \notin Inputs => Len(ds) <= MaxReads
    BY <1>q, <1>1, <1>2 DEF MemoOf
  <2> QED BY <1>3, <1>4, <1>5, <1>6, <1>7, <2>1, <2>2, <2>3, <2>4, <2>5 DEF MemoOf
<1> QED BY <1>q, <1>1, <1>2, <1>3, <1>4, <1>5, <1>8, StoreStep DEF WalkClean

LEMMA FinishKeeps == ASSUME IInv, Finish PROVE IInv' /\ Continues
<1>q. PICK q, rs : q = Top.query /\ rs = Top.reads
  OBVIOUS
<1> DEFINE v == IF q \in Inputs THEN value[q] ELSE Result(q, Top.seen)
           e == [changed |-> IF value[q] # v THEN revision ELSE entries[q].changed,
                 verified |-> revision, deps |-> rs]
<1>1. /\ stack # <<>> /\ Top \in Activation /\ ActivationOK(Top) /\ Top.phase = "run"
      /\ q \in Queries /\ entries[q] \in Entry /\ TypeOK
      /\ rs \in Seq(Queries) /\ Top.seen \in Readings
  BY <1>q, TopFacts DEF Finish, IInv
<1>2. /\ Len(rs) = Len(Top.seen) /\ Len(Top.seen) \in 0..MaxReads
      /\ SeenBefore(rs, Len(rs) + 1) = Top.seen
      /\ \A k \in 1..Len(rs) : /\ rs[k] \in Queries
                              /\ entries[rs[k]].verified = revision
  BY <1>q, <1>1, BodyFacts
<1>3. /\ entries[q].verified < revision
      /\ q \in Inputs => rs = <<>>
      /\ \A k \in 1..Len(rs) : /\ rs[k] = NextRead(q, SeenBefore(rs, k))
                              /\ Rank(rs[k]) < Rank(q)
  BY <1>q, <1>1 DEF ActivationOK
<1>4. q \notin Inputs => NextRead(q, Top.seen) = Done
  BY <1>q, <1>1 DEF Finish, Wanted
<1>5. v \in Values
  <2>1. CASE q \in Inputs
    BY <2>1, <1>1 DEF TypeOK
  <2>2. CASE q \notin Inputs
    BY <2>2, <1>1, AcyclicBodies
  <2> QED BY <2>1, <2>2
<1>6. /\ e \in Entry /\ e.verified = revision /\ e.deps = rs
      /\ e.changed \in {entries[q].changed, revision}
      /\ v # value[q] => e.changed = revision
  BY <1>1 DEF Entry, TypeOK
<1>7. /\ revision' = revision /\ answer' = answer
      /\ value' = [value EXCEPT ![q] = v]
      /\ entries' = [entries EXCEPT ![q] = e]
  BY <1>q DEF Finish, ChangedAt
<1>v. v = IF q \in Inputs THEN value[q] ELSE Result(q, Top.seen)
  OBVIOUS
<1> HIDE DEF e, v
<1>8. /\ entries'[q] = e /\ value'[q] = v
      /\ \A p \in Queries : p # q => entries'[p] = entries[p] /\ value'[p] = value[p]
  BY <1>1, <1>7 DEF TypeOK
<1>9. MemoOf(q)'
  <2>1. \A k \in 1..Len(rs) : /\ rs[k] # q
                             /\ entries'[rs[k]].verified = revision
                             /\ value'[rs[k]] = value[rs[k]]
    <3> TAKE k \in 1..Len(rs)
    <3>1. rs[k] # q
      <4>1. rs[k] \in Queries /\ entries[rs[k]].verified = revision
        BY <1>2
      <4>2. entries[q].verified \in Nat /\ revision \in Nat /\ entries[q].verified # revision
        BY <1>1, <1>3 DEF TypeOK, Entry
      <4> QED BY <4>1, <4>2
    <3> QED BY <3>1, <1>2, <1>8
  <2>2. \A k \in 1..(Len(rs) + 1) : SeenBefore(rs, k)' = SeenBefore(rs, k)
    BY <2>1, <1>2 DEF SeenBefore
  <2>3. q \notin Inputs => \A k \in 1..(Len(rs) + 1) :
          IF k <= Len(rs)
            THEN rs[k] = NextRead(q, SeenBefore(rs, k)')
            ELSE /\ NextRead(q, SeenBefore(rs, k)') = Done
                 /\ v = Result(q, SeenBefore(rs, k)')
    BY <1>2, <1>3, <1>4, <1>v, <2>2
  <2>4. /\ entries'[q].deps = rs /\ entries'[q].verified = revision /\ value'[q] = v
        /\ revision \in Nat /\ Len(rs) \in Nat /\ Len(rs) <= MaxReads
    BY <1>1, <1>2, <1>6, <1>8 DEF TypeOK
  <2>5. \A k \in 1..Len(rs) : Rank(rs[k]) < Rank(q) /\ entries'[rs[k]].verified >= revision
    BY <1>3, <2>1, <2>4
  <2>6. q \in Inputs => rs = <<>>
    BY <1>3
  <2> HIDE DEF e
  <2> QED BY <1>5, <2>3, <2>4, <2>5, <2>6 DEF MemoOf
<1> QED BY <1>q, <1>1, <1>3, <1>5, <1>6, <1>7, <1>9, StoreStep DEF Finish

\* A step that returns to the call that waits and touches nothing else.
LEMMA ReturnStep ==
  ASSUME IInv, Depth > 1, UNCHANGED <<revision, entries, value, answer>>,
         NEW a \in Activation, a.query = Caller.query, a.since = Caller.since,
         Resume(a),
         ActivationOK(a),
         a.phase = "run" => Len(a.reads) = Len(a.seen)
  PROVE  IInv' /\ Continues
<1>1. stack' \in Seq(Activation) /\ StackOK'
  BY PopKeeps
<1>2. TypeOK'
  BY <1>1 DEF IInv, TypeOK, Entry
<1>3. \A p \in Queries : MemoOf(p)'
  BY Unmoved DEF IInv
<1>c. stack # <<>>
  BY CallerFacts
<1>d. Continues
  BY <1>c, RootStays
<1> QED BY <1>1, <1>2, <1>3, <1>d DEF IInv

LEMMA ReturnToWalkKeeps == ASSUME IInv, ReturnToWalk PROVE IInv' /\ Continues
<1> DEFINE p == Caller
           ds == entries[p.query].deps
           a == IF Moved THEN [p EXCEPT !.phase = "run"] ELSE [p EXCEPT !.at = @ + 1]
<1>1. /\ p \in Activation /\ ActivationOK(p) /\ Waits(p, Top) /\ p.phase = "walk"
      /\ stack # <<>> /\ Depth > 1
      /\ entries[p.query] \in Entry /\ p.at \in Nat
  BY CallerFacts DEF ReturnToWalk
<1>2. /\ p.at < Len(ds) /\ Top.query = ds[p.at + 1] /\ Top.since = entries[p.query].verified
  BY <1>1 DEF Waits
<1>3. /\ entries[Top.query].verified = revision /\ entries[Top.query] \in Entry
  BY <1>1, TopFacts DEF ActivationOK, ReturnToWalk
<1>4. /\ p.reads = <<>> /\ p.seen = <<>>
      /\ 0 < entries[p.query].verified /\ entries[p.query].verified < revision
      /\ \A k \in 1..p.at : /\ entries[ds[k]].verified = revision
                           /\ entries[ds[k]].changed <= entries[p.query].verified
  BY <1>1 DEF ActivationOK
<1>5. a \in Activation /\ a.query = p.query /\ a.since = p.since
      /\ a.reads = p.reads /\ a.seen = p.seen
  BY <1>1 DEF Activation
<1>6. Resume(a)
  BY DEF ReturnToWalk, Passed
<1>7. ActivationOK(a)
  <2>1. CASE Moved
    <3>1. a.phase = "run" /\ a.reads = <<>> /\ a.seen = <<>>
      BY <2>1, <1>1, <1>4, <1>5 DEF Activation
    <3> HIDE DEF a, p
    <3>2. entries[a.query].verified < revision
      BY <1>4, <1>5
    <3> QED BY <3>1, <3>2 DEF ActivationOK
  <2>2. CASE ~Moved
    <3>1. a.phase = "walk" /\ a.at = p.at + 1 /\ a.reads = <<>> /\ a.seen = <<>>
      BY <2>2, <1>1, <1>4, <1>5 DEF Activation
    <3>2. entries[Top.query].changed <= entries[p.query].verified
      <4>1. /\ entries[Top.query].changed \in Nat /\ entries[p.query].verified \in Nat
            /\ Top.since = entries[p.query].verified
        BY <1>1, <1>2, <1>3 DEF Entry
      <4>2. ~(entries[Top.query].changed > Top.since)
        BY <2>2 DEF Moved
      <4> QED BY <4>1, <4>2
    <3>3. Len(ds) \in Nat
      BY <1>1, LenProperties DEF Entry
    <3>4. p.at + 1 <= Len(ds) /\ \A k \in 1..(p.at + 1) :
                           /\ entries[ds[k]].verified = revision
                           /\ entries[ds[k]].changed <= entries[p.query].verified
      <4>1. p.at + 1 <= Len(ds)
        BY <1>1, <1>2, <3>3
      <4>2. \A k \in 1..(p.at + 1) : k \in 1..p.at \/ k = p.at + 1
        BY <1>1
      <4> HIDE DEF ds, p
      <4> QED BY <4>1, <4>2, <1>2, <1>3, <1>4, <3>2
    <3> HIDE DEF a, p
    <3> QED BY <3>1, <3>4, <1>4, <1>5 DEF ActivationOK
  <2> QED BY <2>1, <2>2
<1>8. a.phase = "run" => Len(a.reads) = Len(a.seen)
  BY <1>4, <1>5
<1> HIDE DEF a
<1> QED BY <1>1, <1>5, <1>6, <1>7, <1>8, ReturnStep DEF ReturnToWalk

LEMMA ReturnToBodyKeeps == ASSUME IInv, ReturnToBody PROVE IInv' /\ Continues
<1> DEFINE p == Caller
           q == p.query
           rs == p.reads
           n == Len(p.seen)
           got == value[Top.query]
           ss == Append(p.seen, got)
           a == [p EXCEPT !.seen = ss]
<1>1. /\ p \in Activation /\ ActivationOK(p) /\ Waits(p, Top) /\ p.phase = "run"
      /\ stack # <<>> /\ Depth > 1
      /\ q \in Queries /\ rs \in Seq(Queries) /\ p.seen \in Readings
  BY CallerFacts DEF ReturnToBody
<1>2. Len(rs) = n + 1 /\ Top.query = rs[n + 1]
  BY <1>1 DEF Waits
<1>3. /\ entries[Top.query].verified = revision /\ Top.query \in Queries
  BY <1>1, TopFacts DEF ActivationOK, ReturnToBody
<1>4. got \in Values
  BY <1>3, VerifiedHasValue DEF IInv, TypeOK
<1>5. /\ entries[q].verified < revision
      /\ q \in Inputs => rs = <<>>
      /\ \A k \in 1..Len(rs) : rs[k] = NextRead(q, SeenBefore(rs, k)) /\ Rank(rs[k]) < Rank(q)
      /\ \A k \in 1..n : entries[rs[k]].verified = revision /\ p.seen[k] = value[rs[k]]
  BY <1>1 DEF ActivationOK
<1>6. n \in 0..MaxReads /\ p.seen \in [1..n -> Values]
  BY <1>1, ReadingsAreSeqs
<1>7. SeenBefore(rs, n + 1) = p.seen
  BY <1>5, <1>6 DEF SeenBefore
<1>8. n < MaxReads
  <2>1. rs # <<>> /\ q \in Queries \ Inputs
    BY <1>1, <1>2, <1>5, <1>6
  <2>2. rs[n + 1] = NextRead(q, p.seen)
    BY <1>2, <1>5, <1>6, <1>7
  <2> QED BY <2>1, <2>2, <1>1, <1>2, <1>3, AcyclicBodies
<1>9. /\ ss \in Readings /\ Len(ss) = n + 1 /\ ss[n + 1] = got
      /\ \A k \in 1..n : ss[k] = p.seen[k]
  BY <1>1, <1>4, <1>8, ReadingsGrow
<1>10. /\ a \in Activation /\ a.query = q /\ a.since = p.since /\ a.phase = "run"
       /\ a.reads = rs /\ a.seen = ss
  BY <1>1, <1>9 DEF Activation
<1>11. Resume(a)
  BY DEF ReturnToBody
<1>12. \A k \in 1..(n + 1) : entries[rs[k]].verified = revision /\ ss[k] = value[rs[k]]
  <2> TAKE k \in 1..(n + 1)
  <2>1. CASE k = n + 1
    BY <2>1, <1>2, <1>3, <1>9
  <2>2. CASE k # n + 1
    <3>1. k \in 1..n
      BY <2>2, <1>6
    <3> QED BY <3>1, <1>5, <1>9
  <2> QED BY <2>1, <2>2
<1> HIDE DEF a, ss, rs, n, got
<1>13. ActivationOK(a)
  <2>1. Len(a.reads) = Len(a.seen)
    BY <1>2, <1>9, <1>10
  <2> QED BY <2>1, <1>2, <1>5, <1>9, <1>10, <1>12 DEF ActivationOK
<1> QED BY <1>1, <1>2, <1>9, <1>10, <1>11, <1>13, ReturnStep DEF ReturnToBody

LEMMA ReturnToCallerKeeps == ASSUME IInv, ReturnToCaller PROVE IInv'
<1>1. stack # <<>>
  BY EmptySeq DEF ReturnToCaller, Depth
<1>2. /\ Top.query \in Queries /\ entries[Top.query].verified = revision
  BY <1>1, TopFacts DEF ActivationOK, ReturnToCaller
<1>3. value[Top.query] \in Values
  BY <1>2, VerifiedHasValue DEF IInv, TypeOK
<1>4. stack' = <<>> /\ stack' \in Seq(Activation) /\ Len(stack') = 0
  BY EmptySeq DEF ReturnToCaller
<1>5. TypeOK'
  BY <1>2, <1>3, <1>4 DEF ReturnToCaller, IInv, TypeOK
<1>6. StackOK'
  BY <1>4 DEF StackOK, Depth
<1>7. \A p \in Queries : MemoOf(p)'
  BY Unmoved DEF IInv, ReturnToCaller
<1> QED BY <1>5, <1>6, <1>7 DEF IInv

LEMMA DemandKeeps == ASSUME IInv, NEW q \in Queries, Demand(q) PROVE IInv'
<1>1. Call(q, 0) \in Activation /\ ActivationOK(Call(q, 0)) /\ Call(q, 0).phase = "enter"
  BY CallFacts
<1>2. PICK c : c = Call(q, 0)
  OBVIOUS
<1>3. stack' = <<c>> /\ stack' \in Seq(Activation) /\ Len(stack') = 1 /\ stack'[1] = c
  BY <1>1, <1>2 DEF Demand
<1>4. UNCHANGED <<revision, entries, value>>
  BY DEF Demand
<1>5. \A i \in 1..1 : ActivationOK(stack[i])'
  <2>1. ActivationOK(c)'
    BY <1>1, <1>2, <1>4, Unmoved
  <2> QED BY <2>1, <1>3, Judged
<1>6. StackOK'
  BY <1>1, <1>2, <1>3, <1>5 DEF StackOK, Depth, Top
<1>7. TypeOK'
  BY <1>3 DEF Demand, IInv, TypeOK
<1>8. \A p \in Queries : MemoOf(p)'
  BY <1>4, Unmoved DEF IInv
<1> QED BY <1>6, <1>7, <1>8 DEF IInv

LEMMA SetInputKeeps ==
  ASSUME IInv, NEW i \in Inputs, NEW v \in Values, SetInput(i, v) PROVE IInv'
<1>1. /\ TypeOK /\ i \in Queries /\ revision \in Nat /\ entries[i] \in Entry
      /\ MemoOf(i) /\ entries \in [Queries -> Entry]
  BY DEF IInv, TypeOK
<1> DEFINE e == [changed |-> revision + 1, verified |-> revision + 1, deps |-> entries[i].deps]
<1>2. /\ e \in Entry /\ e.changed = revision + 1 /\ e.verified = revision + 1
      /\ e.deps = entries[i].deps
  BY <1>1 DEF Entry
<1>3. /\ revision' = revision + 1 /\ entries' = [entries EXCEPT ![i] = e]
      /\ value' = [value EXCEPT ![i] = v] /\ stack' = <<>> /\ answer' = Idle
      /\ revision < MaxRevision
  BY DEF SetInput, InputEntry
<1> HIDE DEF e
<1>4. /\ entries'[i] = e /\ value'[i] = v
      /\ \A p \in Queries : p # i => entries'[p] = entries[p] /\ value'[p] = value[p]
  BY <1>1, <1>3 DEF TypeOK
<1>5. TypeOK'
  <2>1. /\ entries' \in [Queries -> Entry] /\ value' \in [Queries -> Values \cup {NoValue}]
        /\ revision' \in 1..MaxRevision
        /\ \A j \in Inputs : value'[j] \in Values
    BY <1>1, <1>2, <1>3 DEF TypeOK
  <2>2. stack' \in Seq(Activation)
    BY <1>3, EmptySeq
  <2>3. \A p \in Queries : entries'[p].changed <= entries'[p].verified
                          /\ entries'[p].verified <= revision'
    <3> TAKE p \in Queries
    <3>1. /\ entries[p].changed <= entries[p].verified /\ entries[p].verified <= revision
          /\ entries[p].verified \in Nat
      BY <1>1 DEF TypeOK, Entry
    <3> QED BY <3>1, <1>1, <1>2, <1>3, <1>4
  <2> QED BY <2>1, <2>2, <2>3, <1>3 DEF TypeOK
<1>6. \A p \in Queries : MemoOf(p)'
  <2> TAKE p \in Queries
  <2>1. PICK ds : ds = entries[p].deps
    OBVIOUS
  <2>2. /\ MemoOf(p) /\ entries[p] \in Entry /\ entries'[p].deps = ds
        /\ ds \in Seq(Queries) /\ Len(ds) \in Nat /\ \A k \in 1..Len(ds) : ds[k] \in Queries
    <3>1. MemoOf(p) /\ entries[p] \in Entry
      BY <1>1 DEF IInv
    <3>2. ds \in Seq(Queries) /\ entries'[p].deps = ds
      BY <3>1, <2>1, <1>1, <1>2, <1>4 DEF Entry
    <3> QED BY <3>1, <3>2, LenProperties
  <2>3. CASE p = i
    <3>1. ds = <<>>
      BY <2>1, <2>2, <2>3 DEF MemoOf
    <3> QED BY <3>1, <2>2, <2>3 DEF MemoOf
  <2>4. CASE p # i
    <3>1. entries'[p] = entries[p] /\ value'[p] = value[p]
      BY <2>4, <1>4
    <3>2. \A k \in 1..Len(ds) : Rank(ds[k]) < Rank(p)
                               /\ entries'[ds[k]].verified >= entries[p].verified
      <4> TAKE k \in 1..Len(ds)
      <4>1. /\ Rank(ds[k]) < Rank(p) /\ entries[ds[k]].verified >= entries[p].verified
            /\ entries[p].verified <= revision /\ entries[p].verified \in Nat
        BY <2>1, <2>2, <1>1 DEF MemoOf, TypeOK, Entry
      <4>2. ds[k] \in Queries
        BY <2>2
      <4> QED BY <4>1, <4>2, <1>1, <1>2, <1>4
    <3>3. ASSUME p \notin Inputs, entries[p].verified > 0, NEW k \in 1..(Len(ds) + 1),
                 \A j \in 1..(k - 1) : entries'[ds[j]].changed <= entries[p].verified
          PROVE  IF k <= Len(ds)
                   THEN ds[k] = NextRead(p, SeenBefore(ds, k)')
                   ELSE /\ NextRead(p, SeenBefore(ds, k)') = Done
                        /\ value[p] = Result(p, SeenBefore(ds, k)')
      <4>1. \A j \in 1..(k - 1) : entries'[ds[j]] = entries[ds[j]] /\ value'[ds[j]] = value[ds[j]]
        <5> TAKE j \in 1..(k - 1)
        <5>1. ds[j] \in Queries
          BY <2>2
        <5>2. ds[j] # i
          <6>1. entries'[ds[j]].changed <= entries[p].verified
            BY <3>3
          <6>2. entries[p].verified <= revision /\ entries[p].verified \in Nat
            BY <1>1, <2>2 DEF TypeOK, Entry
          <6> QED BY <6>1, <6>2, <1>1, <1>2, <1>4
        <5> QED BY <5>1, <5>2, <1>4
      <4>2. SeenBefore(ds, k)' = SeenBefore(ds, k)
        BY <4>1 DEF SeenBefore
      <4>3. \A j \in 1..(k - 1) : entries[ds[j]].changed <= entries[p].verified
        BY <4>1, <3>3
      <4> QED BY <4>2, <4>3, <3>3, <2>1, <2>2 DEF MemoOf
    <3>4. /\ p \in Inputs => ds = <<>>
          /\ p \notin Inputs /\ entries[p].verified > 0 => value[p] \in Values /\ Len(ds) <= MaxReads
      BY <2>1, <2>2 DEF MemoOf
    <3> QED BY <2>2, <3>1, <3>2, <3>3, <3>4 DEF MemoOf
  <2> QED BY <2>3, <2>4
<1>7. StackOK'
  <2>1. Len(stack') = 0
    BY <1>3, EmptySeq
  <2> QED BY <1>3, <2>1 DEF StackOK, Depth
<1> QED BY <1>5, <1>6, <1>7 DEF IInv
------------------------------------------------------------------------------
(* The theorems.                                                           *)

LEMMA InitEstablishes == ASSUME Init PROVE IInv
<1>1. /\ stack = <<>> /\ stack \in Seq(Activation) /\ Len(stack) = 0
      /\ <<>> \in Seq(Queries)
  BY EmptySeq DEF Init
<1>2. TypeOK
  <2>1. /\ revision \in 1..MaxRevision
        /\ value \in [Queries -> Values \cup {NoValue}]
        /\ \A i \in Inputs : value[i] \in Values
    <3>1. revision = 1 /\ 1 \in 1..MaxRevision
      BY DEF Init
    <3>2. /\ value \in [Queries -> Values \cup {NoValue}]
          /\ \A i \in Inputs : value[i] = Unset
      BY DEF Init
    <3> QED BY <3>1, <3>2
  <2>2. /\ entries \in [Queries -> Entry]
        /\ \A q \in Queries : entries[q].changed = 0 /\ entries[q].verified = 0
    BY <1>1 DEF Init, Entry
  <2>3. \A q \in Queries : /\ entries[q].changed <= entries[q].verified
                          /\ entries[q].verified <= revision
    <3>1. 0 <= 0 /\ 0 <= revision
      BY DEF Init
    <3> QED BY <3>1, <2>2
  <2> QED BY <1>1, <2>1, <2>2, <2>3 DEF Init, TypeOK
<1>3. StackOK
  BY <1>1 DEF StackOK, Depth
<1>4. \A q \in Queries : MemoOf(q)
  <2> TAKE q \in Queries
  <2>1. entries[q].deps = <<>> /\ entries[q].verified = 0
    BY DEF Init
  <2> QED BY <2>1 DEF MemoOf
<1> QED BY <1>2, <1>3, <1>4 DEF IInv

LEMMA NextKeeps == ASSUME IInv, [Next]_vars PROVE IInv'
<1>1. ASSUME NEW i \in Inputs, NEW v \in Values, SetInput(i, v) PROVE IInv'
  BY <1>1, SetInputKeeps
<1>2. ASSUME NEW q \in Queries, Demand(q) PROVE IInv'
  BY <1>2, DemandKeeps
<1>3. CASE EnterFirst
  BY <1>3, EnterFirstKeeps
<1>4. CASE EnterCurrent
  BY <1>4, EnterCurrentKeeps
<1>5. CASE EnterWalk
  BY <1>5, EnterWalkKeeps
<1>6. CASE WalkDependency
  BY <1>6, WalkDependencyKeeps
<1>7. CASE WalkClean
  BY <1>7, WalkCleanKeeps
<1>8. CASE Read
  BY <1>8, ReadKeeps
<1>9. CASE Finish
  BY <1>9, FinishKeeps
<1>10. CASE ReturnToWalk
  BY <1>10, ReturnToWalkKeeps
<1>11. CASE ReturnToBody
  BY <1>11, ReturnToBodyKeeps
<1>12. CASE ReturnToCaller
  BY <1>12, ReturnToCallerKeeps
<1>13. CASE UNCHANGED vars
  <2>1. UNCHANGED <<revision, entries, value, stack, answer>>
    BY <1>13 DEF vars
  <2>2. TypeOK'
    BY <2>1 DEF IInv, TypeOK
  <2>3. \A q \in Queries : MemoOf(q)'
    BY <2>1, Unmoved DEF IInv
  <2>4. Depth' = Depth /\ Top' = Top /\ stack' = stack
    BY <2>1 DEF Depth, Top
  <2>5. StackOK'
    <3>1. \A i \in 1..Depth : ActivationOK(stack[i])'
      <4> TAKE i \in 1..Depth
      <4>1. PICK x : x = stack'[i]
        OBVIOUS
      <4>2. ActivationOK(x)
        BY <4>1, <2>4 DEF IInv, StackOK
      <4> QED BY <4>1, <4>2, <2>1, Unmoved, Judged
    <3>2. \A i \in 1..(Depth - 1) : Waits(stack[i], stack[i + 1])'
      BY <2>1 DEF Waits, IInv, StackOK
    <3> QED BY <3>1, <3>2, <2>4 DEF IInv, StackOK
  <2> QED BY <2>2, <2>3, <2>5 DEF IInv
<1> QED
  BY <1>1, <1>2, <1>3, <1>4, <1>5, <1>6, <1>7, <1>8, <1>9, <1>10, <1>11, <1>12, <1>13 DEF Next

\* The engine's records stay what the invariant says whatever is edited and
\* asked, in whatever order.
THEOREM Inductive == Spec => []IInv
<1>1. Init => IInv
  BY InitEstablishes
<1>2. IInv /\ [Next]_vars => IInv'
  BY NextKeeps
<1> QED BY <1>1, <1>2, PTL DEF Spec

\* Every field of the engine's state has the type its declaration gives it, and
\* changed_at <= verified_at <= revision throughout.
THEOREM TypeCorrect == Spec => []TypeOK
<1>1. IInv => TypeOK
  BY DEF IInv
<1> QED BY <1>1, Inductive, PTL

\* A memo that the engine calls current is what its body would compute now.
THEOREM MemosAreRight == Spec => []VerifiedIsRight
<1>1. IInv => VerifiedIsRight
  <2> SUFFICES ASSUME IInv, NEW q \in Queries \ Inputs, entries[q].verified = revision
               PROVE  /\ Memoized(q)
                      /\ \A k \in 1..Len(entries[q].deps) :
                           entries[entries[q].deps[k]].verified = revision
    BY DEF VerifiedIsRight
  <2> DEFINE ds == entries[q].deps
  <2>1. /\ TypeOK /\ MemoOf(q) /\ entries[q] \in Entry /\ revision \in Nat \ {0}
    BY DEF IInv, TypeOK
  <2>2. Len(ds) \in Nat /\ \A k \in 1..Len(ds) : ds[k] \in Queries
    BY <2>1, LenProperties DEF Entry
  <2>3. \A k \in 1..Len(ds) : /\ entries[ds[k]].verified = revision
                             /\ entries[ds[k]].changed <= revision
    <3> TAKE k \in 1..Len(ds)
    <3>1. ds[k] \in Queries /\ entries[ds[k]].verified >= revision
      BY <2>1, <2>2 DEF MemoOf
    <3>2. /\ entries[ds[k]].verified <= revision
          /\ entries[ds[k]].changed <= entries[ds[k]].verified
          /\ entries[ds[k]].verified \in Nat /\ entries[ds[k]].changed \in Nat
      BY <2>1, <3>1 DEF TypeOK, Entry
    <3> QED BY <3>1, <3>2, <2>1
  <2>4. \A k \in 1..(Len(ds) + 1) :
          IF k <= Len(ds)
            THEN ds[k] = NextRead(q, SeenBefore(ds, k))
            ELSE /\ NextRead(q, SeenBefore(ds, k)) = Done
                 /\ value[q] = Result(q, SeenBefore(ds, k))
    BY <2>1, <2>2, <2>3 DEF MemoOf
  <2>5. Memoized(q)
    BY <2>2, <2>4 DEF Memoized
  <2> QED BY <2>3, <2>5
<1> QED BY <1>1, Inductive, PTL

\* No query is entered while it is in progress, and none is walked or run that
\* this revision has verified already.
THEOREM NoSecondRun == Spec => []RunsOncePerRevision
<1>1. IInv => RunsOncePerRevision
  <2> SUFFICES ASSUME IInv PROVE RunsOncePerRevision
    OBVIOUS
  <2>1. Depth \in Nat /\ \A i \in 1..Depth : /\ stack[i] \in Activation /\ ActivationOK(stack[i])
                                            /\ Rank(stack[i].query) \in Nat
    <3>1. Depth \in Nat /\ \A i \in 1..Depth : stack[i] \in Activation
      BY LenProperties DEF IInv, TypeOK, Depth
    <3>2. \A i \in 1..Depth : stack[i].query \in Queries
      BY <3>1 DEF Activation
    <3> QED BY <3>1, <3>2 DEF IInv, StackOK
  <2>2. \A i, j \in 1..Depth : i # j => stack[i].query # stack[j].query
    <3> TAKE i, j \in 1..Depth
    <3> HAVE i # j
    <3>1. i < j \/ j < i
      BY <2>1
    <3>2. \/ Rank(stack[j].query) < Rank(stack[i].query)
          \/ Rank(stack[i].query) < Rank(stack[j].query)
      BY <3>1 DEF IInv, StackOK
    <3> QED BY <3>2, <2>1
  <2>3. \A i \in 1..Depth : stack[i].phase \in {"walk", "run"} =>
          entries[stack[i].query].verified < revision
    BY <2>1 DEF ActivationOK
  <2> QED BY <2>2, <2>3 DEF RunsOncePerRevision
<1> QED BY <1>1, Inductive, PTL
------------------------------------------------------------------------------
(* The engine implements the oracle.                                       *)

\* The part of the table that is verified now explains itself: it is closed
\* under what bodies read, and every value in it is the one its body produces.
LEMMA VerifiedExplains ==
  ASSUME IInv, VerifiedIsRight
  PROVE  LET S == {q \in Queries : entries[q].verified = revision}
             truth == [q \in S |-> value[q]]
         IN  truth \in [S -> Values] /\ Oracle!Explains(truth, InputValues)
<1> DEFINE S == {q \in Queries : entries[q].verified = revision}
           truth == [q \in S |-> value[q]]
<1>1. truth \in [S -> Values]
  <2> SUFFICES ASSUME NEW q \in S PROVE value[q] \in Values
    OBVIOUS
  <2>1. entries[q].verified > 0
    BY DEF IInv, TypeOK
  <2> QED BY <2>1, VerifiedHasValue
<1>2. ASSUME NEW q \in S
      PROVE  IF q \in Inputs
               THEN truth[q] = InputValues[q]
               ELSE \E seen \in Readings :
                      Oracle!RunsTo(q, truth, seen) /\ truth[q] = Result(q, seen)
  <2>1. CASE q \in Inputs
    BY <2>1 DEF InputValues
  <2>2. CASE q \notin Inputs
    <3> DEFINE ds == entries[q].deps
               seen == SeenBefore(ds, Len(ds) + 1)
    <3>1. /\ entries[q] \in Entry /\ MemoOf(q) /\ entries[q].verified = revision
          /\ entries[q].verified > 0 /\ TypeOK
      BY DEF IInv, TypeOK
    <3>2. /\ ds \in Seq(Queries) /\ Len(ds) \in Nat
          /\ \A k \in 1..Len(ds) : ds[k] \in Queries
      BY <3>1, LenProperties DEF Entry
    <3>3. Memoized(q) /\ \A k \in 1..Len(ds) : entries[ds[k]].verified = revision
      BY <2>2 DEF VerifiedIsRight
    <3>4. Len(ds) <= MaxReads
      BY <2>2, <3>1 DEF MemoOf
    <3>5. \A k \in 1..Len(ds) : ds[k] \in S /\ value[ds[k]] \in Values
      BY <3>2, <3>3, <1>1
    <3>6. seen \in Readings /\ Len(seen) = Len(ds)
      <4>1. \A j \in 1..(Len(ds) + 1 - 1) : value[ds[j]] \in Values
        BY <3>2, <3>5
      <4>2. PICK k : k = Len(ds) + 1
        OBVIOUS
      <4>3. k \in 1..(Len(ds) + 1) /\ k - 1 <= MaxReads /\ k - 1 = Len(ds)
        BY <3>2, <3>4, <4>2
      <4>4. SeenBefore(ds, k) \in Readings /\ Len(SeenBefore(ds, k)) = k - 1
        <5> HIDE DEF ds
        <5> QED BY <3>1, <3>2, <4>1, <4>2, <4>3, SeenIsReading
      <4> QED BY <4>2, <4>3, <4>4
    <3>7. \A k \in 1..Len(ds) : seen[k] = truth[ds[k]]
      BY <3>2, <3>5 DEF SeenBefore
    <3>8. \A k \in 1..Len(ds) : SubSeq(seen, 1, k - 1) = SeenBefore(ds, k)
      <4>1. PICK l : l = Len(ds) + 1
        OBVIOUS
      <4>2. l \in Nat /\ \A k \in 1..Len(ds) : k \in 1..l
        BY <3>2, <4>1
      <4>3. \A j \in 1..(l - 1) : value[ds[j]] \in Values
        BY <3>2, <3>5, <4>1
      <4>4. \A k \in 1..l : SubSeq(SeenBefore(ds, l), 1, k - 1) = SeenBefore(ds, k)
        <5> HIDE DEF ds
        <5> QED  BY <4>2, <4>3, SeenPrefix
      <4> QED  BY <4>1, <4>2, <4>4
    <3>9. /\ NextRead(q, seen) = Done /\ value[q] = Result(q, seen)
          /\ \A k \in 1..Len(ds) : ds[k] = NextRead(q, SubSeq(seen, 1, k - 1))
      BY <3>3, <3>8 DEF Memoized
    <3> HIDE DEF seen, ds
    <3>10. DOMAIN truth = S /\ truth[q] = value[q]
      OBVIOUS
    <3> HIDE DEF truth, S
    <3>11. Oracle!RunsTo(q, truth, seen)
      BY <3>5, <3>6, <3>7, <3>9, <3>10 DEF Oracle!RunsTo, Oracle!Sees
    <3> QED BY <2>2, <3>6, <3>9, <3>10, <3>11
  <2> QED BY <2>1, <2>2
<1>3. DOMAIN truth = S
  OBVIOUS
<1>4. Oracle!Readings = Readings
  BY DEF Oracle!Readings, Readings
<1> HIDE DEF truth, S
<1>5. Oracle!Explains(truth, InputValues)
  BY <1>2, <1>3, <1>4 DEF Oracle!Explains
<1> QED BY <1>1, <1>5 DEF truth, S

\* Every answer the engine gives, however much of it was remembered, is one the
\* oracle gives: the value the query has over the inputs as they are now.
THEOREM ImplementsOracle == Spec => OracleSpec
<1>1. Init => Oracle!Init
  BY DEF Init, Oracle!Init, InputValues
<1>2. ASSUME IInv, VerifiedIsRight, [Next]_vars PROVE [Oracle!Next]_(Oracle!vars)
  <2> SUFFICES Oracle!Next \/ UNCHANGED <<InputValues, IF stack = <<>> THEN Idle ELSE stack[1].query, answer>>
    BY DEF Oracle!vars
  <2>a. TypeOK
    BY <1>2 DEF IInv
  <2>1. ASSUME NEW i \in Inputs, NEW v \in Values, SetInput(i, v) PROVE Oracle!SetInput(i, v)
    <3>1. InputValues' = [InputValues EXCEPT ![i] = v]
      BY <2>1, <2>a DEF SetInput, InputValues, TypeOK
    <3> QED BY <2>1, <3>1 DEF SetInput, Oracle!SetInput
  <2>2. ASSUME NEW q \in Queries, Demand(q) PROVE Oracle!Ask(q)
    <3>1. stack' = <<Call(q, 0)>> /\ stack' # <<>> /\ stack'[1].query = q
      <4>1. stack' = <<Call(q, 0)>>
        BY <2>2 DEF Demand
      <4> QED BY <4>1 DEF Call
    <3> QED BY <2>2, <3>1 DEF Demand, Oracle!Ask, InputValues
  <2>3. ASSUME ReturnToCaller PROVE Oracle!Answer
    <3> DEFINE S == {q \in Queries : entries[q].verified = revision}
               truth == [q \in S |-> value[q]]
    <3>1. stack # <<>> /\ Depth = 1 /\ Top = stack[1]
      BY <2>3, EmptySeq DEF ReturnToCaller, Depth, Top
    <3>2. stack[1].query \in S /\ stack[1].query # Idle
      BY <1>2, <2>3, <3>1, TopFacts DEF ActivationOK, ReturnToCaller
    <3>3. truth \in [S -> Values] /\ Oracle!Explains(truth, InputValues) /\ S \in SUBSET Queries
      BY <1>2, VerifiedExplains
    <3>4. answer' = [query |-> stack[1].query, value |-> truth[stack[1].query]]
      BY <2>3, <3>1, <3>2 DEF ReturnToCaller
    <3>5. stack' = <<>> /\ InputValues' = InputValues
      BY <2>3 DEF ReturnToCaller, InputValues
    <3> HIDE DEF truth, S
    <3> QED BY <3>1, <3>2, <3>3, <3>4, <3>5 DEF Oracle!Answer
  <2>4. ASSUME Continues, answer' = answer, InputValues' = InputValues
        PROVE  UNCHANGED <<InputValues, IF stack = <<>> THEN Idle ELSE stack[1].query, answer>>
    BY <2>4 DEF Continues
  <2>5. CASE EnterFirst \/ EnterCurrent \/ EnterWalk
    <3>1. Continues
      BY <1>2, <2>5, EnterFirstKeeps, EnterCurrentKeeps, EnterWalkKeeps
    <3>2. answer' = answer /\ InputValues' = InputValues
      BY <2>5 DEF EnterFirst, EnterCurrent, EnterWalk, InputValues
    <3> QED BY <3>1, <3>2, <2>4
  <2>6. CASE WalkDependency \/ Read
    <3>1. Continues
      BY <1>2, <2>6, WalkDependencyKeeps, ReadKeeps
    <3>2. answer' = answer /\ InputValues' = InputValues
      BY <2>6 DEF WalkDependency, Read, InputValues
    <3> QED BY <3>1, <3>2, <2>4
  <2>7. CASE WalkClean \/ Finish
    <3>1. Continues
      BY <1>2, <2>7, WalkCleanKeeps, FinishKeeps
    <3>2. answer' = answer
      BY <2>7 DEF WalkClean, Finish
    <3>3. \A i \in Inputs : value'[i] = value[i]
      BY <2>7, <2>a DEF WalkClean, Finish, TypeOK
    <3>4. InputValues' = InputValues
      BY <3>3 DEF InputValues
    <3> QED BY <3>1, <3>2, <3>4, <2>4
  <2>8. CASE ReturnToWalk \/ ReturnToBody
    <3>1. Continues
      BY <1>2, <2>8, ReturnToWalkKeeps, ReturnToBodyKeeps
    <3>2. answer' = answer /\ InputValues' = InputValues
      BY <2>8 DEF ReturnToWalk, ReturnToBody, InputValues
    <3> QED BY <3>1, <3>2, <2>4
  <2>9. CASE UNCHANGED vars
    BY <2>9 DEF vars, InputValues
  <2> QED BY <1>2, <2>1, <2>2, <2>3, <2>5, <2>6, <2>7, <2>8, <2>9 DEF Next, Oracle!Next
<1> QED BY <1>1, <1>2, Inductive, MemosAreRight, PTL DEF Spec, OracleSpec, Oracle!Spec
------------------------------------------------------------------------------
(* Nothing is looked into that is not needed.                              *)

\* Both modules speak of the same bodies.
LEMMA SameExplanations ==
  ASSUME NEW truth, NEW input, Oracle!Explains(truth, input)
  PROVE  Explains(truth, input)
<1>1. \A q, seen : Oracle!RunsTo(q, truth, seen) <=> RunsTo(q, truth, seen)
  BY DEF Oracle!RunsTo, RunsTo, Oracle!Sees, Sees
<1>2. Oracle!Readings = Readings
  BY DEF Oracle!Readings, Readings
<1> QED  BY <1>1, <1>2 DEF Oracle!Explains, Explains

\* A read that follows reads of what is verified now, each of them the one the
\* body makes there, is one that the body makes when nothing is remembered.
LEMMA ReadIsFresh ==
  ASSUME IInv, VerifiedIsRight, NEW q \in Queries, q \notin Inputs,
         NEW ds \in Seq(Queries), NEW k \in 1..Len(ds), k - 1 <= MaxReads,
         \A j \in 1..k : ds[j] = NextRead(q, SeenBefore(ds, j)),
         \A j \in 1..(k - 1) : entries[ds[j]].verified = revision
  PROVE  <<InputValues, q, ds[k]>> \in FreshReads
<1>1. PICK S, truth : /\ S = {p \in Queries : entries[p].verified = revision}
                      /\ truth = [p \in S |-> value[p]]
  OBVIOUS
<1>2. truth \in [S -> Values] /\ Explains(truth, InputValues) /\ S \in SUBSET Queries
  BY <1>1, VerifiedExplains, SameExplanations
<1>3. \A j \in 1..Len(ds) : ds[j] \in Queries
  BY LenProperties
<1>4. \A j \in 1..(k - 1) : ds[j] \in S /\ truth[ds[j]] = value[ds[j]] /\ value[ds[j]] \in Values
  <2> TAKE j \in 1..(k - 1)
  <2>1. ds[j] \in S
    BY <1>1, <1>3
  <2>2. truth[ds[j]] = value[ds[j]]
    BY <1>1, <2>1
  <2> QED  BY <1>2, <2>1, <2>2
<1>5. SeenBefore(ds, k) \in Readings /\ Len(SeenBefore(ds, k)) = k - 1
  BY <1>4, SeenIsReading DEF IInv
<1>6. \A j \in 1..k : SubSeq(SeenBefore(ds, k), 1, j - 1) = SeenBefore(ds, j)
  BY <1>4, SeenPrefix
<1>7. \A j \in 1..(k - 1) : SeenBefore(ds, k)[j] = value[ds[j]]
  BY DEF SeenBefore
<1>8. ASSUME NEW j \in 1..(k - 1)
      PROVE  LET r == NextRead(q, SubSeq(SeenBefore(ds, k), 1, j - 1))
             IN  r \in DOMAIN truth /\ SeenBefore(ds, k)[j] = truth[r]
  <2>1. j \in 1..k
    OBVIOUS
  <2>2. NextRead(q, SubSeq(SeenBefore(ds, k), 1, j - 1)) = ds[j]
    BY <1>6, <2>1
  <2> QED  BY <1>2, <1>4, <1>7, <2>2
<1>9. Sees(q, truth, SeenBefore(ds, k)) /\ NextRead(q, SeenBefore(ds, k)) = ds[k]
  BY <1>5, <1>8 DEF Sees
<1>10. InputValues \in [Inputs -> Values]
  BY DEF InputValues, IInv, TypeOK
<1>11. PICK c : c = <<InputValues, q, ds[k]>>
  OBVIOUS
<1>12. c \in Inquiries /\ c[1] = InputValues /\ c[2] = q /\ c[3] = ds[k]
  BY <1>3, <1>10, <1>11 DEF Inquiries
<1>13. \E seen \in Readings : Sees(c[2], truth, seen) /\ NextRead(c[2], seen) = c[3]
  BY <1>5, <1>9, <1>12
<1> QED  BY <1>2, <1>11, <1>12, <1>13 DEF FreshReads

\* Who waits, be it for a walk or for its body, waits for such a read.
LEMMA WaitsForRead ==
  ASSUME IInv, VerifiedIsRight, NEW i \in 1..(Depth - 1)
  PROVE  <<InputValues, stack[i].query, stack[i + 1].query>> \in FreshReads
<1>1. PICK a, b : a = stack[i] /\ b = stack[i + 1]
  OBVIOUS
<1>2. Depth \in Nat /\ a \in Activation /\ ActivationOK(a) /\ Waits(a, b)
  BY <1>1, LenProperties DEF IInv, TypeOK, StackOK, Depth
<1>3. PICK q, e : q = a.query /\ e = entries[q]
  OBVIOUS
<1>4. q \in Queries /\ e \in Entry /\ MemoOf(q)
  BY <1>2, <1>3 DEF Activation, IInv, TypeOK
<1>5. CASE a.phase = "walk"
  <2>1. PICK ds, k : ds = e.deps /\ k = a.at + 1
    OBVIOUS
  <2>2. ds \in Seq(Queries) /\ a.at \in Nat /\ Len(ds) \in Nat
    BY <1>2, <1>4, <2>1, LenProperties DEF Entry, Activation
  <2>3. /\ 0 < e.verified /\ a.at < Len(ds) /\ b.query = ds[k]
        /\ \A j \in 1..a.at : entries[ds[j]].verified = revision
                             /\ entries[ds[j]].changed <= e.verified
    BY <1>2, <1>3, <1>5, <2>1 DEF ActivationOK, Waits
  <2>a. PICK at, m : at = a.at /\ m = Len(ds)
    OBVIOUS
  <2>b. at \in Nat /\ m \in Nat /\ at < m /\ k = at + 1
    BY <2>1, <2>2, <2>3, <2>a
  <2>c. k \in 1..m /\ k - 1 = at
    BY <2>b
  <2>4. k \in 1..Len(ds) /\ k - 1 = a.at
    BY <2>a, <2>c
  <2>5. q \notin Inputs
    BY <1>3, <1>4, <2>1, <2>2, <2>3, EmptySeq DEF MemoOf
  <2>6. /\ Len(ds) <= MaxReads
        /\ \A l \in 1..(Len(ds) + 1) :
             (\A j \in 1..(l - 1) : entries[ds[j]].changed <= e.verified) =>
               (l <= Len(ds) => ds[l] = NextRead(q, SeenBefore(ds, l)))
    BY <1>3, <1>4, <2>1, <2>3, <2>5 DEF MemoOf
  <2>7. \A l \in 1..k : ds[l] = NextRead(q, SeenBefore(ds, l))
    <3> TAKE l \in 1..k
    <3>1. l \in 1..(Len(ds) + 1) /\ l <= Len(ds) /\ \A j \in 1..(l - 1) : j \in 1..a.at
      BY <2>2, <2>4
    <3> QED  BY <2>3, <2>6, <3>1
  <2>8. k - 1 <= MaxReads
    BY <2>2, <2>4, <2>6
  <2>9. <<InputValues, q, ds[k]>> \in FreshReads
    BY <1>4, <2>2, <2>3, <2>4, <2>5, <2>7, <2>8, ReadIsFresh
  <2> QED  BY <1>1, <1>3, <2>3, <2>9
<1>6. CASE a.phase = "run"
  <2>1. PICK ds, k : ds = a.reads /\ k = Len(a.reads)
    OBVIOUS
  <2>2. ds \in Seq(Queries) /\ k \in Nat /\ k = Len(ds) /\ a.seen \in Readings
    BY <1>2, <2>1, LenProperties DEF Activation
  <2>3. /\ k = Len(a.seen) + 1 /\ b.query = ds[k]
        /\ q \in Inputs => ds = <<>>
        /\ \A j \in 1..k : ds[j] = NextRead(q, SeenBefore(ds, j))
        /\ \A j \in 1..Len(a.seen) : entries[ds[j]].verified = revision
    BY <1>2, <1>3, <1>6, <2>1 DEF ActivationOK, Waits
  <2>4. Len(a.seen) \in 0..MaxReads
    BY <2>2, ReadingsAreSeqs
  <2>5. k \in 1..Len(ds) /\ k - 1 = Len(a.seen) /\ k - 1 <= MaxReads
    BY <2>2, <2>3, <2>4
  <2>6. q \notin Inputs
    <3>1. ds # <<>>
      BY <2>5, EmptySeq
    <3> QED  BY <2>3, <3>1
  <2>7. <<InputValues, q, ds[k]>> \in FreshReads
    BY <1>4, <2>2, <2>3, <2>5, <2>6, ReadIsFresh
  <2> QED  BY <1>1, <1>3, <2>3, <2>7
<1> QED  BY <1>2, <1>5, <1>6 DEF Waits

\* What is asked for is needed, and so is what something needed reads.
LEMMA NeededCloses ==
  ASSUME NEW input \in [Inputs -> Values], NEW q \in Queries
  PROVE  /\ <<input, q, q>> \in Needed
         /\ \A p, r \in Queries : <<input, q, p>> \in Needed /\ <<input, p, r>> \in FreshReads
              => <<input, q, r>> \in Needed
<1>1. ASSUME NEW r \in Queries
      PROVE  /\ <<input, q, r>> \in Inquiries
             /\ <<input, q, r>>[1] = input /\ <<input, q, r>>[2] = q /\ <<input, q, r>>[3] = r
  BY DEF Inquiries
<1> QED  BY <1>1 DEF Needed

\* Every call in progress, however deep below walks and bodies, is one that
\* computing the answer from nothing would make (engine.pony:83-101).
THEOREM NothingElseIsLookedInto == Spec => []OnlyWhatIsNeeded
<1>1. ASSUME IInv, VerifiedIsRight PROVE OnlyWhatIsNeeded
  <2> DEFINE Strays == {i \in Nat : i \in 1..Depth /\ <<InputValues, stack[1].query, stack[i].query>> \notin Needed}
             R == {ss \in Nat \X Nat : ss[1] < ss[2]}
  <2>1. Depth \in Nat /\ \A i \in 1..Depth : stack[i].query \in Queries
    <3>1. Depth \in Nat /\ \A i \in 1..Depth : stack[i] \in Activation
      BY <1>1, LenProperties DEF IInv, TypeOK, Depth
    <3> QED  BY <3>1 DEF Activation
  <2>2. InputValues \in [Inputs -> Values]
    BY <1>1 DEF InputValues, IInv, TypeOK
  <2>3. SUFFICES ASSUME Strays # {} PROVE FALSE
    BY <2>1 DEF OnlyWhatIsNeeded
  <2>4. IsWellFoundedOn(R, Nat)
    BY NatLessThanWellFounded DEF OpToRel
  <2>5. Strays \subseteq Nat
    OBVIOUS
  <2>6. PICK i \in Strays : \A j \in Strays : ~(<<j, i>> \in R)
    <3> HIDE DEF Strays, R
    <3> QED  BY <2>3, <2>4, <2>5, WFMin
  <2>7. i # 1
    BY <2>1, <2>2, NeededCloses
  <2>8. i \in 1..Depth /\ i - 1 \in 1..(Depth - 1) /\ i - 1 \in 1..Depth /\ i - 1 \in Nat /\ i - 1 + 1 = i
    BY <2>1, <2>7
  <2>9. i - 1 \notin Strays
    <3>1. <<i - 1, i>> \in R
      BY <2>8
    <3> HIDE DEF Strays, R
    <3> QED  BY <2>6, <3>1
  <2>10. PICK j : j = i - 1
    OBVIOUS
  <2>11. <<InputValues, stack[1].query, stack[j].query>> \in Needed
    BY <2>8, <2>9, <2>10
  <2>12. <<InputValues, stack[j].query, stack[i].query>> \in FreshReads
    BY <1>1, <2>8, <2>10, WaitsForRead
  <2>13. 1 \in 1..Depth
    BY <2>1, <2>8
  <2>14. <<InputValues, stack[1].query, stack[i].query>> \in Needed
    BY <2>1, <2>2, <2>8, <2>10, <2>11, <2>12, <2>13, NeededCloses
  <2> QED  BY <2>14
<1> QED  BY <1>1, Inductive, MemosAreRight, PTL

------------------------------------------------------------------------------
\* Backdating is exact: changed_at moves when, and only when, the result does.
THEOREM BackdatingIsExact == Spec => ChangedMeansDifferent
<1>1. ASSUME IInv, [Next]_vars
      PROVE  \/ \A q \in Queries \ Inputs :
                  entries'[q].changed # entries[q].changed <=> value'[q] # value[q]
             \/ UNCHANGED vars
  <2> SUFFICES ASSUME ~UNCHANGED vars, NEW q \in Queries \ Inputs
               PROVE  entries'[q].changed # entries[q].changed <=> value'[q] # value[q]
    OBVIOUS
  <2>a. /\ TypeOK /\ entries \in [Queries -> Entry] /\ entries[q] \in Entry
        /\ value \in [Queries -> Values \cup {NoValue}]
    BY <1>1 DEF IInv, TypeOK
  <2>1. ASSUME NEW i \in Inputs, NEW v \in Values, SetInput(i, v)
        PROVE  entries'[q] = entries[q] /\ value'[q] = value[q]
    BY <2>1, <2>a DEF SetInput, InputEntry
  <2>2. CASE WalkClean
    <3>1. Top.query \in Queries
      BY <1>1, <2>2, TopFacts DEF WalkClean
    <3> QED BY <2>2, <2>a, <3>1 DEF WalkClean, Checked, Entry
  <2>3. CASE Finish
    <3>1. /\ Top.query \in Queries /\ ActivationOK(Top) /\ Top.phase = "run"
      BY <1>1, <2>3, TopFacts DEF Finish
    <3>2. CASE q # Top.query
      BY <2>3, <2>a, <3>1, <3>2 DEF Finish, ChangedAt
    <3>3. CASE q = Top.query
      <4>1. entries[q].verified < revision
        BY <3>1, <3>3 DEF ActivationOK
      <4>2. entries[q].changed # revision
        BY <4>1, <2>a DEF TypeOK, Entry
      <4>3. /\ value'[q] = Result(q, Top.seen)
            /\ entries'[q].changed = IF value[q] # Result(q, Top.seen) THEN revision
                                                                   ELSE entries[q].changed
        BY <2>3, <2>a, <3>3 DEF Finish, ChangedAt
      <4> QED BY <4>2, <4>3
    <3> QED BY <3>2, <3>3
  <2>4. CASE UNCHANGED <<entries, value>>
    BY <2>4
  <2>5. ASSUME NEW p \in Queries, Demand(p) PROVE UNCHANGED <<entries, value>>
    BY <2>5 DEF Demand
  <2>6. CASE EnterFirst \/ EnterCurrent \/ EnterWalk \/ WalkDependency \/ Read
             \/ ReturnToWalk \/ ReturnToBody \/ ReturnToCaller
    BY <2>6, <2>4 DEF EnterFirst, EnterCurrent, EnterWalk, WalkDependency, Read,
                      ReturnToWalk, ReturnToBody, ReturnToCaller
  <2> QED BY <1>1, <2>1, <2>2, <2>3, <2>4, <2>5, <2>6 DEF Next
<1>2. IInv /\ [Next]_vars =>
        [\A q \in Queries \ Inputs :
           entries'[q].changed # entries[q].changed <=> value'[q] # value[q]]_vars
  BY <1>1
<1> QED BY <1>2, Inductive, PTL DEF Spec, ChangedMeansDifferent
=============================================================================
