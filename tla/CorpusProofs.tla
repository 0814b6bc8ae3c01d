----------------------------- MODULE CorpusProofs -----------------------------
(***************************************************************************)
(* The agreement pipeline, for any tests, any suites, any ponyc and any    *)
(* checker: what its files say is what the tests assert and what ponyc     *)
(* does, and what it credits and passes over is as they have it.           *)
(***************************************************************************)
EXTENDS Corpus, Integers, SequenceTheorems, WellFoundedInduction, TLAPS

-------------------------------------------------------------------------------
(* Extraction: what a row says is what its test asserts.                   *)

LEMMA NatHasLeast ==
  ASSUME NEW S \in SUBSET Nat, S # {}
  PROVE  \E x \in S : \A y \in S : x <= y
<1> DEFINE R == {ss \in Nat \X Nat : ss[1] < ss[2]}
<1>1. IsWellFoundedOn(R, Nat)
  BY NatLessThanWellFounded DEF OpToRel
<1> HIDE DEF R
<1>2. PICK x \in S : \A y \in S : ~(<<y, x>> \in R)
  BY <1>1, WFMin
<1>3. \A y \in S : ~(y < x)
  BY <1>2 DEF R
<1>4. \A y \in S : x <= y
  BY <1>3
<1> QED  BY <1>4

IsBefore(p, q) == p[1] < q[1] \/ (p[1] = q[1] /\ p[2] <= q[2])

LEMMA FirstIsFirst ==
  ASSUME NEW places \in SUBSET (Nat \X Nat), places # {}
  PROVE  First(places) \in places /\ \A q \in places : IsBefore(First(places), q)
<1> DEFINE Rows == {p[1] : p \in places}
<1>1. PICK i \in Rows : \A y \in Rows : i <= y
  <2>1. Rows \in SUBSET Nat /\ Rows # {}
    OBVIOUS
  <2> QED  BY <2>1, NatHasLeast
<1> DEFINE Here == {p \in places : p[1] = i}
           Columns == {p[2] : p \in Here}
<1>2. PICK k \in Columns : \A y \in Columns : k <= y
  <2>1. Columns \in SUBSET Nat /\ Columns # {}
    OBVIOUS
  <2> QED  BY <2>1, NatHasLeast
<1>3. PICK p \in places : p[1] = i /\ p[2] = k
  BY <1>2
<1>4. \A q \in places : IsBefore(p, q)
  <2>1. TAKE q \in places
  <2>2. i <= q[1] /\ q[1] \in Nat /\ q[2] \in Nat /\ i \in Nat /\ k \in Nat
    BY <1>1, <1>2
  <2>3. q[1] = i => k <= q[2]
    BY <1>2
  <2>4. i < q[1] \/ (i = q[1] /\ k <= q[2])
    BY <2>2, <2>3
  <2> QED  BY <1>3, <2>4 DEF IsBefore
<1>5. \E x \in places : \A q \in places : x[1] < q[1] \/ (x[1] = q[1] /\ x[2] =< q[2])
  BY <1>4 DEF IsBefore
<1> QED  BY <1>5 DEF First, IsBefore

\* Where the literals of a call stand.
LEMMA PiecesAre ==
  ASSUME NEW args \in Seq(Seq(Literals))
  PROVE  /\ Pieces(args) \in SUBSET (Nat \X Nat)
         /\ \A i, k : <<i, k>> \in Pieces(args) <=> i \in DOMAIN args /\ k \in DOMAIN args[i]
<1>1. \A i \in DOMAIN args : i \in Nat /\ DOMAIN args[i] \subseteq Nat
  OBVIOUS
<1>2. \A i, k : <<i, k>> \in Pieces(args) <=> i \in DOMAIN args /\ k \in DOMAIN args[i]
  BY DEF Pieces
<1>3. \A p \in Pieces(args) : p \in Nat \X Nat
  BY <1>1 DEF Pieces
<1> QED  BY <1>2, <1>3

LEMMA PassStandsFirst ==
  ASSUME NEW call, NEW d, FollowsDefine(call, d), PassPerCall(d)
  PROVE  /\ <<1, 1>> \in Pieces(call.args) /\ First(Pieces(call.args)) = <<1, 1>>
         /\ 1 \in DOMAIN call.args /\ DOMAIN call.args[1] = {1}
<1> DEFINE args == call.args
           pieces == Pieces(args)
<1>1. args \in Seq(Seq(Literals)) /\ 1 \in DOMAIN args /\ DOMAIN args[1] = {1}
  <2>1. args \in Seq(Seq(Literals)) /\ args # <<>> /\ Len(args[1]) = 1
    BY DEF FollowsDefine
  <2>2. 1 \in DOMAIN args
    BY <2>1
  <2>3. args[1] \in Seq(Literals)
    BY <2>1, <2>2
  <2>4. DOMAIN args[1] = {1}
    BY <2>1, <2>3
  <2> QED  BY <2>1, <2>2, <2>4
<1>2. <<1, 1>> \in pieces /\ pieces \in SUBSET (Nat \X Nat)
  BY <1>1, PiecesAre
<1>3. PICK p : p = First(pieces) /\ p \in pieces /\ \A q \in pieces : IsBefore(p, q)
  BY <1>2, FirstIsFirst
<1>4. PICK i, k : p = <<i, k>> /\ i \in DOMAIN args /\ k \in DOMAIN args[i] /\ i \in Nat /\ k \in Nat
  BY <1>1, <1>2, <1>3, PiecesAre
<1>5. i >= 1 /\ (i < 1 \/ (i = 1 /\ k <= 1))
  BY <1>1, <1>2, <1>3, <1>4 DEF IsBefore
<1>6. i = 1 /\ k = 1
  BY <1>1, <1>4, <1>5
<1> QED  BY <1>1, <1>2, <1>3, <1>4, <1>6

LEMMA PassIsAsserted ==
  ASSUME NEW call, NEW d, FollowsDefine(call, d)
  PROVE  CasePass(call, d) = AssertedPass(call, d)
<1>1. CASE PassPerCall(d)
  <2>1. \A i \in DOMAIN d.params : d.params[i] = "pass" <=> i = 2
    BY <1>1 DEF FollowsDefine, PassPerCall
  <2>2. 2 \in DOMAIN d.params
    BY <1>1 DEF FollowsDefine, PassPerCall
  <2>3. (CHOOSE i \in DOMAIN d.params : d.params[i] = "pass") = 2
    BY <2>1, <2>2
  <2>4. /\ 1 \in DOMAIN call.args /\ First(Pieces(call.args)) = <<1, 1>>
        /\ <<1, 1>> \in Pieces(call.args)
    BY <1>1, PassStandsFirst
  <2>5. Argument(call, d, 2) = call.args[1]
    BY <2>4 DEF Argument
  <2>6. AssertedPass(call, d) = Head(call.args[1])
    BY <2>1, <2>2, <2>3, <2>5 DEF AssertedPass
  <2>7. CasePass(call, d) = call.args[1][1]
    BY <1>1, <2>4 DEF CasePass, Piece
  <2> QED  BY <2>6, <2>7
<1>2. CASE ~PassPerCall(d)
  <2>1. ~\E i \in DOMAIN d.params : d.params[i] = "pass"
    BY <1>2 DEF FollowsDefine, PassPerCall
  <2>2. d.embedded # None
    BY <1>2 DEF FollowsDefine
  <2> QED  BY <1>2, <2>1, <2>2 DEF CasePass, AssertedPass
<1> QED  BY <1>1, <1>2

\* What is left after the pass is where the messages stand.
LEMMA AfterPassAre ==
  ASSUME NEW call, NEW d, FollowsDefine(call, d)
  PROVE  /\ AfterPass(Pieces(call.args), d) \in SUBSET (Nat \X Nat)
         /\ \A i, k : <<i, k>> \in AfterPass(Pieces(call.args), d) <=>
              /\ i \in DOMAIN call.args /\ k \in DOMAIN call.args[i]
              /\ PassPerCall(d) => i # 1
<1>1. call.args \in Seq(Seq(Literals))
  BY DEF FollowsDefine
<1>2. CASE PassPerCall(d)
  <2>1. AfterPass(Pieces(call.args), d) = Pieces(call.args) \ {<<1, 1>>}
    BY <1>2, PassStandsFirst DEF AfterPass
  <2>2. \A i, k : i = 1 /\ k \in DOMAIN call.args[i] => <<i, k>> = <<1, 1>>
    BY <1>2, PassStandsFirst
  <2> QED  BY <1>1, <1>2, <2>1, <2>2, PiecesAre
<1>3. CASE ~PassPerCall(d)
  BY <1>1, <1>3, PiecesAre DEF AfterPass
<1> QED  BY <1>2, <1>3

LEMMA OneLiteral ==
  ASSUME NEW literals
  PROVE  [n \in 1..1 |-> Unescaped[literals[n]]] = <<Unescaped[literals[1]]>>
<1>1. PICK x : x = Unescaped[literals[1]]
  OBVIOUS
<1>2. \A n \in 1..1 : Unescaped[literals[n]] = x
  BY <1>1
<1>3. [n \in 1..1 |-> Unescaped[literals[n]]] = [n \in 1..1 |-> x]
  BY <1>2
<1>4. [n \in 1..1 |-> x] = <<x>>
  OBVIOUS
<1> QED  BY <1>1, <1>3, <1>4

LEMMA MessageIsAsserted ==
  ASSUME NEW call, NEW d, FollowsDefine(call, d)
  PROVE  IF AssertedMessages(call, d) = {} THEN Message(call, d) = <<>>
         ELSE \E m \in AssertedMessages(call, d) :
                Begins(Message(call, d), m) /\ (Unsplit(call) => Message(call, d) = m)
<1> DEFINE args == call.args
           places == AfterPass(Pieces(args), d)
<1>1. /\ args \in Seq(Seq(Literals)) /\ d.params \in Seq(STRING) /\ Len(args) < Len(d.params)
      /\ \A i \in DOMAIN d.params : d.params[i] = "pass" => i = 2
  BY DEF FollowsDefine
<1>2. /\ places \in SUBSET (Nat \X Nat)
      /\ \A i, k : <<i, k>> \in places <=>
              /\ i \in DOMAIN args /\ k \in DOMAIN args[i]
              /\ PassPerCall(d) => i # 1
  BY AfterPassAre
<1> HIDE DEF places
\* A parameter's message, if there is one, stands in one of these places.
<1>3. ASSUME NEW j \in DOMAIN d.params, j > 1, d.params[j] # "pass", Argument(call, d, j) # <<>>
      PROVE  places # {}
  <2>1. j - 1 \in DOMAIN args /\ args[j - 1] # <<>>
    BY <1>3 DEF Argument
  <2>2. args[j - 1] \in Seq(Literals)
    BY <1>1, <2>1
  <2>3. 1 \in DOMAIN args[j - 1]
    BY <2>1, <2>2
  <2>4. PassPerCall(d) => j # 2
    BY <1>3 DEF PassPerCall
  <2>5. j - 1 = 1 => j = 2
    BY <1>1, <1>3
  <2>6. <<j - 1, 1>> \in places
    BY <1>2, <2>1, <2>3, <2>4, <2>5
  <2> QED  BY <2>6
<1>4. CASE places = {}
  <2>1. AssertedMessages(call, d) = {}
    BY <1>3, <1>4 DEF AssertedMessages
  <2>2. Message(call, d) = <<>>
    BY <1>4 DEF Message, places
  <2> QED  BY <2>1, <2>2
<1>5. CASE places # {}
  <2>1. PICK p : p = First(places) /\ p \in places /\ \A q \in places : IsBefore(p, q)
    BY <1>2, <1>5, FirstIsFirst
  <2>2. PICK i, k : p = <<i, k>> /\ i \in Nat /\ k \in Nat
    BY <1>2, <2>1
  <2>3. i \in DOMAIN args /\ k \in DOMAIN args[i] /\ (PassPerCall(d) => i # 1)
    BY <1>2, <2>1, <2>2
  <2>4. args[i] \in Seq(Literals)
    BY <1>1, <2>3
  <2>5. 1 \in DOMAIN args[i] /\ k >= 1
    BY <2>3, <2>4
  <2>6. <<i, 1>> \in places
    BY <1>2, <2>3, <2>5
  <2>7. k = 1
    <3>1. IsBefore(<<i, k>>, <<i, 1>>)
      BY <2>1, <2>2, <2>6
    <3>2. i < i \/ (i = i /\ k <= 1)
      BY <3>1 DEF IsBefore
    <3> QED  BY <2>2, <2>5, <3>2
  <2>8. PICK j : j = i + 1
    OBVIOUS
  <2>9. j \in DOMAIN d.params /\ j > 1 /\ j - 1 = i
    <3>1. i \in 1..Len(args) /\ Len(args) \in Nat /\ Len(d.params) \in Nat
      BY <1>1, <2>3
    <3>2. DOMAIN d.params = 1..Len(d.params)
      BY <1>1
    <3>3. j \in 1..Len(d.params) /\ j > 1 /\ j - 1 = i
      BY <1>1, <2>8, <3>1
    <3> QED  BY <3>2, <3>3
  <2>10. d.params[j] # "pass"
    <3>1. SUFFICES ASSUME d.params[j] = "pass" PROVE FALSE
      OBVIOUS
    <3>2. j = 2 /\ Len(d.params) >= 2
      BY <1>1, <2>9, <3>1
    <3>3. PassPerCall(d) /\ i = 1
      BY <2>9, <3>1, <3>2 DEF PassPerCall
    <3> QED  BY <2>3, <3>3
  <2>11. Argument(call, d, j) = args[i]
    <3>1. j - 1 \in DOMAIN args
      BY <2>3, <2>9
    <3> QED  BY <2>9, <3>1 DEF Argument
  <2>12. args[i] # <<>> /\ Head(args[i]) = args[i][1]
    BY <2>4, <2>5
  <2>13. PICK m : m = Joined(args[i]) /\ m \in AssertedMessages(call, d)
    BY <2>9, <2>10, <2>11, <2>12 DEF AssertedMessages
  <2>14. Message(call, d) = <<Unescaped[args[i][1]]>>
    <3>1. Message(call, d) = <<Unescaped[Piece(args, First(places))]>>
      BY <1>5 DEF Message, places
    <3>2. p[1] = i /\ p[2] = 1
      BY <2>2, <2>7
    <3>3. Piece(args, p) = args[i][1]
      BY <3>2 DEF Piece
    <3> QED  BY <2>1, <3>1, <3>3
  <2>15. /\ Len(args[i]) \in Nat /\ Len(args[i]) >= 1 /\ DOMAIN args[i] = 1..Len(args[i])
         /\ m = [n \in 1..Len(args[i]) |-> Unescaped[args[i][n]]]
    BY <2>4, <2>5, <2>13 DEF Joined
  <2>16. Len(m) = Len(args[i]) /\ m[1] = Unescaped[args[i][1]]
    BY <2>15
  <2>17. Begins(Message(call, d), m)
    BY <2>14, <2>15, <2>16 DEF Begins
  <2>18. Unsplit(call) => Message(call, d) = m
    <3>1. SUFFICES ASSUME Unsplit(call) PROVE m = <<Unescaped[args[i][1]]>>
      BY <2>14
    <3>2. Len(args[i]) = 1
      <4>1. Len(call.args[i]) <= 1
        BY <2>3, <3>1 DEF Unsplit
      <4>2. Len(call.args[i]) \in Nat /\ Len(call.args[i]) >= 1
        BY <2>15
      <4> HIDE DEF args
      <4>3. \A n \in Nat : n >= 1 /\ n <= 1 => n = 1
        OBVIOUS
      <4> QED  BY <4>1, <4>2, <4>3 DEF args
    <3> QED  BY <2>15, <3>2, OneLiteral
  <2> QED  BY <2>13, <2>17, <2>18
<1> QED  BY <1>4, <1>5

-------------------------------------------------------------------------------
(* The ladder, and what is recorded of a case.                             *)

\* No pass is on the ladder twice.
LEMMA LadderIs ==
  /\ DOMAIN LADDER = 1..18 /\ Len(LADDER) = 18
  /\ \A i, j \in 1..18 : LADDER[i] = LADDER[j] => i = j
  /\ "(accepts)" \notin Passes /\ "(limited accepts)" \notin Passes
  /\ "final" \in Passes /\ NeverErrs = 19
<1>1. Len(LADDER) = 18 /\ NeverErrs = 19
  BY DEF LADDER, NeverErrs
<1>2. DOMAIN LADDER = 1..18
  BY DEF LADDER
<1>3. \A i, j \in 1..18 : LADDER[i] = LADDER[j] => i = j
  BY DEF LADDER
<1>4. Passes \subseteq {"parse", "syntax", "sugar", "scope", "import", "name",
                        "typealias_recursion", "flatten", "traits", "refer", "expr",
                        "completeness", "verify", "final", "c", "reach", "paint", "ir"}
  <2>1. \A i \in 1..18 :
           \/ i = 1 \/ i = 2 \/ i = 3 \/ i = 4 \/ i = 5 \/ i = 6
           \/ i = 7 \/ i = 8 \/ i = 9 \/ i = 10 \/ i = 11 \/ i = 12
           \/ i = 13 \/ i = 14 \/ i = 15 \/ i = 16 \/ i = 17 \/ i = 18
    OBVIOUS
  <2> QED  BY <1>2, <2>1 DEF LADDER, Passes
<1>5. "(accepts)" \notin Passes
  BY <1>4
<1>6. "(limited accepts)" \notin Passes
  BY <1>4
<1>7. "final" \in Passes
  <2>1. LADDER[14] = "final"
    BY DEF LADDER
  <2> QED  BY <1>2, <2>1 DEF Passes
<1> QED  BY <1>1, <1>2, <1>3, <1>5, <1>6, <1>7

LEMMA PassHasIndex ==
  ASSUME NEW p \in Passes
  PROVE  Index(p) \in 1..18 /\ LADDER[Index(p)] = p
<1>1. \E i \in DOMAIN LADDER : LADDER[i] = p
  BY DEF Passes
<1> QED  BY <1>1, LadderIs DEF Index

LEMMA IndexOfStep ==
  ASSUME NEW i \in 1..18
  PROVE  LADDER[i] \in Passes /\ Index(LADDER[i]) = i
<1>1. LADDER[i] \in Passes
  BY LadderIs DEF Passes
<1> QED  BY <1>1, PassHasIndex, LadderIs

IsRecord(r) ==
  /\ r.full = "limited" => r.expect = "accept"
  /\ r.expect = "reject" => r.earliest \in Passes

Expects == {"accept", "reject"}

\* What one run says of the first pass that errs.
LEMMA RunIs ==
  ASSUME NEW p, NEW from, NEW late
  PROVE  /\ Runs(p, from, late) \in {"timeout", "errs", "clean"}
         /\ Runs(p, from, late) = "errs" => Index(p) >= from
         /\ Runs(p, from, late) = "clean" => ~(Index(p) >= from)
         /\ ~(Index(p) >= from) => Runs(p, from, late) # "errs"
         /\ Index(p) >= from => Runs(p, from, late) # "clean"
BY DEF Runs

\* A record, field by field.
LEMMA RecordHas ==
  ASSUME NEW row, NEW expect, NEW full, NEW earliest, NEW why, NEW guard
  PROVE  LET r == Record(row, expect, full, earliest, why, guard) IN
         /\ r.key = row.key /\ r.expect = expect /\ r.full = full
         /\ r.earliest = earliest /\ r.why = why
BY DEF Record

LEMMA InvalidIsRecord ==
  ASSUME NEW row, NEW why
  PROVE  /\ Invalid(row, why).key = row.key /\ Invalid(row, why).expect = "invalid"
         /\ Invalid(row, why).why = why /\ IsRecord(Invalid(row, why))
BY DEF Invalid, Record, IsRecord

LEMMA AcceptIsTrue ==
  ASSUME NEW row, row.target \in Passes, row.expect = "accept",
         NEW from \in 1..NeverErrs, NEW late
  PROVE  /\ RecordIsTrue(AcceptRecord(row, from, late), row, from)
         /\ IsRecord(AcceptRecord(row, from, late))
<1> DEFINE target == Index(row.target)
           final == Index("final")
           here == Runs(row.target, from, late)
           full == Runs("final", from, late)
           r == AcceptRecord(row, from, late)
<1>1. target \in 1..18 /\ final \in 1..18 /\ from \in 1..19
  BY LadderIs, PassHasIndex
<1>2. /\ here \in {"timeout", "errs", "clean"} /\ full \in {"timeout", "errs", "clean"}
      /\ here = "errs" => target >= from
      /\ here = "clean" => ~(target >= from)
      /\ full = "errs" => final >= from
      /\ full = "clean" => ~(final >= from)
  BY RunIs
<1>3. BeforeFinal(row.target) <=> target < final
  BY DEF BeforeFinal
<1>4. /\ here = "timeout" => r = Invalid(row, "timeout")
      /\ here = "errs" => r = Invalid(row, "accept errors")
      /\ here = "clean" /\ ~(target < final) => r = Record(row, "accept", "-", "-", "-", "-")
      /\ here = "clean" /\ target < final /\ full = "timeout" => r = Invalid(row, "timeout")
      /\ here = "clean" /\ target < final /\ full = "errs" =>
           r = Record(row, "accept", "limited", "-", "-", "-")
      /\ here = "clean" /\ target < final /\ full = "clean" =>
           r = Record(row, "accept", "-", "-", "-", "-")
  BY <1>3 DEF AcceptRecord
<1> HIDE DEF target, final, here, full, r
<1>5. CASE r = Invalid(row, "timeout")
  <2>1. r.key = row.key /\ r.expect = "invalid" /\ r.why = "timeout" /\ IsRecord(r)
    BY <1>5, InvalidIsRecord
  <2>2. RecordIsTrue(r, row, from)
    BY <2>1 DEF RecordIsTrue
  <2> QED  BY <2>1, <2>2 DEF r
<1>6. CASE here = "errs"
  <2>1. r.key = row.key /\ r.expect = "invalid" /\ IsRecord(r)
    <3>1. r = Invalid(row, "accept errors")
      BY <1>4, <1>6
    <3> QED  BY <3>1, InvalidIsRecord
  <2>2. from <= target
    BY <1>1, <1>2, <1>6
  <2>3. RecordIsTrue(r, row, from)
    BY <2>1, <2>2 DEF RecordIsTrue, target
  <2> QED  BY <2>1, <2>3 DEF r
<1>7. CASE /\ here = "clean" /\ r = Record(row, "accept", "-", "-", "-", "-")
           /\ ~(from <= final)
  <2>1. r.key = row.key /\ r.expect = "accept" /\ r.full = "-" /\ IsRecord(r)
    BY <1>7, RecordHas DEF IsRecord
  <2>2. ~(from <= target)
    BY <1>1, <1>2, <1>7
  <2>3. RecordIsTrue(r, row, from)
    BY <1>7, <2>1, <2>2 DEF RecordIsTrue, target, final
  <2> QED  BY <2>1, <2>3 DEF r
<1>8. CASE /\ here = "clean" /\ r = Record(row, "accept", "limited", "-", "-", "-")
           /\ from <= final
  <2>1. r.key = row.key /\ r.expect = "accept" /\ r.full = "limited" /\ IsRecord(r)
    BY <1>8, RecordHas DEF IsRecord
  <2>2. ~(from <= target)
    BY <1>1, <1>2, <1>8
  <2>3. RecordIsTrue(r, row, from)
    BY <1>8, <2>1, <2>2 DEF RecordIsTrue, target, final
  <2> QED  BY <2>1, <2>3 DEF r
<1>9. CASE here = "clean" /\ ~(target < final)
  <2>1. ~(from <= final)
    BY <1>1, <1>2, <1>9
  <2> QED  BY <1>4, <1>7, <1>9, <2>1
<1>10. CASE here = "clean" /\ target < final
  <2>1. full = "errs" => from <= final
    BY <1>1, <1>2
  <2>2. full = "clean" => ~(from <= final)
    BY <1>1, <1>2
  <2> QED  BY <1>2, <1>4, <1>5, <1>7, <1>8, <1>10, <2>1, <2>2
<1> QED  BY <1>2, <1>4, <1>5, <1>6, <1>9, <1>10

\* The ladder is climbed from the bottom: it stops at the pass that errs first,
\* unless a run took too long or the case's own pass comes before.
LEMMA RejectIsTrue ==
  ASSUME NEW row, row.target \in Passes, row.expect # "accept",
         NEW from \in 1..NeverErrs, NEW late, NEW diverges
  PROVE  /\ RecordIsTrue(RejectRecord(row, from, late, diverges), row, from)
         /\ IsRecord(RejectRecord(row, from, late, diverges))
<1> DEFINE target == Index(row.target)
           stops == {i \in Probed(row.target) : Runs(LADDER[i], from, late) # "clean"}
           least == CHOOSE i \in stops : \A j \in stops : i =< j
           r == RejectRecord(row, from, late, diverges)
<1>1. target \in 1..18 /\ from \in 1..19 /\ Probed(row.target) = 1..target
  BY LadderIs, PassHasIndex DEF Probed
<1>2. stops \in SUBSET Nat /\ \A i \in stops : i \in 1..target
  BY <1>1
<1>3. \A i \in 1..target : LADDER[i] \in Passes /\ Index(LADDER[i]) = i
  BY <1>1, IndexOfStep
\* What the pass errs at is a stop, and no earlier one errs.
<1>4. \A i \in stops : Runs(LADDER[i], from, late) = "errs" => i >= from
  BY <1>2, <1>3, RunIs
<1>5. \A i \in 1..target : i >= from => i \in stops
  BY <1>1, <1>3, RunIs
<1>6. stops # {} => least \in stops /\ \A j \in stops : least <= j
  <2>1. stops # {} => \E i \in stops : \A j \in stops : i <= j
    BY <1>2, NatHasLeast
  <2> QED  BY <2>1
<1>7. /\ stops = {} => r = Invalid(row, "reject clean")
      /\ stops # {} /\ Runs(LADDER[least], from, late) = "timeout" => r = Invalid(row, "timeout")
      /\ stops # {} /\ Runs(LADDER[least], from, late) # "timeout" =>
           r = Record(row, "reject", "-", LADDER[least], "-", IF diverges THEN "guard" ELSE "-")
  BY DEF RejectRecord
<1>8. stops # {} => Runs(LADDER[least], from, late) \in {"timeout", "errs"}
  BY <1>6, RunIs
<1> HIDE DEF target, stops, least, r
<1>9. CASE stops = {}
  <2>1. r.key = row.key /\ r.expect = "invalid" /\ IsRecord(r)
    <3>1. r = Invalid(row, "reject clean")
      BY <1>7, <1>9
    <3> QED  BY <3>1, InvalidIsRecord
  <2>2. from > target
    BY <1>1, <1>5, <1>9
  <2>3. RecordIsTrue(r, row, from)
    BY <2>1, <2>2 DEF RecordIsTrue, target
  <2> QED  BY <2>1, <2>3 DEF r
<1>10. CASE stops # {} /\ Runs(LADDER[least], from, late) = "timeout"
  <2>1. r.key = row.key /\ r.expect = "invalid" /\ r.why = "timeout" /\ IsRecord(r)
    <3>1. r = Invalid(row, "timeout")
      BY <1>7, <1>10
    <3> QED  BY <3>1, InvalidIsRecord
  <2>2. RecordIsTrue(r, row, from)
    BY <2>1 DEF RecordIsTrue
  <2> QED  BY <2>1, <2>2 DEF r
<1>11. CASE stops # {} /\ Runs(LADDER[least], from, late) = "errs"
  <2>1. PICK i : i = least /\ i \in stops /\ i \in 1..target /\ i >= from /\ \A j \in stops : i <= j
    BY <1>2, <1>4, <1>6, <1>11
  <2>2. from \in 1..target
    BY <1>1, <2>1
  <2>3. i = from
    BY <1>1, <1>5, <2>1, <2>2
  <2>4. LADDER[i] \in Passes /\ Index(LADDER[i]) = from
    BY <1>3, <2>1, <2>3
  <2>5. r.key = row.key /\ r.expect = "reject" /\ r.full = "-" /\ r.earliest = LADDER[i]
    <3>1. PICK guard : r = Record(row, "reject", "-", LADDER[least], "-", guard)
      BY <1>7, <1>11
    <3> QED  BY <2>1, <3>1, RecordHas
  <2>6. ~(from > target)
    BY <1>1, <2>2
  <2>7. RecordIsTrue(r, row, from)
    BY <2>4, <2>5, <2>6 DEF RecordIsTrue, target
  <2>8. IsRecord(r)
    BY <2>4, <2>5 DEF IsRecord
  <2> QED  BY <2>7, <2>8 DEF r
<1> QED  BY <1>8, <1>9, <1>10, <1>11

LEMMA RecordOfIsTrue ==
  ASSUME NEW row, NEW from \in 1..NeverErrs, NEW late, NEW diverges
  PROVE  /\ RecordIsTrue(RecordOf(row, from, late, diverges), row, from)
         /\ IsRecord(RecordOf(row, from, late, diverges))
         /\ RecordOf(row, from, late, diverges).key = row.key
<1>1. CASE row.target \notin Passes
  BY <1>1, InvalidIsRecord DEF RecordOf, RecordIsTrue
<1>2. CASE row.target \in Passes /\ row.expect = "accept"
  <2>1. RecordOf(row, from, late, diverges) = AcceptRecord(row, from, late)
    BY <1>2 DEF RecordOf
  <2> QED  BY <1>2, <2>1, AcceptIsTrue DEF RecordIsTrue
<1>3. CASE row.target \in Passes /\ row.expect # "accept"
  <2>1. RecordOf(row, from, late, diverges) = RejectRecord(row, from, late, diverges)
    BY <1>3 DEF RecordOf
  <2> QED  BY <1>3, <2>1, RejectIsTrue DEF RecordIsTrue
<1> QED  BY <1>1, <1>2, <1>3

-------------------------------------------------------------------------------
(* The invariant.                                                          *)

\* Tests that are cases, rows and records there may be.
CasesOf(k) == {b \in BlocksOf(k) : IsCase(b)}
RowFor(k, block) == RowOf(k, block, DefsOf(SuiteOf(k)))
Rows == UNION {{RowFor(k, b) : b \in CasesOf(k)} : k \in Keys}
Diverging == {Diverges(program) : program \in UNION {Programs(k) : k \in Keys}}
Records ==
  {RecordOf(row, from, late, diverges) :
     row \in Rows, from \in 1..NeverErrs, late \in Lateness, diverges \in Diverging}
Judgements == [key : Keys, got : {"ok", "fail", "load-failed"}]

Goals == {"none", "corpus-cases", "pass-reach", "checker-corpus"}
Extracting == {"block", "main", "fixtures"}
Reading == {"probe", "batch"}

Jobs ==
  [goal : Goals, step : {"idle"} \cup Extracting \cup Reading, suites : SUBSET Suites,
   at : Nat, rows : Seq(Rows \cup Records \cup Judgements)]

\* No two lines of these are of the same case.
Distinct(lines) == \A i, j \in DOMAIN lines : lines[i].key = lines[j].key => i = j

Typed ==
  /\ tests \in [Keys -> UNION {BlocksOf(k) : k \in Keys}]
  /\ \A k \in Keys : tests[k] \in BlocksOf(k)
  /\ cases \in [Keys -> UNION {Programs(k) : k \in Keys}]
  /\ \A k \in Keys : cases[k] \in Programs(k)
  /\ manifest \in Seq(Rows \cup {Torn})
  /\ Whole(manifest) => Distinct(manifest)
  /\ reach # NoReach => reach \in Seq(Records \cup {Torn})
  /\ job \in Jobs
  /\ ~Idle => outcome = NoOutcome

\* The tests that are cases, and of those in some suites the ones an extraction
\* has come past.
Plainly(T) == {k \in Keys : IsCase(T[k])}
Done(T, suites, at) == {Order[j] : j \in {x \in 1..(at - 1) : /\ SuiteOf(Order[x]) \in suites
                                                              /\ IsCase(T[Order[x]])}}

\* The rows are those of these tests, and so are the directories.
AreRowsOf(lines, ks, T) ==
  /\ \A i \in DOMAIN lines : \E k \in ks : lines[i] = RowFor(k, T[k])
  /\ \A k \in ks : \E i \in DOMAIN lines : lines[i].key = k
  /\ Distinct(lines)
AreWhole(C, ks, T) == \A k \in ks : C[k] = CaseOf(T[k])

Extracts ==
  job.step \in Extracting =>
    /\ job.rows \in Seq(Rows)
    /\ job.at \in 1..(Len(Order) + 1)
    /\ AreRowsOf(job.rows, Done(tests, job.suites, job.at), tests)
    /\ AreWhole(cases, Done(tests, job.suites, job.at), tests)
    /\ job.step \in {"main", "fixtures"} =>
         /\ job.at \in 1..Len(Order)
         /\ SuiteOf(Order[job.at]) \in job.suites /\ IsCase(tests[Order[job.at]])
         /\ cases[Order[job.at]] =
              IF job.step = "main" THEN EmptyCase
              ELSE [CaseOf(tests[Order[job.at]]) EXCEPT !.fixtures = {}]
    /\ job.goal \in {"pass-reach", "checker-corpus"} => job.suites = Suites
    /\ job.goal # "none"

Reads ==
  job.step \in Reading =>
    /\ manifest \in Seq(Rows)
    /\ AreRowsOf(manifest, Plainly(tests), tests)
    /\ AreWhole(cases, Plainly(tests), tests)
    /\ job.at = Len(job.rows) + 1 /\ job.at <= Len(manifest) + 1
    /\ \A i \in DOMAIN job.rows : job.rows[i].key = manifest[i].key
    /\ job.step = "probe" =>
         /\ job.rows \in Seq(Records) /\ job.goal = "pass-reach"
         /\ \A i \in DOMAIN job.rows :
              RecordIsTrue(job.rows[i], manifest[i], ErrsFrom(cases[manifest[i].key]))
    /\ job.step = "batch" => job.rows \in Seq(Judgements) /\ reach # NoReach

IInv == Typed /\ Extracts /\ Reads

-------------------------------------------------------------------------------
LEMMA OrderIs ==
  /\ Len(Order) \in Nat /\ DOMAIN Order = 1..Len(Order)
  /\ \A j \in 1..Len(Order) : Order[j] \in Keys /\ SuiteOf(Order[j]) \in Suites
  /\ \A k \in Keys : SuiteOf(k) \in Suites /\ \E j \in 1..Len(Order) : Order[j] = k
  /\ \A i, j \in 1..Len(Order) : Order[i] = Order[j] => i = j
<1>1. Len(Order) \in Nat /\ DOMAIN Order = 1..Len(Order)
  BY SuitesAssumption
<1>2. \A k \in Keys : SuiteOf(k) \in Suites
  BY DEF Suites
<1>3. \A j \in 1..Len(Order) : Order[j] \in Keys
  BY <1>1 DEF Keys
<1>4. \A k \in Keys : \E j \in 1..Len(Order) : Order[j] = k
  BY <1>1 DEF Keys
<1>5. \A i, j \in 1..Len(Order) : Order[i] = Order[j] => i = j
  BY <1>1, CorpusAssumption
<1> QED  BY <1>1, <1>2, <1>3, <1>4, <1>5

LEMMA RowForIs ==
  ASSUME NEW k, NEW b
  PROVE  /\ RowFor(k, b).key = k /\ RowFor(k, b).expect \in Expects
         /\ k \in Keys /\ b \in BlocksOf(k) /\ IsCase(b) => RowFor(k, b) \in Rows
<1>1. RowFor(k, b).key = k /\ RowFor(k, b).expect \in Expects
  BY DEF RowFor, RowOf, Expects
<1>2. ASSUME k \in Keys, b \in BlocksOf(k), IsCase(b)
      PROVE  RowFor(k, b) \in Rows
  BY <1>2 DEF Rows, CasesOf
<1> QED  BY <1>1, <1>2

RowSays(row, k, call, d) ==
  /\ row.key = k /\ row.target = CasePass(call, d)
  /\ row.expect = "accept" => row.message = <<>>
  /\ row.expect # "accept" => row.message = Message(call, d)

LEMMA RowForSays ==
  ASSUME NEW k, NEW b
  PROVE  RowSays(RowFor(k, b), k, StatedBy(b), Define(DefsOf(SuiteOf(k)), StatedBy(b).macro))
BY DEF RowFor, RowOf, RowSays

LEMMA RowsHave ==
  ASSUME NEW row \in Rows
  PROVE  row.key \in Keys /\ row.expect \in Expects
<1>1. PICK k \in Keys : \E b \in CasesOf(k) : row = RowFor(k, b)
  BY DEF Rows
<1> QED  BY <1>1, RowForIs

LEMMA RecordsHave ==
  ASSUME NEW r \in Records
  PROVE  r.key \in Keys /\ IsRecord(r)
<1>1. PICK row \in Rows, from \in 1..NeverErrs, late \in Lateness, diverges \in Diverging :
        r = RecordOf(row, from, late, diverges)
  BY DEF Records
<1> QED  BY <1>1, RowsHave, RecordOfIsTrue

LEMMA ProgramsAre ==
  ASSUME NEW k \in Keys, NEW b \in BlocksOf(k), IsCase(b)
  PROVE  /\ EmptyCase \in Programs(k) /\ CaseOf(b) \in Programs(k)
         /\ [CaseOf(b) EXCEPT !.fixtures = {}] \in Programs(k)
<1> DEFINE Made(x) == {CaseOf(x), [CaseOf(x) EXCEPT !.fixtures = {}]}
           All == {Made(x) : x \in {y \in BlocksOf(k) : IsCase(y)}}
<1>1. Made(b) \in All
  OBVIOUS
<1>2. CaseOf(b) \in Made(b) /\ [CaseOf(b) EXCEPT !.fixtures = {}] \in Made(b)
  OBVIOUS
<1>3. Programs(k) = {EmptyCase} \cup UNION All
  BY DEF Programs
<1> HIDE DEF Made, All
<1> QED  BY <1>1, <1>2, <1>3

LEMMA EmptyProgram ==
  ASSUME NEW k
  PROVE  EmptyCase \in Programs(k)
BY DEF Programs

\* What an extraction has come past.
LEMMA NoneDone ==
  ASSUME NEW T, NEW suites
  PROVE  Done(T, suites, 1) = {}
BY DEF Done

LEMMA OneMoreDone ==
  ASSUME NEW T, NEW suites, NEW at \in 1..Len(Order)
  PROVE  /\ Order[at] \notin Done(T, suites, at)
         /\ SuiteOf(Order[at]) \in suites /\ IsCase(T[Order[at]]) =>
              Done(T, suites, at + 1) = Done(T, suites, at) \cup {Order[at]}
         /\ ~(SuiteOf(Order[at]) \in suites /\ IsCase(T[Order[at]])) =>
              Done(T, suites, at + 1) = Done(T, suites, at)
<1> DEFINE Takes(x) == SuiteOf(Order[x]) \in suites /\ IsCase(T[Order[x]])
<1>1. at \in Nat /\ Len(Order) \in Nat
  BY OrderIs
<1>2. \A m \in Nat : \A k : k \in Done(T, suites, m) <=> \E x \in 1..(m - 1) : Takes(x) /\ Order[x] = k
  BY DEF Done
<1> HIDE DEF Takes
<1>3. \A x : x \in 1..(at + 1 - 1) <=> x \in 1..(at - 1) \/ x = at
  BY <1>1
<1>4. \A k : k \in Done(T, suites, at + 1) <=> k \in Done(T, suites, at) \/ (Takes(at) /\ k = Order[at])
  <2>1. at + 1 \in Nat
    BY <1>1
  <2> QED  BY <1>1, <1>2, <1>3, <2>1
<1>5. Order[at] \notin Done(T, suites, at)
  <2>1. \A x \in 1..(at - 1) : x \in 1..Len(Order) /\ x # at
    BY <1>1
  <2>2. \A x \in 1..(at - 1) : Order[x] # Order[at]
    BY <2>1, OrderIs
  <2> QED  BY <1>1, <1>2, <2>2
<1> QED  BY <1>4, <1>5 DEF Takes

LEMMA AllDone ==
  ASSUME NEW T
  PROVE  Done(T, Suites, Len(Order) + 1) = Plainly(T)
<1>1. \A x : x \in 1..(Len(Order) + 1 - 1) <=> x \in 1..Len(Order)
  BY OrderIs
<1>2. \A k : k \in Done(T, Suites, Len(Order) + 1) <=>
               \E x \in 1..Len(Order) : SuiteOf(Order[x]) \in Suites /\ IsCase(T[Order[x]]) /\ Order[x] = k
  BY <1>1 DEF Done
<1>3. \A k : k \in Done(T, Suites, Len(Order) + 1) <=> k \in Keys /\ IsCase(T[k])
  BY <1>2, OrderIs
<1> QED  BY <1>3 DEF Plainly

LEMMA NoRows ==
  ASSUME NEW T
  PROVE  AreRowsOf(<<>>, {}, T) /\ <<>> \in Seq(Rows)
BY DEF AreRowsOf, Distinct

LEMMA OneMoreRow ==
  ASSUME NEW T, NEW ks, NEW k, k \notin ks, NEW lines \in Seq(Rows), AreRowsOf(lines, ks, T),
         k \in Keys, T[k] \in BlocksOf(k), IsCase(T[k])
  PROVE  LET more == Append(lines, RowFor(k, T[k])) IN
         more \in Seq(Rows) /\ AreRowsOf(more, ks \cup {k}, T)
<1> DEFINE row == RowFor(k, T[k])
           more == Append(lines, row)
           m == Len(lines)
<1>1. row \in Rows /\ row.key = k
  BY RowForIs
<1>2. /\ more \in Seq(Rows) /\ m \in Nat /\ DOMAIN lines = 1..m /\ DOMAIN more = 1..(m + 1)
      /\ more[m + 1] = row /\ \A i \in 1..m : more[i] = lines[i]
  BY <1>1, AppendProperties
<1>3. \A i \in 1..m : \E x \in ks : lines[i] = RowFor(x, T[x]) /\ lines[i].key = x
  BY <1>2, RowForIs DEF AreRowsOf
<1> HIDE DEF row, more, m
<1>4. \A i \in 1..(m + 1) : i \in 1..m \/ i = m + 1
  BY <1>2
<1>5. ASSUME NEW i \in 1..(m + 1)
      PROVE  \E x \in ks \cup {k} : more[i] = RowFor(x, T[x])
  BY <1>2, <1>3, <1>4 DEF row
<1>6. ASSUME NEW x \in ks \cup {k}
      PROVE  \E i \in 1..(m + 1) : more[i].key = x
  <2>1. CASE x = k
    BY <1>1, <1>2, <2>1
  <2>2. CASE x \in ks
    <3>1. PICK i \in 1..m : lines[i].key = x
      BY <1>2, <2>2 DEF AreRowsOf
    <3>2. i \in 1..(m + 1)
      BY <1>2
    <3> QED  BY <1>2, <3>1, <3>2
  <2> QED  BY <2>1, <2>2
<1>7. ASSUME NEW i \in 1..(m + 1), NEW j \in 1..(m + 1), more[i].key = more[j].key
      PROVE  i = j
  <2>1. \A x \in 1..m : more[x].key \in ks
    BY <1>2, <1>3
  <2>2. \A x, y \in 1..m : more[x].key = more[y].key => x = y
    BY <1>2 DEF AreRowsOf, Distinct
  <2> QED  BY <1>1, <1>2, <1>4, <1>7, <2>1, <2>2
<1>8. AreRowsOf(more, ks \cup {k}, T)
  BY <1>2, <1>5, <1>6, <1>7 DEF AreRowsOf, Distinct
<1> QED  BY <1>2, <1>8 DEF more, row

-------------------------------------------------------------------------------
(* Every step keeps the invariant.                                         *)

LEMMA IdleKeeps ==
  ASSUME Typed', job'.step = "idle"
  PROVE  IInv'
BY DEF IInv, Extracts, Reads, Extracting, Reading

LEMMA NoJobIs == NoJob \in Jobs /\ NoJob.step = "idle"
<1>1. <<>> \in Seq(Rows \cup Records \cup Judgements)
  OBVIOUS
<1> QED  BY <1>1 DEF NoJob, Jobs, Goals

LEMMA InitKeeps == Init => IInv
<1> SUFFICES ASSUME Init PROVE IInv
  OBVIOUS
<1>1. job \in Jobs /\ job.step = "idle"
  BY NoJobIs DEF Init
<1>2. /\ tests \in [Keys -> UNION {BlocksOf(k) : k \in Keys}]
      /\ \A k \in Keys : tests[k] \in BlocksOf(k)
  BY DEF Init
<1>3. \A k \in Keys : cases[k] = EmptyCase /\ cases[k] \in Programs(k)
  BY EmptyProgram DEF Init
<1>4. cases \in [Keys -> UNION {Programs(k) : k \in Keys}]
  BY <1>3 DEF Init
<1>5. manifest \in Seq(Rows \cup {Torn}) /\ Distinct(manifest) /\ reach = NoReach
  BY DEF Init, NoFile, Distinct
<1> QED
  BY <1>1, <1>2, <1>3, <1>4, <1>5 DEF IInv, Typed, Extracts, Reads, Extracting, Reading, Idle

LEMMA EditKeeps ==
  ASSUME IInv, NEW k \in Keys, NEW b \in BlocksOf(k), Edit(k, b)
  PROVE  IInv'
<1>1. /\ tests \in [Keys -> UNION {BlocksOf(x) : x \in Keys}] /\ \A x \in Keys : tests[x] \in BlocksOf(x)
      /\ tests' = [tests EXCEPT ![k] = b] /\ UNCHANGED <<cases, manifest, reach, job>> /\ Idle
  BY DEF IInv, Typed, Edit, files
<1>2. \A x \in Keys : tests'[x] \in BlocksOf(x)
  BY <1>1
<1>3. tests' \in [Keys -> UNION {BlocksOf(x) : x \in Keys}]
  BY <1>1
<1>4. Typed'
  BY <1>1, <1>2, <1>3 DEF IInv, Typed, Idle
<1> QED  BY <1>1, <1>4, IdleKeeps DEF Idle

\* A job that begins.
LEMMA JobHas ==
  ASSUME job \in Jobs
  PROVE  /\ job.goal \in Goals /\ job.suites \subseteq Suites /\ job.at \in Nat
         /\ job.rows \in Seq(Rows \cup Records \cup Judgements)
BY DEF Jobs

LEMMA MakeKeeps ==
  ASSUME IInv, NEW goal \in {"corpus-cases", "pass-reach", "checker-corpus"},
         NEW suites \in SUBSET Suites, Make(goal, suites)
  PROVE  IInv'
<1>1. job' = [NoJob EXCEPT !.goal = goal, !.step = "block", !.suites = suites, !.at = 1]
  BY DEF Make
<1>2. /\ job'.goal = goal /\ job'.step = "block" /\ job'.suites = suites /\ job'.at = 1
      /\ job'.rows = <<>>
  BY <1>1 DEF NoJob
<1>3. job' \in Jobs
  BY <1>1, NoJobIs DEF Jobs, Goals, Extracting
<1>4. UNCHANGED <<tests, cases, manifest, reach>> /\ outcome' = NoOutcome
  BY DEF Make, files
<1>5. Typed'
  BY <1>3, <1>4 DEF IInv, Typed, Idle
<1>6. suites # Suites => goal = "corpus-cases"
  BY DEF Make
<1>7. Done(tests', job'.suites, job'.at) = {}
  BY <1>2, NoneDone
<1>8. AreRowsOf(job'.rows, {}, tests') /\ job'.rows \in Seq(Rows)
  BY <1>2, NoRows
<1>9. Extracts'
  <2>1. 1 \in 1..(Len(Order) + 1)
    BY OrderIs
  <2> QED  BY <1>2, <1>6, <1>7, <1>8, <2>1 DEF Extracts, AreWhole
<1>10. Reads'
  BY <1>2 DEF Reads, Reading
<1> QED  BY <1>5, <1>9, <1>10 DEF IInv

\* What is known where a block is looked at.
LEMMA InBlockHas ==
  ASSUME IInv, job.step \in Extracting, job.at \in DOMAIN Order
  PROVE  /\ job.at \in 1..Len(Order) /\ job.at + 1 \in 1..(Len(Order) + 1)
         /\ Order[job.at] \in Keys /\ tests[Order[job.at]] \in BlocksOf(Order[job.at])
         /\ job \in Jobs /\ job.rows \in Seq(Rows)
         /\ outcome = NoOutcome /\ job.goal # "none"
         /\ job.goal \in {"pass-reach", "checker-corpus"} => job.suites = Suites
         /\ AreRowsOf(job.rows, Done(tests, job.suites, job.at), tests)
         /\ AreWhole(cases, Done(tests, job.suites, job.at), tests)
         /\ Order[job.at] \notin Done(tests, job.suites, job.at)
<1>1. job.at \in 1..Len(Order) /\ job.at + 1 \in 1..(Len(Order) + 1)
  BY OrderIs
<1>2. Order[job.at] \in Keys /\ Order[job.at] \notin Done(tests, job.suites, job.at)
  BY <1>1, OrderIs, OneMoreDone
<1>3. tests[Order[job.at]] \in BlocksOf(Order[job.at]) /\ job \in Jobs
  BY <1>2 DEF IInv, Typed
<1>4. outcome = NoOutcome
  BY DEF IInv, Typed, Idle, Extracting
<1> QED  BY <1>1, <1>2, <1>3, <1>4 DEF IInv, Extracts

LEMMA PassOverKeeps ==
  ASSUME IInv, PassOver
  PROVE  IInv'
<1>1. /\ job.step = "block" /\ job.step \in Extracting /\ job.at \in DOMAIN Order
      /\ ~(SuiteOf(Order[job.at]) \in job.suites /\ IsCase(tests[Order[job.at]]))
      /\ job' = [job EXCEPT !.at = @ + 1]
      /\ UNCHANGED <<tests, cases, manifest, reach, outcome>>
  BY DEF PassOver, InBlock, At, IsExtracted, Key, Block, files, Extracting
<1>2. /\ job.at \in 1..Len(Order) /\ job.at + 1 \in 1..(Len(Order) + 1) /\ job \in Jobs
      /\ job.rows \in Seq(Rows) /\ job.goal # "none"
      /\ job.goal \in {"pass-reach", "checker-corpus"} => job.suites = Suites
      /\ AreRowsOf(job.rows, Done(tests, job.suites, job.at), tests)
      /\ AreWhole(cases, Done(tests, job.suites, job.at), tests)
      /\ outcome = NoOutcome
  BY <1>1, InBlockHas
<1>3. /\ job'.goal = job.goal /\ job'.step = "block" /\ job'.suites = job.suites
      /\ job'.at = job.at + 1 /\ job'.rows = job.rows /\ job' \in Jobs
  BY <1>1, <1>2 DEF Jobs
<1>4. Typed'
  BY <1>1, <1>2, <1>3 DEF IInv, Typed, Idle
<1>5. Done(tests, job.suites, job.at + 1) = Done(tests, job.suites, job.at)
  BY <1>1, <1>2, OneMoreDone
<1>6. Extracts'
  BY <1>1, <1>2, <1>3, <1>5 DEF Extracts
<1>7. Reads'
  BY <1>3 DEF Reads, Reading
<1> QED  BY <1>4, <1>6, <1>7 DEF IInv

\* One directory is written: those of other tests are as they were.
LEMMA CaseWritten ==
  ASSUME IInv, NEW k \in Keys, NEW program \in Programs(k),
         cases' = [cases EXCEPT ![k] = program]
  PROVE  /\ cases' \in [Keys -> UNION {Programs(x) : x \in Keys}]
         /\ \A x \in Keys : cases'[x] \in Programs(x)
         /\ cases'[k] = program
         /\ \A x \in Keys : x # k => cases'[x] = cases[x]
<1>1. cases \in [Keys -> UNION {Programs(x) : x \in Keys}] /\ \A x \in Keys : cases[x] \in Programs(x)
  BY DEF IInv, Typed
<1>2. program \in UNION {Programs(x) : x \in Keys}
  OBVIOUS
<1> QED  BY <1>1, <1>2

LEMMA DoneAreKeys ==
  ASSUME NEW T, NEW suites, NEW at \in 1..(Len(Order) + 1)
  PROVE  Done(T, suites, at) \subseteq Keys
<1>1. \A x \in 1..(at - 1) : x \in 1..Len(Order)
  BY OrderIs
<1> QED  BY <1>1, OrderIs DEF Done

\* The directory of the test that is looked at is not among those that are done.
LEMMA DoneStaysWhole ==
  ASSUME IInv, job.step \in Extracting, job.at \in DOMAIN Order,
         NEW program \in Programs(Order[job.at]),
         cases' = [cases EXCEPT ![Order[job.at]] = program]
  PROVE  AreWhole(cases', Done(tests, job.suites, job.at), tests)
<1> DEFINE done == Done(tests, job.suites, job.at)
<1>1. /\ job.at \in 1..Len(Order) /\ Order[job.at] \in Keys /\ Order[job.at] \notin done
      /\ AreWhole(cases, done, tests)
  BY InBlockHas
<1>2. done \subseteq Keys
  <2>1. job.at \in 1..(Len(Order) + 1)
    BY <1>1, OrderIs
  <2> QED  BY <2>1, DoneAreKeys
<1> HIDE DEF done
<1>3. \A x \in done : cases'[x] = cases[x]
  BY <1>1, <1>2, CaseWritten
<1>4. AreWhole(cases', done, tests)
  BY <1>1, <1>3 DEF AreWhole
<1> QED  BY <1>4 DEF done

\* Within one test: its directory is cleared, then main.pony is written.
LEMMA ClearKeeps ==
  ASSUME IInv, Clear
  PROVE  IInv'
<1>1. /\ job.step = "block" /\ job.step \in Extracting /\ job.at \in DOMAIN Order
      /\ SuiteOf(Order[job.at]) \in job.suites /\ IsCase(tests[Order[job.at]])
      /\ cases' = [cases EXCEPT ![Order[job.at]] = EmptyCase]
      /\ job' = [job EXCEPT !.step = "main"]
      /\ UNCHANGED <<tests, manifest, reach, outcome>>
  BY DEF Clear, InBlock, At, IsExtracted, Key, Block, files, Extracting, Cleared
<1>2. /\ job.at \in 1..Len(Order) /\ job.at + 1 \in 1..(Len(Order) + 1) /\ job \in Jobs
      /\ job.rows \in Seq(Rows) /\ job.goal # "none" /\ Order[job.at] \in Keys
      /\ job.goal \in {"pass-reach", "checker-corpus"} => job.suites = Suites
      /\ AreRowsOf(job.rows, Done(tests, job.suites, job.at), tests)
      /\ outcome = NoOutcome
  BY <1>1, InBlockHas
<1>3. /\ job'.goal = job.goal /\ job'.step = "main" /\ job'.suites = job.suites
      /\ job'.at = job.at /\ job'.rows = job.rows /\ job' \in Jobs
  BY <1>1, <1>2 DEF Jobs, Extracting
<1>4. EmptyCase \in Programs(Order[job.at])
  BY EmptyProgram
<1>5. /\ cases' \in [Keys -> UNION {Programs(x) : x \in Keys}]
      /\ \A x \in Keys : cases'[x] \in Programs(x)
      /\ cases'[Order[job.at]] = EmptyCase
  BY <1>1, <1>2, <1>4, CaseWritten
<1>6. Typed'
  BY <1>1, <1>2, <1>3, <1>5 DEF IInv, Typed, Idle
<1>7. AreWhole(cases', Done(tests, job.suites, job.at), tests)
  BY <1>1, <1>4, DoneStaysWhole
<1>8. job.at \in 1..(Len(Order) + 1)
  BY <1>2, OrderIs
<1>9. Extracts'
  BY <1>1, <1>2, <1>3, <1>5, <1>7, <1>8 DEF Extracts
<1>10. Reads'
  BY <1>3 DEF Reads, Reading
<1> QED  BY <1>6, <1>9, <1>10 DEF IInv

LEMMA WriteMainKeeps ==
  ASSUME IInv, WriteMain
  PROVE  IInv'
<1> DEFINE k == Order[job.at]
           half == [CaseOf(tests[k]) EXCEPT !.fixtures = {}]
<1>1. /\ job.step = "main" /\ job.step \in Extracting
      /\ cases' = [cases EXCEPT ![k].main = MainOf(tests[k])]
      /\ job' = [job EXCEPT !.step = "fixtures"]
      /\ UNCHANGED <<tests, manifest, reach, outcome>>
  BY DEF WriteMain, At, Key, Block, Extracting
<1>2. /\ job.at \in 1..Len(Order) /\ job.at \in DOMAIN Order
      /\ SuiteOf(k) \in job.suites /\ IsCase(tests[k]) /\ cases[k] = EmptyCase
  BY <1>1, OrderIs DEF IInv, Extracts
<1>3. /\ job.at + 1 \in 1..(Len(Order) + 1) /\ job \in Jobs
      /\ job.rows \in Seq(Rows) /\ job.goal # "none" /\ k \in Keys /\ tests[k] \in BlocksOf(k)
      /\ job.goal \in {"pass-reach", "checker-corpus"} => job.suites = Suites
      /\ AreRowsOf(job.rows, Done(tests, job.suites, job.at), tests)
      /\ outcome = NoOutcome
  BY <1>1, <1>2, InBlockHas
<1>4. /\ job'.goal = job.goal /\ job'.step = "fixtures" /\ job'.suites = job.suites
      /\ job'.at = job.at /\ job'.rows = job.rows /\ job' \in Jobs
  BY <1>1, <1>3 DEF Jobs, Extracting
<1>5. half \in Programs(k)
  BY <1>2, <1>3, ProgramsAre
<1>6. cases' = [cases EXCEPT ![k] = half]
  <2>1. [EmptyCase EXCEPT !.main = MainOf(tests[k])] = half
    BY DEF EmptyCase, CaseOf
  <2> QED  BY <1>1, <1>2, <2>1
<1> HIDE DEF half
<1>7. /\ cases' \in [Keys -> UNION {Programs(x) : x \in Keys}]
      /\ \A x \in Keys : cases'[x] \in Programs(x)
      /\ cases'[k] = half
  BY <1>3, <1>5, <1>6, CaseWritten
<1>8. Typed'
  BY <1>1, <1>3, <1>4, <1>7 DEF IInv, Typed, Idle
<1>9. AreWhole(cases', Done(tests, job.suites, job.at), tests)
  BY <1>1, <1>2, <1>5, <1>6, DoneStaysWhole
<1>10. job.at \in 1..(Len(Order) + 1)
  BY <1>2, OrderIs
<1>11. Extracts'
  BY <1>1, <1>2, <1>3, <1>4, <1>7, <1>9, <1>10 DEF Extracts, half
<1>12. Reads'
  BY <1>4 DEF Reads, Reading
<1> QED  BY <1>8, <1>11, <1>12 DEF IInv

\* The fixtures are written, and the test is done: one more row and one more
\* whole directory.
LEMMA WriteFixturesKeeps ==
  ASSUME IInv, WriteFixtures
  PROVE  IInv'
<1> DEFINE k == Order[job.at]
           whole == CaseOf(tests[k])
           row == RowFor(k, tests[k])
           done == Done(tests, job.suites, job.at)
<1>1. /\ job.step = "fixtures" /\ job.step \in Extracting
      /\ cases' = [cases EXCEPT ![k].fixtures = Overwritten(@, Inside(FixturesOf(tests[k])))]
      /\ job' = [job EXCEPT !.step = "block", !.at = @ + 1, !.rows = Append(@, row)]
      /\ UNCHANGED <<tests, manifest, reach, outcome>>
  BY DEF WriteFixtures, At, Key, Block, Defs, RowFor, Extracting
<1>2. /\ job.at \in 1..Len(Order) /\ job.at \in DOMAIN Order
      /\ SuiteOf(k) \in job.suites /\ IsCase(tests[k])
      /\ cases[k] = [whole EXCEPT !.fixtures = {}]
  BY <1>1, OrderIs DEF IInv, Extracts
<1>3. /\ job.at + 1 \in 1..(Len(Order) + 1) /\ job \in Jobs
      /\ job.rows \in Seq(Rows) /\ job.goal # "none" /\ k \in Keys /\ tests[k] \in BlocksOf(k)
      /\ job.goal \in {"pass-reach", "checker-corpus"} => job.suites = Suites
      /\ AreRowsOf(job.rows, done, tests)
      /\ outcome = NoOutcome /\ k \notin done
  BY <1>1, <1>2, InBlockHas
<1>4. row \in Rows
  BY <1>2, <1>3, RowForIs
<1>5. /\ job'.goal = job.goal /\ job'.step = "block" /\ job'.suites = job.suites
      /\ job'.at = job.at + 1 /\ job'.rows = Append(job.rows, row) /\ job' \in Jobs
  <2>1. Append(job.rows, row) \in Seq(Rows \cup Records \cup Judgements)
    <3>1. job.rows \in Seq(Rows \cup Records \cup Judgements)
      BY <1>3, JobHas
    <3> QED  BY <1>4, <3>1, AppendProperties
  <2>2. PICK rows, n : rows = Append(job.rows, row) /\ n = job.at + 1 /\ n \in Nat
    <3>1. job.at + 1 \in Nat
      BY <1>3, JobHas
    <3> QED  BY <3>1
  <2>3. job' = [job EXCEPT !.step = "block", !.at = n, !.rows = rows]
    BY <1>1, <2>2
  <2> HIDE DEF row
  <2> QED  BY <1>3, <2>1, <2>2, <2>3 DEF Jobs, Extracting
<1>6. whole \in Programs(k)
  BY <1>2, <1>3, ProgramsAre
<1>7. cases' = [cases EXCEPT ![k] = whole]
  <2>1. Overwritten({}, Inside(FixturesOf(tests[k]))) = Inside(FixturesOf(tests[k]))
    BY DEF Overwritten
  <2>2. cases[k] = [main |-> MainOf(tests[k]), fixtures |-> {}]
    BY <1>2 DEF CaseOf
  <2>3. [cases[k] EXCEPT !.fixtures = Inside(FixturesOf(tests[k]))] = whole
    BY <2>2 DEF CaseOf
  <2>4. cases[k].fixtures = {}
    BY <2>2
  <2>5. cases' = [cases EXCEPT ![k] =
                    [cases[k] EXCEPT !.fixtures = Overwritten(cases[k].fixtures, Inside(FixturesOf(tests[k])))]]
    BY <1>1
  <2> HIDE DEF whole
  <2> QED  BY <2>1, <2>3, <2>4, <2>5
<1>8. /\ cases' \in [Keys -> UNION {Programs(x) : x \in Keys}]
      /\ \A x \in Keys : cases'[x] \in Programs(x)
      /\ cases'[k] = whole
  BY <1>3, <1>6, <1>7, CaseWritten
<1>9. Typed'
  BY <1>1, <1>3, <1>5, <1>8 DEF IInv, Typed, Idle
<1>10. Done(tests, job.suites, job.at + 1) = done \cup {k}
  BY <1>2, OneMoreDone
<1>11. AreWhole(cases', done, tests)
  BY <1>1, <1>2, <1>6, <1>7, DoneStaysWhole
<1>12. AreWhole(cases', done \cup {k}, tests)
  BY <1>8, <1>11 DEF AreWhole
<1>13. Append(job.rows, row) \in Seq(Rows) /\ AreRowsOf(Append(job.rows, row), done \cup {k}, tests)
  BY <1>2, <1>3, OneMoreRow
<1> HIDE DEF row, done, whole
<1>14. Extracts'
  BY <1>1, <1>3, <1>5, <1>10, <1>12, <1>13 DEF Extracts
<1>15. Reads'
  BY <1>5 DEF Reads, Reading
<1> QED  BY <1>9, <1>14, <1>15 DEF IInv

\* At the end of an extraction all that it was to take is done.
LEMMA Extracted ==
  ASSUME IInv, job.step = "block", job.at > Len(Order)
  PROVE  /\ job.rows \in Seq(Rows) /\ Distinct(job.rows)
         /\ job.goal \in {"pass-reach", "checker-corpus"} =>
              AreRowsOf(job.rows, Plainly(tests), tests) /\ AreWhole(cases, Plainly(tests), tests)
<1>1. /\ job.rows \in Seq(Rows) /\ job.at \in 1..(Len(Order) + 1)
      /\ AreRowsOf(job.rows, Done(tests, job.suites, job.at), tests)
      /\ AreWhole(cases, Done(tests, job.suites, job.at), tests)
      /\ job.goal \in {"pass-reach", "checker-corpus"} => job.suites = Suites
  BY DEF IInv, Extracts, Extracting
<1>2. job.at = Len(Order) + 1
  BY <1>1, OrderIs
<1>3. Distinct(job.rows)
  BY <1>1 DEF AreRowsOf
<1> QED  BY <1>1, <1>2, <1>3, AllDone

\* A job of another program begins.
LEMMA RunHas ==
  ASSUME job \in Jobs, NEW step \in Reading, Run(step)
  PROVE  /\ job' \in Jobs /\ job'.goal = job.goal /\ job'.step = step /\ job'.at = 1
         /\ job'.rows = <<>>
<1>1. <<>> \in Seq(Rows \cup Records \cup Judgements)
  OBVIOUS
<1> QED  BY <1>1 DEF Run, Jobs

LEMMA SomeRows ==
  ASSUME NEW lines \in Seq(Rows)
  PROVE  lines \in Seq(Rows \cup {Torn})
OBVIOUS

LEMMA WriteManifestKeeps ==
  ASSUME IInv, WriteManifest
  PROVE  IInv'
<1>1. /\ job.step = "block" /\ job.at > Len(Order) /\ manifest' = job.rows
      /\ UNCHANGED <<tests, cases, reach>>
      /\ \/ job' = NoJob
         \/ job.goal = "pass-reach" /\ Run("probe") /\ UNCHANGED outcome
         \/ job.goal = "checker-corpus" /\ reach # NoReach /\ Run("batch") /\ UNCHANGED outcome
  BY DEF WriteManifest, At, Succeeds, Fails
<1>2. /\ job \in Jobs /\ outcome = NoOutcome
      /\ job.rows \in Seq(Rows) /\ Distinct(job.rows) /\ job.rows \in Seq(Rows \cup {Torn})
      /\ job.goal \in {"pass-reach", "checker-corpus"} =>
              AreRowsOf(job.rows, Plainly(tests), tests) /\ AreWhole(cases, Plainly(tests), tests)
  <2>1. job \in Jobs /\ outcome = NoOutcome
    BY <1>1 DEF IInv, Typed, Idle
  <2>2. /\ job.rows \in Seq(Rows) /\ Distinct(job.rows)
        /\ job.goal \in {"pass-reach", "checker-corpus"} =>
              AreRowsOf(job.rows, Plainly(tests), tests) /\ AreWhole(cases, Plainly(tests), tests)
    BY <1>1, Extracted
  <2> QED  BY <2>1, <2>2, SomeRows
<1>3. CASE job' = NoJob
  <2>1. Typed'
    BY <1>1, <1>2, <1>3, NoJobIs DEF IInv, Typed, Idle
  <2> QED  BY <1>3, <2>1, NoJobIs, IdleKeeps
<1>4. ASSUME NEW step \in Reading, Run(step), UNCHANGED outcome,
             step = "probe" => job.goal = "pass-reach",
             step = "batch" => job.goal = "checker-corpus" /\ reach # NoReach
      PROVE  IInv'
  <2>1. /\ job' \in Jobs /\ job'.goal = job.goal /\ job'.step = step /\ job'.at = 1
        /\ job'.rows = <<>>
    BY <1>2, <1>4, RunHas
  <2>2. Typed'
    BY <1>1, <1>2, <1>4, <2>1 DEF IInv, Typed, Idle
  <2>3. Extracts'
    BY <1>4, <2>1 DEF Extracts, Extracting, Reading
  <2>4. AreRowsOf(job.rows, Plainly(tests), tests) /\ AreWhole(cases, Plainly(tests), tests)
    BY <1>2, <1>4 DEF Reading
  <2>5. /\ <<>> \in Seq(Records) /\ <<>> \in Seq(Judgements) /\ 1 = Len(<<>>) + 1
        /\ DOMAIN <<>> = {} /\ 1 <= Len(job.rows) + 1
    BY <1>2
  <2>6. Reads'
    BY <1>1, <1>2, <1>4, <2>1, <2>4, <2>5 DEF Reads
  <2> QED  BY <2>2, <2>3, <2>6 DEF IInv
<1> QED  BY <1>1, <1>3, <1>4 DEF Reading

LEMMA AppendIs ==
  ASSUME NEW S, NEW lines \in Seq(S), NEW x \in S
  PROVE  /\ Append(lines, x) \in Seq(S) /\ Len(lines) \in Nat
         /\ Len(Append(lines, x)) = Len(lines) + 1
         /\ DOMAIN Append(lines, x) = 1..(Len(lines) + 1) /\ DOMAIN lines = 1..Len(lines)
         /\ Append(lines, x)[Len(lines) + 1] = x
         /\ \A i \in 1..Len(lines) : Append(lines, x)[i] = lines[i]
BY AppendProperties

\* A program goes on to the next line.
LEMMA NextLine ==
  ASSUME job \in Jobs, NEW rows \in Seq(Rows \cup Records \cup Judgements),
         job' = [job EXCEPT !.at = @ + 1, !.rows = rows]
  PROVE  /\ job' \in Jobs /\ job'.goal = job.goal /\ job'.step = job.step
         /\ job'.suites = job.suites /\ job'.at = job.at + 1 /\ job'.rows = rows
<1>1. PICK n \in Nat : n = job.at + 1
  BY DEF Jobs
<1>2. job' = [job EXCEPT !.at = n, !.rows = rows]
  BY <1>1
<1> QED  BY <1>1, <1>2 DEF Jobs

\* One more line of what a program reads.
LEMMA AtRowHas ==
  ASSUME IInv, job.step \in Reading, job.at \in DOMAIN manifest
  PROVE  /\ manifest[job.at] \in Rows /\ manifest[job.at].key \in Keys
         /\ job.at \in 1..Len(manifest) /\ job.at + 1 <= Len(manifest) + 1
         /\ cases[manifest[job.at].key] \in Programs(manifest[job.at].key)
         /\ job \in Jobs /\ outcome = NoOutcome
<1>1. manifest \in Seq(Rows)
  BY DEF IInv, Reads
<1>2. /\ manifest[job.at] \in Rows /\ job.at \in 1..Len(manifest) /\ job.at + 1 <= Len(manifest) + 1
  BY <1>1
<1>3. manifest[job.at].key \in Keys
  BY <1>2, RowsHave
<1> QED  BY <1>2, <1>3 DEF IInv, Typed, Idle, Reading

LEMMA ProbeKeeps ==
  ASSUME IInv, NEW late \in Lateness, Probe(late)
  PROVE  IInv'
<1> DEFINE row == manifest[job.at]
           program == cases[row.key]
           record == RecordOf(row, ErrsFrom(program), late, Diverges(program))
           m == Len(job.rows)
<1>1. /\ job.step = "probe" /\ job.step \in Reading /\ job.at \in DOMAIN manifest
      /\ job' = [job EXCEPT !.at = @ + 1, !.rows = Append(@, record)]
      /\ UNCHANGED <<tests, cases, manifest, reach, outcome>>
  BY DEF Probe, AtRow, At, Row, files, Reading
<1>2. /\ row \in Rows /\ row.key \in Keys /\ job.at \in 1..Len(manifest)
      /\ job.at + 1 <= Len(manifest) + 1
      /\ program \in Programs(row.key) /\ job \in Jobs /\ outcome = NoOutcome
  BY <1>1, AtRowHas
<1>3. ErrsFrom(program) \in 1..NeverErrs
  BY <1>2, PonycAssumption
<1>4. record \in Records
  <2>1. Diverges(program) \in Diverging
    BY <1>2 DEF Diverging
  <2> QED  BY <1>2, <1>3, <2>1 DEF Records
<1>5. RecordIsTrue(record, row, ErrsFrom(program)) /\ record.key = row.key
  BY <1>3, RecordOfIsTrue
<1>6. /\ manifest \in Seq(Rows)
      /\ AreRowsOf(manifest, Plainly(tests), tests) /\ AreWhole(cases, Plainly(tests), tests)
      /\ job.at = m + 1 /\ job.rows \in Seq(Records) /\ job.goal = "pass-reach"
      /\ \A i \in DOMAIN job.rows :
           /\ job.rows[i].key = manifest[i].key
           /\ RecordIsTrue(job.rows[i], manifest[i], ErrsFrom(cases[manifest[i].key]))
  BY <1>1 DEF IInv, Reads
<1> HIDE DEF record
<1> DEFINE more == Append(job.rows, record)
<1>7. /\ more \in Seq(Records) /\ more \in Seq(Rows \cup Records \cup Judgements)
      /\ m \in Nat /\ Len(more) = m + 1 /\ DOMAIN more = 1..(m + 1)
      /\ DOMAIN job.rows = 1..m
      /\ more[m + 1] = record /\ \A i \in 1..m : more[i] = job.rows[i]
  <2>1. more \in Seq(Rows \cup Records \cup Judgements)
    BY <1>4, <1>6
  <2> QED  BY <1>4, <1>6, <2>1, AppendIs
<1> HIDE DEF more
<1>8. /\ job'.goal = job.goal /\ job'.step = "probe" /\ job'.suites = job.suites
      /\ job'.at = job.at + 1 /\ job'.rows = more /\ job' \in Jobs
  <2>1. job' = [job EXCEPT !.at = @ + 1, !.rows = more]
    BY <1>1 DEF more
  <2> QED  BY <1>1, <1>2, <1>7, <2>1, NextLine
<1>9. Typed'
  BY <1>1, <1>2, <1>8 DEF IInv, Typed, Idle
<1>10. Extracts'
  BY <1>8 DEF Extracts, Extracting
<1>11. ASSUME NEW i \in DOMAIN more
       PROVE  /\ more[i].key = manifest[i].key
              /\ RecordIsTrue(more[i], manifest[i], ErrsFrom(cases[manifest[i].key]))
  <2>1. CASE i = m + 1
    BY <1>5, <1>6, <1>7, <2>1
  <2>2. CASE i # m + 1
    <3>1. i \in 1..m
      BY <1>7, <2>2
    <3> QED  BY <1>6, <1>7, <3>1
  <2> QED  BY <2>1, <2>2
<1> HIDE DEF m
<1>12. Reads'
  BY <1>1, <1>2, <1>6, <1>7, <1>8, <1>11 DEF Reads
<1> QED  BY <1>9, <1>10, <1>12 DEF IInv

LEMMA JudgeKeeps ==
  ASSUME IInv, NEW got \in {"ok", "fail", "load-failed"}, Judge(got)
  PROVE  IInv'
<1> DEFINE row == manifest[job.at]
           judgement == [key |-> row.key, got |-> got]
           m == Len(job.rows)
<1>1. /\ job.step = "batch" /\ job.step \in Reading /\ job.at \in DOMAIN manifest
      /\ job' = [job EXCEPT !.at = @ + 1, !.rows = Append(@, judgement)]
      /\ UNCHANGED <<tests, cases, manifest, reach, outcome>>
  BY DEF Judge, AtRow, At, Row, files, Reading
<1>2. /\ row \in Rows /\ row.key \in Keys /\ job.at \in 1..Len(manifest)
      /\ job.at + 1 <= Len(manifest) + 1 /\ job \in Jobs /\ outcome = NoOutcome
  BY <1>1, AtRowHas
<1>3. judgement \in Judgements /\ judgement.key = row.key
  BY <1>2 DEF Judgements
<1>4. /\ manifest \in Seq(Rows)
      /\ AreRowsOf(manifest, Plainly(tests), tests) /\ AreWhole(cases, Plainly(tests), tests)
      /\ job.at = m + 1 /\ job.rows \in Seq(Judgements) /\ reach # NoReach
      /\ \A i \in DOMAIN job.rows : job.rows[i].key = manifest[i].key
  BY <1>1 DEF IInv, Reads
<1> HIDE DEF judgement
<1> DEFINE more == Append(job.rows, judgement)
<1>5. /\ more \in Seq(Judgements) /\ more \in Seq(Rows \cup Records \cup Judgements)
      /\ m \in Nat /\ Len(more) = m + 1 /\ DOMAIN more = 1..(m + 1)
      /\ DOMAIN job.rows = 1..m
      /\ more[m + 1] = judgement /\ \A i \in 1..m : more[i] = job.rows[i]
  <2>1. more \in Seq(Rows \cup Records \cup Judgements)
    BY <1>3, <1>4
  <2> QED  BY <1>3, <1>4, <2>1, AppendIs
<1> HIDE DEF more
<1>6. /\ job'.goal = job.goal /\ job'.step = "batch" /\ job'.suites = job.suites
      /\ job'.at = job.at + 1 /\ job'.rows = more /\ job' \in Jobs
  <2>1. job' = [job EXCEPT !.at = @ + 1, !.rows = more]
    BY <1>1 DEF more
  <2> QED  BY <1>1, <1>2, <1>5, <2>1, NextLine
<1>7. Typed'
  BY <1>1, <1>2, <1>6 DEF IInv, Typed, Idle
<1>8. Extracts'
  BY <1>6 DEF Extracts, Extracting
<1>9. ASSUME NEW i \in DOMAIN more
      PROVE  more[i].key = manifest[i].key
  <2>1. CASE i = m + 1
    BY <1>3, <1>4, <1>5, <2>1
  <2>2. CASE i # m + 1
    <3>1. i \in 1..m
      BY <1>5, <2>2
    <3> QED  BY <1>4, <1>5, <3>1
  <2> QED  BY <2>1, <2>2
<1> HIDE DEF m
<1>10. Reads'
  BY <1>1, <1>2, <1>4, <1>5, <1>6, <1>9 DEF Reads
<1> QED  BY <1>7, <1>8, <1>10 DEF IInv

LEMMA WriteReachKeeps ==
  ASSUME IInv, WriteReach
  PROVE  IInv'
<1>1. /\ job.step = "probe" /\ job.step \in Reading /\ reach' = job.rows
      /\ job' = NoJob /\ UNCHANGED <<tests, cases, manifest>>
  BY DEF WriteReach, RowsDone, At, Fails, Succeeds, Reading
<1>2. job.rows \in Seq(Records)
  BY <1>1 DEF IInv, Reads
<1>3. reach' \in Seq(Records \cup {Torn})
  BY <1>1, <1>2
<1>4. Typed'
  BY <1>1, <1>3, NoJobIs DEF IInv, Typed, Idle
<1> QED  BY <1>1, <1>4, NoJobIs, IdleKeeps

LEMMA WriteVerdictsKeeps ==
  ASSUME IInv, WriteVerdicts
  PROVE  IInv'
<1>1. job' = NoJob /\ UNCHANGED <<tests, cases, manifest, reach>>
  BY DEF WriteVerdicts
<1>2. Typed'
  BY <1>1, NoJobIs DEF IInv, Typed, Idle
<1> QED  BY <1>1, <1>2, NoJobIs, IdleKeeps

LEMMA ReportByHandKeeps ==
  ASSUME IInv, NEW withReach, NEW only, ReportByHand(withReach, only)
  PROVE  IInv'
<1>1. Idle /\ UNCHANGED <<tests, cases, manifest, reach, job>>
  BY DEF ReportByHand
<1>2. Typed'
  BY <1>1 DEF IInv, Typed, Idle
<1> QED  BY <1>1, <1>2, IdleKeeps DEF Idle

\* What is left of a file that was being written: if no line was cut short, the
\* lines that reached it.
LEMMA CutIs ==
  ASSUME NEW S, NEW lines \in Seq(S), NEW torn, DOMAIN torn = DOMAIN lines,
         \A n \in DOMAIN lines : torn[n] = Torn, NEW left \in Cut(lines, torn)
  PROVE  /\ left \in Seq(S \cup {Torn})
         /\ Whole(left) => \E m \in 0..Len(lines) :
              DOMAIN left = 1..m /\ \A i \in 1..m : left[i] = lines[i]
<1>1. Len(lines) \in Nat /\ DOMAIN lines = 1..Len(lines)
  BY LenProperties
<1>2. ASSUME NEW m \in 0..Len(lines)
      PROVE  /\ SubSeq(lines, 1, m) \in Seq(S) /\ Len(SubSeq(lines, 1, m)) = m
             /\ DOMAIN SubSeq(lines, 1, m) = 1..m
             /\ \A i \in 1..m : SubSeq(lines, 1, m)[i] = lines[i]
  <2>1. \A i \in 1..m : lines[i] \in S
    <3>1. TAKE i \in 1..m
    <3>2. i \in 1..Len(lines)
      BY <1>1
    <3> QED  BY <1>1, <3>2, ElementOfSeq
  <2>2. m \in Int /\ 1 \in Int
    OBVIOUS
  <2>3. /\ SubSeq(lines, 1, m) \in Seq(S)
        /\ Len(SubSeq(lines, 1, m)) = IF 1 <= m THEN m - 1 + 1 ELSE 0
        /\ \A i \in 1..(m - 1 + 1) : SubSeq(lines, 1, m)[i] = lines[1 + i - 1]
    BY <2>1, <2>2, SubSeqProperties
  <2>4. Len(SubSeq(lines, 1, m)) = m
    BY <2>3
  <2>5. \A i \in 1..m : SubSeq(lines, 1, m)[i] = lines[i]
    <3>1. TAKE i \in 1..m
    <3>2. i \in 1..(m - 1 + 1) /\ 1 + i - 1 = i
      OBVIOUS
    <3> QED  BY <2>3, <3>2
  <2> QED  BY <2>3, <2>4, <2>5, LenProperties
<1>3. CASE left \in {SubSeq(lines, 1, n) : n \in 0..Len(lines)}
  <2>1. PICK m \in 0..Len(lines) : left = SubSeq(lines, 1, m)
    BY <1>3
  <2>2. left \in Seq(S) /\ DOMAIN left = 1..m /\ \A i \in 1..m : left[i] = lines[i]
    BY <1>2, <2>1
  <2>3. left \in Seq(S \cup {Torn})
    BY <2>2
  <2> QED  BY <2>2, <2>3
<1>4. CASE left \in {Append(SubSeq(lines, 1, n - 1), torn[n]) : n \in DOMAIN lines}
  <2>1. PICK n \in DOMAIN lines : left = Append(SubSeq(lines, 1, n - 1), torn[n])
    BY <1>4
  <2>2. n - 1 \in 0..Len(lines) /\ torn[n] = Torn
    BY <1>1, <2>1
  <2>3. SubSeq(lines, 1, n - 1) \in Seq(S) /\ Len(SubSeq(lines, 1, n - 1)) = n - 1
    BY <1>2, <2>2
  <2>4. SubSeq(lines, 1, n - 1) \in Seq(S \cup {Torn}) /\ Torn \in S \cup {Torn}
    BY <2>3
  <2>5. PICK before : before = SubSeq(lines, 1, n - 1)
    OBVIOUS
  <2>6. /\ left \in Seq(S \cup {Torn}) /\ DOMAIN left = 1..(Len(before) + 1)
        /\ left[Len(before) + 1] = Torn /\ Len(before) \in Nat
    BY <2>1, <2>2, <2>4, <2>5, AppendIs
  <2>7. ~Whole(left)
    BY <2>6 DEF Whole
  <2> QED  BY <2>6, <2>7
<1> QED  BY <1>3, <1>4 DEF Cut

LEMMA TornRowsAre ==
  /\ DOMAIN TornRows = DOMAIN job.rows
  /\ \A n \in DOMAIN job.rows : TornRows[n] = Torn
BY DEF TornRows

LEMMA InterruptKeeps ==
  ASSUME IInv, Interrupt
  PROVE  IInv'
<1>1. /\ job' = NoJob /\ UNCHANGED <<tests, cases>>
      /\ IF job.step = "block" /\ job.at > Len(Order) THEN manifest' \in Cut(job.rows, TornRows)
         ELSE UNCHANGED manifest
      /\ IF job.step = "probe" /\ job.at > Len(manifest) THEN reach' \in Cut(job.rows, TornRows)
         ELSE UNCHANGED reach
  BY DEF Interrupt, At, RowsDone
<1>2. manifest' \in Seq(Rows \cup {Torn}) /\ (Whole(manifest') => Distinct(manifest'))
  <2>1. CASE ~(job.step = "block" /\ job.at > Len(Order))
    BY <1>1, <2>1 DEF IInv, Typed
  <2>2. CASE job.step = "block" /\ job.at > Len(Order)
    <3>1. job.rows \in Seq(Rows) /\ Distinct(job.rows)
      BY <2>2, Extracted
    <3>2. PICK left : left = manifest' /\ left \in Cut(job.rows, TornRows)
      BY <1>1, <2>2
    <3>3. /\ left \in Seq(Rows \cup {Torn})
          /\ Whole(left) => \E m \in 0..Len(job.rows) :
               DOMAIN left = 1..m /\ \A i \in 1..m : left[i] = job.rows[i]
      BY <3>1, <3>2, TornRowsAre, CutIs
    <3>4. ASSUME Whole(left)
          PROVE  Distinct(left)
      <4>1. PICK m \in 0..Len(job.rows) : DOMAIN left = 1..m /\ \A i \in 1..m : left[i] = job.rows[i]
        BY <3>3, <3>4
      <4>2. \A i \in 1..m : i \in DOMAIN job.rows
        BY <3>1, LenProperties
      <4> QED  BY <3>1, <4>1, <4>2 DEF Distinct
    <3> QED  BY <3>2, <3>3, <3>4
  <2> QED  BY <2>1, <2>2
<1>3. reach' # NoReach => reach' \in Seq(Records \cup {Torn})
  <2>1. CASE ~(job.step = "probe" /\ job.at > Len(manifest))
    BY <1>1, <2>1 DEF IInv, Typed
  <2>2. CASE job.step = "probe" /\ job.at > Len(manifest)
    <3>1. job.rows \in Seq(Records)
      BY <2>2 DEF IInv, Reads, Reading
    <3>2. PICK left : left = reach' /\ left \in Cut(job.rows, TornRows)
      BY <1>1, <2>2
    <3>3. left \in Seq(Records \cup {Torn})
      BY <3>1, <3>2, TornRowsAre, CutIs
    <3> QED  BY <3>2, <3>3
  <2> QED  BY <2>1, <2>2
<1>4. Typed'
  BY <1>1, <1>2, <1>3, NoJobIs DEF IInv, Typed, Idle
<1> QED  BY <1>1, <1>4, NoJobIs, IdleKeeps

LEMMA StutterKeeps ==
  ASSUME IInv, UNCHANGED vars
  PROVE  IInv'
BY DEF vars, files, IInv, Typed, Extracts, Reads, Idle

LEMMA NextKeeps ==
  ASSUME IInv, [Next]_vars
  PROVE  IInv'
<1>1. CASE UNCHANGED vars
  BY <1>1, StutterKeeps
<1>2. ASSUME NEW k \in Keys, NEW b \in BlocksOf(k), Edit(k, b)
      PROVE  IInv'
  BY <1>2, EditKeeps
<1>3. ASSUME NEW goal \in {"corpus-cases", "pass-reach", "checker-corpus"},
             NEW suites \in SUBSET Suites \ {{}}, Make(goal, suites)
      PROVE  IInv'
  BY <1>3, MakeKeeps
<1>4. ASSUME NEW late \in Lateness, Probe(late)
      PROVE  IInv'
  BY <1>4, ProbeKeeps
<1>5. ASSUME NEW got \in {"ok", "fail", "load-failed"}, Judge(got)
      PROVE  IInv'
  BY <1>5, JudgeKeeps
<1>6. ASSUME NEW withReach \in BOOLEAN, NEW only \in {AllSuites} \cup {{s} : s \in Suites},
             ReportByHand(withReach, only)
      PROVE  IInv'
  BY <1>6, ReportByHandKeeps
<1> QED
  BY <1>1, <1>2, <1>3, <1>4, <1>5, <1>6, PassOverKeeps, ClearKeeps, WriteMainKeeps, WriteFixturesKeeps,
     WriteManifestKeeps, WriteReachKeeps, WriteVerdictsKeeps, InterruptKeeps DEF Next

(***************************************************************************)
(* Wherever the programs are, and wherever they were stopped before, what  *)
(* they hold and what they are to read is of the tests as they are, and    *)
(* what they left is of tests and records there may be.                    *)
(***************************************************************************)
THEOREM PipelineIsSound == Spec => []IInv
<1>1. IInv /\ [Next]_vars => IInv'
  BY NextKeeps
<1> QED  BY InitKeeps, <1>1, PTL DEF Spec

(***************************************************************************)
(* A row has the pass its test asserts and the beginning of a message it   *)
(* asserts, all of it where no string of the call is split, for any suites *)
(* with the three shapes of define.                                        *)
(***************************************************************************)
THEOREM RowsSayWhatTestsAssert == Spec => []RowsAreAsserted
<1>1. IInv => RowsAreAsserted
  <2> SUFFICES ASSUME IInv, job.step = "block", NEW i \in DOMAIN job.rows
               PROVE  LET row == job.rows[i]
                          call == StatedBy(tests[row.key])
                          d == Define(DefsOf(SuiteOf(row.key)), call.macro)
                      IN /\ row.target = AssertedPass(call, d)
                         /\ IF row.expect = "accept" \/ AssertedMessages(call, d) = {} THEN row.message = <<>>
                            ELSE \E m \in AssertedMessages(call, d) :
                                   Begins(row.message, m) /\ (Unsplit(call) => row.message = m)
    BY DEF RowsAreAsserted, At
  <2>1. /\ job.at \in 1..(Len(Order) + 1)
        /\ AreRowsOf(job.rows, Done(tests, job.suites, job.at), tests)
    BY DEF IInv, Extracts, Extracting
  <2>2. PICK k \in Done(tests, job.suites, job.at) : job.rows[i] = RowFor(k, tests[k])
    BY <2>1 DEF AreRowsOf
  <2>3. k \in Keys /\ IsCase(tests[k]) /\ tests[k] \in BlocksOf(k)
    <3>1. k \in Keys
      BY <2>1, <2>2, DoneAreKeys
    <3>2. IsCase(tests[k])
      <4>1. PICK x \in {y \in 1..(job.at - 1) : SuiteOf(Order[y]) \in job.suites /\ IsCase(tests[Order[y]])} :
              Order[x] = k
        BY DEF Done
      <4> QED  BY <4>1
    <3> QED  BY <3>1, <3>2 DEF IInv, Typed
  <2>4. PICK call, d : /\ call = StatedBy(tests[k])
                       /\ d = Define(DefsOf(SuiteOf(k)), call.macro)
    OBVIOUS
  <2>5. FollowsDefine(call, d)
    BY <2>3, <2>4, SuitesAssumption
  <2>6. /\ job.rows[i].key = k /\ job.rows[i].target = CasePass(call, d)
        /\ job.rows[i].expect = "accept" => job.rows[i].message = <<>>
        /\ job.rows[i].expect # "accept" => job.rows[i].message = Message(call, d)
    <3>1. RowSays(job.rows[i], k, call, d)
      BY <2>2, <2>4, RowForSays
    <3> QED  BY <3>1 DEF RowSays
  <2>7. CasePass(call, d) = AssertedPass(call, d)
    BY <2>5, PassIsAsserted
  <2>8. IF AssertedMessages(call, d) = {} THEN Message(call, d) = <<>>
        ELSE \E m \in AssertedMessages(call, d) :
               Begins(Message(call, d), m) /\ (Unsplit(call) => Message(call, d) = m)
    BY <2>5, MessageIsAsserted
  <2> QED  BY <2>4, <2>6, <2>7, <2>8
<1> QED  BY PipelineIsSound, <1>1, PTL

(***************************************************************************)
(* A record says what ponyc does with its case, whichever runs took too    *)
(* long.                                                                   *)
(***************************************************************************)
THEOREM RecordsAreTrue == Spec => []ReachIsTrue
<1>1. IInv => ReachIsTrue
  BY DEF IInv, Reads, Reading, ReachIsTrue, At
<1> QED  BY PipelineIsSound, <1>1, PTL

-------------------------------------------------------------------------------
(* What a report says.                                                     *)

\* The line that counts for a case is one of its lines.
LEMMA LineOfIs ==
  ASSUME NEW lines, NEW n \in Nat, DOMAIN lines = 1..n, NEW k \in KeysIn(lines)
  PROVE  \E i \in DOMAIN lines : lines[i].key = k /\ LineOf(lines, k) = lines[i]
<1> DEFINE Of == {i \in 1..n : lines[i].key = k}
           Back == {n - i : i \in Of}
<1>1. Of # {} /\ Of \subseteq 1..n
  BY DEF KeysIn
<1>2. Back \in SUBSET Nat /\ Back # {}
  BY <1>1
<1>3. PICK b \in Back : \A y \in Back : b <= y
  BY <1>2, NatHasLeast
<1>4. PICK i \in Of : b = n - i
  BY <1>3
<1>5. \A j \in Of : j <= i
  <2>1. TAKE j \in Of
  <2>2. n - i <= n - j
    BY <1>3, <1>4
  <2> QED  BY <1>1, <1>4, <2>1, <2>2
<1>6. \E x \in DOMAIN lines : lines[x].key = k /\ \A j \in DOMAIN lines : lines[j].key = k => j <= x
  BY <1>5
<1>7. PICK x : /\ x = CHOOSE y \in DOMAIN lines : lines[y].key = k /\ \A j \in DOMAIN lines : lines[j].key = k => j =< y
               /\ x \in DOMAIN lines /\ lines[x].key = k
  BY <1>6
<1> QED  BY <1>7 DEF LineOf

\* The rows that are read, and the judgement of one.
ReadOf(m, only) ==
  LET rows == {m[i] : i \in {j \in DOMAIN m : m[j] # Torn}} IN
  IF only = AllSuites THEN rows ELSE {r \in rows : SuiteOf(r.key) \in only}
GotOf(v, r) == LineOf(v, r.key).got

\* What a report that succeeds has found of a row.
Accounted(r, v, known) ==
  /\ r.key \in Universe(known) =>
       /\ r.key \in KeysIn(v) /\ GotOf(v, r) # "load-failed"
       /\ Expected(r, known) = "accept" => Ours(GotOf(v, r)) = "accept"
  /\ r.key \notin Universe(known) /\ r.key \in KeysIn(v) => r.key \in InvalidKeys(known)

LEMMA ReportIs ==
  ASSUME NEW m, NEW v, NEW known, known # NoReach, Whole(known), Whole(m), NEW only
  PROVE  /\ Report(m, v, known, only).read = {r.key : r \in ReadOf(m, only)}
         /\ Report(m, v, known, only).code = 0 => \A r \in ReadOf(m, only) : Accounted(r, v, known)
         /\ \A x \in Report(m, v, known, only).agreed : \E r \in ReadOf(m, only) :
              x = <<r.key, Credit(r, known)>> /\ r.key \in Universe(known)
<1> DEFINE torn == known # NoReach /\ ~Whole(known)
           kn == IF known = NoReach \/ torn THEN <<>> ELSE known
           read == ReadOf(m, only)
           countedIn(x) == {r \in read : known = NoReach \/ r.key \in Universe(x)}
           judged == {r \in read : r.key \in KeysIn(v)}
           unreachedIn(x) == {r \in judged \ countedIn(x) : r.key \notin InvalidKeys(x)}
           missingIn(x) == countedIn(x) \ judged
           loadFailedIn(x) == {r \in countedIn(x) \cap judged : GotOf(v, r) = "load-failed"}
           scoredIn(x) == (countedIn(x) \cap judged) \ loadFailedIn(x)
           agreedIn(x) == {r \in scoredIn(x) : Ours(GotOf(v, r)) = Expected(r, x)}
           wrongIn(x) == {r \in scoredIn(x) \ agreedIn(x) : Expected(r, x) = "accept"}
           total(x) == Cardinality(scoredIn(x) \cup loadFailedIn(x))
           reportIn(x) ==
             [code |-> IF torn THEN 2
                       ELSE IF ~Whole(m) THEN 1
                       ELSE IF total(x) = 0 \/
                               wrongIn(x) \cup missingIn(x) \cup loadFailedIn(x) \cup unreachedIn(x) # {}
                            THEN 2
                       ELSE 0,
              read |-> {r.key : r \in read},
              agreed |-> {<<r.key, Credit(r, x)>> : r \in agreedIn(x)},
              total |-> total(x)]
<1>0. Report(m, v, known, only) = reportIn(kn)
  BY DEF Report, ReadOf, GotOf
<1> DEFINE report == reportIn(known)
           counted == countedIn(known)
           unreached == unreachedIn(known)
           missing == missingIn(known)
           loadFailed == loadFailedIn(known)
           scored == scoredIn(known)
           agreed == agreedIn(known)
           wrong == wrongIn(known)
<1>1. Report(m, v, known, only) = report
  <2>1. kn = known
    OBVIOUS
  <2> HIDE DEF kn, reportIn
  <2> QED  BY <1>0, <2>1
<1>2. /\ report.read = {r.key : r \in read}
      /\ report.agreed = {<<r.key, Credit(r, known)>> : r \in agreed}
      /\ report.code = 0 => wrong \cup missing \cup loadFailed \cup unreached = {}
  OBVIOUS
<1> HIDE DEF report, read
<1>3. ASSUME wrong \cup missing \cup loadFailed \cup unreached = {}, NEW r \in read
      PROVE  Accounted(r, v, known)
  <2>1. ASSUME r.key \in Universe(known)
        PROVE  /\ r.key \in KeysIn(v) /\ GotOf(v, r) # "load-failed"
               /\ Expected(r, known) = "accept" => Ours(GotOf(v, r)) = "accept"
    <3>1. r \in counted
      BY <2>1
    <3>2. r \in judged
      BY <1>3, <3>1
    <3>3. GotOf(v, r) # "load-failed"
      BY <1>3, <3>1, <3>2
    <3>4. r \in scored
      BY <3>1, <3>2, <3>3
    <3>5. ASSUME Expected(r, known) = "accept"
          PROVE  Ours(GotOf(v, r)) = "accept"
      BY <1>3, <3>4, <3>5
    <3> QED  BY <3>2, <3>3, <3>5
  <2>2. ASSUME r.key \notin Universe(known), r.key \in KeysIn(v)
        PROVE  r.key \in InvalidKeys(known)
    BY <1>3, <2>2
  <2> QED  BY <2>1, <2>2 DEF Accounted
<1>4. \A x \in report.agreed : \E r \in read :
         x = <<r.key, Credit(r, known)>> /\ r.key \in Universe(known)
  BY <1>2
<1> HIDE DEF wrong, missing, loadFailed, unreached
<1>5. report.code = 0 => \A r \in read : Accounted(r, v, known)
  BY <1>2, <1>3
<1> QED  BY <1>1, <1>2, <1>4, <1>5 DEF read

\* A report over a torn file fails.
LEMMA ReportFails ==
  ASSUME NEW m, NEW v, NEW known, known # NoReach, NEW only,
         Report(m, v, known, only).code = 0
  PROVE  Whole(known) /\ Whole(m)
<1>1. \E c, x, y, z :
        Report(m, v, known, only) =
          [code |-> IF ~Whole(known) THEN 2 ELSE IF ~Whole(m) THEN 1 ELSE c,
           read |-> x, agreed |-> y, total |-> z]
  BY DEF Report
<1> QED  BY <1>1

\* What a true record says of a row, if it does not set it aside.
LEMMA TrueRecordSays ==
  ASSUME NEW r \in Rows, NEW x \in Records, NEW from \in 1..NeverErrs,
         RecordIsTrue(x, r, from), x.expect # "invalid"
  PROVE  /\ r.expect = "accept" =>
              x.expect = "accept" /\ (x.full = "limited" <=> from <= Index("final"))
         /\ r.expect = "reject" =>
              /\ x.expect = "reject" /\ x.full # "limited"
              /\ x.earliest \in Passes /\ Index(x.earliest) = from
         /\ r.expect \in {"accept", "reject"}
<1>1. r.expect \in {"accept", "reject"}
  BY RowsHave DEF Expects
<1>2. IsRecord(x)
  BY RecordsHave
<1>3. IF r.expect = "accept"
      THEN from > Index(r.target) /\ x.expect = "accept" /\ (x.full = "limited" <=> from <= Index("final"))
      ELSE x.expect = "reject" /\ Index(x.earliest) = from
  <2>1. /\ r.target \in Passes
        /\ IF r.expect = "accept"
             THEN IF from <= Index(r.target) THEN x.expect = "invalid"
                  ELSE x.expect = "accept" /\ (x.full = "limited" <=> from <= Index("final"))
             ELSE IF from > Index(r.target) THEN x.expect = "invalid"
                  ELSE x.expect = "reject" /\ Index(x.earliest) = from
    BY DEF RecordIsTrue
  <2>2. r.target \in Passes
    BY <2>1
  <2>3. Index(r.target) \in 1..18
    BY <2>2, PassHasIndex
  <2>4. NeverErrs = 19
    BY LadderIs
  <2>5. from \in 1..19
    BY <2>4
  <2> QED  BY <2>1, <2>3, <2>5
<1> QED  BY <1>1, <1>2, <1>3 DEF IsRecord

\* A row that is read is the line of its case.
LEMMA ReadRowIs ==
  ASSUME NEW m \in Seq(Rows \cup {Torn}), Whole(m), Distinct(m), NEW only, NEW r \in ReadOf(m, only)
  PROVE  r \in Rows /\ r.key \in Keys /\ r.key \in KeysIn(m) /\ LineOf(m, r.key) = r
<1>1. PICK i \in DOMAIN m : r = m[i] /\ m[i] # Torn
  BY DEF ReadOf
<1>2. Len(m) \in Nat /\ DOMAIN m = 1..Len(m)
  BY LenProperties
<1>3. m[i] \in Rows \cup {Torn}
  BY <1>1, <1>2, ElementOfSeq
<1>4. r \in Rows /\ r.key \in Keys
  BY <1>1, <1>3, RowsHave
<1>5. r.key \in KeysIn(m)
  BY <1>1 DEF KeysIn
<1>6. PICK j \in DOMAIN m : m[j].key = r.key /\ LineOf(m, r.key) = m[j]
  BY <1>2, <1>5, LineOfIs
<1>7. i = j
  BY <1>1, <1>6 DEF Distinct
<1> QED  BY <1>1, <1>4, <1>5, <1>6, <1>7

LEMMA RecordOfCase ==
  ASSUME NEW known \in Seq(Records \cup {Torn}), Whole(known), NEW k \in KeysIn(known)
  PROVE  LineOf(known, k) \in Records
<1>1. Len(known) \in Nat /\ DOMAIN known = 1..Len(known)
  BY LenProperties
<1>2. PICK i \in DOMAIN known : LineOf(known, k) = known[i]
  BY <1>1, LineOfIs
<1>3. known[i] \in Records \cup {Torn} /\ known[i] # Torn
  BY <1>1, ElementOfSeq DEF Whole
<1> QED  BY <1>2, <1>3

\* The reach file is of the cases as they are.
Holds(C, m, known) ==
  /\ known # NoReach /\ Whole(known) /\ Whole(m)
  /\ \A k \in KeysIn(m) :
       /\ k \in KeysIn(known)
       /\ RecordIsTrue(LineOf(known, k), LineOf(m, k), ErrsFrom(C[k]))

CreditIs(credit, from, row) ==
  CASE credit = "(accepts)" -> row.expect = "accept" /\ from > Index("final")
    [] credit = "(limited accepts)" -> row.expect = "accept" /\ from =< Index("final")
    [] credit \in Passes -> row.expect = "reject" /\ from = Index(credit)

Credits == {"(accepts)", "(limited accepts)"} \cup Passes

LEMMA ReportIsTrue ==
  ASSUME NEW C, \A k \in Keys : C[k] \in Programs(k),
         NEW m \in Seq(Rows \cup {Torn}), Whole(m) => Distinct(m),
         NEW known \in Seq(Records \cup {Torn}), Holds(C, m, known), NEW v, NEW only
  PROVE  /\ Report(m, v, known, only).code = 0 =>
              \A k \in Report(m, v, known, only).read :
                /\ LineOf(m, k).expect = "accept" /\ ErrsFrom(C[k]) = NeverErrs
                /\ LineOf(known, k).expect # "invalid"
                => LineOf(v, k).got = "ok"
         /\ \A k \in Keys, credit \in Credits :
              <<k, credit>> \in Report(m, v, known, only).agreed =>
                CreditIs(credit, ErrsFrom(C[k]), LineOf(m, k))
<1> DEFINE report == Report(m, v, known, only)
<1>1. /\ known # NoReach /\ Whole(known) /\ Whole(m) /\ Distinct(m)
      /\ \A k \in KeysIn(m) : k \in KeysIn(known) /\
           RecordIsTrue(LineOf(known, k), LineOf(m, k), ErrsFrom(C[k]))
  BY DEF Holds
<1>2. /\ report.read = {r.key : r \in ReadOf(m, only)}
      /\ report.code = 0 => \A r \in ReadOf(m, only) : Accounted(r, v, known)
      /\ \A x \in report.agreed : \E r \in ReadOf(m, only) :
           x = <<r.key, Credit(r, known)>> /\ r.key \in Universe(known)
  BY <1>1, ReportIs
<1> HIDE DEF report
\* Each row that is read, and what its record says.
<1>3. ASSUME NEW r \in ReadOf(m, only)
      PROVE  /\ r \in Rows /\ r.key \in Keys /\ LineOf(m, r.key) = r
             /\ r.key \in KeysIn(known) /\ LineOf(known, r.key) \in Records
             /\ ErrsFrom(C[r.key]) \in 1..NeverErrs
             /\ RecordIsTrue(LineOf(known, r.key), r, ErrsFrom(C[r.key]))
  <2>1. r \in Rows /\ r.key \in Keys /\ r.key \in KeysIn(m) /\ LineOf(m, r.key) = r
    BY <1>1, ReadRowIs
  <2>2. r.key \in KeysIn(known) /\ RecordIsTrue(LineOf(known, r.key), r, ErrsFrom(C[r.key]))
    BY <1>1, <2>1
  <2>3. LineOf(known, r.key) \in Records
    BY <1>1, <2>2, RecordOfCase
  <2>4. ErrsFrom(C[r.key]) \in 1..NeverErrs
    BY <2>1, PonycAssumption
  <2> QED  BY <2>1, <2>2, <2>3, <2>4
<1>4. ASSUME NEW k \in KeysIn(known)
      PROVE  /\ k \in Universe(known) <=> LineOf(known, k).expect # "invalid"
             /\ k \in Limited(known) <=> k \in Universe(known) /\ LineOf(known, k).full = "limited"
  BY DEF Universe, InvalidKeys, Limited
<1>5. ASSUME report.code = 0, NEW k \in report.read,
             LineOf(m, k).expect = "accept", ErrsFrom(C[k]) = NeverErrs,
             LineOf(known, k).expect # "invalid"
      PROVE  LineOf(v, k).got = "ok"
  <2>1. PICK r \in ReadOf(m, only) : r.key = k
    BY <1>2, <1>5
  <2>2. PICK x \in Records : x = LineOf(known, k)
    BY <1>3, <2>1
  <2>3. r \in Rows /\ RecordIsTrue(x, r, NeverErrs) /\ x.expect # "invalid" /\ r.expect = "accept"
    BY <1>3, <1>5, <2>1, <2>2
  <2>4. NeverErrs \in 1..NeverErrs /\ ~(NeverErrs <= Index("final"))
    <3>1. "final" \in Passes /\ NeverErrs = 19
      BY LadderIs
    <3>2. Index("final") \in 1..18
      BY <3>1, PassHasIndex
    <3> QED  BY <3>1, <3>2
  <2>5. x.full # "limited"
    BY <2>3, <2>4, TrueRecordSays
  <2>6. k \in Universe(known) /\ k \notin Limited(known)
    BY <1>3, <1>4, <1>5, <2>1, <2>2, <2>5
  <2>7. Expected(r, known) = "accept"
    BY <2>1, <2>3, <2>6 DEF Expected
  <2>8. Ours(GotOf(v, r)) = "accept"
    BY <1>2, <1>5, <2>1, <2>6, <2>7 DEF Accounted
  <2> QED  BY <2>1, <2>8 DEF Ours, GotOf
<1>6. ASSUME NEW k \in Keys, NEW credit \in Credits, <<k, credit>> \in report.agreed
      PROVE  CreditIs(credit, ErrsFrom(C[k]), LineOf(m, k))
  <2>1. PICK r \in ReadOf(m, only) : /\ <<k, credit>> = <<r.key, Credit(r, known)>>
                                     /\ r.key \in Universe(known)
    BY <1>2, <1>6
  <2>2. r.key = k /\ credit = Credit(r, known) /\ k \in Universe(known)
    BY <2>1
  <2>3. /\ r \in Rows /\ LineOf(m, k) = r /\ k \in KeysIn(known)
        /\ LineOf(known, k) \in Records /\ ErrsFrom(C[k]) \in 1..NeverErrs
        /\ RecordIsTrue(LineOf(known, k), r, ErrsFrom(C[k]))
    BY <1>3, <2>2
  <2>4. PICK x, from : /\ x = LineOf(known, k) /\ from = ErrsFrom(C[k]) /\ x \in Records
                       /\ from \in 1..NeverErrs /\ RecordIsTrue(x, r, from) /\ x.expect # "invalid"
    BY <1>4, <2>2, <2>3
  <2>5. /\ r.expect = "accept" => (x.full = "limited" <=> from <= Index("final"))
        /\ r.expect = "reject" =>
             /\ x.expect = "reject" /\ x.full # "limited"
             /\ x.earliest \in Passes /\ Index(x.earliest) = from
        /\ r.expect \in {"accept", "reject"}
    BY <2>3, <2>4, TrueRecordSays
  <2>6. k \in Limited(known) <=> x.full = "limited"
    BY <1>4, <2>2, <2>3, <2>4
  <2>7. CASE r.expect = "accept" /\ x.full = "limited"
    <3>1. credit = "(limited accepts)"
      BY <2>2, <2>6, <2>7 DEF Credit, Expected
    <3> QED  BY <2>3, <2>4, <2>5, <2>7, <3>1, LadderIs DEF CreditIs
  <2>8. CASE r.expect = "accept" /\ x.full # "limited"
    <3>1. credit = "(accepts)"
      BY <2>2, <2>6, <2>8 DEF Credit, Expected
    <3>2. from > Index("final")
      <4>1. Index("final") \in 1..18 /\ from \in 1..19
        BY <2>4, LadderIs, PassHasIndex
      <4> QED  BY <2>5, <2>8, <4>1
    <3> QED  BY <2>3, <2>4, <2>8, <3>1, <3>2, LadderIs DEF CreditIs
  <2>9. CASE r.expect = "reject"
    <3>1. credit = x.earliest
      BY <2>2, <2>3, <2>4, <2>5, <2>6, <2>9 DEF Credit, Expected
    <3>2. credit \in Passes /\ Index(credit) = from
      BY <2>5, <2>9, <3>1
    <3> QED  BY <2>3, <2>4, <2>9, <3>2, LadderIs DEF CreditIs
  <2> QED  BY <2>5, <2>7, <2>8, <2>9
<1> QED  BY <1>5, <1>6 DEF report

-------------------------------------------------------------------------------
(* What a program ends with.                                               *)

\* An outcome that claims nothing.
Quiet(end) == ~end.scored /\ ~(end.goal = "checker-corpus" /\ end.report.code = 0)

LEMMA QuietClaims ==
  ASSUME Quiet(outcome')
  PROVE  PassIsWhole' /\ ReportIsPonycs'
BY DEF Quiet, PassIsWhole, ReportIsPonycs, FalseRejectionsFail, CreditIsPonycs

LEMMA QuietEnds ==
  /\ Quiet(NoOutcome)
  /\ \A goal : Quiet([NoOutcome EXCEPT !.goal = goal, !.report.code = 1])
  /\ \A goal : goal # "checker-corpus" => Quiet([NoOutcome EXCEPT !.goal = goal])
BY DEF Quiet, NoOutcome, NoReport

\* Only the two steps that report claim something.
LEMMA OthersAreQuiet ==
  ASSUME IInv, Next, ~WriteVerdicts,
         ~\E withReach \in BOOLEAN, only \in {AllSuites} \cup {{s} : s \in Suites} :
            ReportByHand(withReach, only)
  PROVE  Quiet(outcome')
<1>1. ASSUME outcome' = NoOutcome
      PROVE  Quiet(outcome')
  BY <1>1, QuietEnds
<1>2. ASSUME ~Idle, UNCHANGED outcome
      PROVE  Quiet(outcome')
  BY <1>2, QuietEnds DEF IInv, Typed
<1>3. CASE \E k \in Keys : \E b \in BlocksOf(k) : Edit(k, b)
  BY <1>1, <1>3 DEF Edit
<1>4. CASE \E goal \in {"corpus-cases", "pass-reach", "checker-corpus"}, suites \in SUBSET Suites \ {{}} :
             Make(goal, suites)
  BY <1>1, <1>4 DEF Make
<1>5. CASE PassOver \/ Clear \/ WriteMain \/ WriteFixtures
  BY <1>2, <1>5 DEF PassOver, Clear, WriteMain, WriteFixtures, InBlock, At, Idle
<1>6. CASE WriteManifest
  <2>1. job.step = "block"
    BY <1>6 DEF WriteManifest, At
  <2>2. \/ job.goal = "corpus-cases" /\ outcome' = [NoOutcome EXCEPT !.goal = job.goal]
        \/ UNCHANGED outcome
        \/ outcome' = [NoOutcome EXCEPT !.goal = job.goal, !.report.code = 1]
    BY <1>6 DEF WriteManifest, Succeeds, Fails
  <2> QED  BY <1>2, <2>1, <2>2, QuietEnds DEF Idle
<1>7. CASE \E late \in Lateness : Probe(late)
  BY <1>2, <1>7 DEF Probe, AtRow, At, Idle
<1>8. CASE WriteReach
  <2>1. job.goal = "pass-reach"
    BY <1>8 DEF WriteReach, RowsDone, At, IInv, Reads, Reading
  <2>2. \/ outcome' = [NoOutcome EXCEPT !.goal = job.goal]
        \/ outcome' = [NoOutcome EXCEPT !.goal = job.goal, !.report.code = 1]
    BY <1>8 DEF WriteReach, Succeeds, Fails
  <2> QED  BY <2>1, <2>2, QuietEnds
<1>9. CASE \E got \in {"ok", "fail", "load-failed"} : Judge(got)
  BY <1>2, <1>9 DEF Judge, AtRow, At, Idle
<1>10. CASE Interrupt
  BY <1>1, <1>10 DEF Interrupt
<1> QED  BY <1>3, <1>4, <1>5, <1>6, <1>7, <1>8, <1>9, <1>10 DEF Next

\* What Ended says.
LEMMA EndedIs ==
  ASSUME NEW goal, NEW known, NEW only, outcome' = Ended(goal, known, only)
  PROVE  /\ outcome'.goal = goal /\ (outcome'.scored <=> known # NoReach)
         /\ outcome'.report = Report(manifest, verdicts', known, only)
BY DEF Ended

LEMMA ScoredIsPonycs ==
  ASSUME IInv, NEW goal, NEW known, known \in {reach, NoReach}, NEW only,
         outcome' = Ended(goal, known, only), UNCHANGED <<tests, cases, manifest, reach>>
  PROVE  ReportIsPonycs'
<1>1. CASE known = NoReach
  <2>1. ~outcome'.scored
    BY <1>1, EndedIs
  <2> QED  BY <2>1 DEF ReportIsPonycs, FalseRejectionsFail, CreditIsPonycs
<1>2. CASE known # NoReach
  <2>1. /\ known = reach /\ reach # NoReach /\ reach \in Seq(Records \cup {Torn})
        /\ manifest \in Seq(Rows \cup {Torn}) /\ (Whole(manifest) => Distinct(manifest))
        /\ \A k \in Keys : cases[k] \in Programs(k)
    BY <1>2 DEF IInv, Typed
  <2>2. PICK v : v = verdicts'
    OBVIOUS
  <2>3. outcome'.report = Report(manifest, v, reach, only)
    BY <2>1, <2>2, EndedIs
  <2>4. ASSUME Holds(cases, manifest, reach)
        PROVE  /\ outcome'.report.code = 0 =>
                    \A k \in outcome'.report.read :
                      /\ LineOf(manifest, k).expect = "accept" /\ ErrsFrom(cases[k]) = NeverErrs
                      /\ LineOf(reach, k).expect # "invalid"
                      => LineOf(v, k).got = "ok"
               /\ \A k \in Keys, credit \in Credits :
                    <<k, credit>> \in outcome'.report.agreed =>
                      CreditIs(credit, ErrsFrom(cases[k]), LineOf(manifest, k))
    BY <2>1, <2>3, <2>4, ReportIsTrue
  <2>5. ReachHolds' => Holds(cases, manifest, reach)
    BY DEF ReachHolds, Holds
  <2>6. FalseRejectionsFail'
    BY <2>2, <2>4, <2>5 DEF FalseRejectionsFail
  <2>7. CreditIsPonycs'
    BY <2>4, <2>5 DEF CreditIsPonycs, CreditIs, Credits
  <2> QED  BY <2>6, <2>7 DEF ReportIsPonycs
<1> QED  BY <1>1, <1>2

\* At the end of a batch every case of the tests has been judged or set aside.
LEMMA BatchIsWhole ==
  ASSUME IInv, WriteVerdicts
  PROVE  PassIsWhole'
<1>1. /\ job.step = "batch" /\ job.at > Len(manifest) /\ verdicts' = job.rows
      /\ outcome' = Ended(job.goal, reach, AllSuites)
      /\ UNCHANGED <<tests, cases, manifest, reach>>
  BY DEF WriteVerdicts, RowsDone, At
<1>2. /\ manifest \in Seq(Rows)
      /\ AreRowsOf(manifest, Plainly(tests), tests) /\ AreWhole(cases, Plainly(tests), tests)
      /\ job.at = Len(job.rows) + 1 /\ job.at <= Len(manifest) + 1
      /\ \A i \in DOMAIN job.rows : job.rows[i].key = manifest[i].key
      /\ job.rows \in Seq(Judgements) /\ reach # NoReach
  BY <1>1 DEF IInv, Reads, Reading
<1>3. /\ Len(manifest) \in Nat /\ Len(job.rows) \in Nat /\ DOMAIN manifest = 1..Len(manifest)
      /\ DOMAIN job.rows = 1..Len(job.rows)
  BY <1>2, LenProperties
<1>4. Len(job.rows) = Len(manifest)
  BY <1>1, <1>2, <1>3
<1>5. KeysIn(manifest) = Plainly(tests)
  <2>1. \A i \in DOMAIN manifest : manifest[i].key \in Plainly(tests)
    BY <1>2, RowForIs DEF AreRowsOf
  <2>2. \A k \in Plainly(tests) : \E i \in DOMAIN manifest : manifest[i].key = k
    BY <1>2 DEF AreRowsOf
  <2> QED  BY <2>1, <2>2 DEF KeysIn
<1>6. ASSUME NEW k \in KeysIn(manifest)
      PROVE  k \in KeysIn(job.rows) /\ LineOf(job.rows, k).got \in {"ok", "fail", "load-failed"}
  <2>1. k \in KeysIn(job.rows)
    <3>1. PICK i \in DOMAIN manifest : manifest[i].key = k
      BY DEF KeysIn
    <3>2. i \in DOMAIN job.rows /\ job.rows[i].key = k
      BY <1>2, <1>3, <1>4, <3>1
    <3> QED  BY <3>2 DEF KeysIn
  <2>2. PICK j \in DOMAIN job.rows : LineOf(job.rows, k) = job.rows[j]
    BY <1>3, <2>1, LineOfIs
  <2>3. job.rows[j] \in Judgements
    BY <1>2, <1>3, ElementOfSeq
  <2> QED  BY <2>1, <2>2, <2>3 DEF Judgements
<1>7. PICK v : v = job.rows
  OBVIOUS
<1>8. /\ outcome'.report = Report(manifest, v, reach, AllSuites)
  BY <1>1, <1>7, EndedIs
<1>9. ASSUME outcome'.report.code = 0, NEW k \in KeysIn(manifest)
      PROVE  k \in InvalidKeys(reach) \/ (k \in KeysIn(v) /\ LineOf(v, k).got \in {"ok", "fail"})
  <2>1. Whole(reach) /\ Whole(manifest)
    BY <1>2, <1>8, <1>9, ReportFails
  <2>2. \A r \in ReadOf(manifest, AllSuites) : Accounted(r, v, reach)
    BY <1>2, <1>8, <1>9, <2>1, ReportIs
  <2>3. PICK r \in ReadOf(manifest, AllSuites) : r.key = k
    <3>1. PICK i \in DOMAIN manifest : manifest[i].key = k
      BY DEF KeysIn
    <3>2. manifest[i] \in ReadOf(manifest, AllSuites)
      BY <2>1, <3>1 DEF ReadOf, Whole
    <3> QED  BY <3>1, <3>2
  <2>4. k \in KeysIn(v) /\ LineOf(v, k).got \in {"ok", "fail", "load-failed"}
    BY <1>6, <1>7
  <2>5. CASE k \in Universe(reach)
    <3>1. LineOf(v, k).got # "load-failed"
      BY <2>2, <2>3, <2>5 DEF Accounted, GotOf
    <3> QED  BY <2>4, <3>1
  <2>6. CASE k \notin Universe(reach)
    BY <2>2, <2>3, <2>4, <2>6 DEF Accounted
  <2> QED  BY <2>5, <2>6
<1>10. \A k \in KeysIn(manifest) : cases[k] = CaseOf(tests[k])
  BY <1>2, <1>5 DEF AreWhole
<1>11. KeysIn(manifest) = {k \in Keys : IsCase(tests[k])}
  BY <1>5 DEF Plainly
<1> QED  BY <1>1, <1>7, <1>9, <1>10, <1>11 DEF PassIsWhole, Plain

LEMMA ByHandIsNoPass ==
  ASSUME NEW withReach, NEW only, ReportByHand(withReach, only)
  PROVE  PassIsWhole'
<1>1. outcome'.goal = "report"
  BY EndedIs DEF ReportByHand
<1> QED  BY <1>1 DEF PassIsWhole

LEMMA ClaimsHold ==
  ASSUME IInv, PassIsWhole, ReportIsPonycs, [Next]_vars
  PROVE  PassIsWhole' /\ ReportIsPonycs'
<1>1. CASE UNCHANGED vars
  BY <1>1 DEF vars, files, PassIsWhole, Plain, ReportIsPonycs, FalseRejectionsFail, CreditIsPonycs, ReachHolds
<1>2. CASE WriteVerdicts
  <2>1. ReportIsPonycs'
    BY <1>2, ScoredIsPonycs DEF WriteVerdicts
  <2> QED  BY <1>2, <2>1, BatchIsWhole
<1>3. ASSUME NEW withReach \in BOOLEAN, NEW only \in {AllSuites} \cup {{s} : s \in Suites},
             ReportByHand(withReach, only)
      PROVE  PassIsWhole' /\ ReportIsPonycs'
  <2>1. ReportIsPonycs'
    <3>1. PICK known : known = IF withReach THEN reach ELSE NoReach
      OBVIOUS
    <3>2. outcome' = Ended("report", known, only) /\ UNCHANGED <<tests, cases, manifest, reach>>
      BY <1>3, <3>1 DEF ReportByHand
    <3>3. known \in {reach, NoReach}
      BY <3>1
    <3> QED  BY <3>2, <3>3, ScoredIsPonycs
  <2> QED  BY <1>3, <2>1, ByHandIsNoPass
<1>4. CASE /\ Next /\ ~WriteVerdicts
           /\ ~\E withReach \in BOOLEAN, only \in {AllSuites} \cup {{s} : s \in Suites} :
                 ReportByHand(withReach, only)
  BY <1>4, OthersAreQuiet, QuietClaims
<1> QED  BY <1>1, <1>2, <1>3, <1>4

LEMMA InitClaims == Init => PassIsWhole /\ ReportIsPonycs
BY DEF Init, NoOutcome, NoReport, PassIsWhole, ReportIsPonycs, FalseRejectionsFail, CreditIsPonycs

LEMMA Claims == Spec => [](PassIsWhole /\ ReportIsPonycs)
<1>1. IInv /\ PassIsWhole /\ ReportIsPonycs /\ [Next]_vars => PassIsWhole' /\ ReportIsPonycs'
  BY ClaimsHold
<1> QED  BY PipelineIsSound, InitClaims, <1>1, PTL DEF Spec

(***************************************************************************)
(* `make checker-corpus` succeeds only over all the tests as they are,     *)
(* whatever was interrupted before and whichever suites were extracted.    *)
(***************************************************************************)
THEOREM PassesAreWhole == Spec => []PassIsWhole
BY Claims, PTL

(***************************************************************************)
(* With a reach file of the cases as they are no false rejection passes,   *)
(* and agreement is credited to the pass ponyc rejects a case in.          *)
(***************************************************************************)
THEOREM ReportsArePonycs == Spec => []ReportIsPonycs
BY Claims, PTL
===============================================================================
