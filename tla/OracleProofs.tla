----------------------------- MODULE OracleProofs -----------------------------
(***************************************************************************)
(* The oracles that make runs over what an earlier run left, for any       *)
(* manifest, any reach file and any output of the two programs; and the    *)
(* comparison of the two lexers, for any sources, any cuts of their list   *)
(* and any deaths of the dumpers.                                          *)
(***************************************************************************)
EXTENDS Oracles, Agreement, Integers, SequenceTheorems, FiniteSetTheorems, TLAPS

-------------------------------------------------------------------------------
(* Equal lists of places are a pairing of the lines.                           *)

Fiber(A, a, p) == {i \in A : a[i] = p}
Spread(A, a) == [p \in {a[i] : i \in A} |-> Cardinality(Fiber(A, a, p))]
Pairing(A, B, a, b) ==
  {h \in [A -> B] :
     /\ \A i, j \in A : i # j => h[i] # h[j]
     /\ \A j \in B : \E i \in A : h[i] = j
     /\ \A i \in A : a[i] = b[h[i]]}

LEMMA EqualSpreadsPair ==
  ASSUME NEW A, NEW B, IsFiniteSet(A), IsFiniteSet(B), NEW a, NEW b,
         Spread(A, a) = Spread(B, b)
  PROVE  Pairing(A, B, a, b) # {}
<1> DEFINE P == {a[i] : i \in A}
<1>1. /\ P = {b[j] : j \in B}
      /\ \A p \in P : Cardinality(Fiber(A, a, p)) = Cardinality(Fiber(B, b, p))
  <2>1. DOMAIN Spread(A, a) = P /\ DOMAIN Spread(B, b) = {b[j] : j \in B}
    BY DEF Spread
  <2>2. \A p \in P : Spread(A, a)[p] = Cardinality(Fiber(A, a, p))
    BY DEF Spread
  <2>3. \A p \in {b[j] : j \in B} : Spread(B, b)[p] = Cardinality(Fiber(B, b, p))
    BY DEF Spread
  <2> QED  BY <2>1, <2>2, <2>3
<1>2. \A p \in P : \E f : f \in Bijection(Fiber(A, a, p), Fiber(B, b, p))
  <2> TAKE p \in P
  <2>1. Fiber(A, a, p) \subseteq A /\ Fiber(B, b, p) \subseteq B
    BY DEF Fiber
  <2>2. IsFiniteSet(Fiber(A, a, p)) /\ IsFiniteSet(Fiber(B, b, p))
    BY <2>1, FS_Subset
  <2>3. ExistsBijection(Fiber(A, a, p), Fiber(B, b, p))
    BY <1>1, <2>2, FS_SameCardinalityBij
  <2> QED  BY <2>3 DEF ExistsBijection
<1> DEFINE H == [p \in P |-> CHOOSE f : f \in Bijection(Fiber(A, a, p), Fiber(B, b, p))]
           h == [i \in A |-> H[a[i]][i]]
<1>3. \A p \in P : H[p] \in Bijection(Fiber(A, a, p), Fiber(B, b, p))
  BY <1>2
<1>4. \A p \in P :
        /\ H[p] \in [Fiber(A, a, p) -> Fiber(B, b, p)]
        /\ \A i, j \in Fiber(A, a, p) : i # j => H[p][i] # H[p][j]
        /\ \A j \in Fiber(B, b, p) : \E i \in Fiber(A, a, p) : H[p][i] = j
  BY <1>3 DEF Bijection, Injection, Surjection, IsInjective
<1>5. \A i \in A : a[i] \in P /\ i \in Fiber(A, a, a[i])
  BY DEF Fiber
<1> HIDE DEF H
<1>6. \A i \in A : h[i] \in Fiber(B, b, a[i])
  BY <1>4, <1>5
<1>7. \A i \in A : h[i] \in B /\ a[i] = b[h[i]]
  BY <1>6 DEF Fiber
<1>8. \A i, j \in A : i # j => h[i] # h[j]
  <2> SUFFICES ASSUME NEW i \in A, NEW j \in A, i # j, h[i] = h[j]
               PROVE  FALSE
    OBVIOUS
  <2>1. a[i] = a[j]
    BY <1>7
  <2>2. i \in Fiber(A, a, a[i]) /\ j \in Fiber(A, a, a[i])
    BY <1>5, <2>1
  <2>3. H[a[i]][i] # H[a[i]][j]
    BY <1>4, <1>5, <2>2
  <2> QED  BY <2>1, <2>3
<1>9. \A j \in B : \E i \in A : h[i] = j
  <2> TAKE j \in B
  <2>1. b[j] \in P
    BY <1>1
  <2>2. j \in Fiber(B, b, b[j])
    BY DEF Fiber
  <2>3. PICK i \in Fiber(A, a, b[j]) : H[b[j]][i] = j
    BY <1>4, <2>1, <2>2
  <2>4. i \in A /\ a[i] = b[j]
    BY DEF Fiber
  <2> QED  BY <2>3, <2>4
<1>10. h \in [A -> B]
  BY <1>7
<1>11. h \in Pairing(A, B, a, b)
  BY <1>7, <1>8, <1>9, <1>10 DEF Pairing
<1> QED  BY <1>11

LEMMA PairsHaveEqualSpreads ==
  ASSUME NEW A, NEW B, IsFiniteSet(A), IsFiniteSet(B), NEW a, NEW b,
         NEW h \in Pairing(A, B, a, b)
  PROVE  Spread(A, a) = Spread(B, b)
<1>1. /\ h \in [A -> B]
      /\ \A i, j \in A : i # j => h[i] # h[j]
      /\ \A j \in B : \E i \in A : h[i] = j
      /\ \A i \in A : a[i] = b[h[i]]
  BY DEF Pairing
<1>2. {a[i] : i \in A} = {b[j] : j \in B}
  BY <1>1
<1>3. ASSUME NEW p \in {a[i] : i \in A}
      PROVE  Cardinality(Fiber(A, a, p)) = Cardinality(Fiber(B, b, p))
  <2> DEFINE g == [i \in Fiber(A, a, p) |-> h[i]]
  <2>1. \A i \in Fiber(A, a, p) : i \in A /\ g[i] = h[i] /\ h[i] \in Fiber(B, b, p)
    BY <1>1 DEF Fiber
  <2>2. g \in [Fiber(A, a, p) -> Fiber(B, b, p)]
    BY <2>1
  <2>3. \A i, j \in Fiber(A, a, p) : i # j => g[i] # g[j]
    BY <1>1, <2>1
  <2>4. \A j \in Fiber(B, b, p) : \E i \in Fiber(A, a, p) : g[i] = j
    <3> TAKE j \in Fiber(B, b, p)
    <3>1. j \in B /\ b[j] = p
      BY DEF Fiber
    <3>2. PICK i \in A : h[i] = j
      BY <1>1, <3>1
    <3>3. i \in Fiber(A, a, p)
      BY <1>1, <3>1, <3>2 DEF Fiber
    <3> QED  BY <3>2, <3>3
  <2> HIDE DEF g
  <2>5. g \in Bijection(Fiber(A, a, p), Fiber(B, b, p))
    BY <2>2, <2>3, <2>4 DEF Bijection, Injection, Surjection, IsInjective
  <2>6. ExistsBijection(Fiber(A, a, p), Fiber(B, b, p))
    BY <2>5 DEF ExistsBijection
  <2>7. IsFiniteSet(Fiber(A, a, p))
    <3>1. Fiber(A, a, p) \subseteq A
      BY DEF Fiber
    <3> QED  BY <3>1, FS_Subset
  <2> QED  BY <2>6, <2>7, FS_Bijection
<1> QED  BY <1>2, <1>3 DEF Spread

LEMMA PlacesAreSpread ==
  ASSUME NEW output, NEW m
  PROVE  Places(output, m)
           = Spread(SameTextAs(output, m), [i \in DOMAIN output |-> output[i].at])
<1> DEFINE A == SameTextAs(output, m)
           a == [i \in DOMAIN output |-> output[i].at]
           lines == {i \in Located(output) : output[i].text = m}
<1>1. lines = A
  BY DEF Located, SameTextAs
<1>2. \A i \in A : i \in DOMAIN output /\ a[i] = output[i].at
  BY DEF SameTextAs
<1>3. {output[i].at : i \in lines} = {a[i] : i \in A}
  BY <1>1, <1>2
<1>4. \A p : {i \in lines : output[i].at = p} = Fiber(A, a, p)
  BY <1>1, <1>2 DEF Fiber
<1>5. Places(output, m)
        = [p \in {output[i].at : i \in lines} |-> Cardinality({i \in lines : output[i].at = p})]
  BY DEF Places
<1> HIDE DEF A, a, lines
<1>6. Places(output, m) = [p \in {a[i] : i \in A} |-> Cardinality(Fiber(A, a, p))]
  BY <1>3, <1>4, <1>5
<1>7. Places(output, m) = Spread(A, a)
  BY <1>6 DEF Spread
<1> QED  BY <1>7 DEF A, a

LEMMA LinesAreFinite ==
  ASSUME NEW output \in Outputs, NEW m
  PROVE  IsFiniteSet(SameTextAs(output, m))
<1>1. output \in Seq({output[i] : i \in DOMAIN output})
  BY OraclesAssumption DEF LinesAreWritten
<1>2. Len(output) \in Nat /\ DOMAIN output = 1 .. Len(output)
  BY <1>1, LenProperties
<1>3. IsFiniteSet(1 .. Len(output))
  BY <1>2, FS_Interval
<1>4. SameTextAs(output, m) \subseteq 1 .. Len(output)
  BY <1>2 DEF SameTextAs
<1> QED  BY <1>3, <1>4, FS_Subset

LEMMA PlacesArePaired ==
  ASSUME NEW theirs \in Outputs, NEW ours \in Outputs, NEW m
  PROVE  Places(theirs, m) = Places(ours, m) <=> Paired(theirs, ours, m)
<1> DEFINE A == SameTextAs(theirs, m)
           B == SameTextAs(ours, m)
           a == [i \in DOMAIN theirs |-> theirs[i].at]
           b == [i \in DOMAIN ours |-> ours[i].at]
<1>1. /\ \A i \in A : a[i] = theirs[i].at
      /\ \A j \in B : b[j] = ours[j].at
  BY DEF SameTextAs
<1>2. Paired(theirs, ours, m) <=> Pairing(A, B, a, b) # {}
  <2>1. Paired(theirs, ours, m) <=>
          \E f \in [A -> B] :
            /\ \A i, j \in A : i # j => f[i] # f[j]
            /\ \A j \in B : \E i \in A : f[i] = j
            /\ \A i \in A : theirs[i].at = ours[f[i]].at
    BY DEF Paired
  <2> HIDE DEF A, B, a, b
  <2>2. \A f \in [A -> B] : \A i \in A : (theirs[i].at = ours[f[i]].at) <=> (a[i] = b[f[i]])
    BY <1>1
  <2>3. Paired(theirs, ours, m) => Pairing(A, B, a, b) # {}
    <3> SUFFICES ASSUME Paired(theirs, ours, m)
                 PROVE  Pairing(A, B, a, b) # {}
      OBVIOUS
    <3>1. PICK f \in [A -> B] :
            /\ \A i, j \in A : i # j => f[i] # f[j]
            /\ \A j \in B : \E i \in A : f[i] = j
            /\ \A i \in A : theirs[i].at = ours[f[i]].at
      BY <2>1
    <3>2. f \in Pairing(A, B, a, b)
      BY <3>1, <2>2 DEF Pairing
    <3> QED  BY <3>2
  <2>4. Pairing(A, B, a, b) # {} => Paired(theirs, ours, m)
    <3> SUFFICES ASSUME NEW f \in Pairing(A, B, a, b)
                 PROVE  Paired(theirs, ours, m)
      OBVIOUS
    <3>1. /\ f \in [A -> B]
          /\ \A i, j \in A : i # j => f[i] # f[j]
          /\ \A j \in B : \E i \in A : f[i] = j
          /\ \A i \in A : a[i] = b[f[i]]
      BY DEF Pairing
    <3>2. \A i \in A : theirs[i].at = ours[f[i]].at
      BY <3>1, <2>2
    <3> QED  BY <2>1, <3>1, <3>2
  <2> QED  BY <2>3, <2>4
<1>3. IsFiniteSet(A) /\ IsFiniteSet(B)
  BY LinesAreFinite
<1>4. Places(theirs, m) = Spread(A, a) /\ Places(ours, m) = Spread(B, b)
  BY PlacesAreSpread
<1> HIDE DEF A, B, a, b
<1>5. Spread(A, a) = Spread(B, b) => Pairing(A, B, a, b) # {}
  BY <1>3, EqualSpreadsPair
<1>6. Pairing(A, B, a, b) # {} => Spread(A, a) = Spread(B, b)
  BY <1>3, PairsHaveEqualSpreads
<1> QED  BY <1>2, <1>4, <1>5, <1>6

(* What each tool has made of the cases it has come past.                      *)

OracleTypes ==
  /\ tool \in {"make", "stale", "unreadable", "message", "column"}
  /\ manifestMessage \in [CaseKeys -> Messages \cup {NoMessage, NoRow}]
  /\ reachVerdict \in [CaseKeys -> {"accept", "reject", "invalid", NoRow}]
  /\ atCase \in 1 .. Len(CaseOrder) + 1
  /\ ran = [k \in CaseKeys |-> ran[k]]
  /\ found \subseteq CaseKeys \cup (Messages \X CaseKeys)
  /\ tool = "message" => found \subseteq CaseKeys
  /\ tool = "column" => found \subseteq Messages \X CaseKeys
  /\ tool \notin {"message", "column"} => found = {} /\ atCase = 1

IsFresh == tool \in {"message", "column"} => Fresh

MissedNot(k) == tool = "message" => k \notin found
MismatchedNot(k) == tool = "column" => \A m \in Messages : <<m, k>> \notin found
NotCome(k) == ran[k] = NotRun /\ MissedNot(k) /\ MismatchedNot(k)

MessageRan(k) ==
  \E exit \in {0, 1, 255}, output \in Outputs :
    /\ ran[k] = [outcome |-> "ran", exit |-> exit, ours |-> output]
    /\ k \in found <=> IsMiss(k, exit, output)
MessageDone(k) ==
  IF AsksMessage(k)
  THEN (ran[k] = TimedOut /\ MissedNot(k)) \/ MessageRan(k)
  ELSE NotCome(k)

ColumnRan(k) ==
  \E theirs, ours \in Outputs :
    /\ ran[k] = [outcome |-> "ran", theirs |-> theirs, ours |-> ours]
    /\ \A m \in Messages : <<m, k>> \in found <=> m \in Mismatched(theirs, ours)
ColumnDone(k) ==
  IF AsksColumn(k)
  THEN (ran[k] = TimedOut /\ MismatchedNot(k)) \/ ColumnRan(k)
  ELSE NotCome(k)

OracleInv ==
  /\ OracleTypes /\ IsFresh
  /\ \A i \in DOMAIN CaseOrder :
       /\ i >= atCase => NotCome(CaseOrder[i])
       /\ i < atCase /\ tool = "message" => MessageDone(CaseOrder[i])
       /\ i < atCase /\ tool = "column" => ColumnDone(CaseOrder[i])

LEMMA OracleStarts == OracleInit => OracleInv
<1> SUFFICES ASSUME OracleInit
             PROVE  OracleInv
  OBVIOUS
<1>1. Len(CaseOrder) \in Nat /\ DOMAIN CaseOrder = 1 .. Len(CaseOrder)
  BY OraclesAssumption, LenProperties DEF CasesAreKeyed
<1>2. /\ tool = "make" /\ atCase = 1 /\ found = {}
      /\ manifestMessage \in [CaseKeys -> Messages \cup {NoMessage, NoRow}]
      /\ reachVerdict \in [CaseKeys -> {"accept", "reject", "invalid", NoRow}]
      /\ ran = [k \in CaseKeys |-> NotRun]
  BY DEF OracleInit, CaseKeys
<1>3. OracleTypes
  BY <1>1, <1>2 DEF OracleTypes
<1>4. \A i \in DOMAIN CaseOrder : NotCome(CaseOrder[i])
  BY <1>2 DEF NotCome, MissedNot, MismatchedNot, CaseKeys
<1> QED  BY <1>1, <1>2, <1>3, <1>4 DEF OracleInv, IsFresh

LEMMA OracleStartStep ==
  ASSUME OracleInv, NEW t \in {"message", "column"}, Start(t)
  PROVE  OracleInv'
<1>1. /\ tool = "make" /\ atCase = 1 /\ found = {}
      /\ UNCHANGED <<manifestMessage, reachVerdict, torn, exceptions, atCase, ran, found>>
      /\ tool' \in {"stale", "unreadable", t}
      /\ tool' = t => Fresh
  BY DEF Start, OracleInv, OracleTypes
<1>2. OracleTypes'
  BY <1>1 DEF OracleInv, OracleTypes
<1>3. Fresh => Fresh'
  BY <1>1 DEF Fresh, InManifest
<1>4. IsFresh'
  BY <1>1, <1>3 DEF IsFresh
<1>5. \A i \in DOMAIN CaseOrder : i >= 1 /\ ~(i < 1)
  <2>1. DOMAIN CaseOrder = 1 .. Len(CaseOrder)
    BY OraclesAssumption, LenProperties DEF CasesAreKeyed
  <2> QED  BY <2>1
<1>6. \A i \in DOMAIN CaseOrder : ran[CaseOrder[i]] = NotRun
  BY <1>1, <1>5 DEF OracleInv, NotCome
<1>7. \A i \in DOMAIN CaseOrder : NotCome(CaseOrder[i])'
  BY <1>1, <1>6 DEF NotCome, MissedNot, MismatchedNot
<1> QED  BY <1>1, <1>2, <1>4, <1>5, <1>7 DEF OracleInv

(* A step of the loop: the case it has come to is done, the others stay.       *)

StepsPast(k) ==
  /\ UNCHANGED <<tool, manifestMessage, reachVerdict, torn, exceptions>>
  /\ atCase' = atCase + 1
  /\ \A c \in CaseKeys \ {k} : ran'[c] = ran[c]
  /\ tool = "message" => \A c \in CaseKeys \ {k} : c \in found' <=> c \in found
  /\ tool = "column" => \A c \in CaseKeys \ {k}, m \in Messages : <<m, c>> \in found' <=> <<m, c>> \in found

LEMMA OthersStay ==
  ASSUME NEW k, StepsPast(k), NEW c \in CaseKeys \ {k}
  PROVE  /\ NotCome(c) => NotCome(c)'
         /\ tool = "message" /\ MessageDone(c) => MessageDone(c)'
         /\ tool = "column" /\ ColumnDone(c) => ColumnDone(c)'
<1>1. /\ UNCHANGED <<tool, manifestMessage, reachVerdict, exceptions>>
      /\ ran'[c] = ran[c]
      /\ tool = "message" => (c \in found' <=> c \in found)
      /\ tool = "column" => \A m \in Messages : <<m, c>> \in found' <=> <<m, c>> \in found
  BY DEF StepsPast
<1>2. (MissedNot(c) => MissedNot(c)') /\ (MismatchedNot(c) => MismatchedNot(c)')
  BY <1>1 DEF MissedNot, MismatchedNot
<1>3. NotCome(c) => NotCome(c)'
  BY <1>1, <1>2 DEF NotCome, NotRun
<1>4. ASSUME tool = "message", MessageDone(c)
      PROVE  MessageDone(c)'
  <2>1. AsksMessage(c)' <=> AsksMessage(c)
    BY <1>1 DEF AsksMessage
  <2>2. ASSUME MessageRan(c)
        PROVE  MessageRan(c)'
    <3>1. \A exit, output : IsMiss(c, exit, output)' <=> IsMiss(c, exit, output)
      BY <1>1 DEF IsMiss, Emits
    <3> QED  BY <1>1, <1>4, <2>2, <3>1 DEF MessageRan
  <2>3. CASE AsksMessage(c)
    BY <1>1, <1>2, <1>4, <2>1, <2>2, <2>3 DEF MessageDone, TimedOut
  <2>4. CASE ~AsksMessage(c)
    BY <1>3, <1>4, <2>1, <2>4 DEF MessageDone
  <2> QED  BY <2>3, <2>4
<1>5. ASSUME tool = "column", ColumnDone(c)
      PROVE  ColumnDone(c)'
  <2>1. AsksColumn(c)' <=> AsksColumn(c)
    BY <1>1 DEF AsksColumn, InManifest
  <2>2. ASSUME ColumnRan(c)
        PROVE  ColumnRan(c)'
    BY <1>1, <1>5, <2>2 DEF ColumnRan, Mismatched, TextsOf, Located, Places
  <2>3. CASE AsksColumn(c)
    BY <1>1, <1>2, <1>5, <2>1, <2>2, <2>3 DEF ColumnDone, TimedOut
  <2>4. CASE ~AsksColumn(c)
    BY <1>3, <1>5, <2>1, <2>4 DEF ColumnDone
  <2> QED  BY <2>3, <2>4
<1> QED  BY <1>3, <1>4, <1>5

LEMMA LoopStep ==
  ASSUME OracleInv, atCase \in DOMAIN CaseOrder,
         NEW k, k = CaseOrder[atCase], StepsPast(k), OracleTypes',
         tool \in {"message", "column"},
         tool = "message" => MessageDone(k)', tool = "column" => ColumnDone(k)'
  PROVE  OracleInv'
<1>1. /\ DOMAIN CaseOrder = 1 .. Len(CaseOrder) /\ Len(CaseOrder) \in Nat
      /\ \A i, j \in DOMAIN CaseOrder : i # j => CaseOrder[i] # CaseOrder[j]
  BY OraclesAssumption, LenProperties DEF CasesAreKeyed
<1>2. atCase \in Nat /\ atCase' = atCase + 1 /\ tool' = tool
  BY <1>1 DEF StepsPast
<1>3. IsFresh'
  <2>1. Fresh <=> Fresh'
    BY DEF StepsPast, Fresh, InManifest
  <2> QED  BY <1>2, <2>1 DEF OracleInv, IsFresh
<1>4. ASSUME NEW i \in DOMAIN CaseOrder
      PROVE  /\ i >= atCase' => NotCome(CaseOrder[i])'
             /\ i < atCase' /\ tool' = "message" => MessageDone(CaseOrder[i])'
             /\ i < atCase' /\ tool' = "column" => ColumnDone(CaseOrder[i])'
  <2>1. PICK c : c = CaseOrder[i]
    OBVIOUS
  <2>2. c \in CaseKeys /\ i \in Nat
    BY <1>1, <2>1 DEF CaseKeys
  <2>3. CASE i = atCase
    <3>1. c = k /\ ~(i >= atCase')
      BY <1>2, <2>1, <2>3
    <3> QED  BY <1>2, <2>1, <3>1
  <2>4. CASE i # atCase
    <3>1. c \in CaseKeys \ {k}
      BY <1>1, <2>1, <2>2, <2>4
    <3>2. /\ i >= atCase => NotCome(c)
          /\ i < atCase /\ tool = "message" => MessageDone(c)
          /\ i < atCase /\ tool = "column" => ColumnDone(c)
      BY <2>1 DEF OracleInv
    <3>3. (i >= atCase' => i >= atCase) /\ (i < atCase' => i < atCase)
      BY <1>2, <2>2, <2>4
    <3>4. /\ NotCome(c) => NotCome(c)'
          /\ tool = "message" /\ MessageDone(c) => MessageDone(c)'
          /\ tool = "column" /\ ColumnDone(c) => ColumnDone(c)'
      BY <3>1, OthersStay
    <3>5. /\ i >= atCase' => NotCome(c)'
          /\ i < atCase' /\ tool' = "message" => MessageDone(c)'
          /\ i < atCase' /\ tool' = "column" => ColumnDone(c)'
      BY <1>2, <3>2, <3>3, <3>4
    <3> QED  BY <2>1, <3>5
  <2> QED  BY <2>3, <2>4
<1> QED  BY <1>3, <1>4 DEF OracleInv

LEMMA CaseCome ==
  ASSUME OracleInv, atCase \in DOMAIN CaseOrder, NEW k, k = CaseOrder[atCase]
  PROVE  /\ k \in CaseKeys /\ NotCome(k)
         /\ atCase \in Nat /\ atCase + 1 \in 1 .. Len(CaseOrder) + 1
<1>1. DOMAIN CaseOrder = 1 .. Len(CaseOrder) /\ Len(CaseOrder) \in Nat
  BY OraclesAssumption, LenProperties DEF CasesAreKeyed
<1> QED  BY <1>1 DEF OracleInv, CaseKeys

LEMMA SkipStep ==
  ASSUME OracleInv, MessageSkip \/ ColumnSkip
  PROVE  OracleInv'
<1>1. PICK k : k = CaseOrder[atCase]
  OBVIOUS
<1>2. /\ atCase \in DOMAIN CaseOrder
      /\ atCase' = atCase + 1
      /\ UNCHANGED <<tool, manifestMessage, reachVerdict, torn, exceptions, ran, found>>
      /\ \/ tool = "message" /\ ~AsksMessage(k)
         \/ tool = "column" /\ ~AsksColumn(k)
  BY <1>1 DEF MessageSkip, ColumnSkip, Looping, CaseKey, given
<1>3. k \in CaseKeys /\ NotCome(k) /\ atCase + 1 \in 1 .. Len(CaseOrder) + 1
  BY <1>1, <1>2, CaseCome
<1>4. StepsPast(k)
  BY <1>2 DEF StepsPast
<1>5. OracleTypes'
  BY <1>2, <1>3 DEF OracleInv, OracleTypes
<1>6. NotCome(k)'
  BY <1>2, <1>3 DEF NotCome, MissedNot, MismatchedNot, NotRun
<1>7. tool = "message" => MessageDone(k)'
  BY <1>2, <1>6 DEF MessageDone, AsksMessage
<1>8. tool = "column" => ColumnDone(k)'
  BY <1>2, <1>6 DEF ColumnDone, AsksColumn, InManifest
<1> QED  BY <1>1, <1>2, <1>4, <1>5, <1>7, <1>8, LoopStep

LEMMA TimeoutStep ==
  ASSUME OracleInv, MessageTimeout \/ ColumnTimeout
  PROVE  OracleInv'
<1>1. PICK k : k = CaseOrder[atCase]
  OBVIOUS
<1>2. /\ atCase \in DOMAIN CaseOrder
      /\ atCase' = atCase + 1
      /\ UNCHANGED <<tool, manifestMessage, reachVerdict, torn, exceptions, found>>
      /\ ran' = [ran EXCEPT ![k] = TimedOut]
      /\ \/ tool = "message" /\ AsksMessage(k)
         \/ tool = "column" /\ AsksColumn(k)
  BY <1>1 DEF MessageTimeout, ColumnTimeout, Looping, CaseKey, given
<1>3. k \in CaseKeys /\ NotCome(k) /\ atCase + 1 \in 1 .. Len(CaseOrder) + 1
  BY <1>1, <1>2, CaseCome
<1>4. /\ ran' = [c \in CaseKeys |-> ran'[c]]
      /\ ran'[k] = TimedOut
      /\ \A c \in CaseKeys \ {k} : ran'[c] = ran[c]
  BY <1>2, <1>3 DEF OracleInv, OracleTypes
<1>5. StepsPast(k)
  BY <1>2, <1>4 DEF StepsPast
<1>6. OracleTypes'
  BY <1>2, <1>3, <1>4 DEF OracleInv, OracleTypes
<1>7. MissedNot(k)' /\ MismatchedNot(k)'
  BY <1>2, <1>3 DEF NotCome, MissedNot, MismatchedNot
<1>8. tool = "message" => MessageDone(k)'
  BY <1>2, <1>4, <1>7 DEF MessageDone, AsksMessage, TimedOut
<1>9. tool = "column" => ColumnDone(k)'
  BY <1>2, <1>4, <1>7 DEF ColumnDone, AsksColumn, InManifest, TimedOut
<1> QED  BY <1>1, <1>2, <1>5, <1>6, <1>8, <1>9, LoopStep

LEMMA MessageRunStep ==
  ASSUME OracleInv,
         NEW exit \in {0, 1, 255}, NEW output \in Outputs, MessageRun(exit, output)
  PROVE  OracleInv'
<1>1. PICK k : k = CaseOrder[atCase]
  OBVIOUS
<1> DEFINE r == [outcome |-> "ran", exit |-> exit, ours |-> output]
<1>2. /\ atCase \in DOMAIN CaseOrder
      /\ atCase' = atCase + 1
      /\ UNCHANGED <<tool, manifestMessage, reachVerdict, torn, exceptions>>
      /\ ran' = [ran EXCEPT ![k] = r]
      /\ found' = IF IsMiss(k, exit, output) THEN found \cup {k} ELSE found
      /\ tool = "message" /\ AsksMessage(k)
  BY <1>1 DEF MessageRun, Looping, CaseKey, given
<1>3. k \in CaseKeys /\ NotCome(k) /\ atCase + 1 \in 1 .. Len(CaseOrder) + 1
  BY <1>1, <1>2, CaseCome
<1>4. /\ ran' = [c \in CaseKeys |-> ran'[c]]
      /\ ran'[k] = r
      /\ \A c \in CaseKeys \ {k} : ran'[c] = ran[c]
  BY <1>2, <1>3 DEF OracleInv, OracleTypes
<1>5. StepsPast(k)
  BY <1>2, <1>4 DEF StepsPast
<1>6. OracleTypes'
  BY <1>2, <1>3, <1>4 DEF OracleInv, OracleTypes
<1>7. k \in found' <=> IsMiss(k, exit, output)
  BY <1>2, <1>3 DEF NotCome, MissedNot
<1>8. IsMiss(k, exit, output)' <=> IsMiss(k, exit, output)
  BY <1>2 DEF IsMiss, Emits
<1>9. MessageRan(k)'
  BY <1>4, <1>7, <1>8 DEF MessageRan
<1>10. MessageDone(k)'
  BY <1>2, <1>9 DEF MessageDone, AsksMessage
<1> QED  BY <1>1, <1>2, <1>5, <1>6, <1>10, LoopStep

LEMMA MismatchedAreMessages ==
  ASSUME NEW theirs \in Outputs, NEW ours \in Outputs
  PROVE  Mismatched(theirs, ours) \subseteq Messages
<1>1. \A i \in DOMAIN theirs : theirs[i].text \in Messages
  BY OraclesAssumption DEF LinesAreWritten
<1>2. TextsOf(theirs) \subseteq Messages
  BY <1>1 DEF TextsOf, Located
<1> QED  BY <1>2 DEF Mismatched

LEMMA ColumnRunStep ==
  ASSUME OracleInv,
         NEW theirs \in Outputs, NEW ours \in Outputs, ColumnRun(theirs, ours)
  PROVE  OracleInv'
<1>1. PICK k : k = CaseOrder[atCase]
  OBVIOUS
<1> DEFINE r == [outcome |-> "ran", theirs |-> theirs, ours |-> ours]
           M == Mismatched(theirs, ours)
<1>2. /\ atCase \in DOMAIN CaseOrder
      /\ atCase' = atCase + 1
      /\ UNCHANGED <<tool, manifestMessage, reachVerdict, torn, exceptions>>
      /\ ran' = [ran EXCEPT ![k] = r]
      /\ found' = found \cup (M \X {k})
      /\ tool = "column" /\ AsksColumn(k)
  BY <1>1 DEF ColumnRun, Looping, CaseKey, given
<1>3. k \in CaseKeys /\ NotCome(k) /\ atCase + 1 \in 1 .. Len(CaseOrder) + 1
  BY <1>1, <1>2, CaseCome
<1>4. /\ ran' = [c \in CaseKeys |-> ran'[c]]
      /\ ran'[k] = r
      /\ \A c \in CaseKeys \ {k} : ran'[c] = ran[c]
  BY <1>2, <1>3 DEF OracleInv, OracleTypes
<1>5. M \subseteq Messages
  BY MismatchedAreMessages
<1>6. M' = M
  BY DEF Mismatched, TextsOf, Located, Places
<1> HIDE DEF M
<1>7. \A c \in CaseKeys, m \in Messages :
        <<m, c>> \in found' <=> <<m, c>> \in found \/ (c = k /\ m \in M)
  BY <1>2
<1>8. StepsPast(k)
  BY <1>2, <1>4, <1>7 DEF StepsPast
<1>9. OracleTypes'
  <2>1. found' \subseteq Messages \X CaseKeys
    BY <1>2, <1>3, <1>5 DEF OracleInv, OracleTypes
  <2> QED  BY <1>2, <1>3, <1>4, <2>1 DEF OracleInv, OracleTypes
<1>10. \A m \in Messages : <<m, k>> \in found' <=> m \in M
  BY <1>2, <1>3, <1>7 DEF NotCome, MismatchedNot
<1>11. ColumnRan(k)'
  <2>1. \A m \in Messages : <<m, k>> \in found' <=> m \in Mismatched(theirs, ours)'
    BY <1>6, <1>10 DEF M
  <2> QED  BY <1>4, <2>1 DEF ColumnRan
<1>12. ColumnDone(k)'
  BY <1>2, <1>11 DEF ColumnDone, AsksColumn, InManifest
<1> QED  BY <1>1, <1>2, <1>8, <1>9, <1>12, LoopStep

LEMMA OracleStays ==
  ASSUME OracleInv, UNCHANGED oracleVars
  PROVE  OracleInv'
<1>1. UNCHANGED <<tool, manifestMessage, reachVerdict, torn, exceptions, atCase, ran, found>>
  BY DEF oracleVars, given
<1>2. OracleTypes'
  BY <1>1 DEF OracleInv, OracleTypes
<1>3. IsFresh'
  BY <1>1 DEF OracleInv, IsFresh, Fresh, InManifest
<1>4. \A k : NotCome(k)' <=> NotCome(k)
  BY <1>1 DEF NotCome, MissedNot, MismatchedNot, NotRun
<1>5. \A k : MessageDone(k)' <=> MessageDone(k)
  <2>1. \A k, exit, output : IsMiss(k, exit, output)' <=> IsMiss(k, exit, output)
    BY <1>1 DEF IsMiss, Emits
  <2>2. ASSUME NEW k
        PROVE  MessageRan(k)' <=> MessageRan(k)
    <3>1. MessageRan(k) => MessageRan(k)'
      BY <1>1, <2>1 DEF MessageRan
    <3>2. MessageRan(k)' => MessageRan(k)
      BY <1>1, <2>1 DEF MessageRan
    <3> QED  BY <3>1, <3>2
  <2> QED  BY <1>1, <1>4, <2>2 DEF MessageDone, MissedNot, AsksMessage, TimedOut
<1>6. \A k : ColumnDone(k)' <=> ColumnDone(k)
  <2>1. \A k : ColumnRan(k)' <=> ColumnRan(k)
    BY <1>1 DEF ColumnRan, Mismatched, TextsOf, Located, Places
  <2> QED  BY <1>1, <1>4, <2>1 DEF ColumnDone, MismatchedNot, AsksColumn, InManifest, TimedOut
<1> QED  BY <1>1, <1>2, <1>3, <1>4, <1>5, <1>6 DEF OracleInv

LEMMA OracleSteps == OracleInv /\ [OracleNext]_oracleVars => OracleInv'
<1> SUFFICES ASSUME OracleInv, [OracleNext]_oracleVars
             PROVE  OracleInv'
  OBVIOUS
<1>1. CASE UNCHANGED oracleVars
  BY <1>1, OracleStays
<1>2. ASSUME NEW t \in {"message", "column"}, Start(t)
      PROVE  OracleInv'
  BY <1>2, OracleStartStep
<1>3. CASE MessageSkip \/ ColumnSkip
  BY <1>3, SkipStep
<1>4. CASE MessageTimeout \/ ColumnTimeout
  BY <1>4, TimeoutStep
<1>5. ASSUME NEW exit \in {0, 1, 255}, NEW output \in Outputs, MessageRun(exit, output)
      PROVE  OracleInv'
  BY <1>5, MessageRunStep
<1>6. ASSUME NEW theirs \in Outputs, NEW ours \in Outputs, ColumnRun(theirs, ours)
      PROVE  OracleInv'
  BY <1>6, ColumnRunStep
<1> QED  BY <1>1, <1>2, <1>3, <1>4, <1>5, <1>6 DEF OracleNext

LEMMA EveryCaseIsDone ==
  ASSUME OracleInv, OracleEnded, NEW k \in CaseKeys
  PROVE  /\ tool = "message" => MessageDone(k)
         /\ tool = "column" => ColumnDone(k)
<1>1. DOMAIN CaseOrder = 1 .. Len(CaseOrder) /\ Len(CaseOrder) \in Nat
  BY OraclesAssumption, LenProperties DEF CasesAreKeyed
<1>2. atCase > Len(CaseOrder) /\ atCase \in Nat
  BY <1>1 DEF OracleEnded, OracleInv, OracleTypes
<1>3. PICK i \in DOMAIN CaseOrder : CaseOrder[i] = k
  BY DEF CaseKeys
<1>4. i < atCase
  BY <1>1, <1>2
<1> QED  BY <1>3, <1>4 DEF OracleInv

LEMMA NotRunOutcomes == TimedOut.outcome = "timed out" /\ NotRun.outcome = "not run"
BY DEF TimedOut, NotRun

LEMMA MessagesAreJudged == OracleInv => RejectsForPonycsReason
<1> SUFFICES ASSUME OracleInv, OracleEnded, tool = "message"
             PROVE  OraclePasses <=>
                      \A k \in {c \in InManifest : WasRun(c) /\ reachVerdict[c] = "reject"} :
                        ran[k].exit = 255 /\ manifestMessage[k] # NoMessage /\ k \notin exceptions =>
                          \E i \in DOMAIN ran[k].ours : ran[k].ours[i].text = manifestMessage[k]
  BY DEF RejectsForPonycsReason, RejectsForPonycsReason
<1>1. \A k \in CaseKeys : MessageDone(k)
  BY EveryCaseIsDone
<1>2. found \subseteq CaseKeys
  BY DEF OracleInv, OracleTypes
<1>3. OraclePasses <=> \A k \in CaseKeys : k \notin found
  BY <1>2 DEF OraclePasses
<1>4. ASSUME NEW k \in CaseKeys
      PROVE  k \in found <=>
               /\ k \in InManifest /\ WasRun(k) /\ reachVerdict[k] = "reject"
               /\ ran[k].exit = 255 /\ manifestMessage[k] # NoMessage /\ k \notin exceptions
               /\ ~\E i \in DOMAIN ran[k].ours : ran[k].ours[i].text = manifestMessage[k]
  <2>1. /\ manifestMessage[k] \in Messages \cup {NoMessage, NoRow}
        /\ NoMessage \notin Messages /\ NoRow \notin Messages
    BY OraclesAssumption DEF OracleInv, OracleTypes, CasesAreKeyed
  <2>2. k \in InManifest <=> manifestMessage[k] # NoRow
    BY DEF InManifest, CaseKeys
  <2>3. AsksMessage(k) <=>
          k \in InManifest /\ reachVerdict[k] = "reject" /\ manifestMessage[k] # NoMessage
    BY <2>1, <2>2 DEF AsksMessage
  <2>4. CASE ~AsksMessage(k)
    <3>1. k \notin found
      BY <1>1, <2>4 DEF MessageDone, NotCome, MissedNot
    <3> QED  BY <2>3, <2>4, <3>1
  <2>5. CASE AsksMessage(k) /\ ran[k] = TimedOut /\ MissedNot(k)
    <3>1. ~WasRun(k)
      BY <2>5, NotRunOutcomes DEF WasRun
    <3> QED  BY <2>5, <3>1 DEF MissedNot
  <2>6. CASE AsksMessage(k) /\ MessageRan(k)
    <3>1. PICK exit \in {0, 1, 255}, output \in Outputs :
            /\ ran[k] = [outcome |-> "ran", exit |-> exit, ours |-> output]
            /\ k \in found <=> IsMiss(k, exit, output)
      BY <2>6 DEF MessageRan
    <3>2. ran[k].exit = exit /\ ran[k].ours = output /\ WasRun(k)
      BY <3>1 DEF WasRun
    <3> QED  BY <2>3, <2>6, <3>1, <3>2 DEF IsMiss, Emits
  <2> QED  BY <1>1, <2>4, <2>5, <2>6 DEF MessageDone
<1>5. InManifest \subseteq CaseKeys
  BY DEF InManifest, CaseKeys
<1> QED  BY <1>3, <1>4, <1>5

LEMMA PlacesAreJudged == OracleInv => SitsWherePonycPutsIt
<1> SUFFICES ASSUME OracleInv, OracleEnded, tool = "column"
             PROVE  OraclePasses <=>
                      \A k \in InManifest : WasRun(k) =>
                        \A m \in Messages :
                          SameTextAs(ran[k].theirs, m) # {} /\ SameTextAs(ran[k].ours, m) # {} =>
                            Paired(ran[k].theirs, ran[k].ours, m)
  BY DEF SitsWherePonycPutsIt, SitsWherePonycPutsIt
<1>1. \A k \in CaseKeys : ColumnDone(k)
  BY EveryCaseIsDone
<1>2. found \subseteq Messages \X CaseKeys
  BY DEF OracleInv, OracleTypes
<1>3. OraclePasses <=> \A k \in CaseKeys, m \in Messages : <<m, k>> \notin found
  BY <1>2 DEF OraclePasses
<1>4. ASSUME NEW theirs \in Outputs, NEW ours \in Outputs, NEW m \in Messages
      PROVE  m \in Mismatched(theirs, ours) <=>
               /\ SameTextAs(theirs, m) # {} /\ SameTextAs(ours, m) # {}
               /\ ~Paired(theirs, ours, m)
  <2>1. \A output : m \in TextsOf(output) <=> SameTextAs(output, m) # {}
    BY DEF TextsOf, Located, SameTextAs
  <2> QED  BY <2>1, PlacesArePaired DEF Mismatched
<1>5. ASSUME NEW k \in CaseKeys, NEW m \in Messages
      PROVE  <<m, k>> \in found <=>
               /\ k \in InManifest /\ WasRun(k)
               /\ SameTextAs(ran[k].theirs, m) # {} /\ SameTextAs(ran[k].ours, m) # {}
               /\ ~Paired(ran[k].theirs, ran[k].ours, m)
  <2>1. CASE ~AsksColumn(k)
    <3>1. <<m, k>> \notin found /\ ran[k] = NotRun
      BY <1>1, <2>1 DEF ColumnDone, NotCome, MismatchedNot
    <3> QED  BY <3>1, NotRunOutcomes DEF WasRun
  <2>2. CASE AsksColumn(k) /\ ran[k] = TimedOut /\ MismatchedNot(k)
    <3>1. ~WasRun(k)
      BY <2>2, NotRunOutcomes DEF WasRun
    <3> QED  BY <2>2, <3>1 DEF MismatchedNot
  <2>3. CASE AsksColumn(k) /\ ColumnRan(k)
    <3>1. PICK theirs \in Outputs, ours \in Outputs :
            /\ ran[k] = [outcome |-> "ran", theirs |-> theirs, ours |-> ours]
            /\ \A w \in Messages : <<w, k>> \in found <=> w \in Mismatched(theirs, ours)
      BY <2>3 DEF ColumnRan
    <3>2. ran[k].theirs = theirs /\ ran[k].ours = ours /\ WasRun(k)
      BY <3>1 DEF WasRun
    <3>3. k \in InManifest
      BY <2>3 DEF AsksColumn
    <3> QED  BY <1>4, <3>1, <3>2, <3>3
  <2> QED  BY <1>1, <2>1, <2>2, <2>3 DEF ColumnDone
<1>6. InManifest \subseteq CaseKeys
  BY DEF InManifest, CaseKeys
<1> QED  BY <1>3, <1>5, <1>6

LEMMA EveryRejectIsRun == OracleInv => NothingIsNarrowed
<1> SUFFICES ASSUME OracleInv, OracleEnded, NEW k \in InManifest
             PROVE  \/ ran[k] # NotRun
                    \/ reachVerdict[k] \in {"accept", "invalid"}
                    \/ tool = "message" /\ manifestMessage[k] = NoMessage
  BY DEF NothingIsNarrowed, NothingIsNarrowed
<1>1. k \in CaseKeys /\ manifestMessage[k] # NoRow
  BY DEF InManifest, CaseKeys
<1>2. tool \in {"message", "column"} /\ Fresh
  BY DEF OracleEnded, OracleInv, IsFresh
<1>3. /\ reachVerdict[k] \in {"accept", "reject", "invalid"}
      /\ manifestMessage[k] \in Messages \cup {NoMessage}
  BY <1>1, <1>2 DEF OracleInv, OracleTypes, Fresh
<1>4. TimedOut # NotRun /\ NotRun.outcome = "not run"
  BY NotRunOutcomes
<1>5. CASE reachVerdict[k] = "reject" /\ tool = "message" /\ manifestMessage[k] \in Messages
  <2>1. MessageDone(k) /\ AsksMessage(k)
    BY <1>1, <1>5, EveryCaseIsDone DEF AsksMessage
  <2>2. MessageRan(k) => ran[k].outcome = "ran"
    BY DEF MessageRan
  <2> QED  BY <1>4, <2>1, <2>2 DEF MessageDone
<1>6. CASE reachVerdict[k] = "reject" /\ tool = "column"
  <2>1. ColumnDone(k) /\ AsksColumn(k)
    BY <1>1, <1>6, EveryCaseIsDone DEF AsksColumn
  <2>2. ColumnRan(k) => ran[k].outcome = "ran"
    BY DEF ColumnRan
  <2> QED  BY <1>4, <2>1, <2>2 DEF ColumnDone
<1> QED  BY <1>2, <1>3, <1>5, <1>6

LEMMA AlwaysOracleInv == OracleSpec => []OracleInv
BY OracleStarts, OracleSteps, PTL DEF OracleSpec

(***************************************************************************)
(* The message oracle fails exactly if a case ponyc rejects with a message *)
(* of its own is rejected by the checker for another reason: for any       *)
(* manifest, reach file and exceptions, and whatever is written and times  *)
(* out.                                                                    *)
(***************************************************************************)
THEOREM MissesAreFound == OracleSpec => []RejectsForPonycsReason
BY AlwaysOracleInv, MessagesAreJudged, PTL


(***************************************************************************)
(* The column oracle fails exactly if the places of a message that both    *)
(* programs emit cannot be paired one to one, in any order of the lines    *)
(* and however often it is emitted.                                        *)
(***************************************************************************)
THEOREM MisplacedAreFound == OracleSpec => []SitsWherePonycPutsIt
BY AlwaysOracleInv, PlacesAreJudged, PTL


(***************************************************************************)
(* An oracle that comes to its end has passed over no case that ponyc is   *)
(* not on record as accepting.                                             *)
(***************************************************************************)
THEOREM NoneAreNarrowed == OracleSpec => []NothingIsNarrowed
BY AlwaysOracleInv, EveryRejectIsRun, PTL

-------------------------------------------------------------------------------
(* The agreement of the lexers.                                                *)

Begins == FirstOf(run)
IsCut == parts \in Seq(1 .. Len(Corpus)) /\ Len(parts) > 0 /\ parts[Len(parts)] = Len(Corpus)
CutsGrow == \A r \in DOMAIN parts : r > 1 => parts[r] > parts[r - 1]

\* What a side prints of the source at a place in the list, when it prints all of it.
Full(s, k) == IF lexed[s][Corpus[k]] = Unreadable THEN Absent ELSE lexed[s][Corpus[k]]
Printed(s, k) == printed[s][Corpus[k]]

Untouched(s) == \A k \in Listed : Printed(s, k) = Absent
Dumping(s) ==
  \A k \in Listed :
    /\ k < next => Printed(s, k) = Full(s, k)
    /\ k >= next => Printed(s, k) = Absent
\* It has come to d, and has died there, or has come to the end.
DumpDoneAt(s, d) ==
  /\ d >= Begins
  /\ \A k \in Listed :
       /\ k < d => Printed(s, k) = Full(s, k)
       /\ k > d => Printed(s, k) = Absent
       /\ k = d => <<s, Corpus[k]>> \in died
DumpDone(s) == \E d \in Nat : DumpDoneAt(s, d)

CheckTypes ==
  /\ IsCut /\ CutsGrow
  /\ lexed \in [Sides -> [Files -> Streams \cup {Unreadable}]]
  /\ \A f \in Files : lexed["theirs"][f] = Unreadable <=> lexed["ours"][f] = Unreadable
  /\ run \in 1 .. Len(parts) + 1
  /\ step \in {"theirs", "ours", "compare"}
  /\ next \in Nat
  /\ printed = [s \in Sides |-> [f \in Files |-> printed[s][f]]]

InRun ==
  run <= Len(parts) =>
    /\ next \in Begins .. parts[run] + 1
    /\ step = "theirs" => Dumping("theirs") /\ Untouched("ours")
    /\ step = "ours" => DumpDone("theirs") /\ Dumping("ours")
    /\ step = "compare" => DumpDone("theirs") /\ DumpDone("ours")

AgreeingIsSeen ==
  differ = {} => \A k \in 1 .. Begins - 1 : Same(Corpus[k]) \/ DiedLast(Corpus[k])
DifferingIsSeen ==
  died = {} => {d[1] : d \in differ} = {Corpus[k] : k \in {l \in 1 .. Begins - 1 : ~Same(Corpus[l])}}

CheckInv == CheckTypes /\ InRun /\ AgreeingIsSeen /\ DifferingIsSeen

LEMMA SourcesAre ==
  /\ Len(Corpus) \in Nat /\ DOMAIN Corpus = 1 .. Len(Corpus)
  /\ \A k, l \in 1 .. Len(Corpus) : k # l => Corpus[k] # Corpus[l]
  /\ \A k \in 1 .. Len(Corpus) : Corpus[k] \in Files
BY AgreementAssumption, LenProperties DEF SourcesAreListed, Files

LEMMA CutsAre ==
  ASSUME CheckTypes
  PROVE  /\ Len(parts) \in Nat /\ DOMAIN parts = 1 .. Len(parts)
         /\ \A r \in 1 .. Len(parts) : parts[r] \in 1 .. Len(Corpus)
         /\ \A r \in 1 .. Len(parts) : FirstOf(r) \in 1 .. parts[r]
         /\ \A r \in 1 .. Len(parts) : FirstOf(r + 1) = parts[r] + 1
         /\ parts[Len(parts)] = Len(Corpus) /\ Len(parts) > 0
<1>1. /\ Len(parts) \in Nat /\ DOMAIN parts = 1 .. Len(parts)
      /\ \A r \in 1 .. Len(parts) : parts[r] \in 1 .. Len(Corpus)
  BY LenProperties, ElementOfSeq DEF CheckTypes, IsCut
<1>2. Len(Corpus) \in Nat
  BY SourcesAre
<1>3. ASSUME NEW r \in 1 .. Len(parts)
      PROVE  FirstOf(r) \in 1 .. parts[r] /\ FirstOf(r + 1) = parts[r] + 1
  <2>1. parts[r] \in 1 .. Len(Corpus) /\ r \in Nat
    BY <1>1
  <2>2. r + 1 # 1 /\ (r + 1) - 1 = r
    BY <2>1
  <2>3. FirstOf(r + 1) = parts[r] + 1
    BY <2>2 DEF FirstOf
  <2>4. CASE r = 1
    BY <1>2, <2>1, <2>3, <2>4 DEF FirstOf
  <2>5. CASE r # 1
    <3>1. r > 1 /\ r - 1 \in 1 .. Len(parts)
      BY <1>1, <2>5
    <3>2. parts[r] > parts[r - 1]
      BY <1>1, <3>1 DEF CheckTypes, CutsGrow
    <3>3. parts[r - 1] \in 1 .. Len(Corpus)
      BY <1>1, <3>1
    <3>4. FirstOf(r) = parts[r - 1] + 1
      BY <2>5 DEF FirstOf
    <3>5. PICK p, q : p = parts[r] /\ q = parts[r - 1]
      OBVIOUS
    <3>6. p \in Int /\ q \in Int /\ p > q /\ q >= 1
      BY <1>2, <2>1, <3>2, <3>3, <3>5
    <3>7. q + 1 \in 1 .. p
      BY <3>6
    <3> QED  BY <2>3, <3>4, <3>5, <3>7
  <2> QED  BY <2>4, <2>5
<1>4. parts[Len(parts)] = Len(Corpus) /\ Len(parts) > 0
  BY DEF CheckTypes, IsCut
<1> QED  BY <1>1, <1>3, <1>4

LEMMA PlacesOfRun ==
  ASSUME CheckTypes, run <= Len(parts)
  PROVE  /\ run \in 1 .. Len(parts)
         /\ Listed = Begins .. parts[run]
         /\ Begins \in 1 .. parts[run] /\ parts[run] \in 1 .. Len(Corpus)
         /\ Listed \subseteq 1 .. Len(Corpus)
<1>1. run \in 1 .. Len(parts)
  BY CutsAre DEF CheckTypes
<1>2. Begins \in 1 .. parts[run] /\ parts[run] \in 1 .. Len(Corpus)
  BY <1>1, CutsAre DEF Begins
<1>3. Listed = Begins .. parts[run]
  BY DEF Listed, Begins
<1>4. Len(Corpus) \in Nat
  BY SourcesAre
<1> QED  BY <1>1, <1>2, <1>3, <1>4

LEMMA CheckStarts == CheckInit => CheckInv
<1> SUFFICES ASSUME CheckInit
             PROVE  CheckInv
  OBVIOUS
<1>1. /\ run = 1 /\ step = "theirs" /\ next = 1 /\ died = {} /\ differ = {}
      /\ printed = [s \in Sides |-> [f \in Files |-> Absent]]
      /\ lexed \in [Sides -> [Files -> Streams \cup {Unreadable}]]
      /\ \A f \in Files : lexed["theirs"][f] = Unreadable <=> lexed["ours"][f] = Unreadable
  BY DEF CheckInit, Nothing, Sides, Files, Sides, Files
<1>2. Len(Corpus) \in Nat
  BY SourcesAre
<1>3. IsCut /\ CutsGrow
  <2>1. /\ \E n \in 1 .. Len(Corpus) : parts \in [1 .. n -> 1 .. Len(Corpus)]
        /\ \A k \in DOMAIN parts : k > 1 => parts[k] > parts[k - 1]
        /\ parts[Len(parts)] = Len(Corpus)
    BY DEF CheckInit, Parts
  <2>2. PICK n \in 1 .. Len(Corpus) : parts \in [1 .. n -> 1 .. Len(Corpus)]
    BY <2>1
  <2>3. n \in Nat /\ n > 0
    BY <1>2
  <2>4. parts \in Seq(1 .. Len(Corpus)) /\ Len(parts) = n
    BY <2>2, <2>3
  <2> QED  BY <2>1, <2>3, <2>4 DEF IsCut, CutsGrow
<1>4. Len(parts) \in Nat /\ Len(parts) > 0
  BY <1>3, LenProperties DEF IsCut
<1>5. CheckTypes
  <2>1. run \in 1 .. Len(parts) + 1 /\ next \in Nat
    BY <1>1, <1>4
  <2>2. printed = [s \in Sides |-> [f \in Files |-> printed[s][f]]]
    BY <1>1
  <2> QED  BY <1>1, <1>3, <2>1, <2>2 DEF CheckTypes
<1>6. Begins = 1
  BY <1>1 DEF Begins, FirstOf
<1>7. InRun
  <2>1. run <= Len(parts)
    BY <1>1, <1>4
  <2>2. Listed = 1 .. parts[run] /\ parts[run] \in 1 .. Len(Corpus) /\ Listed \subseteq 1 .. Len(Corpus)
    BY <1>5, <1>6, <2>1, PlacesOfRun
  <2>3. \A k \in Listed, s \in Sides : Printed(s, k) = Absent
    BY <1>1, <2>2, SourcesAre DEF Printed
  <2>4. next \in Begins .. parts[run] + 1
    BY <1>1, <1>2, <1>6, <2>2
  <2>5. \A k \in Listed : ~(k < next)
    BY <1>1, <1>2, <2>2
  <2> QED  BY <1>1, <2>3, <2>4, <2>5 DEF InRun, Dumping, Untouched, Sides
<1>8. 1 .. Begins - 1 = {}
  BY <1>6
<1> QED  BY <1>1, <1>5, <1>7, <1>8 DEF CheckInv, AgreeingIsSeen, DifferingIsSeen

(* The turn of one side in a run, and what becomes of the other side meanwhile. *)

SameRun == UNCHANGED <<parts, lexed, run, differ>>

LEMMA RunStays ==
  ASSUME SameRun
  PROVE  /\ Begins' = Begins /\ Listed' = Listed /\ parts'[run'] = parts[run]
         /\ \A s, k : Full(s, k)' = Full(s, k)
BY DEF SameRun, Begins, FirstOf, Listed, Full

LEMMA PastStays ==
  ASSUME SameRun, died \subseteq died', AgreeingIsSeen, DifferingIsSeen
  PROVE  AgreeingIsSeen' /\ DifferingIsSeen'
<1>1. Begins' = Begins
  BY RunStays
<1>2. \A f : Same(f)' <=> Same(f)
  BY DEF SameRun, Same
<1>3. \A f : DiedLast(f) => DiedLast(f)'
  BY DEF SameRun, DiedLast
<1>4. AgreeingIsSeen'
  <2>1. differ' = differ
    BY DEF SameRun
  <2> QED  BY <1>1, <1>2, <1>3, <2>1 DEF AgreeingIsSeen
<1>5. DifferingIsSeen'
  <2> SUFFICES ASSUME died' = {}
               PROVE  {d[1] : d \in differ'}
                        = {Corpus[k] : k \in {l \in 1 .. Begins' - 1 : ~Same(Corpus[l])'}}
    BY DEF DifferingIsSeen
  <2>1. died = {} /\ differ' = differ
    BY DEF SameRun
  <2>2. {l \in 1 .. Begins' - 1 : ~Same(Corpus[l])'} = {l \in 1 .. Begins - 1 : ~Same(Corpus[l])}
    BY <1>1, <1>2
  <2>3. {d[1] : d \in differ}
          = {Corpus[k] : k \in {l \in 1 .. Begins - 1 : ~Same(Corpus[l])}}
    BY <2>1 DEF DifferingIsSeen
  <2> QED  BY <2>1, <2>2, <2>3
<1> QED  BY <1>4, <1>5

LEMMA DumpDoneStays ==
  ASSUME NEW s, SameRun, died \subseteq died', \A k \in Listed : Printed(s, k)' = Printed(s, k), DumpDone(s)
  PROVE  DumpDone(s)'
<1>1. PICK d \in Nat : DumpDoneAt(s, d)
  BY DEF DumpDone
<1>2. /\ Listed' = Listed /\ Begins' = Begins
      /\ \A k : Full(s, k)' = Full(s, k)
  BY RunStays
<1>3. DumpDoneAt(s, d)'
  BY <1>1, <1>2 DEF DumpDoneAt
<1> QED  BY <1>3 DEF DumpDone

LEMMA DumpStep ==
  ASSUME CheckInv, NEW s \in Sides, Dump(s)
  PROVE  CheckInv'
<1>1. PICK n : n = next
  OBVIOUS
<1>2. /\ run <= Len(parts) /\ n \in Listed /\ step = s
      /\ next' = n + 1
      /\ UNCHANGED <<parts, lexed, run, step, died, differ>>
      /\ IF lexed[s][Corpus[n]] = Unreadable THEN printed' = printed
         ELSE printed' = [printed EXCEPT ![s][Corpus[n]] = lexed[s][Corpus[n]]]
  BY <1>1 DEF Dump, Left, listing, Prints, File
<1>3. /\ Listed = Begins .. parts[run]
      /\ Begins \in 1 .. parts[run] /\ parts[run] \in 1 .. Len(Corpus)
      /\ Listed \subseteq 1 .. Len(Corpus)
  BY <1>2, PlacesOfRun DEF CheckInv
<1>4. /\ Len(Corpus) \in Nat
      /\ \A k, l \in Listed : k # l => Corpus[k] # Corpus[l]
      /\ \A k \in Listed : Corpus[k] \in Files /\ k \in Nat
  BY <1>3, SourcesAre
<1>5. /\ printed = [t \in Sides |-> [f \in Files |-> printed[t][f]]]
      /\ n \in Nat
  BY <1>1 DEF CheckInv, CheckTypes
<1>6. SameRun /\ died \subseteq died'
  BY <1>2 DEF SameRun
<1>7. Dumping(s) /\ Printed(s, n) = Absent
  <2>1. Dumping(s)
    BY <1>2 DEF CheckInv, InRun, Sides
  <2>2. n >= next
    BY <1>1, <1>5
  <2> QED  BY <1>2, <2>1, <2>2 DEF Dumping
<1>8. /\ printed' = [t \in Sides |-> [f \in Files |-> printed'[t][f]]]
      /\ printed'[s][Corpus[n]] = Full(s, n)
      /\ \A t \in Sides, k \in Listed : t # s \/ k # n => printed'[t][Corpus[k]] = printed[t][Corpus[k]]
  <2>1. CASE lexed[s][Corpus[n]] = Unreadable
    BY <1>2, <1>5, <1>7, <2>1 DEF Full, Printed
  <2>2. CASE lexed[s][Corpus[n]] # Unreadable
    <3>1. printed' = [printed EXCEPT ![s][Corpus[n]] = lexed[s][Corpus[n]]]
      BY <1>2, <2>2
    <3>2. Full(s, n) = lexed[s][Corpus[n]]
      BY <2>2 DEF Full
    <3>3. Corpus[n] \in Files
      BY <1>2, <1>4
    <3>4. printed' = [t \in Sides |-> [f \in Files |-> printed'[t][f]]]
      BY <1>5, <3>1
    <3>5. printed'[s][Corpus[n]] = lexed[s][Corpus[n]]
      BY <1>5, <3>1, <3>3
    <3>6. \A t \in Sides, f \in Files : t # s \/ f # Corpus[n] => printed'[t][f] = printed[t][f]
      BY <1>5, <3>1
    <3> QED  BY <1>2, <1>4, <3>2, <3>4, <3>5, <3>6
  <2> QED  BY <2>1, <2>2
<1>9. /\ Listed' = Listed /\ Begins' = Begins /\ parts'[run'] = parts[run]
      /\ \A t, k : Full(t, k)' = Full(t, k)
  BY <1>6, RunStays
<1>10. Dumping(s)'
  <2> SUFFICES ASSUME NEW k \in Listed
               PROVE  /\ k < n + 1 => printed'[s][Corpus[k]] = Full(s, k)
                      /\ k >= n + 1 => printed'[s][Corpus[k]] = Absent
    BY <1>2, <1>9 DEF Dumping, Printed
  <2>1. k \in Nat /\ (k < n + 1 => k = n \/ k < n) /\ (k >= n + 1 => k # n /\ k >= n)
    BY <1>4, <1>5
  <2>2. /\ k < n => printed[s][Corpus[k]] = Full(s, k)
        /\ k >= n => printed[s][Corpus[k]] = Absent
    BY <1>1, <1>7 DEF Dumping, Printed
  <2>3. k # n => printed'[s][Corpus[k]] = printed[s][Corpus[k]]
    BY <1>8
  <2>4. CASE k = n
    BY <1>5, <1>8, <2>1, <2>4
  <2>5. CASE k # n
    BY <2>1, <2>2, <2>3, <2>5
  <2> QED  BY <2>4, <2>5
<1>11. CheckTypes'
  BY <1>2, <1>5, <1>8 DEF CheckInv, CheckTypes, IsCut, CutsGrow
<1>12. AgreeingIsSeen' /\ DifferingIsSeen'
  BY <1>6, PastStays DEF CheckInv
<1>13. n + 1 \in Begins .. parts[run] + 1
  <2>1. n \in Begins .. parts[run] /\ Begins \in Int /\ parts[run] \in Int
    BY <1>2, <1>3, <1>4
  <2> QED  BY <2>1
<1>14. InRun'
  <2>1. CASE s = "theirs"
    <3>1. \A k \in Listed : Printed("ours", k)' = Printed("ours", k)
      BY <1>8, <2>1 DEF Printed, Sides
    <3>2. Untouched("ours")
      BY <1>2, <2>1 DEF CheckInv, InRun
    <3>3. Untouched("ours")'
      BY <1>9, <3>1, <3>2 DEF Untouched
    <3> QED  BY <1>2, <1>9, <1>10, <1>13, <2>1, <3>3 DEF InRun
  <2>2. CASE s = "ours"
    <3>1. \A k \in Listed : Printed("theirs", k)' = Printed("theirs", k)
      BY <1>8, <2>2 DEF Printed, Sides
    <3>2. DumpDone("theirs")
      BY <1>2, <2>2 DEF CheckInv, InRun
    <3>3. DumpDone("theirs")'
      BY <1>6, <3>1, <3>2, DumpDoneStays
    <3> QED  BY <1>2, <1>9, <1>10, <1>13, <2>2, <3>3 DEF InRun
  <2> QED  BY <2>1, <2>2 DEF Sides
<1> QED  BY <1>11, <1>12, <1>14 DEF CheckInv

(* The end of a turn, by a death or at the end of the list.                    *)

LEMMA TurnEnds ==
  ASSUME CheckInv, NEW s \in Sides, step = s, run <= Len(parts),
         SameRun, died \subseteq died', step' = After(s), next' = FirstOf(run),
         CheckTypes', DumpDone(s)',
         \A t \in Sides \ {s}, k \in Listed : printed'[t][Corpus[k]] = printed[t][Corpus[k]]
  PROVE  CheckInv'
<1>1. /\ Listed' = Listed /\ Begins' = Begins /\ parts'[run'] = parts[run]
      /\ \A t, k : Full(t, k)' = Full(t, k)
  BY RunStays
<1>2. AgreeingIsSeen' /\ DifferingIsSeen'
  BY PastStays DEF CheckInv
<1>3. /\ Listed = Begins .. parts[run]
      /\ Begins \in 1 .. parts[run] /\ parts[run] \in 1 .. Len(Corpus) /\ Len(Corpus) \in Nat
  BY PlacesOfRun, SourcesAre DEF CheckInv
<1>4. next' = Begins /\ next' \in Begins .. parts[run] + 1
  BY <1>3 DEF Begins
<1>5. \A k \in Listed : k >= Begins /\ ~(k < Begins)
  BY <1>3
<1>6. CASE s = "theirs"
  <2>1. step' = "ours"
    BY <1>6 DEF After
  <2>2. Untouched("ours")
    BY <1>6 DEF CheckInv, InRun
  <2>3. \A k \in Listed : Printed("ours", k)' = Absent
    BY <1>6, <2>2 DEF Untouched, Printed, Sides
  <2>4. Dumping("ours")'
    BY <1>1, <1>4, <1>5, <2>3 DEF Dumping
  <2>5. InRun'
    BY <1>1, <1>4, <1>6, <2>1, <2>4 DEF InRun
  <2> QED  BY <1>2, <2>5 DEF CheckInv
<1>7. CASE s = "ours"
  <2>1. step' = "compare"
    BY <1>7 DEF After
  <2>2. DumpDone("theirs")
    BY <1>7 DEF CheckInv, InRun
  <2>3. \A k \in Listed : Printed("theirs", k)' = Printed("theirs", k)
    BY <1>7 DEF Printed, Sides
  <2>4. DumpDone("theirs")'
    BY <2>2, <2>3, DumpDoneStays
  <2>5. InRun'
    BY <1>1, <1>4, <1>7, <2>1, <2>4 DEF InRun
  <2> QED  BY <1>2, <2>5 DEF CheckInv
<1> QED  BY <1>6, <1>7 DEF Sides

LEMMA NextTypes ==
  ASSUME CheckTypes, SameRun, run <= Len(parts),
         step' \in {"theirs", "ours", "compare"}, next' = FirstOf(run),
         printed' = [t \in Sides |-> [f \in Files |-> printed'[t][f]]]
  PROVE  CheckTypes'
<1>1. next' \in Nat
  BY PlacesOfRun, SourcesAre DEF Begins
<1> QED  BY <1>1 DEF CheckTypes, SameRun, IsCut, CutsGrow

LEMMA DumpedStep ==
  ASSUME CheckInv, NEW s \in Sides, Dumped(s)
  PROVE  CheckInv'
<1>1. /\ next \notin Listed /\ run <= Len(parts) /\ step = s
      /\ step' = After(s) /\ next' = FirstOf(run)
      /\ UNCHANGED <<parts, lexed, run, printed, died, differ>>
  BY DEF Dumped, Left, listing
<1>2. SameRun /\ died \subseteq died'
  BY <1>1 DEF SameRun
<1>3. CheckTypes'
  <2>1. step' \in {"theirs", "ours", "compare"}
    BY <1>1 DEF After
  <2>2. printed' = [t \in Sides |-> [f \in Files |-> printed'[t][f]]]
    BY <1>1 DEF CheckInv, CheckTypes
  <2> QED  BY <1>1, <1>2, <2>1, <2>2, NextTypes DEF CheckInv
<1>4. /\ Listed = Begins .. parts[run] /\ next \in Begins .. parts[run] + 1
      /\ Begins \in Int /\ parts[run] \in Int /\ next \in Nat
  BY <1>1, PlacesOfRun, SourcesAre DEF CheckInv, InRun, CheckTypes
<1>5. next = parts[run] + 1
  BY <1>1, <1>4
<1>6. \A k \in Listed : k < next /\ ~(k > next) /\ k # next
  BY <1>4, <1>5
<1>7. Dumping(s)
  BY <1>1 DEF CheckInv, InRun, Sides
<1>8. DumpDoneAt(s, next)
  BY <1>4, <1>6, <1>7 DEF DumpDoneAt, Dumping
<1>9. DumpDone(s)
  BY <1>4, <1>8 DEF DumpDone
<1>10. DumpDone(s)'
  <2>1. \A k \in Listed : Printed(s, k)' = Printed(s, k)
    BY <1>1 DEF Printed
  <2> QED  BY <1>2, <1>9, <2>1, DumpDoneStays
<1> QED  BY <1>1, <1>2, <1>3, <1>10, TurnEnds DEF CheckInv

LEMMA DumpDiesStep ==
  ASSUME CheckInv, NEW s \in Sides, DumpDies(s)
  PROVE  CheckInv'
<1>1. PICK n : n = next
  OBVIOUS
<1>2. /\ run <= Len(parts) /\ n \in Listed /\ step = s
      /\ step' = After(s) /\ next' = FirstOf(run)
      /\ died' = died \cup {<<s, Corpus[n]>>}
      /\ UNCHANGED <<parts, lexed, run, differ>>
      /\ \E v : printed' = [printed EXCEPT ![s][Corpus[n]] = v]
  BY <1>1 DEF DumpDies, Left, listing, Prints, File
<1>3. PICK v : printed' = [printed EXCEPT ![s][Corpus[n]] = v]
  BY <1>2
<1>4. SameRun /\ died \subseteq died'
  BY <1>2 DEF SameRun
<1>5. /\ \A k, l \in Listed : k # l => Corpus[k] # Corpus[l]
      /\ \A k \in Listed : Corpus[k] \in Files /\ k \in Nat
  BY <1>2, PlacesOfRun, SourcesAre DEF CheckInv
<1>6. printed = [t \in Sides |-> [f \in Files |-> printed[t][f]]]
  BY DEF CheckInv, CheckTypes
<1>7. /\ printed' = [t \in Sides |-> [f \in Files |-> printed'[t][f]]]
      /\ \A t \in Sides, f \in Files : t # s \/ f # Corpus[n] => printed'[t][f] = printed[t][f]
  BY <1>3, <1>6
<1>8. \A t \in Sides, k \in Listed : t # s \/ k # n => printed'[t][Corpus[k]] = printed[t][Corpus[k]]
  BY <1>2, <1>5, <1>7
<1>9. CheckTypes'
  <2>1. step' \in {"theirs", "ours", "compare"}
    BY <1>2 DEF After
  <2> QED  BY <1>2, <1>4, <1>7, <2>1, NextTypes DEF CheckInv
<1>10. Dumping(s)
  BY <1>2 DEF CheckInv, InRun, Sides
<1>11. DumpDone(s)'
  <2>1. /\ Listed' = Listed /\ Begins' = Begins
        /\ \A k : Full(s, k)' = Full(s, k)
    BY <1>4, RunStays
  <2>2. ASSUME NEW k \in Listed
        PROVE  /\ k < n => printed'[s][Corpus[k]] = Full(s, k)
               /\ k > n => printed'[s][Corpus[k]] = Absent
               /\ k = n => <<s, Corpus[k]>> \in died'
    <3>1. k \in Nat /\ n \in Nat
      BY <1>2, <1>5
    <3>2. k # n => printed'[s][Corpus[k]] = printed[s][Corpus[k]]
      BY <1>8
    <3>3. /\ k < n => printed[s][Corpus[k]] = Full(s, k)
          /\ k >= n => printed[s][Corpus[k]] = Absent
      BY <1>1, <1>10 DEF Dumping, Printed
    <3>4. k = n => <<s, Corpus[k]>> \in died'
      BY <1>2
    <3>5. (k < n => k # n) /\ (k > n => k # n /\ k >= n)
      BY <3>1
    <3> QED  BY <3>2, <3>3, <3>4, <3>5
  <2>3. n \in Nat /\ n >= Begins
    BY <1>2, <1>5, PlacesOfRun, SourcesAre DEF CheckInv
  <2>4. DumpDoneAt(s, n)'
    BY <2>1, <2>2, <2>3 DEF DumpDoneAt, Printed
  <2> QED  BY <2>3, <2>4 DEF DumpDone
<1>12. \A t \in Sides \ {s}, k \in Listed : printed'[t][Corpus[k]] = printed[t][Corpus[k]]
  BY <1>8
<1> QED  BY <1>2, <1>4, <1>9, <1>11, <1>12, TurnEnds DEF CheckInv

(* A run's comparison: what it finds of each source, and what that says.       *)

LEMMA DifferenceIs ==
  ASSUME NEW f, NEW a, NEW b
  PROVE  /\ Difference(f, a, b) = {} <=> a # Absent /\ b # Absent /\ a = b
         /\ \A d \in Difference(f, a, b) : d[1] = f
<1> DEFINE D == Difference(f, a, b)
<1>1. CASE a # Absent /\ b # Absent /\ a = b
  <2>1. D = {}
    BY <1>1 DEF Difference
  <2> QED  BY <1>1, <2>1
<1>2. CASE ~(a # Absent /\ b # Absent /\ a = b)
  <2>1. \E w : D = {<<f, w>>}
    <3>1. CASE a = Absent \/ b = Absent
      BY <3>1 DEF Difference
    <3>2. CASE a # Absent /\ b # Absent /\ a # b
      BY <3>2 DEF Difference
    <3> QED  BY <1>2, <3>1, <3>2
  <2>2. PICK w : D = {<<f, w>>}
    BY <2>1
  <2> HIDE DEF D
  <2>3. D # {} /\ \A d \in D : d = <<f, w>>
    BY <2>2
  <2>4. <<f, w>>[1] = f
    OBVIOUS
  <2>5. \A d \in D : d[1] = f
    BY <2>3, <2>4
  <2> QED  BY <1>2, <2>3, <2>5 DEF D
<1> QED  BY <1>1, <1>2

Found(k) == Difference(Corpus[k], Printed("theirs", k), Printed("ours", k))

LEMMA UnfoundIsSame ==
  ASSUME CheckInv, run <= Len(parts), DumpDone("theirs"), DumpDone("ours"),
         \A k \in Listed : Found(k) = {}, NEW k \in Listed
  PROVE  Same(Corpus[k]) \/ DiedLast(Corpus[k])
<1>1. /\ Listed = Begins .. parts[run] /\ Begins \in Nat /\ parts[run] \in Nat
      /\ run \in DOMAIN parts
      /\ \A l \in Listed : l \in Nat /\ Corpus[l] \in Files
  BY PlacesOfRun, CutsAre, SourcesAre DEF CheckInv
<1>2. \A l \in Listed :
        Printed("theirs", l) # Absent /\ Printed("ours", l) # Absent /\ Printed("theirs", l) = Printed("ours", l)
  BY DifferenceIs DEF Found
<1>3. ASSUME NEW s \in Sides
      PROVE  Printed(s, k) = Full(s, k) \/ DiedLast(Corpus[k])
  <2>1. PICK d \in Nat : DumpDoneAt(s, d)
    BY DEF DumpDone, Sides
  <2>2. \A l \in Listed : Printed(s, l) # Absent
    BY <1>2 DEF Sides
  <2>3. \A l \in Listed : ~(l > d)
    BY <2>1, <2>2 DEF DumpDoneAt
  <2>4. k < d \/ k = d
    BY <1>1, <2>3
  <2>5. CASE k < d
    BY <2>1, <2>5 DEF DumpDoneAt
  <2>6. CASE k = d
    <3>1. <<s, Corpus[k]>> \in died
      BY <2>1, <2>6 DEF DumpDoneAt
    <3>2. k = parts[run]
      <4>1. ~(k + 1 \in Listed)
        BY <1>1, <2>3, <2>6
      <4>2. \A p, q, r \in Nat : r \in p .. q /\ ~(r + 1 \in p .. q) => r = q
        OBVIOUS
      <4> QED  BY <1>1, <4>1, <4>2
    <3>3. DiedLast(Corpus[k])
      BY <1>1, <3>1, <3>2 DEF DiedLast, Sides
    <3> QED  BY <3>3
  <2> QED  BY <2>4, <2>5, <2>6
<1>4. CASE Printed("theirs", k) = Full("theirs", k) /\ Printed("ours", k) = Full("ours", k)
  <2>1. Full("theirs", k) # Absent /\ Full("theirs", k) = Full("ours", k) /\ Full("ours", k) # Absent
    BY <1>2, <1>4
  <2> QED  BY <2>1 DEF Full, Same
<1> QED  BY <1>3, <1>4 DEF Sides

LEMMA FoundIfDiffers ==
  ASSUME CheckInv, run <= Len(parts), DumpDone("theirs"), DumpDone("ours"), died = {},
         NEW k \in Listed
  PROVE  Found(k) = {} <=> Same(Corpus[k])
<1>1. /\ Listed = Begins .. parts[run] /\ Begins \in Nat /\ parts[run] \in Nat
      /\ \A l \in Listed : l \in Nat /\ Corpus[l] \in Files
  BY PlacesOfRun, CutsAre, SourcesAre DEF CheckInv
<1>2. ASSUME NEW s \in Sides
      PROVE  Printed(s, k) = Full(s, k)
  <2>1. PICK d \in Nat : DumpDoneAt(s, d)
    BY DEF DumpDone, Sides
  <2>2. d >= Begins /\ d \notin Listed
    BY <2>1 DEF DumpDoneAt
  <2>3. k < d
    BY <1>1, <2>2
  <2> QED  BY <2>1, <2>3 DEF DumpDoneAt
<1>3. Corpus[k] \in Files
  BY <1>1
<1>4. /\ lexed["theirs"][Corpus[k]] \in Streams \cup {Unreadable}
      /\ lexed["ours"][Corpus[k]] \in Streams \cup {Unreadable}
      /\ lexed["theirs"][Corpus[k]] = Unreadable <=> lexed["ours"][Corpus[k]] = Unreadable
  BY <1>3 DEF CheckInv, CheckTypes, Sides
<1>5. Absent \notin Streams
  BY AgreementAssumption
<1>6. Found(k) = {} <=> Full("theirs", k) # Absent /\ Full("ours", k) # Absent /\ Full("theirs", k) = Full("ours", k)
  BY <1>2, DifferenceIs DEF Found, Sides
<1>7. CASE lexed["theirs"][Corpus[k]] = Unreadable
  BY <1>4, <1>6, <1>7 DEF Full, Same
<1>8. CASE lexed["theirs"][Corpus[k]] # Unreadable
  <2>1. /\ Full("theirs", k) = lexed["theirs"][Corpus[k]] /\ Full("theirs", k) \in Streams
        /\ Full("ours", k) = lexed["ours"][Corpus[k]] /\ Full("ours", k) \in Streams
    BY <1>4, <1>8 DEF Full
  <2> QED  BY <1>5, <1>6, <1>8, <2>1 DEF Same
<1> QED  BY <1>7, <1>8

LEMMA PlacesOfNextRun ==
  ASSUME CheckTypes, run <= Len(parts), run' = run + 1, parts' = parts
  PROVE  /\ Begins' = parts[run] + 1 /\ run' \in 1 .. Len(parts) + 1
         /\ 1 .. Begins' - 1 = (1 .. Begins - 1) \cup Listed
         /\ run' <= Len(parts) =>
              /\ Listed' = Begins' .. parts[run + 1]
              /\ Begins' \in 1 .. parts[run + 1] /\ parts[run + 1] \in 1 .. Len(Corpus)
<1>1. /\ run \in 1 .. Len(parts) /\ Len(parts) \in Nat
      /\ Listed = Begins .. parts[run] /\ Begins \in 1 .. parts[run]
      /\ parts[run] \in Nat /\ Begins \in Nat
  BY PlacesOfRun, CutsAre, SourcesAre
<1>2. Begins' = parts[run] + 1
  <2>1. run + 1 # 1 /\ (run + 1) - 1 = run
    BY <1>1
  <2> QED  BY <2>1 DEF Begins, FirstOf
<1>3. 1 .. Begins' - 1 = (1 .. Begins - 1) \cup Listed
  <2>1. \A p, q \in Nat : q \in 1 .. p => 1 .. (p + 1) - 1 = (1 .. q - 1) \cup (q .. p)
    OBVIOUS
  <2> QED  BY <1>1, <1>2, <2>1
<1>4. ASSUME run' <= Len(parts)
      PROVE  /\ Listed' = Begins' .. parts[run + 1]
             /\ Begins' \in 1 .. parts[run + 1] /\ parts[run + 1] \in 1 .. Len(Corpus)
  <2>1. run + 1 \in 1 .. Len(parts)
    BY <1>1, <1>4
  <2>2. FirstOf(run + 1) = parts[run] + 1
    BY <1>1, CutsAre
  <2>3. FirstOf(run + 1) \in 1 .. parts[run + 1] /\ parts[run + 1] \in 1 .. Len(Corpus)
    BY <2>1, CutsAre
  <2>4. Listed' = Begins' .. parts[run + 1]
    BY DEF Listed, Begins
  <2> QED  BY <1>2, <2>2, <2>3, <2>4
<1> QED  BY <1>1, <1>2, <1>3, <1>4

LEMMA CompareStep ==
  ASSUME CheckInv, Compare
  PROVE  CheckInv'
<1> DEFINE D == UNION {Found(k) : k \in Listed}
<1>1. /\ step = "compare" /\ run <= Len(parts)
      /\ differ' = differ \cup D
      /\ printed' = [s \in Sides |-> [f \in Files |-> Absent]]
      /\ run' = run + 1 /\ next' = FirstOf(run + 1) /\ step' = "theirs"
      /\ UNCHANGED <<parts, lexed, died>>
  BY DEF Compare, NextRun, listing, Nothing, Sides, Files,
         Sides, Files, Found, Printed
<1>2. /\ Begins' = parts[run] + 1 /\ run' \in 1 .. Len(parts) + 1
      /\ 1 .. Begins' - 1 = (1 .. Begins - 1) \cup Listed
      /\ run' <= Len(parts) =>
           /\ Listed' = Begins' .. parts[run + 1]
           /\ Begins' \in 1 .. parts[run + 1] /\ parts[run + 1] \in 1 .. Len(Corpus)
  BY <1>1, PlacesOfNextRun DEF CheckInv
<1>3. run \in 1 .. Len(parts) /\ FirstOf(run + 1) = parts[run] + 1 /\ parts[run] \in Nat
  BY <1>1, PlacesOfRun, CutsAre, SourcesAre DEF CheckInv
<1>4. next' = Begins' /\ next' \in Nat
  BY <1>1, <1>2, <1>3
<1>5. CheckTypes'
  <2>1. printed' = [s \in Sides |-> [f \in Files |-> printed'[s][f]]]
    BY <1>1
  <2> QED  BY <1>1, <1>2, <1>4, <2>1 DEF CheckInv, CheckTypes, IsCut, CutsGrow
<1>6. InRun'
  <2> SUFFICES ASSUME run' <= Len(parts)
               PROVE  /\ next' \in Begins' .. parts[run + 1] + 1
                      /\ Dumping("theirs")' /\ Untouched("ours")'
    BY <1>1 DEF InRun
  <2>1. /\ Listed' = Begins' .. parts[run + 1]
        /\ Begins' \in 1 .. parts[run + 1] /\ parts[run + 1] \in 1 .. Len(Corpus)
    BY <1>2
  <2>2. Len(Corpus) \in Nat
    BY SourcesAre
  <2>3. next' \in Begins' .. parts[run + 1] + 1
    BY <1>4, <2>1, <2>2
  <2>4. \A k \in Listed' : Corpus[k] \in Files /\ ~(k < next')
    <3>1. \A k \in Listed' : k \in 1 .. Len(Corpus)
      BY <2>1, <2>2
    <3>2. \A k \in Listed' : ~(k < next')
      BY <1>4, <2>1, <2>2
    <3> QED  BY <3>1, <3>2, SourcesAre
  <2>5. \A s \in Sides, k \in Listed' : Printed(s, k)' = Absent
    BY <1>1, <2>4 DEF Printed
  <2> QED  BY <2>3, <2>4, <2>5 DEF Dumping, Untouched, Sides
<1>7. DumpDone("theirs") /\ DumpDone("ours")
  BY <1>1 DEF CheckInv, InRun
<1>8. /\ \A f : Same(f)' <=> Same(f)
      /\ \A f : DiedLast(f)' <=> DiedLast(f)
  BY <1>1 DEF Same, DiedLast
<1>9. AgreeingIsSeen'
  <2> SUFFICES ASSUME differ' = {}
               PROVE  \A k \in 1 .. Begins' - 1 : Same(Corpus[k]) \/ DiedLast(Corpus[k])
    BY <1>8 DEF AgreeingIsSeen
  <2>1. differ = {} /\ \A k \in Listed : Found(k) = {}
    BY <1>1
  <2>2. \A k \in Listed : Same(Corpus[k]) \/ DiedLast(Corpus[k])
    BY <1>1, <1>7, <2>1, UnfoundIsSame
  <2>3. \A k \in 1 .. Begins - 1 : Same(Corpus[k]) \/ DiedLast(Corpus[k])
    BY <2>1 DEF CheckInv, AgreeingIsSeen
  <2> QED  BY <1>2, <2>2, <2>3
<1>10. DifferingIsSeen'
  <2> DEFINE Apart(S) == {Corpus[k] : k \in {l \in S : ~Same(Corpus[l])}}
  <2> SUFFICES ASSUME died = {}
               PROVE  {d[1] : d \in differ'} = Apart(1 .. Begins' - 1)
    BY <1>1, <1>8 DEF DifferingIsSeen
  <2>1. {d[1] : d \in differ} = Apart(1 .. Begins - 1)
    BY DEF CheckInv, DifferingIsSeen
  <2>2. \A k \in Listed : Found(k) = {} <=> Same(Corpus[k])
    BY <1>1, <1>7, FoundIfDiffers
  <2>3. \A k : \A d \in Found(k) : d[1] = Corpus[k]
    BY DifferenceIs DEF Found
  <2>4. {d[1] : d \in D} = Apart(Listed)
    <3>1. \A d \in D : d[1] \in Apart(Listed)
      <4> TAKE d \in D
      <4>1. PICK k \in Listed : d \in Found(k)
        OBVIOUS
      <4> QED  BY <2>2, <2>3, <4>1
    <3>2. \A f \in Apart(Listed) : \E d \in D : d[1] = f
      <4> TAKE f \in Apart(Listed)
      <4>1. PICK k \in Listed : f = Corpus[k] /\ ~Same(Corpus[k])
        OBVIOUS
      <4>2. PICK d : d \in Found(k)
        BY <2>2, <4>1
      <4>3. d \in D /\ d[1] = f
        BY <2>3, <4>1, <4>2
      <4> QED  BY <4>3
    <3> HIDE DEF D, Apart
    <3> QED  BY <3>1, <3>2
  <2>5. {d[1] : d \in differ'} = {d[1] : d \in differ} \cup {d[1] : d \in D}
    <3> HIDE DEF D
    <3> QED  BY <1>1
  <2>6. Apart(1 .. Begins' - 1) = Apart(1 .. Begins - 1) \cup Apart(Listed)
    <3>1. \A S, T : Apart(S \cup T) = Apart(S) \cup Apart(T)
      OBVIOUS
    <3> HIDE DEF Apart
    <3> QED  BY <1>2, <3>1
  <2> HIDE DEF D, Apart
  <2> QED  BY <2>1, <2>4, <2>5, <2>6
<1> QED  BY <1>5, <1>6, <1>9, <1>10 DEF CheckInv

LEMMA CheckStays ==
  ASSUME CheckInv, UNCHANGED checkVars
  PROVE  CheckInv'
<1>1. SameRun /\ UNCHANGED <<step, next, printed, died>>
  BY DEF checkVars, listing, SameRun
<1>2. AgreeingIsSeen' /\ DifferingIsSeen'
  BY <1>1, PastStays DEF CheckInv
<1>3. CheckTypes'
  BY <1>1 DEF CheckInv, CheckTypes, SameRun, IsCut, CutsGrow
<1>4. /\ Listed' = Listed /\ Begins' = Begins /\ parts'[run'] = parts[run]
      /\ \A s, k : Full(s, k)' = Full(s, k)
  BY <1>1, RunStays
<1>5. \A s, k : Printed(s, k)' = Printed(s, k)
  BY <1>1 DEF Printed
<1>6. \A s : /\ Dumping(s) => Dumping(s)'
             /\ Untouched(s) => Untouched(s)'
             /\ DumpDone(s) => DumpDone(s)'
  BY <1>1, <1>4, <1>5 DEF Dumping, Untouched, DumpDone, DumpDoneAt
<1>7. InRun'
  BY <1>1, <1>4, <1>6 DEF CheckInv, InRun, SameRun
<1> QED  BY <1>2, <1>3, <1>7 DEF CheckInv

LEMMA CheckSteps == CheckInv /\ [CheckNext]_checkVars => CheckInv'
<1> SUFFICES ASSUME CheckInv, [CheckNext]_checkVars
             PROVE  CheckInv'
  OBVIOUS
<1>1. CASE UNCHANGED checkVars
  BY <1>1, CheckStays
<1>2. ASSUME NEW s \in Sides, Dump(s) \/ DumpDies(s) \/ Dumped(s)
      PROVE  CheckInv'
  BY <1>2, DumpStep, DumpDiesStep, DumpedStep
<1>3. CASE Compare
  BY <1>3, CompareStep
<1> QED  BY <1>1, <1>2, <1>3 DEF CheckNext, Sides

LEMMA SeenInTheEnd == CheckInv => AgreementIsSeen
<1> SUFFICES ASSUME CheckInv, run > Len(parts)
             PROVE  /\ differ = {} => \A f \in Files : Same(f) \/ DiedLast(f)
                    /\ died = {} => {d[1] : d \in differ} = {f \in Files : ~Same(f)}
  BY DEF AgreementIsSeen, AgreementIsSeen, Compared
<1>1. /\ Len(parts) \in Nat /\ run = Len(parts) + 1
      /\ Len(parts) \in 1 .. Len(parts) /\ parts[Len(parts)] = Len(Corpus)
  <2>1. Len(parts) \in Nat /\ Len(parts) > 0 /\ parts[Len(parts)] = Len(Corpus)
    BY CutsAre DEF CheckInv
  <2>2. run \in 1 .. Len(parts) + 1
    BY DEF CheckInv, CheckTypes
  <2> QED  BY <2>1, <2>2
<1>2. Begins = Len(Corpus) + 1
  BY <1>1, CutsAre DEF CheckInv, Begins
<1>3. 1 .. Begins - 1 = DOMAIN Corpus
  BY <1>2, SourcesAre
<1>4. Files = {Corpus[k] : k \in 1 .. Begins - 1}
  BY <1>3 DEF Files
<1>5. ASSUME differ = {}
      PROVE  \A f \in Files : Same(f) \/ DiedLast(f)
  BY <1>4, <1>5 DEF CheckInv, AgreeingIsSeen
<1>6. ASSUME died = {}
      PROVE  {d[1] : d \in differ} = {f \in Files : ~Same(f)}
  <2>1. {d[1] : d \in differ} = {Corpus[k] : k \in {l \in 1 .. Begins - 1 : ~Same(Corpus[l])}}
    BY <1>6 DEF CheckInv, DifferingIsSeen
  <2> QED  BY <1>4, <2>1
<1> QED  BY <1>5, <1>6

(***************************************************************************)
(* Whatever xargs cuts the list into and wherever a dumper dies, check.py  *)
(* reports no difference only if the lexers agree, but for the last source *)
(* of a run that a dumper died at; and while neither dies what it reports  *)
(* is what differs.                                                        *)
(***************************************************************************)
THEOREM DifferencesAreSeen == CheckSpec => []AgreementIsSeen
BY CheckStarts, CheckSteps, SeenInTheEnd, PTL DEF CheckSpec
===============================================================================
