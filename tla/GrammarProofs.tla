----------------------------- MODULE GrammarProofs -----------------------------
(***************************************************************************)
(* What the grammar guard establishes, and that it bounds the recursion of *)
(* the parser, for any finite set of rules, any grammar and any limit.     *)
(***************************************************************************)
EXTENDS GrammarDescent, SequenceTheorems, FiniteSetTheorems, TLAPS

Visit == [rule : Rules, todo : SUBSET Rules]
Call_ == [rule : Rules, depth : Nat]

Edges == Remaining(grammar)
Black == {r \in Rules : colour[r] = "black"}

\* The path is a path: grey rules, each once, each called by the one below.
PathIsGrey ==
  /\ \A i \in 1..Len(path) :
       /\ colour[path[i].rule] = "grey"
       /\ path[i].rule \in Unguarded(grammar)
       /\ path[i].todo \subseteq Edges[path[i].rule]
  /\ \A i, j \in 1..Len(path) : i # j => path[i].rule # path[j].rule
  /\ \A i \in 1..(Len(path) - 1) : path[i + 1].rule \in Edges[path[i].rule]

\* What has been looked at is black, or is being visited from here.
LookedIsBlack ==
  \A i \in 1..Len(path) : \A c \in Edges[path[i].rule] \ path[i].todo :
    colour[c] = "black" \/ (i < Len(path) /\ c = path[i + 1].rule)

GreyIsOnPath ==
  \A r \in Rules : colour[r] = "grey" => \E i \in 1..Len(path) : path[i].rule = r

\* Nothing black leads out of the black, and nothing goes round in it.
BlackIsDone ==
  /\ \A r \in Black : Edges[r] \subseteq Black
  /\ \A S \in SUBSET Black : ~Cyclic(S, Edges)

GuardInv ==
  /\ GuardTypeOK
  /\ PathIsGrey
  /\ LookedIsBlack
  /\ GreyIsOnPath
  /\ BlackIsDone
  /\ verdict = "clean" => Unguarded(grammar) \subseteq Black
  /\ ReportedIsCycle

------------------------------------------------------------------------------
LEMMA GrammarType ==
  ASSUME GuardTypeOK
  PROVE  /\ grammar.plain \in [Rules -> SUBSET Rules]
         /\ grammar.covered \in [Rules -> SUBSET Rules]
         /\ grammar.guarded \in SUBSET Rules
         /\ Edges \in [Rules -> SUBSET Rules]
         /\ \A r \in Rules : Edges[r] \subseteq Unguarded(grammar)
         /\ \A r \in Rules : Edges[r] # {} => r \in Unguarded(grammar)
<1>1. /\ grammar.plain \in [Rules -> SUBSET Rules]
      /\ grammar.covered \in [Rules -> SUBSET Rules]
      /\ grammar.guarded \in SUBSET Rules
  BY GrammarsAreWellFormed DEF GuardTypeOK
<1> QED  BY <1>1 DEF Edges, Remaining, Unguarded

\* The sequences the two stacks become.
LEMMA PoppedIs ==
  ASSUME NEW F, NEW s \in Seq(F), s # <<>>
  PROVE  /\ Popped(s) \in Seq(F)
         /\ Len(Popped(s)) = Len(s) - 1
         /\ \A i \in 1..(Len(s) - 1) : Popped(s)[i] = s[i]
         /\ Len(s) \in Nat \ {0}
         /\ OnTop(s) = s[Len(s)] /\ OnTop(s) \in F
<1>1. Len(s) \in Nat \ {0} /\ \A i \in 1..Len(s) : s[i] \in F
  OBVIOUS
<1>2. 1 \in Int /\ Len(s) - 1 \in Int /\ \A i \in 1..(Len(s) - 1) : s[i] \in F
  BY <1>1
<1> DEFINE m == Len(s) - 1
<1> HIDE DEF m
<1>3. /\ SubSeq(s, 1, m) \in Seq(F) /\ Len(SubSeq(s, 1, m)) = IF 1 =< m THEN m - 1 + 1 ELSE 0
      /\ \A i \in 1..(m - 1 + 1) : SubSeq(s, 1, m)[i] = s[1 + i - 1]
  BY <1>2, SubSeqProperties DEF m
<1>5. Popped(s) \in Seq(F) /\ Len(Popped(s)) = Len(s) - 1
  <2>1. Popped(s) = SubSeq(s, 1, m) /\ m = Len(s) - 1 /\ m \in Nat
    BY <1>1 DEF Popped, m
  <2>2. Len(Popped(s)) = IF 1 =< m THEN m - 1 + 1 ELSE 0
    BY <1>3, <2>1, Zenon
  <2> QED  BY <1>3, <2>1, <2>2
<1>4. ASSUME NEW i \in 1..(Len(s) - 1) PROVE Popped(s)[i] = s[i]
  <2>1. i \in 1..(m - 1 + 1) /\ 1 + i - 1 = i
    BY <1>1 DEF m
  <2>2. SubSeq(s, 1, m)[i] = s[1 + i - 1]
    BY <1>3, <2>1
  <2> QED  BY <2>1, <2>2 DEF Popped, m
<1> QED  BY <1>1, <1>4, <1>5 DEF OnTop

LEMMA AppendIs ==
  ASSUME NEW F, NEW s \in Seq(F), NEW e \in F
  PROVE  /\ Append(s, e) \in Seq(F)
         /\ Len(Append(s, e)) = Len(s) + 1
         /\ \A i \in 1..Len(s) : Append(s, e)[i] = s[i]
         /\ Append(s, e)[Len(s) + 1] = e
         /\ Len(s) \in Nat
  OBVIOUS

LEMMA LookedIs ==
  ASSUME path \in Seq(Visit), path # <<>>, NEW c
  PROVE  /\ Looked(c) \in Seq(Visit)
         /\ Len(Looked(c)) = Len(path)
         /\ \A i \in 1..(Len(path) - 1) : Looked(c)[i] = path[i]
         /\ \A i \in 1..Len(path) : Looked(c)[i].rule = path[i].rule
         /\ Looked(c)[Len(path)].todo = path[Len(path)].todo \ {c}
         /\ \A i \in 1..Len(path) : Looked(c)[i].todo \subseteq path[i].todo
<1> DEFINE e == [path[Len(path)] EXCEPT !.todo = @ \ {c}]
<1>1. Len(path) \in Nat \ {0} /\ path[Len(path)] \in Visit /\ Len(path) \in 1..Len(path)
  OBVIOUS
<1>2. e \in Visit /\ e.rule = path[Len(path)].rule /\ e.todo = path[Len(path)].todo \ {c}
  BY <1>1 DEF Visit
<1>3. Looked(c) = [path EXCEPT ![Len(path)] = e]
  BY DEF Looked
<1> HIDE DEF e
<1>4. /\ Looked(c) \in Seq(Visit) /\ Len(Looked(c)) = Len(path)
      /\ \A i \in 1..Len(path) : Looked(c)[i] = IF i = Len(path) THEN e ELSE path[i]
  BY <1>1, <1>2, <1>3, ExceptSeq
<1>5. \A i \in 1..(Len(path) - 1) : i \in 1..Len(path) /\ Looked(c)[i] = path[i]
  BY <1>1, <1>4
<1>6. ASSUME NEW i \in 1..Len(path)
      PROVE  /\ Looked(c)[i].rule = path[i].rule
             /\ Looked(c)[i].todo \subseteq path[i].todo
  BY <1>2, <1>4
<1>7. Looked(c)[Len(path)].todo = path[Len(path)].todo \ {c}
  BY <1>1, <1>2, <1>4
<1> QED  BY <1>4, <1>5, <1>6, <1>7

(***************************************************************************)
(* A rule all of whose callees are black may become black: what goes round *)
(* in the black with it would go round in the black without it.            *)
(***************************************************************************)
LEMMA OneMoreBlack ==
  ASSUME GuardTypeOK, BlackIsDone, NEW r \in Rules, r \notin Black, Edges[r] \subseteq Black
  PROVE  /\ \A q \in Black \cup {r} : Edges[q] \subseteq Black \cup {r}
         /\ \A S \in SUBSET (Black \cup {r}) : ~Cyclic(S, Edges)
<1>1. \A q \in Black \cup {r} : Edges[q] \subseteq Black
  BY DEF BlackIsDone
<1>2. ASSUME NEW S \in SUBSET (Black \cup {r}), Cyclic(S, Edges)
      PROVE  FALSE
  <2>1. Cyclic(S \ {r}, Edges)
    BY <1>1, <1>2 DEF Cyclic
  <2>2. S \ {r} \in SUBSET Black
    OBVIOUS
  <2> QED  BY <2>1, <2>2 DEF BlackIsDone
<1> QED  BY <1>1, <1>2

------------------------------------------------------------------------------
LEMMA GuardStart == GuardInit => GuardInv
<1> SUFFICES ASSUME GuardInit PROVE GuardInv
  OBVIOUS
<1>1. GuardTypeOK
  BY DEF GuardInit, GuardTypeOK
<1>2. Len(path) = 0 /\ Black = {}
  BY DEF GuardInit, Black
<1>3. PathIsGrey /\ LookedIsBlack /\ GreyIsOnPath
  BY <1>2 DEF GuardInit, PathIsGrey, LookedIsBlack, GreyIsOnPath
<1>4. BlackIsDone
  BY <1>2 DEF BlackIsDone, Cyclic
<1> QED  BY <1>1, <1>3, <1>4 DEF GuardInit, GuardInv, ReportedIsCycle

LEMMA RootStep ==
  ASSUME GuardInv, NEW r \in Rules, Root(r)
  PROVE  GuardInv'
<1> USE DEF GuardInv
<1>0. /\ grammar' = grammar /\ verdict' = verdict /\ cycle' = cycle /\ verdict = "walking"
      /\ colour' = [colour EXCEPT ![r] = "grey"] /\ colour[r] = "white"
      /\ path = <<>> /\ path' = <<Visiting(r)>> /\ r \in Unguarded(grammar)
  BY DEF Root
<1>1. Edges' = Edges /\ Edges \in [Rules -> SUBSET Rules]
  BY <1>0, GrammarType DEF Edges
<1>2. Visiting(r) \in Visit /\ Visiting(r).rule = r /\ Visiting(r).todo = Edges[r]
  BY <1>1 DEF Visiting, Visit, Children, Edges
<1>3. Len(path') = 1 /\ path'[1] = Visiting(r) /\ path' \in Seq(Visit)
  BY <1>0, <1>2
<1>4. GuardTypeOK'
  BY <1>0, <1>3 DEF GuardTypeOK, Visit
<1>5. Black' = Black
  BY <1>0 DEF Black, GuardTypeOK
<1>6. colour'[r] = "grey"
  BY <1>0 DEF GuardTypeOK
<1>7. PathIsGrey'
  BY <1>0, <1>1, <1>2, <1>3, <1>6 DEF PathIsGrey
<1>8. LookedIsBlack'
  BY <1>1, <1>2, <1>3 DEF LookedIsBlack
<1>9. GreyIsOnPath'
  <2>1. \A q \in Rules \ {r} : colour'[q] = colour[q] /\ colour[q] # "grey"
    BY <1>0 DEF GreyIsOnPath, GuardTypeOK
  <2> QED  BY <1>2, <1>3, <2>1 DEF GreyIsOnPath
<1>10. BlackIsDone'
  BY <1>1, <1>5 DEF BlackIsDone
<1> QED  BY <1>0, <1>4, <1>7, <1>8, <1>9, <1>10 DEF ReportedIsCycle

LEMMA ReportStep ==
  ASSUME GuardInv, NEW c \in Rules, Report(c)
  PROVE  GuardInv'
<1> USE DEF GuardInv
<1>0. /\ grammar' = grammar /\ verdict' = "cyclic" /\ colour' = colour /\ path' = path
      /\ path # <<>> /\ c \in OnTop(path).todo
  BY DEF Report, InTurn
<1>1. PICK i \in 1..Len(path) : path[i].rule = c /\ cycle' = PathFrom(i)
  BY DEF Report
<1>2. Edges' = Edges /\ Black' = Black
  BY <1>0 DEF Edges, Black
<1>3. path \in Seq(Visit) /\ Len(path) \in Nat \ {0} /\ i \in Nat
  BY <1>0 DEF GuardTypeOK, Visit
<1> DEFINE n == Len(path) - i + 1
<1>4. n \in Nat \ {0} /\ cycle' \in [1..n -> Rules] /\ Len(cycle') = n /\ cycle' \in Seq(Rules)
  <2>1. n \in Nat \ {0}
    BY <1>3
  <2>2. \A j \in 1..n : i + j - 1 \in 1..Len(path)
    BY <1>3
  <2>3. \A k \in 1..Len(path) : path[k] \in Visit /\ path[k].rule \in Rules
    <3>1. \A k \in 1..Len(path) : path[k] \in Visit
      BY <1>3
    <3> QED  BY <3>1 DEF Visit
  <2>4. cycle' \in [1..n -> Rules]
    BY <1>1, <2>2, <2>3 DEF PathFrom
  <2> QED  BY <2>1, <2>4
<1>5. GuardTypeOK'
  BY <1>0, <1>4 DEF GuardTypeOK
<1>6. \A j \in 1..n : cycle'[j] = path[i + j - 1].rule
  BY <1>1 DEF PathFrom
<1>7. ASSUME NEW j \in 1..n
      PROVE  cycle'[IF j = n THEN 1 ELSE j + 1] \in Edges[cycle'[j]]
  <2>1. CASE j = n
    <3>1. i + j - 1 = Len(path) /\ i + 1 - 1 = i
      BY <1>3, <2>1
    <3>2. cycle'[1] = c /\ cycle'[j] = path[Len(path)].rule
      BY <1>1, <1>4, <1>6, <3>1
    <3>3. c \in Edges[path[Len(path)].rule]
      BY <1>0, <1>3 DEF PathIsGrey, OnTop
    <3> QED  BY <2>1, <3>2, <3>3
  <2>2. CASE j # n
    <3>1. j + 1 \in 1..n /\ i + j - 1 \in 1..(Len(path) - 1) /\ i + (j + 1) - 1 = (i + j - 1) + 1
      BY <1>3, <1>4, <2>2
    <3>2. cycle'[j + 1] = path[(i + j - 1) + 1].rule /\ cycle'[j] = path[i + j - 1].rule
      BY <1>6, <3>1
    <3> QED  BY <2>2, <3>1, <3>2 DEF PathIsGrey
  <2> QED  BY <2>1, <2>2
<1>8. ReportedIsCycle'
  <2>1. DOMAIN cycle' = 1..n /\ cycle' # <<>>
    BY <1>4
  <2>2. Edges = Remaining(grammar')
    BY <1>0 DEF Edges
  <2> QED  BY <1>4, <1>7, <2>1, <2>2 DEF ReportedIsCycle
<1>9. PathIsGrey' /\ LookedIsBlack' /\ GreyIsOnPath' /\ BlackIsDone'
  BY <1>0, <1>2 DEF PathIsGrey, LookedIsBlack, GreyIsOnPath, BlackIsDone
<1> QED  BY <1>0, <1>5, <1>8, <1>9

\* What the three steps that follow a child, or leave, have in common.
LEMMA OnPath ==
  ASSUME GuardInv, path # <<>>
  PROVE  /\ path \in Seq(Visit) /\ Len(path) \in Nat \ {0}
         /\ \A i \in 1..Len(path) : path[i].rule \in Rules /\ path[i].todo \in SUBSET Rules
         /\ OnTop(path) = path[Len(path)]
         /\ Edges \in [Rules -> SUBSET Rules]
<1>1. path \in Seq(Visit) /\ GuardTypeOK
  BY DEF GuardInv, GuardTypeOK, Visit
<1>2. Len(path) \in Nat \ {0} /\ \A i \in 1..Len(path) : path[i] \in Visit
  BY <1>1
<1> QED  BY <1>1, <1>2, GrammarType DEF Visit, OnTop

LEMMA DescendStep ==
  ASSUME GuardInv, NEW c \in Rules, Descend(c)
  PROVE  GuardInv'
<1> DEFINE n == Len(path)
           q == Looked(c)
<1>0. /\ grammar' = grammar /\ verdict' = verdict /\ cycle' = cycle /\ verdict = "walking"
      /\ path # <<>> /\ c \in OnTop(path).todo /\ colour[c] = "white"
      /\ colour' = [colour EXCEPT ![c] = "grey"]
      /\ path' = Append(q, Visiting(c))
  BY DEF Descend, InTurn
<1>1. /\ path \in Seq(Visit) /\ n \in Nat \ {0} /\ n \in 1..n
      /\ \A i \in 1..n : path[i].rule \in Rules /\ path[i].todo \in SUBSET Rules
      /\ c \in path[n].todo
      /\ Edges \in [Rules -> SUBSET Rules]
      /\ Edges' = Edges
  BY <1>0, OnPath DEF Edges
<1>2. /\ q \in Seq(Visit) /\ Len(q) = n
      /\ \A i \in 1..n : q[i].rule = path[i].rule
      /\ \A i \in 1..n : q[i].todo \subseteq path[i].todo
      /\ \A i \in 1..(n - 1) : q[i] = path[i]
      /\ q[n].todo = path[n].todo \ {c}
  BY <1>0, <1>1, LookedIs
<1>3. Visiting(c) \in Visit /\ Visiting(c).rule = c /\ Visiting(c).todo = Edges[c]
  BY <1>1 DEF Visiting, Visit, Children, Edges
<1> HIDE DEF q
<1>4. /\ path' \in Seq(Visit) /\ Len(path') = n + 1
      /\ \A i \in 1..n : path'[i] = q[i]
      /\ path'[n + 1] = Visiting(c)
  BY <1>0, <1>2, <1>3, AppendIs
<1> DEFINE R(i) == path[i].rule
<1>5. /\ \A i \in 1..n : path'[i].rule = R(i) /\ path'[i].todo \subseteq path[i].todo
      /\ path'[n + 1].rule = c /\ path'[n + 1].todo = Edges[c]
      /\ \A i \in 1..(n - 1) : path'[i].todo = path[i].todo
      /\ path'[n].todo = path[n].todo \ {c}
  BY <1>1, <1>2, <1>3, <1>4
<1>6. colour \in [Rules -> {"white", "grey", "black"}]
  BY DEF GuardInv, GuardTypeOK
<1>7. /\ colour'[c] = "grey"
      /\ \A r \in Rules \ {c} : colour'[r] = colour[r]
  BY <1>0, <1>6
<1>8. /\ \A i \in 1..n : colour[R(i)] = "grey" /\ R(i) \in Unguarded(grammar)
      /\ \A i \in 1..n : path[i].todo \subseteq Edges[R(i)]
      /\ \A i, j \in 1..n : i # j => R(i) # R(j)
      /\ \A i \in 1..(n - 1) : R(i + 1) \in Edges[R(i)]
      /\ c \in Edges[R(n)]
  BY <1>1 DEF GuardInv, PathIsGrey
<1>9. c \in Unguarded(grammar) /\ \A i \in 1..n : R(i) # c
  BY <1>0, <1>1, <1>8, GrammarType DEF GuardInv
<1>10. GuardTypeOK'
  BY <1>0, <1>4, <1>6 DEF GuardTypeOK, GuardInv, Visit
<1>11. Black' = Black
  BY <1>0, <1>7 DEF Black
<1>12. PathIsGrey'
  <2>1. ASSUME NEW i \in 1..(n + 1)
        PROVE  /\ colour'[path'[i].rule] = "grey"
               /\ path'[i].rule \in Unguarded(grammar')
               /\ path'[i].todo \subseteq Edges'[path'[i].rule]
    <3>1. CASE i = n + 1
      BY <1>0, <1>1, <1>5, <1>7, <1>9, <3>1
    <3>2. CASE i # n + 1
      <4>1. i \in 1..n
        BY <1>1, <3>2
      <4>2. path'[i].rule = R(i) /\ R(i) \in Rules \ {c}
        BY <1>1, <1>5, <1>9, <4>1
      <4>3. colour'[R(i)] = "grey"
        BY <1>7, <1>8, <4>1, <4>2
      <4>4. path'[i].todo \subseteq Edges[R(i)]
        BY <1>5, <1>8, <4>1
      <4> QED  BY <1>0, <1>1, <1>8, <4>1, <4>2, <4>3, <4>4
    <3> QED  BY <3>1, <3>2
  <2>2. ASSUME NEW i \in 1..(n + 1), NEW j \in 1..(n + 1), i # j
        PROVE  path'[i].rule # path'[j].rule
    <3>1. (i \in 1..n \/ i = n + 1) /\ (j \in 1..n \/ j = n + 1)
      BY <1>1
    <3> QED  BY <1>5, <1>8, <1>9, <2>2, <3>1
  <2>3. ASSUME NEW i \in 1..((n + 1) - 1)
        PROVE  path'[i + 1].rule \in Edges'[path'[i].rule]
    <3>1. CASE i = n
      BY <1>1, <1>5, <1>8, <3>1
    <3>2. CASE i # n
      <4>1. i \in 1..(n - 1) /\ i \in 1..n /\ i + 1 \in 1..n
        BY <1>1, <3>2
      <4> QED  BY <1>1, <1>5, <1>8, <4>1
    <3> QED  BY <3>1, <3>2
  <2> QED  BY <1>4, <2>1, <2>2, <2>3 DEF PathIsGrey
<1>13. LookedIsBlack'
  <2>1. ASSUME NEW i \in 1..(n + 1), NEW d \in Edges'[path'[i].rule] \ path'[i].todo
        PROVE  colour'[d] = "black" \/ (i < n + 1 /\ d = path'[i + 1].rule)
    <3>1. i # n + 1 /\ i \in 1..n
      BY <1>1, <1>5
    <3>2. CASE d = c /\ i = n
      BY <1>1, <1>5, <3>2
    <3>3. CASE ~(d = c /\ i = n)
      <4>1. d \in Edges[R(i)] \ path[i].todo
        <5>1. CASE i = n
          BY <1>1, <1>5, <3>1, <3>3, <5>1
        <5>2. CASE i # n
          <6>1. i \in 1..(n - 1)
            BY <1>1, <3>1, <5>2
          <6> QED  BY <1>1, <1>5, <3>1, <6>1
        <5> QED  BY <5>1, <5>2
      <4>2. colour[d] = "black" \/ (i < n /\ d = R(i + 1))
        BY <3>1, <4>1 DEF GuardInv, LookedIsBlack
      <4>3. d \in Rules
        BY <1>1, <3>1, <4>1
      <4>4. CASE colour[d] = "black"
        BY <1>0, <1>7, <4>3, <4>4
      <4>5. CASE i < n /\ d = R(i + 1)
        <5>1. i + 1 \in 1..n /\ i < n + 1
          BY <1>1, <3>1, <4>5
        <5> QED  BY <1>5, <4>5, <5>1
      <4> QED  BY <4>2, <4>4, <4>5
    <3> QED  BY <3>2, <3>3
  <2> QED  BY <1>4, <2>1 DEF LookedIsBlack
<1>14. GreyIsOnPath'
  <2>1. ASSUME NEW r \in Rules, colour'[r] = "grey"
        PROVE  \E i \in 1..(n + 1) : path'[i].rule = r
    <3>1. CASE r = c
      BY <1>1, <1>5, <3>1
    <3>2. CASE r # c
      <4>1. PICK i \in 1..n : R(i) = r
        BY <1>7, <2>1, <3>2 DEF GuardInv, GreyIsOnPath
      <4>2. i \in 1..(n + 1)
        BY <1>1
      <4> QED  BY <1>5, <4>1, <4>2
    <3> QED  BY <3>1, <3>2
  <2> QED  BY <1>4, <2>1 DEF GreyIsOnPath
<1>15. BlackIsDone'
  BY <1>1, <1>11 DEF GuardInv, BlackIsDone
<1>16. ReportedIsCycle'
  BY <1>0 DEF ReportedIsCycle
<1> QED  BY <1>0, <1>10, <1>12, <1>13, <1>14, <1>15, <1>16 DEF GuardInv

LEMMA PassByStep ==
  ASSUME GuardInv, NEW c \in Rules, PassBy(c)
  PROVE  GuardInv'
<1> DEFINE n == Len(path)
<1>0. /\ grammar' = grammar /\ verdict' = verdict /\ cycle' = cycle /\ verdict = "walking"
      /\ path # <<>> /\ c \in OnTop(path).todo /\ colour[c] = "black"
      /\ colour' = colour
      /\ path' = Looked(c)
  BY DEF PassBy, InTurn
<1>1. /\ path \in Seq(Visit) /\ n \in Nat \ {0} /\ n \in 1..n
      /\ Edges' = Edges /\ Black' = Black
  BY <1>0, OnPath DEF Edges, Black
<1>2. /\ path' \in Seq(Visit) /\ Len(path') = n
      /\ \A i \in 1..n : path'[i].rule = path[i].rule
      /\ \A i \in 1..n : path'[i].todo \subseteq path[i].todo
      /\ \A i \in 1..(n - 1) : path'[i] = path[i]
      /\ path'[n].todo = path[n].todo \ {c}
  BY <1>0, <1>1, LookedIs
<1>3. GuardTypeOK'
  BY <1>0, <1>2 DEF GuardTypeOK, GuardInv, Visit
<1>4. PathIsGrey'
  <2>1. \A i \in 1..(n - 1) : i \in 1..n /\ i + 1 \in 1..n
    BY <1>1
  <2>2. \A i \in 1..n : /\ colour[path[i].rule] = "grey"
                        /\ path[i].rule \in Unguarded(grammar)
                        /\ path[i].todo \subseteq Edges[path[i].rule]
    BY DEF PathIsGrey, GuardInv
  <2>3. \A i, j \in 1..n : i # j => path'[i].rule # path'[j].rule
    BY <1>2 DEF PathIsGrey, GuardInv
  <2>4. \A i \in 1..(n - 1) : path'[i + 1].rule \in Edges[path'[i].rule]
    BY <1>2, <2>1 DEF PathIsGrey, GuardInv
  <2>5. \A i \in 1..n : path'[i].todo \subseteq Edges[path'[i].rule]
    BY <1>2, <2>2
  <2>6. \A i \in 1..n : /\ colour'[path'[i].rule] = "grey"
                        /\ path'[i].rule \in Unguarded(grammar')
    BY <1>0, <1>2, <2>2
  <2> QED  BY <1>1, <1>2, <2>3, <2>4, <2>5, <2>6 DEF PathIsGrey
<1>5. LookedIsBlack'
  <2>1. ASSUME NEW i \in 1..n, NEW d \in Edges[path[i].rule] \ path'[i].todo
        PROVE  colour[d] = "black" \/ (i < n /\ d = path'[i + 1].rule)
    <3>1. CASE d = c
      BY <1>0, <3>1
    <3>2. CASE d # c
      <4>1. d \in Edges[path[i].rule] \ path[i].todo
        <5>1. CASE i = n
          BY <1>1, <1>2, <2>1, <3>2, <5>1
        <5>2. CASE i # n
          <6>1. i \in 1..(n - 1)
            BY <1>1, <5>2
          <6> QED  BY <1>2, <2>1, <6>1
        <5> QED  BY <5>1, <5>2
      <4>2. colour[d] = "black" \/ (i < n /\ d = path[i + 1].rule)
        BY <4>1 DEF GuardInv, LookedIsBlack
      <4>3. i < n => i + 1 \in 1..n
        BY <1>1
      <4> QED  BY <1>2, <4>2, <4>3
    <3> QED  BY <3>1, <3>2
  <2> QED  BY <1>0, <1>1, <1>2, <2>1 DEF LookedIsBlack
<1>6. GreyIsOnPath'
  BY <1>0, <1>2 DEF GreyIsOnPath, GuardInv
<1>7. BlackIsDone' /\ ReportedIsCycle'
  BY <1>0, <1>1 DEF BlackIsDone, ReportedIsCycle, GuardInv
<1> QED  BY <1>0, <1>3, <1>4, <1>5, <1>6, <1>7 DEF GuardInv

LEMMA LeaveStep ==
  ASSUME GuardInv, Leave
  PROVE  GuardInv'
<1> DEFINE n == Len(path)
           r == path[n].rule
<1>0. /\ grammar' = grammar /\ verdict' = verdict /\ cycle' = cycle /\ verdict = "walking"
      /\ path # <<>> /\ OnTop(path).todo = {}
      /\ colour' = [colour EXCEPT ![OnTop(path).rule] = "black"]
      /\ path' = Popped(path)
  BY DEF Leave
<1>1. /\ path \in Seq(Visit) /\ n \in Nat \ {0} /\ n \in 1..n
      /\ \A i \in 1..n : path[i].rule \in Rules /\ path[i].todo \in SUBSET Rules
      /\ OnTop(path) = path[n]
      /\ Edges' = Edges /\ Edges \in [Rules -> SUBSET Rules]
  BY <1>0, OnPath DEF Edges
<1>2. r \in Rules /\ path[n].todo = {} /\ colour' = [colour EXCEPT ![r] = "black"]
  BY <1>0, <1>1
<1>3. /\ path' \in Seq(Visit) /\ Len(path') = n - 1
      /\ \A i \in 1..(n - 1) : path'[i] = path[i]
  BY <1>0, <1>1, PoppedIs
<1>4. colour \in [Rules -> {"white", "grey", "black"}]
  BY DEF GuardInv, GuardTypeOK
<1>5. colour'[r] = "black" /\ \A q \in Rules \ {r} : colour'[q] = colour[q]
  BY <1>2, <1>4
<1>6. GuardTypeOK'
  BY <1>0, <1>2, <1>3, <1>4 DEF GuardTypeOK, GuardInv, Visit
<1>7. /\ colour[r] = "grey"
      /\ \A i \in 1..(n - 1) : path[i].rule # r /\ i \in 1..n /\ i + 1 \in 1..n
  <2>1. \A i \in 1..(n - 1) : i # n /\ i \in 1..n /\ i + 1 \in 1..n
    BY <1>1
  <2> QED  BY <1>1, <2>1 DEF PathIsGrey, GuardInv
<1>8. Black' = Black \cup {r} /\ r \notin Black
  BY <1>2, <1>5, <1>7 DEF Black
<1>9. PathIsGrey'
  <2>1. ASSUME NEW i \in 1..(n - 1)
        PROVE  /\ colour'[path[i].rule] = "grey"
               /\ path[i].rule \in Unguarded(grammar')
               /\ path[i].todo \subseteq Edges[path[i].rule]
    BY <1>0, <1>1, <1>5, <1>7 DEF PathIsGrey, GuardInv
  <2>2. \A i, j \in 1..(n - 1) : i # j => path[i].rule # path[j].rule
    BY <1>7 DEF PathIsGrey, GuardInv
  <2>3. \A i \in 1..((n - 1) - 1) : /\ i \in 1..(n - 1) /\ i + 1 \in 1..(n - 1)
                                    /\ path[i + 1].rule \in Edges[path[i].rule]
    BY <1>1 DEF PathIsGrey, GuardInv
  <2> QED  BY <1>1, <1>3, <2>1, <2>2, <2>3 DEF PathIsGrey
<1>10. LookedIsBlack'
  <2>1. ASSUME NEW i \in 1..(n - 1), NEW d \in Edges[path[i].rule] \ path[i].todo
        PROVE  colour'[d] = "black" \/ (i < n - 1 /\ d = path'[i + 1].rule)
    <3>1. i \in 1..n /\ d \in Rules
      BY <1>1, <1>7
    <3>2. colour[d] = "black" \/ (i < n /\ d = path[i + 1].rule)
      BY <2>1, <3>1 DEF LookedIsBlack, GuardInv
    <3>3. CASE colour[d] = "black"
      BY <1>5, <1>7, <3>1, <3>3
    <3>4. CASE i < n /\ d = path[i + 1].rule
      <4>1. CASE i = n - 1
        BY <1>1, <1>5, <3>4, <4>1
      <4>2. CASE i # n - 1
        <5>1. i < n - 1 /\ i + 1 \in 1..(n - 1)
          BY <1>1, <4>2
        <5> QED  BY <1>3, <3>4, <5>1
      <4> QED  BY <4>1, <4>2
    <3> QED  BY <3>2, <3>3, <3>4
  <2> QED  BY <1>1, <1>3, <2>1 DEF LookedIsBlack
<1>11. GreyIsOnPath'
  <2>1. ASSUME NEW q \in Rules, colour'[q] = "grey"
        PROVE  \E i \in 1..(n - 1) : path'[i].rule = q
    <3>1. q # r /\ colour[q] = "grey"
      BY <1>5, <2>1
    <3>2. PICK i \in 1..n : path[i].rule = q
      BY <3>1 DEF GreyIsOnPath, GuardInv
    <3>3. i \in 1..(n - 1)
      BY <1>1, <3>1, <3>2
    <3> QED  BY <1>3, <3>2, <3>3
  <2> QED  BY <1>3, <2>1 DEF GreyIsOnPath
<1>12. BlackIsDone'
  <2>1. Edges[r] \subseteq Black
    <3>1. ASSUME NEW d \in Edges[r] PROVE d \in Black
      <4>1. colour[d] = "black" \/ (n < n /\ d = path[n + 1].rule)
        BY <1>1, <1>2 DEF LookedIsBlack, GuardInv
      <4> QED  BY <1>1, <1>2, <4>1 DEF Black
    <3> QED  BY <3>1
  <2>2. /\ \A q \in Black \cup {r} : Edges[q] \subseteq Black \cup {r}
        /\ \A S \in SUBSET (Black \cup {r}) : ~Cyclic(S, Edges)
    BY <1>2, <1>8, <2>1, OneMoreBlack DEF GuardInv
  <2> QED  BY <1>1, <1>8, <2>2 DEF BlackIsDone
<1>13. ReportedIsCycle'
  BY <1>0 DEF ReportedIsCycle
<1> QED  BY <1>0, <1>6, <1>9, <1>10, <1>11, <1>12, <1>13 DEF GuardInv

LEMMA AllVisitedStep ==
  ASSUME GuardInv, AllVisited
  PROVE  GuardInv'
<1>0. /\ grammar' = grammar /\ verdict' = "clean" /\ cycle' = cycle
      /\ colour' = colour /\ path' = path /\ path = <<>>
      /\ \A r \in Unguarded(grammar) : colour[r] # "white"
  BY DEF AllVisited
<1>1. Edges' = Edges /\ Black' = Black
  BY <1>0 DEF Edges, Black
<1>2. \A r \in Rules : colour[r] \in {"white", "grey", "black"} /\ colour[r] # "grey"
  BY <1>0 DEF GreyIsOnPath, GuardInv, GuardTypeOK
<1>3. Unguarded(grammar) \subseteq Black
  BY <1>0, <1>2 DEF Black, Unguarded
<1> QED
  BY <1>0, <1>1, <1>3 DEF GuardInv, GuardTypeOK, PathIsGrey, LookedIsBlack, GreyIsOnPath,
     BlackIsDone, ReportedIsCycle

LEMMA GuardStep ==
  ASSUME GuardInv, GuardNext
  PROVE  GuardInv'
  BY RootStep, ReportStep, DescendStep, PassByStep, LeaveStep, AllVisitedStep DEF GuardNext

\* A grammar that passes has no cycle: what is not guarded is black.
LEMMA GuardInvCleanIsAcyclic == GuardInv => CleanIsAcyclic
<1> SUFFICES ASSUME GuardInv, verdict = "clean", NEW S \in SUBSET Rules, Cyclic(S, Edges)
             PROVE  FALSE
  BY DEF CleanIsAcyclic, Edges
<1>1. S \in SUBSET Black
  <2>1. \A r \in S : r \in Unguarded(grammar)
    BY GrammarType DEF GuardInv, Cyclic
  <2> QED  BY <2>1 DEF GuardInv
<1> QED  BY <1>1 DEF GuardInv, BlackIsDone

------------------------------------------------------------------------------
(***************************************************************************)
(* The descent.  Frames of equal depth are rules none of which had         *)
(* descended when it called the next: were one of them there twice, what   *)
(* lies between would be a cycle outside of the descents, and the guard    *)
(* would have found a cycle without a guarded rule in it.                  *)
(***************************************************************************)
DepthsGrow ==
  \A i, j \in 1..Len(stack) : i =< j => stack[i].depth =< stack[j].depth

LevelIsPlain ==
  \A i \in 1..(Len(stack) - 1) :
    stack[i + 1].depth = stack[i].depth => stack[i + 1].rule \in grammar.plain[stack[i].rule]

LevelIsSimple ==
  \A i, j \in 1..Len(stack) :
    i # j /\ stack[i].depth = stack[j].depth => stack[i].rule # stack[j].rule

Inv ==
  /\ GuardInv
  /\ stack \in Seq(Call_) /\ nesting \in Nat
  /\ DepthIsBalanced
  /\ stack # <<>> => verdict = "clean"
  /\ DepthsGrow
  /\ LevelIsPlain
  /\ LevelIsSimple

LEMMA InvStart == DescentInit => Inv
<1> SUFFICES ASSUME DescentInit PROVE Inv
  OBVIOUS
<1>1. GuardInv
  BY GuardStart DEF DescentInit
<1>2. stack = <<>> /\ nesting = 0 /\ Len(stack) = 0 /\ stack \in Seq(Call_)
  BY DEF DescentInit
<1> QED  BY <1>1, <1>2, MaxNestingIsNat DEF Inv, DepthIsBalanced, DepthsGrow, LevelIsPlain, LevelIsSimple

\* The tool is done when the first rule is called.
LEMMA ToolStep ==
  ASSUME Inv, Tool
  PROVE  Inv'
<1>1. stack' = stack /\ nesting' = nesting /\ stack = <<>> /\ Len(stack) = 0
  BY DEF Tool, descentVars, Inv, GuardNext, Root, Report, InTurn, Descend, PassBy, Leave, AllVisited
<1>2. GuardInv'
  BY GuardStep DEF Tool, Inv
<1> QED  BY <1>1, <1>2 DEF Inv, DepthIsBalanced, DepthsGrow, LevelIsPlain, LevelIsSimple

LEMMA GuardStutter ==
  ASSUME GuardInv, UNCHANGED guardVars
  PROVE  GuardInv'
  BY DEF guardVars, GuardInv, GuardTypeOK, PathIsGrey, LookedIsBlack, GreyIsOnPath,
     BlackIsDone, ReportedIsCycle, Black, Edges

LEMMA BeginStep ==
  ASSUME Inv, NEW r \in Rules, BeginParse(r)
  PROVE  Inv'
<1>1. /\ stack = <<>> /\ verdict = "clean" /\ nesting = 0
      /\ stack' = <<Frame(r)>> /\ nesting' = nesting /\ UNCHANGED guardVars
  BY DEF BeginParse, Inv, DepthIsBalanced
<1>2. GuardInv'
  BY <1>1, GuardStutter DEF Inv
<1>3. Frame(r) \in Call_ /\ Frame(r).depth = 0
  BY <1>1 DEF Frame, Call_
<1>4. stack' \in Seq(Call_) /\ Len(stack') = 1 /\ stack'[1] = Frame(r) /\ OnTop(stack') = Frame(r)
  BY <1>1, <1>3 DEF OnTop
<1>5. DepthIsBalanced'
  BY <1>1, <1>3, <1>4, MaxNestingIsNat DEF DepthIsBalanced
<1>6. DepthsGrow' /\ LevelIsPlain' /\ LevelIsSimple'
  BY <1>1, <1>3, <1>4 DEF DepthsGrow, LevelIsPlain, LevelIsSimple
<1> QED  BY <1>1, <1>2, <1>4, <1>5, <1>6 DEF Inv, guardVars

\* The machine stack, when there is one.
LEMMA OnStack ==
  ASSUME Inv, stack # <<>>
  PROVE  /\ stack \in Seq(Call_) /\ Len(stack) \in Nat \ {0} /\ Len(stack) \in 1..Len(stack)
         /\ \A i \in 1..Len(stack) : stack[i].rule \in Rules /\ stack[i].depth \in Nat
         /\ OnTop(stack) = stack[Len(stack)]
         /\ stack[1].depth = 0
         /\ nesting \in Nat
         /\ nesting \in {stack[Len(stack)].depth, stack[Len(stack)].depth + 1}
         /\ grammar \in Grammars
<1>1. Len(stack) \in Nat \ {0} /\ \A i \in 1..Len(stack) : stack[i] \in Call_
  BY DEF Inv
<1> QED  BY <1>1 DEF Inv, DepthIsBalanced, OnTop, Call_, GuardInv, GuardTypeOK

(***************************************************************************)
(* A rule that is called at the depth of a frame of the same rule would    *)
(* close a cycle of calls made outside of a descent.                       *)
(***************************************************************************)
LEMMA CalledIsNew ==
  ASSUME Inv, NEW c \in Rules, Call(c), NEW i \in 1..Len(stack), stack[i].depth = nesting
  PROVE  stack[i].rule # c
<1> DEFINE n == Len(stack)
           S == {stack[k].rule : k \in i..n}
<1>1. stack # <<>> /\ c \in Calling(OnTop(stack).rule)
  BY DEF Call
<1>2. /\ n \in Nat \ {0} /\ i \in Nat /\ n \in 1..n
      /\ \A k \in 1..n : stack[k].rule \in Rules /\ stack[k].depth \in Nat
      /\ OnTop(stack) = stack[n] /\ nesting \in Nat
      /\ nesting \in {stack[n].depth, stack[n].depth + 1}
      /\ grammar \in Grammars
  BY <1>1, OnStack
<1>3. \A k \in i..n : k \in 1..n /\ stack[k].depth = nesting
  BY <1>2 DEF Inv, DepthsGrow
<1>4. c \in grammar.plain[stack[n].rule]
  BY <1>1, <1>2, <1>3 DEF Calling, Descended
<1>5. \A k \in i..(n - 1) : k + 1 \in i..n /\ stack[k + 1].rule \in grammar.plain[stack[k].rule]
  BY <1>2, <1>3 DEF Inv, LevelIsPlain
<1> SUFFICES ASSUME stack[i].rule = c PROVE FALSE
  OBVIOUS
<1>6. \A r \in S : \E d \in grammar.plain[r] : d \in S
  <2> SUFFICES ASSUME NEW k \in i..n PROVE \E d \in grammar.plain[stack[k].rule] : d \in S
    OBVIOUS
  <2>1. CASE k = n
    <3>1. i \in i..n
      BY <1>2
    <3>2. c \in S
      BY <3>1
    <3> QED  BY <1>4, <2>1, <3>2
  <2>2. CASE k # n
    <3>1. k \in i..(n - 1)
      BY <1>2, <2>2
    <3> QED  BY <1>5, <3>1
  <2> QED  BY <2>1, <2>2
<1>7. S \in SUBSET Rules /\ S # {}
  <2>1. i \in i..n
    BY <1>2
  <2>2. \A k \in i..n : stack[k].rule \in Rules
    BY <1>2, <1>3
  <2> QED  BY <2>1, <2>2
<1>8. Cyclic(S, grammar.plain)
  BY <1>6, <1>7 DEF Cyclic
<1> HIDE DEF S
<1>9. PICK T \in SUBSET S : Cyclic(T, Remaining(grammar))
  BY <1>2, <1>7, <1>8, GuardsCover DEF GuardsCoverRecursion
<1>10. CleanIsAcyclic /\ verdict = "clean"
  BY <1>1, GuardInvCleanIsAcyclic DEF Inv
<1> QED  BY <1>7, <1>9, <1>10 DEF CleanIsAcyclic

LEMMA CallStep ==
  ASSUME Inv, NEW c \in Rules, Call(c)
  PROVE  Inv'
<1> DEFINE n == Len(stack)
<1>1. /\ stack # <<>> /\ c \in Calling(OnTop(stack).rule)
      /\ stack' = Append(stack, Frame(c)) /\ nesting' = nesting /\ UNCHANGED guardVars
  BY DEF Call
<1>2. /\ n \in Nat \ {0} /\ n \in 1..n /\ stack \in Seq(Call_)
      /\ \A k \in 1..n : stack[k].rule \in Rules /\ stack[k].depth \in Nat
      /\ OnTop(stack) = stack[n] /\ nesting \in Nat /\ stack[1].depth = 0
      /\ nesting \in {stack[n].depth, stack[n].depth + 1}
  BY <1>1, OnStack
<1>3. Frame(c) \in Call_ /\ Frame(c).rule = c /\ Frame(c).depth = nesting
  BY <1>2 DEF Frame, Call_
<1>4. /\ stack' \in Seq(Call_) /\ Len(stack') = n + 1
      /\ \A k \in 1..n : stack'[k] = stack[k]
      /\ stack'[n + 1] = Frame(c)
  BY <1>1, <1>2, <1>3, AppendIs
<1>5. GuardInv' /\ verdict' = verdict /\ grammar' = grammar
  BY <1>1, GuardStutter DEF Inv, guardVars
<1>6. \A k \in 1..n : stack[k].depth =< stack[n].depth /\ stack[k].depth =< nesting
  BY <1>2 DEF Inv, DepthsGrow
<1>7. \A k \in 1..(n + 1) : k \in 1..n \/ k = n + 1
  BY <1>2
<1>8. DepthIsBalanced'
  <2>1. stack' # <<>> /\ stack'[1].depth = 0 /\ nesting' \in {OnTop(stack').depth, OnTop(stack').depth + 1}
    <3>1. 1 \in 1..n /\ OnTop(stack') = Frame(c)
      BY <1>2, <1>4 DEF OnTop
    <3> QED  BY <1>1, <1>2, <1>3, <1>4, <3>1
  <2>2. ASSUME NEW k \in 1..((n + 1) - 1)
        PROVE  stack'[k + 1].depth \in {stack'[k].depth, stack'[k].depth + 1}
    <3>1. CASE k = n
      BY <1>2, <1>3, <1>4, <3>1
    <3>2. CASE k # n
      <4>1. k \in 1..(n - 1) /\ k \in 1..n /\ k + 1 \in 1..n
        BY <1>2, <3>2
      <4> QED  BY <1>4, <4>1 DEF Inv, DepthIsBalanced
    <3> QED  BY <3>1, <3>2
  <2> QED  BY <1>1, <1>4, <2>1, <2>2 DEF DepthIsBalanced, Inv
<1>9. DepthsGrow'
  <2> SUFFICES ASSUME NEW i \in 1..(n + 1), NEW j \in 1..(n + 1), i =< j
               PROVE  stack'[i].depth =< stack'[j].depth
    BY <1>4 DEF DepthsGrow
  <2>1. CASE j = n + 1
    BY <1>2, <1>3, <1>4, <1>6, <1>7, <2>1
  <2>2. CASE j # n + 1
    <3>1. i \in 1..n /\ j \in 1..n
      BY <1>2, <2>2
    <3> QED  BY <1>4, <3>1 DEF Inv, DepthsGrow
  <2> QED  BY <2>1, <2>2
<1>10. LevelIsPlain'
  <2> SUFFICES ASSUME NEW k \in 1..((n + 1) - 1), stack'[k + 1].depth = stack'[k].depth
               PROVE  stack'[k + 1].rule \in grammar.plain[stack'[k].rule]
    BY <1>4, <1>5 DEF LevelIsPlain
  <2>1. CASE k = n
    <3>1. nesting = stack[n].depth /\ stack'[k + 1].rule = c /\ stack'[k] = stack[n]
      BY <1>2, <1>3, <1>4, <2>1
    <3>2. c \in grammar.plain[stack[n].rule]
      BY <1>1, <1>2, <3>1 DEF Calling, Descended
    <3> QED  BY <3>1, <3>2
  <2>2. CASE k # n
    <3>1. k \in 1..(n - 1) /\ k \in 1..n /\ k + 1 \in 1..n
      BY <1>2, <2>2
    <3> QED  BY <1>4, <3>1 DEF Inv, LevelIsPlain
  <2> QED  BY <2>1, <2>2
<1>11. LevelIsSimple'
  <2>1. \A i \in 1..n : stack[i].depth = nesting => stack[i].rule # c
    BY CalledIsNew
  <2> SUFFICES ASSUME NEW i \in 1..(n + 1), NEW j \in 1..(n + 1), i # j,
                      stack'[i].depth = stack'[j].depth
               PROVE  stack'[i].rule # stack'[j].rule
    BY <1>4 DEF LevelIsSimple
  <2> QED  BY <1>3, <1>4, <1>7, <2>1 DEF Inv, LevelIsSimple
<1> QED  BY <1>1, <1>2, <1>4, <1>5, <1>8, <1>9, <1>10, <1>11 DEF Inv

\* A rule is left at the depth it was called at.
LEMMA PopStep ==
  ASSUME Inv, stack # <<>>, stack' = Popped(stack), nesting' = OnTop(stack).depth, UNCHANGED guardVars
  PROVE  Inv'
<1> DEFINE n == Len(stack)
<1>1. /\ n \in Nat \ {0} /\ n \in 1..n /\ stack \in Seq(Call_)
      /\ \A k \in 1..n : stack[k].rule \in Rules /\ stack[k].depth \in Nat
      /\ OnTop(stack) = stack[n] /\ nesting \in Nat /\ stack[1].depth = 0
      /\ nesting \in {stack[n].depth, stack[n].depth + 1}
      /\ nesting =< MaxNesting
  BY OnStack DEF Inv, DepthIsBalanced
<1>2. /\ stack' \in Seq(Call_) /\ Len(stack') = n - 1
      /\ \A k \in 1..(n - 1) : stack'[k] = stack[k]
  BY <1>1, PoppedIs
<1>3. GuardInv' /\ verdict' = verdict /\ grammar' = grammar
  BY GuardStutter DEF Inv, guardVars
<1>4. nesting' = stack[n].depth /\ nesting' \in Nat /\ nesting' =< MaxNesting
  BY <1>1, MaxNestingIsNat
<1>5. \A k \in 1..(n - 1) : k \in 1..n
  BY <1>1
<1>6. \A k \in 1..((n - 1) - 1) : k \in 1..(n - 1) /\ k + 1 \in 1..(n - 1)
  BY <1>1
<1>7. DepthIsBalanced'
  <2>1. CASE n = 1
    <3>1. stack' = <<>> /\ nesting' = 0
      BY <1>1, <1>2, <1>4, <2>1
    <3> QED  BY <1>1, <1>2, <1>4, <2>1, <3>1 DEF DepthIsBalanced
  <2>2. CASE n # 1
    <3>0. n \in Nat /\ n # 0 /\ n # 1
      BY <1>1, <2>2
    <3>1. 1 \in 1..(n - 1) /\ n - 1 \in 1..(n - 1) /\ (n - 1) + 1 = n
      <4>1. \A m \in Nat : m # 0 /\ m # 1 => 1 \in 1..(m - 1) /\ m - 1 \in 1..(m - 1) /\ (m - 1) + 1 = m
        OBVIOUS
      <4> QED  BY <3>0, <4>1
    <3>2. stack' # <<>> /\ stack'[1].depth = 0 /\ OnTop(stack') = stack[n - 1]
      BY <1>1, <1>2, <3>1 DEF OnTop
    <3>3. stack[n].depth \in {stack[n - 1].depth, stack[n - 1].depth + 1}
      BY <3>1 DEF Inv, DepthIsBalanced
    <3>4. \A k \in 1..((n - 1) - 1) : stack'[k + 1].depth \in {stack'[k].depth, stack'[k].depth + 1}
      BY <1>2, <1>6 DEF Inv, DepthIsBalanced
    <3> QED  BY <1>2, <1>4, <3>2, <3>3, <3>4 DEF DepthIsBalanced
  <2> QED  BY <2>1, <2>2
<1>8. DepthsGrow' /\ LevelIsSimple'
  <2>1. \A i, j \in 1..(n - 1) : i =< j => stack[i].depth =< stack[j].depth
    BY <1>5 DEF Inv, DepthsGrow
  <2>2. \A i, j \in 1..(n - 1) :
          i # j /\ stack[i].depth = stack[j].depth => stack[i].rule # stack[j].rule
    BY <1>5 DEF Inv, LevelIsSimple
  <2> QED  BY <1>2, <2>1, <2>2 DEF DepthsGrow, LevelIsSimple
<1>9. LevelIsPlain'
  BY <1>2, <1>3, <1>6 DEF Inv, LevelIsPlain
<1>10. stack' # <<>> => verdict' = "clean"
  BY <1>3 DEF Inv
<1> QED  BY <1>2, <1>3, <1>4, <1>7, <1>8, <1>9, <1>10 DEF Inv

LEMMA GuardedStep ==
  ASSUME Inv, Guard
  PROVE  Inv'
<1>1. /\ stack # <<>> /\ ~Descended /\ UNCHANGED guardVars
      /\ IF DepthBelow(nesting) > MaxNesting
           THEN stack' = Popped(stack) /\ nesting' = DepthRefused(nesting)
           ELSE nesting' = DepthBelow(nesting) /\ UNCHANGED stack
  BY DEF Guard
<1>2. nesting = OnTop(stack).depth /\ nesting \in Nat
  BY <1>1, OnStack DEF Descended
<1>3. CASE DepthBelow(nesting) > MaxNesting
  <2>1. nesting' = OnTop(stack).depth
    BY <1>1, <1>2, <1>3 DEF DepthRefused, DepthBelow
  <2> QED  BY <1>1, <1>3, <2>1, PopStep
<1>4. CASE ~(DepthBelow(nesting) > MaxNesting)
  <2>1. nesting' = nesting + 1 /\ stack' = stack /\ nesting' \in Nat /\ nesting' =< MaxNesting
    BY <1>1, <1>2, <1>4, MaxNestingIsNat DEF DepthBelow
  <2>2. GuardInv' /\ verdict' = verdict /\ grammar' = grammar
    BY <1>1, GuardStutter DEF Inv, guardVars
  <2>3. DepthIsBalanced'
    BY <1>1, <1>2, <2>1 DEF Inv, DepthIsBalanced
  <2> QED  BY <2>1, <2>2, <2>3 DEF Inv, DepthsGrow, LevelIsPlain, LevelIsSimple
<1> QED  BY <1>3, <1>4

LEMMA ReturnStep ==
  ASSUME Inv, ReturnFromRule
  PROVE  Inv'
<1>1. /\ stack # <<>> /\ stack' = Popped(stack) /\ UNCHANGED guardVars
      /\ nesting' = IF Descended THEN nesting - 1 ELSE nesting
  BY DEF ReturnFromRule
<1>2. nesting' = OnTop(stack).depth
  BY <1>1, OnStack DEF Descended
<1> QED  BY <1>1, <1>2, PopStep

LEMMA NextKeepsInv == Inv /\ [DescentNext]_parserVars => Inv'
<1> SUFFICES ASSUME Inv, [DescentNext]_parserVars PROVE Inv'
  OBVIOUS
<1>1. CASE UNCHANGED parserVars
  <2>1. GuardInv'
    BY <1>1, GuardStutter DEF Inv, parserVars
  <2> QED
    BY <1>1, <2>1 DEF Inv, parserVars, guardVars, descentVars, DepthIsBalanced, DepthsGrow,
       LevelIsPlain, LevelIsSimple
<1> QED  BY <1>1, ToolStep, BeginStep, CallStep, GuardedStep, ReturnStep DEF DescentNext

LEMMA AlwaysInv == DescentSpec => []Inv
  BY InvStart, NextKeepsInv, PTL DEF DescentSpec

(***************************************************************************)
(* The frames are different pairs of a depth and a rule.                   *)
(***************************************************************************)
LEMMA InvStackIsBounded == Inv => StackIsBounded
<1> SUFFICES ASSUME Inv PROVE StackIsBounded
  OBVIOUS
<1> DEFINE n == Len(stack)
           Places == (0..MaxNesting) \X Rules
           place == [i \in 1..n |-> <<stack[i].depth, stack[i].rule>>]
<1>1. n \in Nat /\ \A i \in 1..n : stack[i].rule \in Rules /\ stack[i].depth \in Nat
  <2>1. n \in Nat /\ \A i \in 1..n : stack[i] \in Call_
    BY DEF Inv
  <2> QED  BY <2>1 DEF Call_
<1>2. \A i \in 1..n : stack[i].depth \in 0..MaxNesting
  <2> SUFFICES ASSUME NEW i \in 1..n PROVE stack[i].depth =< MaxNesting
    BY <1>1, MaxNestingIsNat
  <2>1. stack # <<>> /\ i =< n /\ n \in 1..n
    BY <1>1
  <2>2. stack[i].depth =< stack[n].depth
    BY <2>1 DEF Inv, DepthsGrow
  <2>3. stack[n].depth =< nesting /\ stack[n].depth \in Nat /\ nesting =< MaxNesting /\ nesting \in Nat
    BY <2>1, OnStack DEF Inv, DepthIsBalanced
  <2> QED  BY <1>1, <2>2, <2>3, MaxNestingIsNat
<1>3. /\ IsFiniteSet(0..MaxNesting) /\ Cardinality(0..MaxNesting) = MaxNesting + 1
      /\ IsFiniteSet(1..n) /\ Cardinality(1..n) = n
  <2>1. 0 \in Int /\ 1 \in Int /\ n \in Int /\ MaxNesting \in Int /\ ~(0 > MaxNesting)
    BY <1>1, MaxNestingIsNat
  <2>2. IsFiniteSet(0..MaxNesting) /\ Cardinality(0..MaxNesting) = MaxNesting - 0 + 1
    BY <2>1, FS_Interval
  <2>3. IsFiniteSet(1..n) /\ Cardinality(1..n) = IF 1 > n THEN 0 ELSE n - 1 + 1
    BY <2>1, FS_Interval
  <2> QED  BY <1>1, <2>1, <2>2, <2>3
<1>4. IsFiniteSet(Places) /\ Cardinality(Places) = (MaxNesting + 1) * Cardinality(Rules)
  BY <1>3, RulesAreFinite, FS_Product
<1>5. place \in [1..n -> Places]
  BY <1>1, <1>2
<1>6. ASSUME Cardinality(Places) < Cardinality(1..n)
      PROVE  FALSE
  <2>1. PICK i \in 1..n, j \in 1..n : i # j /\ place[i] = place[j]
    <3> HIDE DEF place, Places
    <3>1. \E i, j \in 1..n : i # j /\ place[i] = place[j]
      BY <1>3, <1>4, <1>5, <1>6, FS_PigeonHole
    <3> QED  BY <3>1
  <2>2. stack[i].depth = stack[j].depth /\ stack[i].rule = stack[j].rule
    BY <2>1
  <2> QED  BY <2>1, <2>2 DEF Inv, LevelIsSimple
<1>7. Cardinality(Rules) \in Nat /\ (MaxNesting + 1) * Cardinality(Rules) \in Int
  BY RulesAreFinite, FS_CardinalityType, MaxNestingIsNat
<1> HIDE DEF Places
<1> QED  BY <1>1, <1>3, <1>4, <1>6, <1>7 DEF StackIsBounded
------------------------------------------------------------------------------
\* TypeOK: the variables of the tool and of the parser keep their types.
THEOREM TypeCorrect == DescentSpec => []DescentTypeOK
<1>1. Inv => DescentTypeOK
  BY DEF Inv, GuardInv, DescentTypeOK, Call_
<1> QED  BY <1>1, AlwaysInv, PTL

\* A cycle that grammar_guard.py prints is one, of rules without a guard.
THEOREM PrintedCycleIsOne == DescentSpec => []ReportedIsCycle
<1>1. Inv => ReportedIsCycle
  BY DEF Inv, GuardInv
<1> QED  BY <1>1, AlwaysInv, PTL

\* A grammar that grammar_guard.py lets pass has a guard on each of its cycles.
THEOREM PassedHasNoCycle == DescentSpec => []CleanIsAcyclic
<1>1. Inv => CleanIsAcyclic
  BY GuardInvCleanIsAcyclic DEF Inv
<1> QED  BY <1>1, AlwaysInv, PTL

\* `_depth` counts the rules that have descended, and is taken back when they are left.
THEOREM DepthIsPaired == DescentSpec => []DepthIsBalanced
<1>1. Inv => DepthIsBalanced
  BY DEF Inv
<1> QED  BY <1>1, AlwaysInv, PTL

(***************************************************************************)
(* The machine stack of a parse is bounded, whatever the source and for    *)
(* any grammar that passed: this is what the tool is run for.              *)
(***************************************************************************)
THEOREM RecursionIsBounded == DescentSpec => []StackIsBounded
  BY AlwaysInv, InvStackIsBounded, PTL
================================================================================
