------------------------- MODULE CompileProtocolProofs -------------------------
(***************************************************************************)
(* The protocol between managers and compiler, for any managers, packages  *)
(* and number of compiles.                                                 *)
(***************************************************************************)
EXTENDS CompileProtocol, SequenceTheorems, TLAPS

\* Where the one thing on its way is: in one of three places, and alone.
Alone(A, B, C) ==
  \/ (\E i : A = {i}) /\ B = {} /\ C = {}
  \/ (\E i : B = {i}) /\ A = {} /\ C = {}
  \/ (\E i : C = {i}) /\ A = {} /\ B = {}

Flight(m) ==
  IF compiling[m]
    THEN Alone(Waiting(mailbox, m), Waiting(pending, m), 1..Len(finished[m]))
    ELSE /\ Waiting(mailbox, m) = {} /\ Waiting(pending, m) = {}
         /\ 1..Len(finished[m]) = {}

\* The runs the managers hold or are about to hear of are all different, and
\* have all been counted.
RunsApart ==
  /\ \A m \in Managers : compileRun[m] < nextRun
  /\ \A m, n \in Managers : m # n =>
       \A i \in 1..Len(finished[m]) :
         /\ finished[m][i].run # compileRun[n]
         /\ \A j \in 1..Len(finished[n]) : finished[m][i].run # finished[n][j].run

IInv ==
  /\ TypeOK
  /\ \A m \in Managers : Flight(m)
  /\ ResultsAreNews
  /\ RunsApart

------------------------------------------------------------------------------
(* The places of a manager's request, in sequences that grow and shrink.   *)

LEMMA WaitingEmpty == \A m : Waiting(<<>>, m) = {}
  BY DEF Waiting

LEMMA WaitingAppend ==
  ASSUME NEW s \in Seq(Request), NEW r \in Request, NEW m
  PROVE  Waiting(Append(s, r), m) =
           Waiting(s, m) \cup (IF r.by = m THEN {Len(s) + 1} ELSE {})
<1>1. Len(Append(s, r)) = Len(s) + 1 /\ Len(s) \in Nat
  OBVIOUS
<1>2. \A i \in 1..Len(s) : Append(s, r)[i] = s[i]
  OBVIOUS
<1>3. Append(s, r)[Len(s) + 1] = r
  OBVIOUS
<1>4. 1..(Len(s) + 1) = (1..Len(s)) \cup {Len(s) + 1}
  BY <1>1
<1> QED  BY <1>1, <1>2, <1>3, <1>4 DEF Waiting

LEMMA WaitingTail ==
  ASSUME NEW s \in Seq(Request), s # <<>>, NEW m
  PROVE  /\ Waiting(Tail(s), m) = {i \in 1..(Len(s) - 1) : i + 1 \in Waiting(s, m)}
         /\ Head(s) \in Request
         /\ Head(s).by = m <=> 1 \in Waiting(s, m)
<1>1. /\ Tail(s) \in Seq(Request) /\ Len(Tail(s)) = Len(s) - 1 /\ Len(s) \in Nat \ {0}
      /\ \A i \in 1..(Len(s) - 1) : Tail(s)[i] = s[i + 1]
  OBVIOUS
<1>2. Head(s) = s[1] /\ s[1] \in Request
  OBVIOUS
<1> QED  BY <1>1, <1>2 DEF Waiting

LEMMA WaitingReleased ==
  ASSUME NEW s \in Seq(Request), NEW t \in Seq(Request), NEW m
  PROVE  /\ s \o Reverse(t) \in Seq(Request)
         /\ Waiting(s \o Reverse(t), m) =
              Waiting(s, m) \cup {i \in (Len(s) + 1)..(Len(s) + Len(t)) :
                                    (Len(s) + Len(t) + 1) - i \in Waiting(t, m)}
<1>1. /\ Reverse(t) \in Seq(Request) /\ Len(Reverse(t)) = Len(t)
      /\ \A i \in 1..Len(t) : Reverse(t)[i] = t[(Len(t) - i) + 1]
  BY DEF Reverse
<1> DEFINE u == s \o Reverse(t)
<1>2. /\ u \in Seq(Request) /\ Len(u) = Len(s) + Len(t)
      /\ \A i \in 1..Len(s) : u[i] = s[i]
  <2>1. u \in Seq(Request)
    BY <1>1, ConcatProperties
  <2>2. /\ Len(u) = Len(s) + Len(t)
        /\ \A i \in 1..(Len(s) + Len(t)) :
             u[i] = IF i <= Len(s) THEN s[i] ELSE Reverse(t)[i - Len(s)]
    <3>1. PICK r \in Seq(Request) : r = Reverse(t)
      BY <1>1
    <3>2. /\ Len(s \o r) = Len(s) + Len(r)
          /\ \A i \in 1..(Len(s) + Len(r)) :
               (s \o r)[i] = IF i <= Len(s) THEN s[i] ELSE r[i - Len(s)]
      BY ConcatProperties, Zenon
    <3>3. Len(r) = Len(t)
      BY <1>1, <3>1
    <3> QED  BY <3>1, <3>2, <3>3, Zenon
  <2>3. \A i \in 1..Len(s) : u[i] = s[i]
    <3> HIDE DEF u
    <3> QED  BY <2>2
  <2> QED  BY <2>1, <2>2, <2>3
<1>3. \A i \in (Len(s) + 1)..(Len(s) + Len(t)) : u[i] = t[(Len(s) + Len(t) + 1) - i]
  <2> TAKE i \in (Len(s) + 1)..(Len(s) + Len(t))
  <2>1. i - Len(s) \in 1..Len(t) /\ u[i] = Reverse(t)[i - Len(s)]
    BY <1>1
  <2>2. (Len(t) - (i - Len(s))) + 1 = (Len(s) + Len(t) + 1) - i
    OBVIOUS
  <2> QED  BY <1>1, <2>1, <2>2
<1>4. \A i \in (Len(s) + 1)..(Len(s) + Len(t)) : (Len(s) + Len(t) + 1) - i \in 1..Len(t)
  OBVIOUS
<1>5. 1..Len(u) = (1..Len(s)) \cup ((Len(s) + 1)..(Len(s) + Len(t)))
  BY <1>2
<1> QED  BY <1>2, <1>3, <1>4, <1>5 DEF Waiting

\* OneInFlight says of three disjoint places what Flight says of each.
LEMMA FlightIsOne == OneInFlight <=> \A m \in Managers : Flight(m)
<1> SUFFICES ASSUME NEW m \in Managers
             PROVE  (IF compiling[m] THEN \E place \in Places(m) : Places(m) = {place}
                                     ELSE Places(m) = {}) <=> Flight(m)
  BY DEF OneInFlight
<1> DEFINE A == Waiting(mailbox, m)
           B == Waiting(pending, m)
           C == 1..Len(finished[m])
<1>1. Places(m) = ({"mailbox"} \X A) \cup ({"pending"} \X B) \cup ({"finished"} \X C)
  BY DEF Places
<1> HIDE DEF A, B, C
<1>2. \A x : x \in Places(m) <=>
        \/ \E i \in A : x = <<"mailbox", i>>
        \/ \E i \in B : x = <<"pending", i>>
        \/ \E i \in C : x = <<"finished", i>>
  BY <1>1
<1>3. Places(m) = {} <=> A = {} /\ B = {} /\ C = {}
  BY <1>2
<1>4. ASSUME NEW place \in Places(m), Places(m) = {place}
      PROVE  Alone(A, B, C)
  <2>1. \A x, y : x \in Places(m) /\ y \in Places(m) => x = y
    BY <1>4
  <2>2. CASE \E i \in A : place = <<"mailbox", i>>
    <3>1. PICK i \in A : place = <<"mailbox", i>>
      BY <2>2
    <3>2. B = {} /\ C = {}
      BY <1>2, <2>1, <3>1
    <3>3. ASSUME NEW j \in A
          PROVE  j = i
      <4>1. <<"mailbox", j>> \in Places(m)
        BY <1>2
      <4>2. <<"mailbox", j>> = <<"mailbox", i>>
        BY <2>1, <3>1, <4>1
      <4> QED  BY <4>2
    <3> QED  BY <3>2, <3>3 DEF Alone
  <2>3. CASE \E i \in B : place = <<"pending", i>>
    <3>1. PICK i \in B : place = <<"pending", i>>
      BY <2>3
    <3>2. A = {} /\ C = {}
      BY <1>2, <2>1, <3>1
    <3>3. ASSUME NEW j \in B
          PROVE  j = i
      <4>1. <<"pending", j>> \in Places(m)
        BY <1>2
      <4>2. <<"pending", j>> = <<"pending", i>>
        BY <2>1, <3>1, <4>1
      <4> QED  BY <4>2
    <3> QED  BY <3>2, <3>3 DEF Alone
  <2>4. CASE \E i \in C : place = <<"finished", i>>
    <3>1. PICK i \in C : place = <<"finished", i>>
      BY <2>4
    <3>2. A = {} /\ B = {}
      BY <1>2, <2>1, <3>1
    <3>3. ASSUME NEW j \in C
          PROVE  j = i
      <4>1. <<"finished", j>> \in Places(m)
        BY <1>2
      <4>2. <<"finished", j>> = <<"finished", i>>
        BY <2>1, <3>1, <4>1
      <4> QED  BY <4>2
    <3> QED  BY <3>2, <3>3 DEF Alone
  <2> QED  BY <1>2, <2>2, <2>3, <2>4
<1>5. ASSUME Alone(A, B, C)
      PROVE  \E place \in Places(m) : Places(m) = {place}
  <2>1. CASE (\E i : A = {i}) /\ B = {} /\ C = {}
    <3>1. PICK i : A = {i}
      BY <2>1
    <3>2. \A x : x \in Places(m) <=> x = <<"mailbox", i>>
      BY <1>2, <2>1, <3>1
    <3> DEFINE here == <<"mailbox", i>>
    <3> HIDE DEF here
    <3>3. Places(m) = {here}
      BY <3>2 DEF here
    <3> QED  BY <3>3
  <2>2. CASE (\E i : B = {i}) /\ A = {} /\ C = {}
    <3>1. PICK i : B = {i}
      BY <2>2
    <3>2. \A x : x \in Places(m) <=> x = <<"pending", i>>
      BY <1>2, <2>2, <3>1
    <3> DEFINE here == <<"pending", i>>
    <3> HIDE DEF here
    <3>3. Places(m) = {here}
      BY <3>2 DEF here
    <3> QED  BY <3>3
  <2>3. CASE (\E i : C = {i}) /\ A = {} /\ B = {}
    <3>1. PICK i : C = {i}
      BY <2>3
    <3>2. \A x : x \in Places(m) <=> x = <<"finished", i>>
      BY <1>2, <2>3, <3>1
    <3> DEFINE here == <<"finished", i>>
    <3> HIDE DEF here
    <3>3. Places(m) = {here}
      BY <3>2 DEF here
    <3> QED  BY <3>3
  <2> QED  BY <1>5, <2>1, <2>2, <2>3 DEF Alone
<1> QED  BY <1>3, <1>4, <1>5 DEF Flight, A, B, C

------------------------------------------------------------------------------
(* The invariant.                                                          *)

LEMMA Initially == Init => IInv
<1> SUFFICES ASSUME Init
             PROVE  IInv
  OBVIOUS
<1> USE DEF Init, CompilerInit, FirstRun
<1>1. TypeOK
  <2>1. <<>> \in Seq(Request) /\ <<>> \in Seq(Result)
    OBVIOUS
  <2>2. finished \in [Managers -> Seq(Result)]
    BY <2>1, Zenon
  <2>3. compiling \in [Managers -> BOOLEAN] /\ compileRun \in [Managers -> Nat]
    OBVIOUS
  <2>4. mailbox \in Seq(Request) /\ pending \in Seq(Request)
    BY <2>1, Zenon
  <2>5. gotSettings \in BOOLEAN /\ nextRun \in Nat \ {0}
    <3>1. gotSettings \in BOOLEAN
      BY Zenon
    <3>2. nextRun \in Nat \ {0}
      OBVIOUS
    <3> QED  BY <3>1, <3>2
  <2> QED  BY <2>2, <2>3, <2>4, <2>5, Zenon DEF TypeOK
<1>2. \A m \in Managers : Flight(m)
  BY DEF Flight, Waiting
<1>3. ResultsAreNews /\ RunsApart
  BY DEF ResultsAreNews, RunsApart
<1> QED  BY <1>1, <1>2, <1>3 DEF IInv

LEMMA AskKeeps ==
  ASSUME IInv, NEW m \in Managers, NEW p \in Packages, Ask(m, p)
  PROVE  IInv'
<1> DEFINE r == [by |-> m, package |-> p]
<1>1. r \in Request /\ mailbox \in Seq(Request)
  BY DEF IInv, TypeOK, Request
<1>2. /\ mailbox' = Append(mailbox, r) /\ ~compiling[m]
      /\ compiling' = [compiling EXCEPT ![m] = TRUE]
      /\ UNCHANGED <<gotSettings, pending, nextRun, finished, compileRun>>
  BY <1>1 DEF Ask, Send, MayAsk
<1> HIDE DEF r
<1>3. TypeOK'
  BY <1>1, <1>2 DEF IInv, TypeOK
<1>4. ASSUME NEW n \in Managers
      PROVE  Flight(n)'
  <2>1. Flight(n)
    BY DEF IInv
  <2>2. Waiting(mailbox', n) =
          Waiting(mailbox, n) \cup (IF r.by = n THEN {Len(mailbox) + 1} ELSE {})
    BY <1>1, <1>2, WaitingAppend
  <2>3. r.by = m
    BY DEF r
  <2>4. compiling \in [Managers -> BOOLEAN]
    BY DEF IInv, TypeOK
  <2>5. CASE n = m
    <3>1. ~compiling[n] /\ compiling'[n]
      BY <1>2, <2>4, <2>5
    <3>2. Waiting(mailbox', n) = {Len(mailbox) + 1}
      BY <2>1, <2>2, <2>3, <2>5, <3>1 DEF Flight
    <3> QED  BY <1>2, <2>1, <3>1, <3>2 DEF Flight, Alone, Waiting
  <2>6. CASE n # m
    <3>1. compiling'[n] = compiling[n] /\ Waiting(mailbox', n) = Waiting(mailbox, n)
      BY <1>2, <2>2, <2>3, <2>4, <2>6
    <3> QED  BY <1>2, <2>1, <3>1 DEF Flight, Alone, Waiting
  <2> QED  BY <2>5, <2>6
<1>5. ResultsAreNews' /\ RunsApart'
  BY <1>2 DEF IInv, ResultsAreNews, RunsApart
<1> QED  BY <1>3, <1>4, <1>5 DEF IInv

LEMMA SettingsKeep ==
  ASSUME IInv, ApplySettings, UNCHANGED <<compiling, compileRun>>
  PROVE  IInv'
<1>1. mailbox \in Seq(Request) /\ pending \in Seq(Request)
  BY DEF IInv, TypeOK
<1>2. /\ mailbox' = mailbox \o Reverse(pending) /\ pending' = <<>> /\ gotSettings'
      /\ UNCHANGED <<nextRun, finished, compiling, compileRun>>
  BY DEF ApplySettings, Send, Released
<1>3. TypeOK'
  <2>1. mailbox' \in Seq(Request)
    BY <1>1, <1>2, WaitingReleased
  <2>2. pending' \in Seq(Request)
    BY <1>2
  <2> QED  BY <1>2, <2>1, <2>2 DEF IInv, TypeOK
<1>4. ASSUME NEW n \in Managers
      PROVE  Flight(n)'
  <2> DEFINE A == Waiting(mailbox, n)
             B == Waiting(pending, n)
             moved == {i \in (Len(mailbox) + 1)..(Len(mailbox) + Len(pending)) :
                         (Len(mailbox) + Len(pending) + 1) - i \in B}
  <2>1. Flight(n)
    BY DEF IInv
  <2>2. Waiting(mailbox', n) = A \cup moved
    BY <1>1, <1>2, WaitingReleased
  <2>3. Waiting(pending', n) = {}
    BY <1>2, WaitingEmpty
  <2>4. B \subseteq 1..Len(pending) /\ Len(mailbox) \in Nat /\ Len(pending) \in Nat
    BY <1>1 DEF Waiting
  <2>5. B = {} => moved = {}
    OBVIOUS
  <2>6. ASSUME NEW i, B = {i}
        PROVE  moved = {(Len(mailbox) + Len(pending) + 1) - i}
    BY <2>4, <2>6
  <2> HIDE DEF A, B, moved
  <2>7. CASE compiling[n]
    <3>1. Alone(A, B, 1..Len(finished[n]))
      BY <2>1, <2>7 DEF Flight, A, B
    <3>2. Alone(A \cup moved, {}, 1..Len(finished[n]))
      BY <2>5, <2>6, <3>1 DEF Alone
    <3> QED  BY <1>2, <2>2, <2>3, <2>7, <3>2 DEF Flight, Alone, Waiting
  <2>8. CASE ~compiling[n]
    <3>1. A = {} /\ B = {} /\ 1..Len(finished[n]) = {}
      BY <2>1, <2>8 DEF Flight, A, B
    <3> QED  BY <1>2, <2>2, <2>3, <2>5, <2>8, <3>1 DEF Flight, Waiting
  <2> QED  BY <2>7, <2>8
<1>5. ResultsAreNews' /\ RunsApart'
  BY <1>2 DEF IInv, ResultsAreNews, RunsApart
<1> QED  BY <1>3, <1>4, <1>5 DEF IInv

LEMMA DeferKeeps ==
  ASSUME IInv, Defer, UNCHANGED <<compiling, compileRun>>
  PROVE  IInv'
<1>1. mailbox \in Seq(Request) /\ pending \in Seq(Request) /\ mailbox # <<>>
  BY DEF IInv, TypeOK, Defer
<1>2. /\ mailbox' = Tail(mailbox) /\ pending' = Append(pending, Head(mailbox))
      /\ UNCHANGED <<gotSettings, nextRun, finished, compiling, compileRun>>
  BY DEF Defer
<1>3. TypeOK'
  BY <1>1, <1>2, WaitingTail DEF IInv, TypeOK
<1>4. ASSUME NEW n \in Managers
      PROVE  Flight(n)'
  <2> DEFINE A == Waiting(mailbox, n)
             B == Waiting(pending, n)
             left == {i \in 1..(Len(mailbox) - 1) : i + 1 \in A}
             last == Len(pending) + 1
  <2>1. Flight(n)
    BY DEF IInv
  <2>2. Waiting(mailbox', n) = left
    BY <1>1, <1>2, WaitingTail
  <2>3. Waiting(pending', n) = B \cup (IF 1 \in A THEN {last} ELSE {})
    BY <1>1, <1>2, WaitingTail, WaitingAppend
  <2>4. A \subseteq 1..Len(mailbox) /\ Len(mailbox) \in Nat
    BY <1>1 DEF Waiting
  <2>5. /\ A = {} => left = {}
        /\ A = {1} => left = {}
        /\ \A i : A = {i} /\ i # 1 => left = {i - 1}
    BY <2>4
  <2> HIDE DEF A, B, left, last
  <2>6. CASE compiling[n]
    <3>1. Alone(A, B, 1..Len(finished[n]))
      BY <2>1, <2>6 DEF Flight, A, B
    <3>2. Alone(left, B \cup (IF 1 \in A THEN {last} ELSE {}), 1..Len(finished[n]))
      BY <2>5, <3>1 DEF Alone
    <3> QED  BY <1>2, <2>2, <2>3, <2>6, <3>2 DEF Flight, Alone, Waiting
  <2>7. CASE ~compiling[n]
    <3>1. A = {} /\ B = {} /\ 1..Len(finished[n]) = {}
      BY <2>1, <2>7 DEF Flight, A, B
    <3> QED  BY <1>2, <2>2, <2>3, <2>5, <2>7, <3>1 DEF Flight, Waiting
  <2> QED  BY <2>6, <2>7
<1>5. ResultsAreNews' /\ RunsApart'
  BY <1>2 DEF IInv, ResultsAreNews, RunsApart
<1> QED  BY <1>3, <1>4, <1>5 DEF IInv

LEMMA RunsAreNumbers ==
  ASSUME NEW s \in Seq(Result), NEW i \in 1..Len(s)
  PROVE  s[i].run \in Nat \ {0}
<1>1. s[i] \in Result
  OBVIOUS
<1> QED  BY <1>1 DEF Result

LEMMA CompileKeeps ==
  ASSUME IInv, Compile(NoResult), UNCHANGED <<compiling, compileRun>>
  PROVE  IInv'
<1> DEFINE r == Head(mailbox)
           result == [package |-> r.package, result |-> NoResult, run |-> nextRun]
<1>1. /\ mailbox \in Seq(Request) /\ mailbox # <<>> /\ nextRun \in Nat \ {0}
      /\ finished \in [Managers -> Seq(Result)] /\ compileRun \in [Managers -> Nat]
  BY DEF IInv, TypeOK, Compile
<1>2. r \in Request /\ r.by \in Managers
  BY <1>1, WaitingTail DEF Request
<1>3. result \in Result /\ result.run = nextRun
  BY <1>1, <1>2 DEF Result, Request
<1>4. /\ mailbox' = Tail(mailbox) /\ nextRun' = nextRun + 1
      /\ finished' = [finished EXCEPT ![r.by] = Append(@, result)]
      /\ UNCHANGED <<gotSettings, pending, compiling, compileRun>>
  BY DEF Compile, RunAfter
<1> HIDE DEF r, result
<1>5. \A n \in Managers : n # r.by => finished'[n] = finished[n]
  BY <1>1, <1>2, <1>4
<1>6. /\ Len(finished[r.by]) \in Nat
      /\ Len(finished'[r.by]) = Len(finished[r.by]) + 1
      /\ finished'[r.by] \in Seq(Result)
      /\ finished'[r.by][Len(finished[r.by]) + 1] = result
      /\ \A i \in 1..Len(finished[r.by]) : finished'[r.by][i] = finished[r.by][i]
  <2>1. finished'[r.by] = Append(finished[r.by], result)
    BY <1>1, <1>2, <1>4
  <2>2. PICK s \in Seq(Result) : s = finished[r.by]
    BY <1>1, <1>2
  <2>3. /\ Len(Append(s, result)) = Len(s) + 1 /\ Append(s, result) \in Seq(Result)
        /\ Append(s, result)[Len(s) + 1] = result
        /\ \A i \in 1..Len(s) : Append(s, result)[i] = s[i]
    BY <1>3
  <2> QED  BY <2>1, <2>2, <2>3
<1>7. TypeOK'
  <2>1. mailbox' \in Seq(Request)
    BY <1>1, <1>4
  <2>2. finished' \in [Managers -> Seq(Result)]
    BY <1>1, <1>2, <1>4, <1>6
  <2>3. nextRun' \in Nat \ {0}
    BY <1>1, <1>4
  <2> QED  BY <1>4, <2>1, <2>2, <2>3 DEF IInv, TypeOK
<1>8. ASSUME NEW n \in Managers
      PROVE  Flight(n)'
  <2> DEFINE A == Waiting(mailbox, n)
             B == Waiting(pending, n)
             C == 1..Len(finished[n])
             left == {i \in 1..(Len(mailbox) - 1) : i + 1 \in A}
  <2>1. Flight(n)
    BY DEF IInv
  <2>2. Waiting(mailbox', n) = left /\ (r.by = n <=> 1 \in A)
    BY <1>1, <1>4, WaitingTail DEF r
  <2>3. A \subseteq 1..Len(mailbox) /\ Len(mailbox) \in Nat
    BY <1>1 DEF Waiting
  <2>4. /\ A = {} => left = {}
        /\ A = {1} => left = {}
        /\ \A i : A = {i} /\ i # 1 => left = {i - 1}
    BY <2>3
  <2>5. CASE r.by = n
    <3>1. compiling[n] /\ Alone(A, B, C)
      BY <2>1, <2>2, <2>5 DEF Flight
    <3>2. A = {1} /\ B = {} /\ C = {}
      BY <2>2, <2>5, <3>1 DEF Alone
    <3>a. Len(finished[n]) = 0
      BY <1>6, <2>5, <3>2
    <3>3. Len(finished'[n]) = 1
      BY <1>6, <2>5, <3>a
    <3>4. 1..Len(finished'[n]) = {1}
      BY <3>3
    <3>5. Waiting(mailbox', n) = {} /\ Waiting(pending', n) = {}
      BY <1>4, <2>2, <2>4, <3>2
    <3>6. compiling'[n]
      BY <1>4, <3>1
    <3> QED  BY <3>4, <3>5, <3>6 DEF Flight, Alone
  <2>6. CASE r.by # n
    <3>1. finished'[n] = finished[n]
      BY <1>5, <2>6
    <3>2. 1 \notin A
      BY <2>2, <2>6
    <3> HIDE DEF A, B, C, left
    <3>3. compiling[n] => Alone(left, B, C)
      BY <2>1, <2>4, <3>2 DEF Flight, Alone, A, B, C
    <3>4. ~compiling[n] => left = {} /\ B = {} /\ C = {}
      BY <2>1, <2>4 DEF Flight, A, B, C
    <3> QED  BY <1>4, <2>2, <3>1, <3>3, <3>4 DEF Flight, B, C
  <2> QED  BY <2>5, <2>6
<1>9. ResultsAreNews'
  <2> SUFFICES ASSUME NEW n \in Managers, NEW i \in 1..Len(finished'[n])
               PROVE  compileRun'[n] < finished'[n][i].run /\ finished'[n][i].run < nextRun'
    BY DEF ResultsAreNews
  <2>1. compileRun[n] < nextRun /\ compileRun[n] \in Nat
    BY <1>1 DEF IInv, RunsApart
  <2>2. CASE n = r.by /\ i = Len(finished[n]) + 1
    BY <1>1, <1>3, <1>4, <1>6, <2>1, <2>2
  <2>3. CASE ~(n = r.by /\ i = Len(finished[n]) + 1)
    <3>1. i \in 1..Len(finished[n]) /\ finished'[n][i] = finished[n][i]
      BY <1>5, <1>6, <2>3
    <3>2. finished[n][i].run \in Nat
      BY <1>1, <3>1, RunsAreNumbers
    <3>3. compileRun[n] < finished[n][i].run /\ finished[n][i].run < nextRun
      BY <3>1 DEF IInv, ResultsAreNews
    <3> QED  BY <1>1, <1>4, <3>1, <3>2, <3>3
  <2> QED  BY <2>2, <2>3
<1>10. RunsApart'
  <2>1. \A n \in Managers : compileRun'[n] < nextRun'
    BY <1>1, <1>4 DEF IInv, RunsApart
  <2>2. \A n \in Managers : \A i \in 1..Len(finished'[n]) :
          \/ i \in 1..Len(finished[n]) /\ finished'[n][i] = finished[n][i]
          \/ n = r.by /\ i = Len(finished[n]) + 1 /\ finished'[n][i].run = nextRun
    <3> TAKE n \in Managers
    <3> TAKE i \in 1..Len(finished'[n])
    <3> QED  BY <1>3, <1>5, <1>6
  <2>3. \A n \in Managers : \A i \in 1..Len(finished[n]) : finished[n][i].run < nextRun
    BY DEF IInv, ResultsAreNews
  <2>4. \A n \in Managers : \A i \in 1..Len(finished[n]) : finished[n][i].run \in Nat
    BY <1>1, RunsAreNumbers
  <2>5. \A n \in Managers : compileRun[n] < nextRun /\ compileRun[n] \in Nat
    BY <1>1 DEF IInv, RunsApart
  <2>6. ASSUME NEW m \in Managers, NEW n \in Managers, m # n, NEW i \in 1..Len(finished'[m])
        PROVE  /\ finished'[m][i].run # compileRun'[n]
               /\ \A j \in 1..Len(finished'[n]) : finished'[m][i].run # finished'[n][j].run
    <3>1. ASSUME i \in 1..Len(finished[m]), finished'[m][i] = finished[m][i]
          PROVE  /\ finished'[m][i].run # compileRun'[n]
                 /\ \A j \in 1..Len(finished'[n]) : finished'[m][i].run # finished'[n][j].run
      <4>1. finished[m][i].run < nextRun /\ finished[m][i].run \in Nat
        BY <2>3, <2>4, <3>1
      <4>2. /\ finished[m][i].run # compileRun[n]
            /\ \A j \in 1..Len(finished[n]) : finished[m][i].run # finished[n][j].run
        BY <2>6, <3>1 DEF IInv, RunsApart
      <4>3. ASSUME NEW j \in 1..Len(finished'[n])
            PROVE  finished'[m][i].run # finished'[n][j].run
        <5>1. CASE j \in 1..Len(finished[n]) /\ finished'[n][j] = finished[n][j]
          BY <3>1, <4>2, <5>1
        <5>2. CASE finished'[n][j].run = nextRun
          BY <1>1, <3>1, <4>1, <5>2
        <5> QED  BY <2>2, <5>1, <5>2
      <4> QED  BY <1>4, <3>1, <4>2, <4>3
    <3>2. ASSUME m = r.by, finished'[m][i].run = nextRun
          PROVE  /\ finished'[m][i].run # compileRun'[n]
                 /\ \A j \in 1..Len(finished'[n]) : finished'[m][i].run # finished'[n][j].run
      <4>1. finished'[m][i].run # compileRun'[n]
        BY <1>1, <1>4, <2>5, <3>2
      <4>2. \A j \in 1..Len(finished'[n]) : finished'[n][j] = finished[n][j] /\ j \in 1..Len(finished[n])
        BY <1>5, <2>6, <3>2
      <4> QED  BY <1>1, <2>3, <2>4, <3>2, <4>1, <4>2
    <3> QED  BY <2>2, <3>1, <3>2
  <2> QED  BY <2>1, <2>6 DEF RunsApart
<1> QED  BY <1>7, <1>8, <1>9, <1>10 DEF IInv

\* What a manager takes is the one thing on its way, and newer than what it has.
LEMMA DoneTakesNews ==
  ASSUME IInv, NEW m \in Managers, Done(m)
  PROVE  /\ Len(finished[m]) = 1 /\ compiling[m]
         /\ finished[m][1] = Head(finished[m])
         /\ compileRun[m] < finished[m][1].run /\ finished[m][1].run < nextRun
         /\ finished[m][1].run \in Nat
         /\ finished' = [finished EXCEPT ![m] = <<>>]
         /\ compiling' = [compiling EXCEPT ![m] = FALSE]
         /\ compileRun' = [compileRun EXCEPT ![m] = finished[m][1].run]
         /\ UNCHANGED <<gotSettings, pending, nextRun, mailbox>>
<1>1. /\ finished \in [Managers -> Seq(Result)] /\ compileRun \in [Managers -> Nat]
      /\ finished[m] # <<>>
  BY DEF IInv, TypeOK, Done
<1>2. PICK s \in Seq(Result) : s = finished[m]
  BY <1>1
<1>3. Len(s) \in Nat \ {0} /\ s[1] = Head(s)
  BY <1>1, <1>2
<1>4. Flight(m)
  BY DEF IInv
<1>5. 1 \in 1..Len(s)
  BY <1>3
<1>6. compiling[m] /\ \E i : 1..Len(s) = {i}
  BY <1>2, <1>4, <1>5 DEF Flight, Alone
<1>7. Len(s) = 1
  <2>1. Len(s) \in 1..Len(s)
    BY <1>3
  <2>2. PICK i : 1..Len(s) = {i}
    BY <1>6
  <2>3. 1 = i /\ Len(s) = i
    BY <1>5, <2>1, <2>2, Zenon
  <2> QED  BY <2>3
<1>8. Tail(s) = <<>>
  <2>1. s # <<>>
    BY <1>1, <1>2
  <2>2. Tail(s) \in Seq(Result) /\ Len(Tail(s)) = Len(s) - 1
    BY <2>1
  <2> QED  BY <1>7, <2>2, EmptySeq
<1>9. /\ compileRun[m] < finished[m][1].run /\ finished[m][1].run < nextRun
      /\ finished[m][1].run \in Nat
  BY <1>2, <1>5, RunsAreNumbers DEF IInv, ResultsAreNews
<1>10. finished' = [finished EXCEPT ![m] = <<>>]
  BY <1>2, <1>8 DEF Done, Take
<1>11. compileRun' = [compileRun EXCEPT ![m] = finished[m][1].run]
  <2>1. compileRun' = [compileRun EXCEPT ![m] =
                         IF Head(finished[m]).run > @ THEN Head(finished[m]).run ELSE @]
    BY DEF Done
  <2>2. Head(finished[m]).run > compileRun[m]
    BY <1>1, <1>2, <1>3, <1>9
  <2> QED  BY <1>2, <1>3, <2>1, <2>2
<1> QED  BY <1>2, <1>3, <1>6, <1>7, <1>9, <1>10, <1>11 DEF Done

LEMMA DoneKeeps ==
  ASSUME IInv, NEW m \in Managers, Done(m)
  PROVE  IInv'
<1> DEFINE run == finished[m][1].run
<1>1. /\ finished \in [Managers -> Seq(Result)] /\ compileRun \in [Managers -> Nat]
      /\ compiling \in [Managers -> BOOLEAN]
  BY DEF IInv, TypeOK
<1>2. /\ Len(finished[m]) = 1 /\ compiling[m] /\ run \in Nat /\ run < nextRun
      /\ finished' = [finished EXCEPT ![m] = <<>>]
      /\ compiling' = [compiling EXCEPT ![m] = FALSE]
      /\ compileRun' = [compileRun EXCEPT ![m] = run]
      /\ UNCHANGED <<gotSettings, pending, nextRun, mailbox>>
  BY DoneTakesNews
<1>3. TypeOK'
  <2>1. <<>> \in Seq(Result)
    OBVIOUS
  <2>2. finished' \in [Managers -> Seq(Result)]
    BY <1>1, <1>2, <2>1
  <2>3. compiling' \in [Managers -> BOOLEAN] /\ compileRun' \in [Managers -> Nat]
    BY <1>1, <1>2
  <2> QED  BY <1>2, <2>2, <2>3 DEF IInv, TypeOK
<1>4. \A n \in Managers : n # m => /\ finished'[n] = finished[n]
                                   /\ compiling'[n] = compiling[n]
                                   /\ compileRun'[n] = compileRun[n]
  BY <1>1, <1>2
<1>5. /\ finished'[m] = <<>> /\ ~compiling'[m] /\ compileRun'[m] = run
      /\ 1..Len(finished'[m]) = {}
  BY <1>1, <1>2
<1>6. ASSUME NEW n \in Managers
      PROVE  Flight(n)'
  <2>1. Flight(n)
    BY DEF IInv
  <2>2. CASE n = m
    <3>1. 1..Len(finished[m]) = {1}
      BY <1>2
    <3>2. Waiting(mailbox, m) = {} /\ Waiting(pending, m) = {}
      BY <1>2, <2>1, <2>2, <3>1 DEF Flight, Alone
    <3> QED  BY <1>2, <1>5, <2>2, <3>2 DEF Flight, Waiting
  <2>3. CASE n # m
    BY <1>2, <1>4, <2>1, <2>3 DEF Flight, Alone, Waiting
  <2> QED  BY <2>2, <2>3
<1>7. ResultsAreNews'
  BY <1>2, <1>4, <1>5 DEF IInv, ResultsAreNews
<1>8. RunsApart'
  <2>1. \A n \in Managers : compileRun'[n] < nextRun'
    BY <1>1, <1>2 DEF IInv, RunsApart
  <2>2. ASSUME NEW k \in Managers, NEW n \in Managers, k # n, NEW i \in 1..Len(finished'[k])
        PROVE  /\ finished'[k][i].run # compileRun'[n]
               /\ \A j \in 1..Len(finished'[n]) : finished'[k][i].run # finished'[n][j].run
    <3>1. k # m /\ finished'[k] = finished[k]
      BY <1>4, <1>5, <2>2
    <3>2. /\ finished[k][i].run # compileRun[n]
          /\ \A j \in 1..Len(finished[n]) : finished[k][i].run # finished[n][j].run
      BY <2>2, <3>1 DEF IInv, RunsApart
    <3>3. CASE n = m
      <4>1. 1 \in 1..Len(finished[m])
        BY <1>2
      <4> QED  BY <1>5, <3>1, <3>2, <3>3, <4>1
    <3>4. CASE n # m
      BY <1>4, <3>1, <3>2, <3>4
    <3> QED  BY <3>3, <3>4
  <2> QED  BY <2>1, <2>2 DEF RunsApart
<1> QED  BY <1>3, <1>6, <1>7, <1>8 DEF IInv

LEMMA NextKeeps == IInv /\ [Next]_vars => IInv'
<1> SUFFICES ASSUME IInv, [Next]_vars
             PROVE  IInv'
  OBVIOUS
<1>1. CASE \E m \in Managers, p \in Packages : Ask(m, p)
  BY <1>1, AskKeeps
<1>2. CASE \E m \in Managers : Done(m)
  BY <1>2, DoneKeeps
<1>3. CASE CompilerStep
  BY <1>3, SettingsKeep, DeferKeeps, CompileKeeps DEF CompilerStep
<1>4. CASE UNCHANGED vars
  <2>1. /\ UNCHANGED <<gotSettings, pending, nextRun, mailbox, finished>>
        /\ compiling' = compiling /\ compileRun' = compileRun
    BY <1>4 DEF vars
  <2>2. TypeOK' /\ ResultsAreNews' /\ RunsApart'
    BY <2>1 DEF IInv, TypeOK, ResultsAreNews, RunsApart
  <2>3. \A m \in Managers : Flight(m)'
    BY <2>1 DEF IInv, Flight, Alone, Waiting
  <2> QED  BY <2>2, <2>3 DEF IInv
<1> QED  BY <1>1, <1>2, <1>3, <1>4 DEF Next

THEOREM Inductive == Spec => []IInv
  BY Initially, NextKeeps, PTL DEF Spec

\* The state of the compiler and of its clients is always well typed.
THEOREM TypeCorrect == Spec => []TypeOK
<1>1. IInv => TypeOK
  BY DEF IInv
<1> QED  BY Inductive, <1>1, PTL

\* A manager has one request or result on its way exactly while it is compiling
\* (_compile, done_compiling).
THEOREM OneCompileEach == Spec => []OneInFlight
<1>1. IInv => OneInFlight
  BY FlightIsOne DEF IInv
<1> QED  BY Inductive, <1>1, PTL

\* No manager is sent a result that is not newer than all it has heard of: the
\* branch of done_compiling for older runs is never taken.
THEOREM NoResultIsOld == Spec => []ResultsAreNews
<1>1. IInv => ResultsAreNews
  BY DEF IInv
<1> QED  BY Inductive, <1>1, PTL

\* Each run is for one manager, and a manager's runs only increase.
THEOREM RunsIncrease == Spec => RunsAreUnique
<1> DEFINE Unique ==
      \A m, n \in Managers : compileRun'[m] # compileRun[m] =>
        compileRun'[m] > compileRun[m] /\ (n # m => compileRun'[m] # compileRun'[n])
<1>1. ASSUME IInv, [Next]_vars
      PROVE  Unique
  <2>1. ASSUME NEW k \in Managers, Done(k)
        PROVE  Unique
    <3>1. /\ Len(finished[k]) = 1 /\ compileRun[k] < finished[k][1].run
          /\ finished[k][1].run \in Nat
          /\ compileRun' = [compileRun EXCEPT ![k] = finished[k][1].run]
      BY <1>1, <2>1, DoneTakesNews
    <3>2. compileRun \in [Managers -> Nat]
      BY <1>1 DEF IInv, TypeOK
    <3>3. \A n \in Managers : n # k => finished[k][1].run # compileRun[n]
      <4>1. 1 \in 1..Len(finished[k])
        BY <3>1
      <4> QED  BY <1>1, <4>1 DEF IInv, RunsApart
    <3> QED  BY <3>1, <3>2, <3>3
  <2>2. CASE \E m \in Managers : Done(m)
    BY <2>1, <2>2
  <2>3. CASE ~\E m \in Managers : Done(m)
    <3>1. compileRun' = compileRun
      BY <1>1, <2>3 DEF Next, vars, Ask, CompilerStep
    <3> QED  BY <3>1
  <2> QED  BY <2>2, <2>3
<1>2. IInv /\ [Next]_vars => [Unique]_vars
  BY <1>1
<1> QED  BY Inductive, <1>2, PTL DEF Spec, RunsAreUnique
==============================================================================
