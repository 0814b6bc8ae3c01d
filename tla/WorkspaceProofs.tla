---------------------------- MODULE WorkspaceProofs ----------------------------
(***************************************************************************)
(* A workspace manager, with its client and all its documents, keeps to    *)
(* the protocol between managers and compiler, whatever the files, the     *)
(* texts, the packages and the other managers are.  And what it knows of   *)
(* its documents, and what it answers from that, is about the texts the    *)
(* client has and the disk holds.                                          *)
(***************************************************************************)
EXTENDS Requests, SequenceTheorems, FiniteSetTheorems, WellFoundedInduction, TLAPS

Message ==
  [kind : {"open", "change", "save", "close"}, file : Files, text : Texts, version : Nat]

\* A result of one of these outcomes.
ResultOf(Outcomes) == [package : Packages, result : Outcomes, run : Nat \ {0}]

\* What a compile found: in each package of the program the texts of its files,
\* or errors in files.
IsOutcome(x) ==
  IF x.ok THEN /\ DOMAIN x.program \subseteq Packages
               /\ \A p \in DOMAIN x.program : x.program[p] \in [FilesIn(p) -> Texts]
  ELSE DOMAIN x.errors \subseteq Files /\ \A f \in DOMAIN x.errors : x.errors[f] \in Nat \ {0}

Finished(results) ==
  \E Outcomes : /\ results \in [Managers -> Seq(ResultOf(Outcomes))]
                /\ \A x \in Outcomes : IsOutcome(x)

Typed ==
  /\ mailbox \in Seq(Request) /\ pending \in Seq(Request)
  /\ nextRun \in Nat \ {0}
  /\ Finished(finished)
  /\ budget \in Nat
  /\ disk \in [Files -> Texts] /\ buffer \in [Files -> Texts]
  /\ version \in [Files -> Nat]
  /\ wire \in Seq(Message)
  /\ compiling \in [Managers -> BOOLEAN]
  /\ compileRun \in [Managers -> Nat]
  /\ DOMAIN awaiting \subseteq Files

\* Every compile asked for is paid for by an act of the client or of another
\* manager: no step of this one asks for two.
Paid == nextRun - 1 + Len(mailbox) + Len(pending) + Len(wire) + budget <= Budget

IInv == Typed /\ Paid

------------------------------------------------------------------------------
(* Sequences of requests, messages and results.                            *)

LEMMA RemoveAtProperties ==
  ASSUME NEW S, NEW s \in Seq(S), NEW i \in 1..Len(s)
  PROVE  RemoveAt(s, i) \in Seq(S) /\ Len(RemoveAt(s, i)) = Len(s) - 1
<1> DEFINE a == SubSeq(s, 1, i - 1)
           b == SubSeq(s, i + 1, Len(s))
<1>1. Len(s) \in Nat /\ i \in Nat /\ i >= 1 /\ i <= Len(s)
  OBVIOUS
<1>2. a \in Seq(S) /\ Len(a) = i - 1
  <2>1. \A k \in 1..(i - 1) : s[k] \in S
    OBVIOUS
  <2>2. 1 \in Int /\ i - 1 \in Int
    BY <1>1
  <2>3. a \in Seq(S) /\ Len(a) = IF 1 <= i - 1 THEN (i - 1) - 1 + 1 ELSE 0
    BY <2>1, <2>2, SubSeqProperties
  <2> HIDE DEF a
  <2> QED  BY <1>1, <2>3
<1>3. b \in Seq(S) /\ Len(b) = Len(s) - i
  <2>1. \A k \in (i + 1)..Len(s) : s[k] \in S
    BY <1>1
  <2>2. i + 1 \in Int /\ Len(s) \in Int
    BY <1>1
  <2>3. b \in Seq(S) /\ Len(b) = IF i + 1 <= Len(s) THEN Len(s) - (i + 1) + 1 ELSE 0
    BY <2>1, <2>2, SubSeqProperties, Zenon
  <2> HIDE DEF b
  <2> QED  BY <1>1, <2>3
<1>4. RemoveAt(s, i) = a \o b
  BY DEF RemoveAt
<1> HIDE DEF a, b
<1>5. a \o b \in Seq(S) /\ Len(a \o b) = Len(a) + Len(b)
  BY <1>2, <1>3, ConcatProperties
<1> QED  BY <1>1, <1>2, <1>3, <1>4, <1>5

LEMMA OneRequest ==
  ASSUME NEW s \in Seq(Request), NEW m \in Managers, NEW p \in Packages
  PROVE  LET t == s \o <<[by |-> m, package |-> p]>>
         IN  t \in Seq(Request) /\ Len(t) = Len(s) + 1
<1>1. <<[by |-> m, package |-> p]>> \in Seq(Request) /\ Len(<<[by |-> m, package |-> p]>>) = 1
  BY DEF Request
<1> QED  BY <1>1, ConcatProperties

LEMMA ReverseProperties ==
  ASSUME NEW s \in Seq(Request)
  PROVE  Reverse(s) \in Seq(Request) /\ Len(Reverse(s)) = Len(s)
  BY DEF Reverse

\* A result without what was found is the same result of the protocol.
LEMMA BareAppend ==
  ASSUME NEW O, NEW s \in Seq(ResultOf(O)), NEW e \in ResultOf(O)
  PROVE  Bare(Append(s, e)) = Append(Bare(s), [package |-> e.package, result |-> None, run |-> e.run])
<1> DEFINE r == [package |-> e.package, result |-> None, run |-> e.run]
           t == Append(s, e)
<1>1. t \in Seq(ResultOf(O)) /\ Len(t) = Len(s) + 1 /\ Len(s) \in Nat
      /\ (\A i \in 1..Len(s) : t[i] = s[i]) /\ t[Len(s) + 1] = e
  OBVIOUS
<1>2. [e EXCEPT !.result = None] = r
  BY DEF ResultOf
<1>3. Bare(s) \in Seq({[s[i] EXCEPT !.result = None] : i \in 1..Len(s)}) /\ Len(Bare(s)) = Len(s)
  BY <1>1 DEF Bare
<1> DEFINE b == Append(Bare(s), r)
<1>4. DOMAIN b = 1..(Len(s) + 1) /\ b = [i \in 1..(Len(s) + 1) |-> b[i]]
      /\ (\A i \in 1..Len(s) : b[i] = Bare(s)[i]) /\ b[Len(s) + 1] = r
  BY <1>3, <1>1
<1>5. Bare(t) = [i \in 1..(Len(s) + 1) |-> [t[i] EXCEPT !.result = None]]
  BY <1>1 DEF Bare
<1> HIDE DEF b, t
<1>6. \A i \in 1..(Len(s) + 1) : [t[i] EXCEPT !.result = None] = b[i]
  <2> TAKE i \in 1..(Len(s) + 1)
  <2>1. CASE i \in 1..Len(s)
    <3>1. b[i] = [s[i] EXCEPT !.result = None]
      BY <1>4, <2>1 DEF Bare
    <3> QED  BY <1>1, <2>1, <3>1
  <2>2. CASE i = Len(s) + 1
    BY <1>1, <1>2, <1>4, <2>2
  <2> QED  BY <1>1, <2>1, <2>2
<1>7. Bare(t) = b
  BY <1>4, <1>5, <1>6
<1> QED  BY <1>7 DEF b, t

LEMMA BareTail ==
  ASSUME NEW O, NEW s \in Seq(ResultOf(O)), s # <<>>
  PROVE  /\ Bare(Tail(s)) = Tail(Bare(s))
         /\ Bare(s) # <<>>
         /\ Head(Bare(s)).run = Head(s).run
         /\ Head(s) \in ResultOf(O) /\ Tail(s) \in Seq(ResultOf(O))
<1>1. Len(s) \in Nat \ {0} /\ Head(s) \in ResultOf(O) /\ Tail(s) \in Seq(ResultOf(O))
      /\ Len(Tail(s)) = Len(s) - 1 /\ Head(s) = s[1]
      /\ \A i \in 1..(Len(s) - 1) : Tail(s)[i] = s[i + 1]
  OBVIOUS
<1>2. /\ Bare(s) \in Seq({[s[i] EXCEPT !.result = None] : i \in 1..Len(s)})
      /\ Len(Bare(s)) = Len(s) /\ \A i \in 1..Len(s) : Bare(s)[i] = [s[i] EXCEPT !.result = None]
  BY <1>1 DEF Bare
<1>3. Bare(s) # <<>> /\ Head(Bare(s)) = Bare(s)[1]
  BY <1>1, <1>2
<1>4. Head(Bare(s)).run = Head(s).run
  <2>1. \A e \in ResultOf(O) : [e EXCEPT !.result = None].run = e.run
    BY DEF ResultOf
  <2>2. 1 \in 1..Len(s)
    BY <1>1
  <2>3. Bare(s)[1] = [s[1] EXCEPT !.result = None]
    BY <1>2, <2>2, Zenon
  <2>4. Head(Bare(s)) = [Head(s) EXCEPT !.result = None]
    BY <1>1, <1>3, <2>3, Zenon
  <2> QED  BY <1>1, <2>1, <2>4
<1>5. Tail(Bare(s)) = [i \in 1..(Len(s) - 1) |-> Bare(s)[i + 1]]
  <2> DEFINE R == {[s[i] EXCEPT !.result = None] : i \in 1..Len(s)}
             b == Bare(s)
  <2>1. b \in Seq(R) /\ b # <<>> /\ Len(b) = Len(s)
    BY <1>2, <1>3
  <2> HIDE DEF R, b
  <2>2. /\ Tail(b) \in Seq(R) /\ Len(Tail(b)) = Len(s) - 1
        /\ \A i \in 1..Len(Tail(b)) : Tail(b)[i] = b[i + 1]
    BY <2>1, HeadTailProperties
  <2>3. Tail(b) = [i \in 1..(Len(s) - 1) |-> Tail(b)[i]]
    <3>1. \A t \in Seq(R) : t = [i \in 1..Len(t) |-> t[i]]
      OBVIOUS
    <3> QED  BY <2>2, <3>1, Zenon
  <2>4. Tail(b) = [i \in 1..(Len(s) - 1) |-> b[i + 1]]
    BY <2>2, <2>3
  <2> QED  BY <2>4 DEF b
<1>6. Bare(Tail(s)) = [i \in 1..(Len(s) - 1) |-> [Tail(s)[i] EXCEPT !.result = None]]
  BY <1>1 DEF Bare
<1>7. \A i \in 1..(Len(s) - 1) : Bare(s)[i + 1] = [Tail(s)[i] EXCEPT !.result = None]
  BY <1>1, <1>2
<1>8. Bare(Tail(s)) = Tail(Bare(s))
  BY <1>5, <1>6, <1>7
<1> QED  BY <1>1, <1>3, <1>4, <1>8

------------------------------------------------------------------------------
(* The protocol.                                                           *)

LEMMA InitKeeps == Init => IInv /\ Protocol!Init
<1> SUFFICES ASSUME Init PROVE IInv /\ Protocol!Init
  OBVIOUS
<1> USE WorkspaceAssumption DEF Init, CompilerInit, FirstRun
<1>1. /\ mailbox \in Seq(Request) /\ pending \in Seq(Request) /\ nextRun = 1
      /\ budget = Budget /\ Budget \in Nat /\ wire \in Seq(Message)
      /\ Len(mailbox) = 0 /\ Len(pending) = 0 /\ Len(wire) = 0
  OBVIOUS
<1>2. Finished(finished)
  <2>1. finished \in [Managers -> Seq(ResultOf({}))]
    OBVIOUS
  <2>2. \A x \in {} : IsOutcome(x)
    OBVIOUS
  <2> HIDE DEF Init, CompilerInit
  <2> QED  BY <2>1, <2>2 DEF Finished
<1>3. DOMAIN awaiting \subseteq Files
  OBVIOUS
<1>4. Typed
  BY <1>1, <1>2, <1>3 DEF Typed
<1>5. Told = [m \in Managers |-> <<>>]
  BY DEF Told, Bare
<1>6. Protocol!Init
  BY <1>5 DEF Protocol!Init, Protocol!CompilerInit, Protocol!FirstRun
<1>7. Paid
  BY <1>1 DEF Paid
<1> HIDE DEF Init, CompilerInit, FirstRun
<1> QED  BY <1>4, <1>6, <1>7 DEF IInv

\* The packages documents are found in are packages.
LEMMA FindsPackages ==
  ASSUME NEW f \in Files
  PROVE  FindPackage(f) \in Packages \cup {None}
<1>1. Above(f) \in Seq(Packages)
  BY WorkspaceAssumption
<1>2. \A k \in 1..Len(Above(f)) : Above(f)[k] \in Packages
  BY <1>1
<1> QED  BY <1>2 DEF FindPackage

\* What the client does is paid for from the budget, and is nothing to the
\* protocol.
LEMMA ClientKeeps ==
  ASSUME IInv,
         \/ \E f \in Files : Open(f)
         \/ \E f \in Files, text \in Texts : Edit(f, text)
         \/ \E f \in Files : Save(f)
         \/ \E f \in Files : Close(f)
         \/ \E f \in Files, text \in Texts : WriteFile(f, text)
  PROVE  IInv' /\ UNCHANGED Protocol!vars
<1>1. /\ UNCHANGED <<compilerVars, compiling, compileRun, awaiting>>
      /\ budget > 0 /\ budget' = budget - 1
  BY DEF Open, Edit, Save, Close, WriteFile, Act, managerVars
<1>2. /\ disk' \in [Files -> Texts] /\ buffer' \in [Files -> Texts]
      /\ version' \in [Files -> Nat]
  <2>1. /\ disk \in [Files -> Texts] /\ buffer \in [Files -> Texts]
        /\ version \in [Files -> Nat]
    BY DEF IInv, Typed
  <2>2. ASSUME NEW f \in Files, Open(f) \/ Save(f) \/ Close(f)
        PROVE  /\ disk' \in [Files -> Texts] /\ buffer' \in [Files -> Texts]
               /\ version' \in [Files -> Nat]
    BY <2>1, <2>2 DEF Open, Save, Close
  <2>3. ASSUME NEW f \in Files, NEW text \in Texts, Edit(f, text) \/ WriteFile(f, text)
        PROVE  /\ disk' \in [Files -> Texts] /\ buffer' \in [Files -> Texts]
               /\ version' \in [Files -> Nat]
    BY <2>1, <2>3 DEF Edit, WriteFile
  <2> QED  BY <2>2, <2>3
<1>3. wire' \in Seq(Message) /\ Len(wire') <= Len(wire) + 1
  <2>1. wire \in Seq(Message)
    BY DEF IInv, Typed
  <2>2. CASE wire' = wire
    BY <2>1, <2>2
  <2>3. ASSUME NEW e \in Message, wire' = Append(wire, e)
        PROVE  wire' \in Seq(Message) /\ Len(wire') <= Len(wire) + 1
    BY <2>1, <2>3
  <2>4. ASSUME NEW kind \in {"open", "change", "save", "close"}, NEW f \in Files,
               NEW text \in Texts, NEW v \in Nat, Say(kind, f, text, v)
        PROVE  wire' \in Seq(Message) /\ Len(wire') <= Len(wire) + 1
    <3>1. [kind |-> kind, file |-> f, text |-> text, version |-> v] \in Message
      BY DEF Message
    <3> QED  BY <2>3, <2>4, <3>1 DEF Say
  <2>5. ASSUME NEW f \in Files, Open(f)
        PROVE  wire' \in Seq(Message) /\ Len(wire') <= Len(wire) + 1
    <3>1. disk[f] \in Texts /\ 1 \in Nat
      BY DEF IInv, Typed
    <3> QED  BY <2>4, <2>5, <3>1 DEF Open
  <2>6. ASSUME NEW f \in Files, NEW text \in Texts, Edit(f, text)
        PROVE  wire' \in Seq(Message) /\ Len(wire') <= Len(wire) + 1
    <3>1. version[f] + 1 \in Nat
      BY DEF IInv, Typed
    <3> QED  BY <2>4, <2>6, <3>1 DEF Edit
  <2>7. ASSUME NEW f \in Files, Save(f)
        PROVE  wire' \in Seq(Message) /\ Len(wire') <= Len(wire) + 1
    <3>1. buffer[f] \in Texts /\ version[f] \in Nat
      BY DEF IInv, Typed
    <3> QED  BY <2>4, <2>7, <3>1 DEF Save
  <2>8. ASSUME NEW f \in Files, Close(f)
        PROVE  wire' \in Seq(Message) /\ Len(wire') <= Len(wire) + 1
    <3>1. disk[f] \in Texts /\ version[f] \in Nat
      BY DEF IInv, Typed
    <3> QED  BY <2>4, <2>8, <3>1 DEF Close
  <2>9. ASSUME NEW f \in Files, NEW text \in Texts, WriteFile(f, text)
        PROVE  wire' = wire
    BY <2>9 DEF WriteFile
  <2> QED  BY <2>2, <2>5, <2>6, <2>7, <2>8, <2>9
<1>4. Finished(finished')
  BY <1>1 DEF compilerVars, IInv, Typed
<1>5. Typed'
  BY <1>1, <1>2, <1>3, <1>4 DEF compilerVars, IInv, Typed
<1>6. Paid'
  <2>1. /\ Len(wire) \in Nat /\ Len(wire') \in Nat /\ Len(mailbox) \in Nat
        /\ Len(pending) \in Nat /\ budget \in Nat /\ nextRun \in Nat /\ Budget \in Nat
    BY <1>3, WorkspaceAssumption DEF IInv, Typed
  <2> QED  BY <1>1, <1>3, <2>1 DEF compilerVars, IInv, Paid
<1>7. Told' = Told
  BY <1>1 DEF compilerVars, Told
<1>8. UNCHANGED Protocol!vars
  BY <1>1, <1>7 DEF compilerVars, Protocol!vars
<1> QED  BY <1>5, <1>6, <1>8 DEF IInv

\* A message handled pays for the compile its handler may ask for.
LEMMA HandlerKeeps ==
  ASSUME IInv, NEW i \in 1..Len(wire), Handled(i),
         NEW p \in Packages, NEW f \in Files, NEW hash,
         AskOrAwait(p, f, hash) \/ UNCHANGED <<mailbox, compiling, awaiting>>
  PROVE  IInv' /\ (UNCHANGED Protocol!vars \/ Protocol!Ask(Here, p))
<1>1. /\ mailbox \in Seq(Request) /\ pending \in Seq(Request) /\ Here \in Managers
      /\ Len(wire) \in Nat /\ Len(mailbox) \in Nat /\ Len(pending) \in Nat
      /\ budget \in Nat /\ nextRun \in Nat /\ Budget \in Nat
  BY WorkspaceAssumption DEF IInv, Typed
<1>2. /\ UNCHANGED <<clientVars, gotSettings, pending, nextRun, finished, compileRun, Told>>
      /\ wire' \in Seq(Message) /\ Len(wire') = Len(wire) - 1 /\ Len(wire) >= 1
  <2>1. wire \in Seq(Message) /\ wire' = RemoveAt(wire, i)
    BY DEF Handled, IInv, Typed
  <2>2. RemoveAt(wire, i) \in Seq(Message) /\ Len(RemoveAt(wire, i)) = Len(wire) - 1
    BY <2>1, RemoveAtProperties
  <2>3. UNCHANGED <<clientVars, gotSettings, pending, nextRun, finished, compileRun, Told>>
    BY DEF Handled, Told
  <2>4. Len(wire) >= 1
    BY <1>1
  <2> QED  BY <2>1, <2>2, <2>3, <2>4
<1>3. Finished(finished')
  BY <1>2 DEF IInv, Typed
<1>4. CASE UNCHANGED <<mailbox, compiling>> /\ DOMAIN awaiting' \subseteq Files
  <2>1. Typed'
    BY <1>2, <1>3, <1>4 DEF clientVars, IInv, Typed
  <2>2. Paid'
    BY <1>1, <1>2, <1>4 DEF clientVars, IInv, Paid
  <2>3. UNCHANGED Protocol!vars
    BY <1>2, <1>4 DEF Protocol!vars
  <2> QED  BY <2>1, <2>2, <2>3 DEF IInv
<1>5. CASE ~Busy /\ AskOrAwait(p, f, hash)
  <2>1. /\ CompileAll(<<p>>) /\ compiling' = [compiling EXCEPT ![Here] = TRUE]
        /\ awaiting' = awaiting
    BY <1>5 DEF AskOrAwait
  <2>2. mailbox' = mailbox \o <<[by |-> Here, package |-> p]>>
    <3>1. [k \in 1..Len(<<p>>) |-> [by |-> Here, package |-> <<p>>[k]]]
            = <<[by |-> Here, package |-> p]>>
      OBVIOUS
    <3> QED  BY <2>1, <3>1 DEF CompileAll, Send
  <2>3. mailbox' \in Seq(Request) /\ Len(mailbox') = Len(mailbox) + 1
    BY <1>1, <2>2, OneRequest
  <2>4. Typed'
    BY <1>2, <1>3, <2>1, <2>3 DEF clientVars, IInv, Typed
  <2>5. Paid'
    BY <1>1, <1>2, <2>3 DEF clientVars, IInv, Paid
  <2>6. nextRun - 1 + Len(mailbox) + Len(pending) < Budget
    BY <1>1, <1>2 DEF IInv, Paid
  <2>7. ~compiling[Here]
    BY <1>5 DEF Busy
  <2>8. Protocol!Ask(Here, p)
    BY <1>2, <2>1, <2>2, <2>6, <2>7
    DEF Protocol!Ask, Protocol!MayAsk, Protocol!Requests, Protocol!Send
  <2> QED  BY <2>4, <2>5, <2>8 DEF IInv
<1>6. CASE Busy /\ AskOrAwait(p, f, hash)
  <2>1. awaiting' = PutAside(f, hash) /\ UNCHANGED <<mailbox, compiling>>
    BY <1>6 DEF AskOrAwait
  <2>2. DOMAIN awaiting' \subseteq Files
    BY <2>1 DEF IInv, Typed, PutAside
  <2> QED  BY <1>4, <2>1, <2>2
<1>7. CASE UNCHANGED <<mailbox, compiling, awaiting>>
  BY <1>4, <1>7 DEF IInv, Typed
<1> QED  BY <1>5, <1>6, <1>7

LEMMA MessagesKeep ==
  ASSUME IInv, NEW i \in 1..Len(wire),
         DidOpen(i) \/ DidChange(i) \/ DidSave(i) \/ DidClose(i)
  PROVE  IInv' /\ [Protocol!Next]_Protocol!vars
<1> DEFINE f == wire[i].file
           q == FindPackage(f)
<1>1. f \in Files /\ Here \in Managers
  <2>1. wire[i] \in Message
    BY DEF IInv, Typed
  <2> QED  BY <2>1, WorkspaceAssumption DEF Message
<1>2. q \in Packages \cup {None} /\ Dir(f) \in Packages
  BY <1>1, FindsPackages, WorkspaceAssumption
<1> DEFINE p == IF q = None THEN Dir(f) ELSE q
<1>3. p \in Packages
  BY <1>2
<1>4. /\ Handled(i)
      /\ \/ \E hash : AskOrAwait(p, f, hash)
         \/ UNCHANGED <<mailbox, compiling, awaiting>>
  <2>1. CASE DidOpen(i)
    BY <2>1 DEF DidOpen
  <2>2. CASE DidChange(i)
    BY <2>2 DEF DidChange
  <2>3. CASE DidSave(i)
    BY <2>3 DEF DidSave
  <2>4. CASE DidClose(i)
    BY <2>4 DEF DidClose
  <2> QED  BY <2>1, <2>2, <2>3, <2>4
<1> HIDE DEF f, p, q
<1>5. IInv' /\ (UNCHANGED Protocol!vars \/ Protocol!Ask(Here, p))
  BY <1>1, <1>3, <1>4, HandlerKeeps
<1> QED  BY <1>1, <1>3, <1>5 DEF Protocol!Next

\* A compile says of a program what is in its packages' files.
LEMMA IsOutcomeOf ==
  ASSUME IInv, NEW p \in Packages
  PROVE  IsOutcome(Outcome(p))
<1>1. /\ Uses(p) \subseteq Packages /\ disk \in [Files -> Texts]
      /\ \A text \in DoesNotCompile : ErrorsIn(text) \in Nat \ {0}
  BY WorkspaceAssumption DEF IInv, Typed
<1> DEFINE broken == {f \in UNION {FilesIn(q) : q \in Uses(p)} : disk[f] \in DoesNotCompile}
<1>2. broken \subseteq Files
  BY DEF FilesIn
<1>3. CASE broken = {}
  <2>1. /\ Outcome(p).ok
        /\ Outcome(p).program = [q \in Uses(p) |-> [f \in FilesIn(q) |-> disk[f]]]
    BY <1>3 DEF Outcome
  <2>2. \A q \in Uses(p) : [f \in FilesIn(q) |-> disk[f]] \in [FilesIn(q) -> Texts]
    BY <1>1 DEF FilesIn
  <2> QED  BY <1>1, <2>1, <2>2 DEF IsOutcome
<1>4. CASE broken # {}
  <2>1. ~Outcome(p).ok /\ Outcome(p).errors = [f \in broken |-> ErrorsIn(disk[f])]
    BY <1>4 DEF Outcome
  <2>2. \A f \in broken : ErrorsIn(disk[f]) \in Nat \ {0}
    BY <1>1
  <2> QED  BY <1>2, <2>1, <2>2 DEF IsOutcome
<1> QED  BY <1>3, <1>4

\* Of what waits for settings nothing is lost, and a compile says of a program
\* only what is in its packages.
LEMMA CompilerKeeps ==
  ASSUME IInv, CompilerStep
  PROVE  IInv' /\ Protocol!CompilerStep
<1>1. /\ mailbox \in Seq(Request) /\ pending \in Seq(Request)
      /\ Len(wire) \in Nat /\ Len(mailbox) \in Nat /\ Len(pending) \in Nat
      /\ budget \in Nat /\ nextRun \in Nat \ {0} /\ Budget \in Nat
  BY WorkspaceAssumption DEF IInv, Typed
<1>2. UNCHANGED <<clientVars, wire, compiling, compileRun, awaiting>>
  BY DEF CompilerStep, managerVars
<1>3. ASSUME mailbox' \in Seq(Request), pending' \in Seq(Request), nextRun' \in Nat \ {0},
             Finished(finished'),
             nextRun' + Len(mailbox') + Len(pending') = nextRun + Len(mailbox) + Len(pending)
      PROVE  IInv'
  <2>1. Typed'
    BY <1>2, <1>3 DEF clientVars, IInv, Typed
  <2>2. Len(mailbox') \in Nat /\ Len(pending') \in Nat
    BY <1>3
  <2>3. budget' = budget /\ wire' = wire /\ Paid
    BY <1>2 DEF clientVars, IInv
  <2>4. /\ nextRun' \in Nat
        /\ nextRun' + Len(mailbox') + Len(pending') = nextRun + Len(mailbox) + Len(pending)
    BY <1>3
  <2>5. nextRun - 1 + Len(mailbox) + Len(pending) + Len(wire) + budget <= Budget
    BY <2>3 DEF Paid
  <2>6. nextRun' - 1 + Len(mailbox') + Len(pending') + Len(wire) + budget <= Budget
    <3> DEFINE b == Len(mailbox)  c == Len(pending)  w == Len(wire)
               n == nextRun'      d == Len(mailbox') e == Len(pending')
    <3>1. /\ b \in Nat /\ c \in Nat /\ d \in Nat /\ e \in Nat /\ w \in Nat /\ n \in Nat
          /\ nextRun \in Nat /\ budget \in Nat /\ Budget \in Nat
          /\ n + d + e = nextRun + b + c
          /\ nextRun - 1 + b + c + w + budget <= Budget
      BY <1>1, <2>2, <2>4, <2>5
    <3> HIDE DEF b, c, d, e, w, n
    <3>2. n - 1 + d + e + w + budget <= Budget
      BY <3>1
    <3> QED  BY <3>2 DEF n, d, e, w
  <2>7. Paid'
    BY <2>3, <2>6 DEF Paid
  <2> QED  BY <2>1, <2>7 DEF IInv
<1>4. ASSUME UNCHANGED finished PROVE Finished(finished') /\ Told' = Told
  BY <1>4 DEF IInv, Typed, Told
<1>5. CASE ApplySettings
  <2>1. /\ mailbox' = mailbox \o Reverse(pending) /\ pending' = <<>>
        /\ UNCHANGED <<nextRun, finished>>
    BY <1>5 DEF ApplySettings, Send, Released
  <2>2. Reverse(pending) \in Seq(Request) /\ Len(Reverse(pending)) = Len(pending)
    BY <1>1, ReverseProperties
  <2>3. mailbox' \in Seq(Request) /\ Len(mailbox') = Len(mailbox) + Len(pending)
    <3>1. PICK r \in Seq(Request) : r = Reverse(pending)
      BY <2>2
    <3>2. mailbox \o r \in Seq(Request) /\ Len(mailbox \o r) = Len(mailbox) + Len(r)
      BY <1>1, ConcatProperties
    <3> QED  BY <2>1, <2>2, <3>1, <3>2
  <2>4. pending' \in Seq(Request) /\ Len(pending') = 0
    BY <2>1
  <2>5. IInv'
    BY <1>1, <1>3, <1>4, <2>1, <2>3, <2>4
  <2>6. Protocol!ApplySettings
    BY <1>4, <1>5, <2>1 DEF ApplySettings, Protocol!ApplySettings, Protocol!Send, Protocol!Released,
        Reverse, Protocol!Reverse
  <2> QED  BY <1>2, <2>5, <2>6 DEF Protocol!CompilerStep
<1>6. CASE Defer
  <2>1. /\ mailbox # <<>> /\ pending' = Append(pending, Head(mailbox))
        /\ mailbox' = Tail(mailbox) /\ UNCHANGED <<nextRun, finished>>
    BY <1>6 DEF Defer
  <2>2. /\ Head(mailbox) \in Request /\ mailbox' \in Seq(Request)
        /\ Len(mailbox') = Len(mailbox) - 1
    BY <1>1, <2>1, HeadTailProperties
  <2>3. pending' \in Seq(Request) /\ Len(pending') = Len(pending) + 1
    BY <1>1, <2>1, <2>2, AppendProperties
  <2>4. IInv'
    BY <1>1, <1>3, <1>4, <2>1, <2>2, <2>3
  <2>5. Protocol!Defer
    BY <1>4, <1>6 DEF Defer, Protocol!Defer
  <2> QED  BY <1>2, <2>4, <2>5 DEF Protocol!CompilerStep
<1>7. CASE Compile(Outcome(Head(mailbox).package))
  <2> DEFINE r == Head(mailbox)
             x == Outcome(r.package)
             e == [package |-> r.package, result |-> x, run |-> nextRun]
  <2>1. /\ mailbox # <<>> /\ gotSettings
        /\ finished' = [finished EXCEPT ![r.by] = Append(@, e)]
        /\ nextRun' = nextRun + 1 /\ mailbox' = Tail(mailbox)
        /\ UNCHANGED <<gotSettings, pending>>
    BY <1>7 DEF Compile, RunAfter
  <2>2. /\ r \in Request /\ mailbox' \in Seq(Request) /\ Len(mailbox') = Len(mailbox) - 1
    BY <1>1, <2>1, HeadTailProperties
  <2>3. IsOutcome(x)
    <3>1. r.package \in Packages
      BY <2>2 DEF Request
    <3>2. PICK q \in Packages : q = r.package
      BY <3>1
    <3> QED  BY <3>2, IsOutcomeOf
  <2> HIDE DEF x
  <2>4. PICK O : finished \in [Managers -> Seq(ResultOf(O))] /\ \A y \in O : IsOutcome(y)
    BY Zenon DEF IInv, Typed, Finished
  <2>5. e \in ResultOf(O \cup {x})
    BY <1>1, <2>2 DEF ResultOf, Request
  <2>6. \A m \in Managers : finished[m] \in Seq(ResultOf(O \cup {x}))
    <3>1. ResultOf(O) \subseteq ResultOf(O \cup {x})
      BY DEF ResultOf
    <3> DEFINE A == ResultOf(O)
               B == ResultOf(O \cup {x})
    <3>2. \A m \in Managers : finished[m] \in Seq(A)
      BY <2>4
    <3> HIDE DEF A, B
    <3>3. A \subseteq B
      BY <3>1 DEF A, B
    <3>4. \A s \in Seq(A) : s \in Seq(B)
      BY <3>3
    <3>5. \A m \in Managers : finished[m] \in Seq(B)
      BY <3>2, <3>4
    <3> QED  BY <3>5 DEF B
  <2>7. r.by \in Managers
    BY <2>2 DEF Request
  <2> HIDE DEF e, r
  <2>8. finished' \in [Managers -> Seq(ResultOf(O \cup {x}))]
    <3>1. Append(finished[r.by], e) \in Seq(ResultOf(O \cup {x}))
      BY <2>5, <2>6, <2>7, AppendProperties
    <3>2. DOMAIN finished = Managers /\ finished = [m \in Managers |-> finished[m]]
      BY <2>4
    <3> QED  BY <2>1, <2>6, <2>7, <3>1, <3>2
  <2>9. Finished(finished')
    <3>1. \A y \in O \cup {x} : IsOutcome(y)
      BY <2>3, <2>4
    <3> QED  BY <2>8, <3>1, Zenon DEF Finished
  <2>10. IInv'
    <3>1. pending' \in Seq(Request) /\ nextRun' \in Nat \ {0}
      BY <1>1, <2>1
    <3> QED  BY <1>1, <1>3, <2>1, <2>2, <2>9, <3>1
  <2>11. Told' = [Told EXCEPT ![r.by] =
                   Append(@, [package |-> r.package, result |-> None, run |-> nextRun])]
    <3>1. e.package = r.package /\ e.run = nextRun
      BY DEF e
    <3>2. Bare(Append(finished[r.by], e)) =
            Append(Bare(finished[r.by]), [package |-> r.package, result |-> None, run |-> nextRun])
      BY <2>5, <2>6, <2>7, <3>1, BareAppend
    <3>3. \A m \in Managers :
            finished'[m] = IF m = r.by THEN Append(finished[m], e) ELSE finished[m]
      BY <2>1, <2>4
    <3> QED  BY <2>7, <3>2, <3>3 DEF Told
  <2>12. Protocol!Compile(None)
    BY <2>1, <2>11 DEF Protocol!Compile, Protocol!RunAfter, r
  <2> QED  BY <1>2, <2>10, <2>12 DEF Protocol!CompilerStep
<1> QED  BY <1>5, <1>6, <1>7 DEF CompilerStep

\* A result taken is the same result taken from the protocol's managers.
LEMMA TakeKeeps ==
  ASSUME IInv, NEW m \in Managers, finished[m] # <<>>, Take(m)
  PROVE  /\ Finished(finished')
         /\ Told' = [Told EXCEPT ![m] = Tail(@)]
         /\ Told[m] # <<>>
         /\ Head(Told[m]).run = Head(finished[m]).run
         /\ Head(finished[m]).run \in Nat /\ Head(finished[m]).package \in Packages
         /\ IsOutcome(Head(finished[m]).result)
<1>1. PICK O : finished \in [Managers -> Seq(ResultOf(O))] /\ \A y \in O : IsOutcome(y)
  BY Zenon DEF IInv, Typed, Finished
<1> DEFINE R == ResultOf(O)
<1>2. /\ finished[m] \in Seq(R) /\ finished' = [finished EXCEPT ![m] = Tail(@)]
      /\ Tail(finished[m]) \in Seq(R) /\ Head(finished[m]) \in R
  <2>1. finished[m] \in Seq(R)
    BY <1>1
  <2> HIDE DEF R
  <2> QED  BY <2>1, HeadTailProperties DEF Take
<1>3. finished' \in [Managers -> Seq(R)]
  <2>1. finished \in [Managers -> Seq(R)]
    BY <1>1
  <2> HIDE DEF R
  <2> QED  BY <1>2, <2>1
<1>4. Finished(finished')
  BY <1>1, <1>3, Zenon DEF Finished
<1>5. /\ Bare(Tail(finished[m])) = Tail(Bare(finished[m])) /\ Bare(finished[m]) # <<>>
      /\ Head(Bare(finished[m])).run = Head(finished[m]).run
  BY <1>2, BareTail
<1>6. Told[m] = Bare(finished[m])
  BY DEF Told
<1>7. Told' = [Told EXCEPT ![m] = Tail(@)]
  <2>1. \A n \in Managers : finished'[n] = IF n = m THEN Tail(finished[n]) ELSE finished[n]
    BY <1>1, <1>2
  <2> QED  BY <1>5, <2>1 DEF Told
<1>8. Head(finished[m]).run \in Nat /\ Head(finished[m]).package \in Packages
      /\ Head(finished[m]).result \in O
  BY <1>2 DEF ResultOf
<1> QED  BY <1>1, <1>4, <1>5, <1>6, <1>7, <1>8

\* The files put aside are put aside under their own names, and are never
\* found in a package: a result never starts another compile.
LEMMA NothingAgain ==
  ASSUME IInv, NEW pkgs, NEW program, DOMAIN program \subseteq Packages
  PROVE  {p \in DOMAIN program : IsOutdated(pkgs, p)} = {}
<1>1. \A f \in DOMAIN awaiting : Base(f) \notin Packages
  BY WorkspaceAssumption DEF IInv, Typed
<1>2. \A p \in DOMAIN program : Awaited(pkgs, p) = {}
  BY <1>1 DEF Awaited, AwaitedIn
<1> QED  BY <1>2 DEF IsOutdated

LEMMA DoneKeeps ==
  ASSUME IInv, DoneOk \/ DoneFailed
  PROVE  IInv' /\ Protocol!Done(Here)
<1> DEFINE done == Head(finished[Here])
<1>1. /\ Here \in Managers /\ finished[Here] # <<>> /\ Take(Here)
      /\ UNCHANGED <<clientVars, wire, gotSettings, pending, nextRun>>
  BY WorkspaceAssumption DEF DoneOk, DoneFailed, DoneStep
<1>2. /\ Finished(finished') /\ Told' = [Told EXCEPT ![Here] = Tail(@)]
      /\ Told[Here] # <<>> /\ Head(Told[Here]).run = done.run
      /\ done.run \in Nat /\ IsOutcome(done.result)
  BY <1>1, TakeKeeps
<1>3. compileRun' = [compileRun EXCEPT ![Here] = IF done.run > @ THEN done.run ELSE @]
  <2>1. CASE IsNews(done.run)
    BY <2>1 DEF DoneOk, DoneFailed, IsNews
  <2>2. CASE ~IsNews(done.run)
    <3>1. compileRun' = compileRun
      BY <2>2 DEF DoneOk, DoneFailed
    <3> QED  BY <2>2, <3>1 DEF IsNews, IInv, Typed
  <2> QED  BY <2>1, <2>2
<1>4. /\ mailbox' = mailbox /\ compiling' = [compiling EXCEPT ![Here] = FALSE]
      /\ DOMAIN awaiting' \subseteq DOMAIN awaiting
  <2>1. CASE DoneFailed \/ (DoneOk /\ ~IsNews(done.run))
    BY <2>1 DEF DoneFailed, DoneOk
  <2>2. CASE DoneOk /\ IsNews(done.run)
    <3> DEFINE pkgs == WithRun(done.run, done.result.program)
               again == {p \in DOMAIN done.result.program : IsOutdated(pkgs, p)}
    <3>1. /\ CompileAll([i \in 1..Cardinality(again) |-> done.package])
          /\ compiling' = [compiling EXCEPT ![Here] = again # {}]
          /\ DOMAIN awaiting' \subseteq DOMAIN awaiting
      BY <2>2 DEF DoneOk
    <3>2. DOMAIN done.result.program \subseteq Packages
      BY <1>2, <2>2 DEF DoneOk, IsOutcome
    <3> HIDE DEF pkgs
    <3>3. again = {}
      BY <3>2, NothingAgain
    <3> HIDE DEF again
    <3>4. Cardinality(again) = 0
      BY <3>3, FS_EmptySet
    <3>5. CompileAll(<<>>)
      <4>1. [i \in 1..0 |-> done.package] = <<>>
        OBVIOUS
      <4> QED  BY <3>1, <3>4, <4>1
    <3>6. mailbox' = mailbox \o <<>>
      <4>1. [i \in 1..Len(<<>>) |-> [by |-> Here, package |-> <<>>[i]]] = <<>>
        OBVIOUS
      <4> QED  BY <3>5, <4>1 DEF CompileAll, Send
    <3>7. mailbox' = mailbox
      BY <3>6, ConcatEmptySeq DEF IInv, Typed
    <3> QED  BY <3>1, <3>3, <3>7
  <2> QED  BY <2>1, <2>2
<1> HIDE DEF done
<1>5. Typed'
  BY <1>1, <1>2, <1>3, <1>4 DEF clientVars, IInv, Typed
<1>6. Paid'
  BY <1>1, <1>4 DEF clientVars, IInv, Paid
<1>7. Protocol!Done(Here)
  BY <1>1, <1>2, <1>3, <1>4 DEF Protocol!Done, Protocol!Take
<1> QED  BY <1>5, <1>6, <1>7 DEF IInv

\* What the other managers do is a step of the protocol by itself.
LEMMA OthersKeep ==
  ASSUME IInv, NEW m \in Managers, (\E p \in Packages : OtherAsks(m, p)) \/ OtherDone(m)
  PROVE  IInv' /\ ((\E p \in Packages : Protocol!Ask(m, p)) \/ Protocol!Done(m))
<1>1. /\ mailbox \in Seq(Request) /\ pending \in Seq(Request)
      /\ Len(wire) \in Nat /\ Len(mailbox) \in Nat /\ Len(pending) \in Nat
      /\ budget \in Nat /\ nextRun \in Nat /\ Budget \in Nat
  BY WorkspaceAssumption DEF IInv, Typed
<1>2. ASSUME NEW p \in Packages, OtherAsks(m, p)
      PROVE  IInv' /\ Protocol!Ask(m, p)
  <2>1. /\ budget > 0 /\ budget' = budget - 1 /\ ~compiling[m]
        /\ mailbox' = mailbox \o <<[by |-> m, package |-> p]>>
        /\ compiling' = [compiling EXCEPT ![m] = TRUE]
        /\ UNCHANGED <<gotSettings, pending, nextRun, finished, disk, buffer, version,
                       wire, awaiting, compileRun, Told>>
    BY <1>2 DEF OtherAsks, Send, Told
  <2>2. mailbox' \in Seq(Request) /\ Len(mailbox') = Len(mailbox) + 1
    BY <1>1, <2>1, OneRequest
  <2>3. Finished(finished')
    BY <2>1 DEF IInv, Typed
  <2>4. Typed'
    BY <1>1, <2>1, <2>2, <2>3 DEF IInv, Typed
  <2>5. Paid'
    BY <1>1, <2>1, <2>2 DEF IInv, Paid
  <2>6. nextRun - 1 + Len(mailbox) + Len(pending) < Budget
    BY <1>1, <2>1 DEF IInv, Paid
  <2>7. Protocol!Ask(m, p)
    BY <2>1, <2>6 DEF Protocol!Ask, Protocol!MayAsk, Protocol!Requests, Protocol!Send
  <2> QED  BY <2>4, <2>5, <2>7 DEF IInv
<1>3. CASE OtherDone(m)
  <2>1. /\ finished[m] # <<>> /\ Take(m) /\ compiling' = [compiling EXCEPT ![m] = FALSE]
        /\ compileRun' = [compileRun EXCEPT ![m] =
             IF Head(finished[m]).run > @ THEN Head(finished[m]).run ELSE @]
        /\ UNCHANGED <<gotSettings, pending, nextRun, mailbox, clientVars, wire, awaiting>>
    BY <1>3 DEF OtherDone
  <2>2. /\ Finished(finished') /\ Told' = [Told EXCEPT ![m] = Tail(@)]
        /\ Told[m] # <<>> /\ Head(Told[m]).run = Head(finished[m]).run
        /\ Head(finished[m]).run \in Nat
    BY <2>1, TakeKeeps
  <2>3. Typed'
    BY <2>1, <2>2 DEF clientVars, IInv, Typed
  <2>4. Paid'
    BY <2>1 DEF clientVars, IInv, Paid
  <2>5. Protocol!Done(m)
    BY <2>1, <2>2 DEF Protocol!Done, Protocol!Take
  <2> QED  BY <2>3, <2>4, <2>5 DEF IInv
<1> QED  BY <1>2, <1>3

LEMMA StepKeeps == IInv /\ [Next]_vars => IInv' /\ [Protocol!Next]_Protocol!vars
<1> SUFFICES ASSUME IInv, [Next]_vars
             PROVE  IInv' /\ [Protocol!Next]_Protocol!vars
  OBVIOUS
<1>1. CASE \/ \E f \in Files : Open(f)
           \/ \E f \in Files, text \in Texts : Edit(f, text)
           \/ \E f \in Files : Save(f)
           \/ \E f \in Files : Close(f)
           \/ \E f \in Files, text \in Texts : WriteFile(f, text)
  BY <1>1, ClientKeeps
<1>2. CASE \E i \in 1..Len(wire) : DidOpen(i) \/ DidChange(i) \/ DidSave(i) \/ DidClose(i)
  BY <1>2, MessagesKeep
<1>3. CASE DoneOk \/ DoneFailed
  <2>1. IInv' /\ Protocol!Done(Here) /\ Here \in Managers
    BY <1>3, DoneKeeps, WorkspaceAssumption
  <2> QED  BY <2>1 DEF Protocol!Next
<1>4. CASE \E m \in Others : (\E p \in Packages : OtherAsks(m, p)) \/ OtherDone(m)
  <2>1. PICK m \in Managers : (\E p \in Packages : OtherAsks(m, p)) \/ OtherDone(m)
    BY <1>4 DEF Others
  <2>2. IInv' /\ ((\E p \in Packages : Protocol!Ask(m, p)) \/ Protocol!Done(m))
    BY <2>1, OthersKeep
  <2> QED  BY <2>2 DEF Protocol!Next
<1>5. CASE CompilerStep
  BY <1>5, CompilerKeeps DEF Protocol!Next
<1>6. CASE UNCHANGED vars
  <2>1. UNCHANGED <<compilerVars, clientVars, wire, compiling, compileRun, awaiting, Told>>
    BY <1>6 DEF vars, managerVars, compilerVars, Told
  <2>2. Finished(finished')
    BY <2>1 DEF compilerVars, IInv, Typed
  <2>3. IInv'
    BY <2>1, <2>2 DEF compilerVars, clientVars, IInv, Typed, Paid
  <2>4. UNCHANGED Protocol!vars
    BY <2>1 DEF compilerVars, Protocol!vars
  <2> QED  BY <2>3, <2>4
<1> QED  BY <1>1, <1>2, <1>3, <1>4, <1>5, <1>6 DEF Next

------------------------------------------------------------------------------
(* What is proved.                                                         *)

\* The parts of the state that the manager and the compiler share are always
\* well typed, and every compile that was asked for is paid for.
THEOREM StateIsSound == Spec => []IInv
<1>1. Init => IInv
  BY InitKeeps
<1>2. IInv /\ [Next]_vars => IInv'
  BY StepKeeps
<1> QED  BY <1>1, <1>2, PTL DEF Spec

\* Every behaviour of the manager, with its client, its documents and the
\* compiler, is one of the protocol (workspace_manager.pony:139-150, 196-199).
THEOREM ManagerKeepsProtocol == Spec => KeepsProtocol
<1>1. Init => Protocol!Init
  BY InitKeeps
<1>2. IInv /\ [Next]_vars => [Protocol!Next]_Protocol!vars
  BY StepKeeps
<1> QED  BY <1>1, <1>2, StateIsSound, PTL DEF Spec, KeepsProtocol, Protocol!Spec

\* So what is proved of the protocol holds of the manager: `_compiling` says
\* whether a compile of it is on its way, and no result it takes is an old one
\* (workspace_manager.pony:144-154).
Proved == INSTANCE CompileProtocolProofs WITH
  NoResult <- None, MaxRuns <- Budget, finished <- Told

LEMMA SameProtocol == Spec => Proved!Spec
<1>1. Protocol!Init => Proved!Init
  BY DEF Protocol!Init, Protocol!CompilerInit, Protocol!FirstRun,
         Proved!Init, Proved!CompilerInit, Proved!FirstRun
<1>2. [Protocol!Next]_Protocol!vars => [Proved!Next]_Proved!vars
  BY DEF Protocol!Next, Protocol!vars, Protocol!Ask, Protocol!MayAsk, Protocol!Requests,
         Protocol!Send, Protocol!Done, Protocol!Take, Protocol!CompilerStep,
         Protocol!ApplySettings, Protocol!Released, Protocol!Reverse, Protocol!Defer,
         Protocol!Compile, Protocol!RunAfter,
         Proved!Next, Proved!vars, Proved!Ask, Proved!MayAsk, Proved!Requests,
         Proved!Send, Proved!Done, Proved!Take, Proved!CompilerStep,
         Proved!ApplySettings, Proved!Released, Proved!Reverse, Proved!Defer,
         Proved!Compile, Proved!RunAfter
<1> QED  BY ManagerKeepsProtocol, <1>1, <1>2, PTL DEF KeepsProtocol, Protocol!Spec, Proved!Spec

\* `_compiling` says whether a compile of the manager is on its way.
THEOREM ManagerHasOneCompile == Spec => []Proved!OneInFlight
  BY SameProtocol, Proved!OneCompileEach, PTL

\* What the manager is about to hear of is newer than all it has heard of: the
\* test for an old result (workspace_manager.pony:145) never drops one.
THEOREM ManagerHearsNews ==
  Spec => [](\A i \in 1..Len(finished[Here]) : IsNews(finished[Here][i].run))
<1>1. Proved!Spec => []Proved!ResultsAreNews
  BY Proved!NoResultIsOld
<1>2. IInv /\ Proved!ResultsAreNews => \A i \in 1..Len(finished[Here]) : IsNews(finished[Here][i].run)
  <2> SUFFICES ASSUME IInv, Proved!ResultsAreNews, NEW i \in 1..Len(finished[Here])
               PROVE  IsNews(finished[Here][i].run)
    OBVIOUS
  <2>1. PICK O : finished \in [Managers -> Seq(ResultOf(O))]
    BY Zenon DEF IInv, Typed, Finished
  <2>2. finished[Here] \in Seq(ResultOf(O)) /\ Here \in Managers
    BY <2>1, WorkspaceAssumption
  <2>3. finished[Here][i] \in ResultOf(O)
    BY <2>2
  <2>4. Told[Here] = Bare(finished[Here])
    BY <2>2 DEF Told
  <2>5. Len(Told[Here]) = Len(finished[Here]) /\ Told[Here][i].run = finished[Here][i].run
    BY <2>2, <2>3, <2>4 DEF Bare, ResultOf
  <2>6. compileRun[Here] < Told[Here][i].run
    BY <2>2, <2>5 DEF Proved!ResultsAreNews
  <2>7. compileRun[Here] \in Nat /\ finished[Here][i].run \in Nat
    BY <2>2, <2>3 DEF ResultOf, IInv, Typed
  <2> QED  BY <2>5, <2>6, <2>7 DEF IsNews
<1> QED  BY SameProtocol, StateIsSound, <1>1, <1>2, PTL

------------------------------------------------------------------------------
(* Packages and documents as values.                                       *)

Document ==
  [run : Nat, module : [run : Nat, thing : Texts \cup {None}],
   diagnostics : [run : Nat, thing : Nat \cup {None}],
   text : Texts \cup {None}, textVersion : Nat, clientVersion : Int, edited : BOOLEAN]

Documents == UNION {[D -> Document] : D \in SUBSET Files}

\* The state of the package of directory p.
Package(p) ==
  [run : Nat, program : [run : Nat, thing : [FilesIn(p) -> Texts] \cup {None}],
   docs : Documents]

\* A document is of no later run than its package, and of the same run if that
\* has a module for it: then it has that module.
Follows(pkg, f, doc) ==
  /\ doc.module.run = doc.run
  /\ doc.run <= pkg.run
  /\ ModuleOf(pkg, f) # None => doc.run = pkg.run /\ doc.module.thing = ModuleOf(pkg, f)
  /\ doc.run = pkg.run => doc.module.thing \in {None, ModuleOf(pkg, f)}

Sound(p, pkg) ==
  /\ pkg \in Package(p)
  /\ pkg.program.run = pkg.run
  /\ \A f \in DOMAIN pkg.docs : Follows(pkg, f, pkg.docs[f])

LEMMA DocsAreFunctions ==
  ASSUME NEW docs \in Documents
  PROVE  /\ DOMAIN docs \subseteq Files
         /\ docs \in [DOMAIN docs -> Document]
         /\ \A f \in DOMAIN docs : docs[f] \in Document
<1>1. PICK D \in SUBSET Files : docs \in [D -> Document]
  BY DEF Documents
<1>2. DOMAIN docs = D
  BY <1>1
<1> QED  BY <1>1, <1>2

LEMMA DocsMade ==
  ASSUME NEW docs, docs \in [DOMAIN docs -> Document], DOMAIN docs \subseteq Files
  PROVE  docs \in Documents
  BY DEF Documents

\* A new package, and what it has for a file.
LEMMA NewPackageSound ==
  ASSUME NEW p \in Packages
  PROVE  Sound(p, NewPackage) /\ DOMAIN NewPackage.docs = {}
<1>1. DOMAIN NewPackage.docs = {} /\ NewPackage.docs \in Documents
  <2>1. NewPackage.docs = <<>> /\ DOMAIN <<>> = {}
    BY DEF NewPackage
  <2>2. NewPackage.docs \in [{} -> Document]
    BY <2>1
  <2> QED  BY <2>1, <2>2 DEF Documents
<1>2. NewPackage \in Package(p)
  BY <1>1 DEF NewPackage, Package, Empty
<1>3. NewPackage.program.run = NewPackage.run
  BY DEF NewPackage, Empty
<1> QED  BY <1>1, <1>2, <1>3 DEF Sound

LEMMA ModuleOfSound ==
  ASSUME NEW p \in Packages, NEW pkg, Sound(p, pkg), NEW f
  PROVE  /\ ModuleOf(pkg, f) \in Texts \cup {None}
         /\ ModuleOf(pkg, f) # None => Dir(f) = p
<1>1. pkg.program.thing \in [FilesIn(p) -> Texts] \cup {None} /\ Program(pkg) = pkg.program.thing
  BY DEF Sound, Package, Program, Get
<1> QED  BY <1>1 DEF ModuleOf, FilesIn

\* A document with the module of a run no older than its own.
LEMMA WithModuleSound ==
  ASSUME NEW doc \in Document, NEW run \in Nat, doc.run <= run, doc.module.run = doc.run,
         NEW m \in Texts
  PROVE  LET d == WithModule(doc, run, m) IN
         /\ d \in Document /\ d.run = run /\ d.module.run = run /\ d.module.thing = m
         /\ d.text = doc.text /\ d.clientVersion = doc.clientVersion /\ d.edited = doc.edited
<1>1. doc.run \in Nat /\ doc.module \in [run : Nat, thing : Texts \cup {None}]
  BY DEF Document
<1>2. Updated(doc.module, run, m) = [run |-> run, thing |-> m]
  BY <1>1 DEF Updated
<1>3. WithModule(doc, run, m) = [doc EXCEPT !.run = run, !.module = [run |-> run, thing |-> m]]
  BY <1>1, <1>2 DEF WithModule
<1>4. [run |-> run, thing |-> m] \in [run : Nat, thing : Texts \cup {None}]
  OBVIOUS
<1> DEFINE x == [run |-> run, thing |-> m]
<1>5. x.run = run /\ x.thing = m
  OBVIOUS
<1> HIDE DEF x
<1>6. LET d == [doc EXCEPT !.run = run, !.module = x] IN
         /\ d \in Document /\ d.run = run /\ d.module = x
         /\ d.text = doc.text /\ d.clientVersion = doc.clientVersion /\ d.edited = doc.edited
  BY <1>4 DEF Document, x
<1> QED  BY <1>3, <1>5, <1>6 DEF x

LEMMA NewDocumentSound ==
  /\ NewDocument \in Document /\ NewDocument.run = 0 /\ NewDocument.module.run = 0
  /\ NewDocument.module.thing = None /\ NewDocument.text = None /\ NewDocument.edited = FALSE
<1>1. NewDocument \in Document
  BY DEF NewDocument, Document, Empty
<1> QED  BY <1>1 DEF NewDocument, Empty

\* A document that is made from what the package's last compile has.
LEMMA InsertedSound ==
  ASSUME NEW p \in Packages, NEW pkg, Sound(p, pkg), NEW f \in Files
  PROVE  LET d == Inserted(pkg, f) IN
         d \in Document /\ Follows(pkg, f, d) /\ d.text = None /\ d.edited = FALSE
<1>1. pkg.run \in Nat /\ ModuleOf(pkg, f) \in Texts \cup {None}
  BY ModuleOfSound DEF Sound, Package
<1>2. CASE ModuleOf(pkg, f) = None
  BY <1>1, <1>2, NewDocumentSound DEF Inserted, Follows
<1>3. CASE ModuleOf(pkg, f) # None
  <2>1. PICK m \in Texts : m = ModuleOf(pkg, f)
    BY <1>1, <1>3
  <2>2. Inserted(pkg, f) = WithModule(NewDocument, pkg.run, m)
    BY <1>3, <2>1 DEF Inserted
  <2>3. NewDocument.run <= pkg.run
    BY <1>1, NewDocumentSound
  <2>4. LET d == WithModule(NewDocument, pkg.run, m) IN
        /\ d \in Document /\ d.run = pkg.run /\ d.module.run = pkg.run /\ d.module.thing = m
        /\ d.text = None /\ d.edited = FALSE
    BY <1>1, <2>3, NewDocumentSound, WithModuleSound
  <2> QED  BY <1>1, <2>1, <2>2, <2>4 DEF Follows
<1> QED  BY <1>2, <1>3

\* A package with other documents.
LEMMA WithDocsSound ==
  ASSUME NEW p \in Packages, NEW pkg, Sound(p, pkg), NEW docs \in Documents,
         \A f \in DOMAIN docs : Follows(pkg, f, docs[f])
  PROVE  LET q == [pkg EXCEPT !.docs = docs] IN
         Sound(p, q) /\ q.run = pkg.run /\ q.program = pkg.program /\ q.docs = docs
<1> DEFINE q == [pkg EXCEPT !.docs = docs]
<1>1. q \in Package(p) /\ q.run = pkg.run /\ q.program = pkg.program /\ q.docs = docs
  BY DEF Sound, Package
<1> HIDE DEF q
<1>2. \A f : ModuleOf(q, f) = ModuleOf(pkg, f)
  BY <1>1 DEF ModuleOf, Program
<1>3. Sound(p, q)
  BY <1>1, <1>2 DEF Sound, Follows
<1> QED  BY <1>1, <1>3 DEF q

LEMMA WithDocumentSound ==
  ASSUME NEW p \in Packages, NEW pkg, Sound(p, pkg), NEW f \in Files
  PROVE  LET q == WithDocument(pkg, f) IN
         /\ Sound(p, q) /\ q.run = pkg.run /\ q.program = pkg.program
         /\ DOMAIN q.docs = DOMAIN pkg.docs \cup {f}
         /\ \A g \in DOMAIN pkg.docs : q.docs[g] = pkg.docs[g]
         /\ f \notin DOMAIN pkg.docs => q.docs[f].text = None
<1>1. /\ pkg.docs \in [DOMAIN pkg.docs -> Document] /\ DOMAIN pkg.docs \subseteq Files
      /\ \A g \in DOMAIN pkg.docs : pkg.docs[g] \in Document /\ Follows(pkg, g, pkg.docs[g])
  BY DocsAreFunctions DEF Sound, Package
<1>2. CASE f \in DOMAIN pkg.docs
  BY <1>2 DEF WithDocument
<1>3. CASE f \notin DOMAIN pkg.docs
  <2> DEFINE d == Inserted(pkg, f)
             docs == [g \in DOMAIN pkg.docs \cup {f} |-> IF g = f THEN d ELSE pkg.docs[g]]
  <2>1. d \in Document /\ Follows(pkg, f, d) /\ d.text = None
    BY InsertedSound
  <2> HIDE DEF d
  <2>3. /\ DOMAIN docs = DOMAIN pkg.docs \cup {f} /\ docs[f] = d
        /\ \A g \in DOMAIN pkg.docs : docs[g] = pkg.docs[g]
    BY <1>3
  <2>4. docs \in [DOMAIN pkg.docs \cup {f} -> Document]
    BY <1>1, <2>1
  <2>5. WithDocument(pkg, f) = [pkg EXCEPT !.docs = docs]
    BY <1>3 DEF WithDocument, d
  <2> HIDE DEF docs
  <2>6. docs \in Documents
    BY <1>1, <2>3, <2>4, DocsMade
  <2>7. \A g \in DOMAIN docs : Follows(pkg, g, docs[g])
    BY <1>1, <2>1, <2>3
  <2>8. LET q == [pkg EXCEPT !.docs = docs] IN
        Sound(p, q) /\ q.run = pkg.run /\ q.program = pkg.program /\ q.docs = docs
    BY <2>6, <2>7, WithDocsSound
  <2> QED  BY <2>1, <2>3, <2>5, <2>8
<1> QED  BY <1>2, <1>3

\* A package with another state of one document.
LEMMA WithDocSound ==
  ASSUME NEW p \in Packages, NEW pkg, Sound(p, pkg), NEW f \in DOMAIN pkg.docs,
         NEW doc \in Document, doc.run = pkg.docs[f].run, doc.module = pkg.docs[f].module
  PROVE  LET q == [pkg EXCEPT !.docs[f] = doc] IN
         /\ Sound(p, q) /\ q.run = pkg.run /\ q.program = pkg.program
         /\ DOMAIN q.docs = DOMAIN pkg.docs /\ q.docs[f] = doc
         /\ \A g \in DOMAIN pkg.docs \ {f} : q.docs[g] = pkg.docs[g]
<1>1. /\ pkg.docs \in [DOMAIN pkg.docs -> Document] /\ DOMAIN pkg.docs \subseteq Files
      /\ \A g \in DOMAIN pkg.docs : pkg.docs[g] \in Document /\ Follows(pkg, g, pkg.docs[g])
  BY DocsAreFunctions DEF Sound, Package
<1> DEFINE docs == [pkg.docs EXCEPT ![f] = doc]
<1>2. /\ DOMAIN docs = DOMAIN pkg.docs /\ docs[f] = doc
      /\ \A g \in DOMAIN pkg.docs \ {f} : docs[g] = pkg.docs[g]
      /\ docs \in [DOMAIN pkg.docs -> Document]
  BY <1>1
<1>3. [pkg EXCEPT !.docs[f] = doc] = [pkg EXCEPT !.docs = docs]
  OBVIOUS
<1> HIDE DEF docs
<1>4. docs \in Documents
  BY <1>1, <1>2, DocsMade
<1>5. \A g \in DOMAIN docs : Follows(pkg, g, docs[g])
  BY <1>1, <1>2 DEF Follows
<1>6. LET q == [pkg EXCEPT !.docs = docs] IN
      Sound(p, q) /\ q.run = pkg.run /\ q.program = pkg.program /\ q.docs = docs
  BY <1>4, <1>5, WithDocsSound
<1> QED  BY <1>2, <1>3, <1>6

LEMMA WithoutDocumentSound ==
  ASSUME NEW p \in Packages, NEW pkg, Sound(p, pkg), NEW f
  PROVE  LET q == WithoutDocument(pkg, f) IN
         /\ Sound(p, q) /\ q.run = pkg.run /\ q.program = pkg.program
         /\ DOMAIN q.docs = DOMAIN pkg.docs \ {f}
         /\ \A g \in DOMAIN pkg.docs \ {f} : q.docs[g] = pkg.docs[g]
<1>1. /\ pkg.docs \in [DOMAIN pkg.docs -> Document] /\ DOMAIN pkg.docs \subseteq Files
      /\ \A g \in DOMAIN pkg.docs : pkg.docs[g] \in Document /\ Follows(pkg, g, pkg.docs[g])
  BY DocsAreFunctions DEF Sound, Package
<1> DEFINE docs == [g \in DOMAIN pkg.docs \ {f} |-> pkg.docs[g]]
<1>2. docs \in Documents
  <2>1. docs \in [DOMAIN docs -> Document] /\ DOMAIN docs \subseteq Files
    BY <1>1
  <2> QED  BY <2>1, DocsMade
<1>3. \A g \in DOMAIN docs : Follows(pkg, g, docs[g])
  BY <1>1
<1>4. WithoutDocument(pkg, f) = [pkg EXCEPT !.docs = docs]
  BY DEF WithoutDocument
<1> QED  BY <1>2, <1>3, <1>4, WithDocsSound

\* A package with what a run newer than its own has found.
LEMMA WithProgramSound ==
  ASSUME NEW p \in Packages, NEW pkg, Sound(p, pkg), NEW run \in Nat, pkg.run < run,
         NEW program \in [FilesIn(p) -> Texts]
  PROVE  LET q == WithProgram(pkg, run, program) IN
         /\ Sound(p, q) /\ q.run = run
         /\ \A f : ModuleOf(q, f) = IF f \in FilesIn(p) THEN program[f] ELSE None
         /\ DOMAIN q.docs = DOMAIN pkg.docs
         /\ \A f \in DOMAIN pkg.docs :
              /\ q.docs[f].text = pkg.docs[f].text /\ q.docs[f].edited = pkg.docs[f].edited
              /\ q.docs[f].clientVersion = pkg.docs[f].clientVersion
<1>1. /\ pkg.docs \in [DOMAIN pkg.docs -> Document] /\ DOMAIN pkg.docs \subseteq Files
      /\ pkg.run \in Nat /\ pkg.program.run = pkg.run /\ pkg \in Package(p)
      /\ \A f \in DOMAIN pkg.docs : pkg.docs[f] \in Document /\ Follows(pkg, f, pkg.docs[f])
  BY DocsAreFunctions DEF Sound, Package
<1>2. FilesIn(p) \subseteq Files /\ DOMAIN program = FilesIn(p) /\ program # None
  <2>1. FilesIn(p) \in SUBSET Files
    BY DEF FilesIn
  <2>2. None \notin [FilesIn(p) -> Texts]
    BY <2>1, WorkspaceAssumption
  <2> QED  BY <2>1, <2>2
<1> DEFINE doc(f) == IF f \in DOMAIN program THEN WithModule(pkg.docs[f], run, program[f])
                     ELSE pkg.docs[f]
           docs == [f \in DOMAIN pkg.docs |-> doc(f)]
           prog == [run |-> run, thing |-> program]
           q == [pkg EXCEPT !.run = run, !.program = prog, !.docs = docs]
<1>3. WithProgram(pkg, run, program) = q
  <2>1. ~(run < pkg.run) /\ Updated(pkg.program, run, program) = prog
    BY <1>1 DEF Updated
  <2> QED  BY <2>1 DEF WithProgram
<1>4. ASSUME NEW f \in DOMAIN pkg.docs
      PROVE  /\ doc(f) \in Document
             /\ doc(f).text = pkg.docs[f].text /\ doc(f).edited = pkg.docs[f].edited
             /\ doc(f).clientVersion = pkg.docs[f].clientVersion
             /\ doc(f).module.run = doc(f).run /\ doc(f).run <= run
             /\ f \in FilesIn(p) => doc(f).run = run /\ doc(f).module.thing = program[f]
             /\ f \notin FilesIn(p) => doc(f).run < run
  <2>1. /\ pkg.docs[f] \in Document /\ pkg.docs[f].run < run
        /\ pkg.docs[f].module.run = pkg.docs[f].run /\ pkg.docs[f].run \in Nat
    BY <1>1 DEF Follows, Document
  <2>2. CASE f \in FilesIn(p)
    <3>1. program[f] \in Texts /\ doc(f) = WithModule(pkg.docs[f], run, program[f])
      BY <1>2, <2>2
    <3> HIDE DEF doc
    <3>2. pkg.docs[f].run <= run
      BY <2>1
    <3>3. PICK d \in Document, m \in Texts : d = pkg.docs[f] /\ m = program[f]
      BY <2>1, <3>1
    <3>4. LET e == WithModule(d, run, m) IN
          /\ e \in Document /\ e.run = run /\ e.module.run = run /\ e.module.thing = m
          /\ e.text = d.text /\ e.clientVersion = d.clientVersion /\ e.edited = d.edited
      BY <2>1, <3>2, <3>3, WithModuleSound
    <3> QED  BY <2>2, <3>1, <3>3, <3>4
  <2>3. CASE f \notin FilesIn(p)
    BY <1>2, <2>1, <2>3
  <2> QED  BY <2>2, <2>3
<1> HIDE DEF doc
<1>5. docs \in Documents
  <2>1. docs \in [DOMAIN docs -> Document] /\ DOMAIN docs \subseteq Files
    BY <1>1, <1>4
  <2> QED  BY <2>1, DocsMade
<1>6. DOMAIN docs = DOMAIN pkg.docs /\ \A f \in DOMAIN docs : docs[f] = doc(f)
  OBVIOUS
<1> HIDE DEF docs
<1>7. prog \in [run : Nat, thing : [FilesIn(p) -> Texts] \cup {None}]
      /\ prog.run = run /\ prog.thing = program
  OBVIOUS
<1> HIDE DEF prog
<1>8. /\ q \in Package(p) /\ q.run = run /\ q.program = prog /\ q.docs = docs
  BY <1>1, <1>5, <1>7 DEF Package
<1> HIDE DEF q
<1>9. \A f : ModuleOf(q, f) = IF f \in FilesIn(p) THEN program[f] ELSE None
  <2>1. Program(q) = program
    BY <1>7, <1>8 DEF Program, Get
  <2> QED  BY <1>2, <2>1 DEF ModuleOf
<1>10. \A f \in DOMAIN q.docs : Follows(q, f, q.docs[f])
  <2> SUFFICES ASSUME NEW f \in DOMAIN q.docs PROVE Follows(q, f, q.docs[f])
    OBVIOUS
  <2>1. f \in DOMAIN pkg.docs /\ q.docs[f] = doc(f)
    BY <1>6, <1>8
  <2> QED  BY <1>4, <1>8, <1>9, <2>1 DEF Follows
<1>11. Sound(p, q)
  BY <1>7, <1>8, <1>10 DEF Sound
<1> QED  BY <1>3, <1>4, <1>6, <1>8, <1>9, <1>11

------------------------------------------------------------------------------
(* All packages.                                                           *)

AllSound(pkgs) ==
  DOMAIN pkgs \subseteq Packages /\ \A p \in DOMAIN pkgs : Sound(p, pkgs[p])

\* The state of a document that is asked for: made if there is none, and then
\* without a text.
LEMMA StateOfSound ==
  ASSUME NEW pkgs, AllSound(pkgs), NEW p \in Packages, NEW f \in Files
  PROVE  LET old == StateOf(pkgs, p, f) IN
         /\ old \in Document
         /\ p \in DOMAIN pkgs /\ f \in DOMAIN pkgs[p].docs => old = pkgs[p].docs[f]
         /\ ~(p \in DOMAIN pkgs /\ f \in DOMAIN pkgs[p].docs) => old.text = None
<1> DEFINE pkg == Ensure(pkgs, p)[p]
           q == WithDocument(pkg, f)
<1>1. pkg = (IF p \in DOMAIN pkgs THEN pkgs[p] ELSE NewPackage) /\ Sound(p, pkg)
  BY NewPackageSound DEF Ensure, AllSound
<1>2. p \notin DOMAIN pkgs => f \notin DOMAIN pkg.docs
  BY <1>1, NewPackageSound
<1> HIDE DEF pkg
<1>3. /\ Sound(p, q) /\ f \in DOMAIN q.docs
      /\ f \in DOMAIN pkg.docs => q.docs[f] = pkg.docs[f]
      /\ f \notin DOMAIN pkg.docs => q.docs[f].text = None
  BY <1>1, WithDocumentSound
<1>4. StateOf(pkgs, p, f) = q.docs[f]
  BY DEF StateOf, q, pkg
<1> HIDE DEF q
<1>5. q.docs[f] \in Document
  BY <1>3, DocsAreFunctions DEF Sound, Package
<1> QED  BY <1>1, <1>2, <1>3, <1>4, <1>5

\* The packages with another state of one document, of a package that may be new.
Written(pkgs, p, f, doc, new) ==
  LET old == IF p \in DOMAIN pkgs THEN pkgs[p] ELSE NewPackage IN
  /\ AllSound(new)
  /\ DOMAIN new = DOMAIN pkgs \cup {p}
  /\ \A q \in DOMAIN pkgs \ {p} : new[q] = pkgs[q]
  /\ new[p].run = old.run /\ new[p].program = old.program
  /\ DOMAIN new[p].docs = DOMAIN old.docs \cup {f}
  /\ new[p].docs[f] = doc
  /\ \A g \in DOMAIN old.docs \ {f} : new[p].docs[g] = old.docs[g]

LEMMA WithStateSound ==
  ASSUME NEW pkgs, AllSound(pkgs), NEW p \in Packages, NEW f \in Files,
         NEW doc \in Document, doc.run = StateOf(pkgs, p, f).run,
         doc.module = StateOf(pkgs, p, f).module
  PROVE  Written(pkgs, p, f, doc, WithState(pkgs, p, f, doc))
<1> DEFINE pkg == Ensure(pkgs, p)[p]
           x == WithDocument(pkg, f)
           y == [x EXCEPT !.docs[f] = doc]
           new == WithState(pkgs, p, f, doc)
           old == IF p \in DOMAIN pkgs THEN pkgs[p] ELSE NewPackage
<1>1. pkg = old /\ Sound(p, pkg)
  BY NewPackageSound DEF Ensure, AllSound
<1>2. /\ DOMAIN new = DOMAIN pkgs \cup {p} /\ new[p] = y
      /\ \A q \in DOMAIN pkgs \ {p} : new[q] = pkgs[q]
  BY DEF WithState, Ensure
<1>3. StateOf(pkgs, p, f) = x.docs[f]
  BY DEF StateOf
<1> HIDE DEF pkg, old, new
<1>4. /\ Sound(p, x) /\ x.run = pkg.run /\ x.program = pkg.program
      /\ DOMAIN x.docs = DOMAIN pkg.docs \cup {f}
      /\ \A g \in DOMAIN pkg.docs : x.docs[g] = pkg.docs[g]
  BY <1>1, WithDocumentSound
<1> HIDE DEF x
<1>5. f \in DOMAIN x.docs /\ doc.run = x.docs[f].run /\ doc.module = x.docs[f].module
  BY <1>3, <1>4
<1>6. /\ Sound(p, y) /\ y.run = x.run /\ y.program = x.program
      /\ DOMAIN y.docs = DOMAIN x.docs /\ y.docs[f] = doc
      /\ \A g \in DOMAIN x.docs \ {f} : y.docs[g] = x.docs[g]
  BY <1>4, <1>5, WithDocSound
<1> HIDE DEF y
<1>7. AllSound(new)
  BY <1>2, <1>6 DEF AllSound
<1>8. Written(pkgs, p, f, doc, new)
  BY <1>1, <1>2, <1>4, <1>6, <1>7 DEF old, Written
<1> QED  BY <1>8 DEF new

------------------------------------------------------------------------------
(* Where a package is found.                                               *)

\* FindPackage, of the directories that are packages.
Nearest(D, f) ==
  LET found == {k \in 1..Len(Above(f)) : Above(f)[k] \in D}
      nearest == {Above(f)[k] : k \in {k \in found : \A l \in found : k <= l}}
  IN  IF nearest = {} THEN None ELSE CHOOSE p \in nearest : TRUE

LEMMA LeastOf ==
  ASSUME NEW S \in SUBSET Nat, S # {}
  PROVE  \E k \in S : \A l \in S : k <= l
<1> DEFINE R == {ss \in Nat \X Nat : ss[1] < ss[2]}
<1>1. IsWellFoundedOn(R, Nat)
  BY NatLessThanWellFounded DEF OpToRel
<1> HIDE DEF R
<1>2. PICK k \in S : \A l \in S : <<l, k>> \notin R
  BY <1>1, WFMin
<1>3. \A l \in S : ~(l < k)
  BY <1>2 DEF R
<1> QED  BY <1>2, <1>3

LEMMA NearestIs ==
  ASSUME NEW D, D \subseteq Packages, NEW f \in Files
  PROVE  /\ Nearest(D, f) = None => \A k \in 1..Len(Above(f)) : Above(f)[k] \notin D
         /\ Nearest(D, f) # None =>
              \E k \in 1..Len(Above(f)) :
                /\ Nearest(D, f) = Above(f)[k] /\ Above(f)[k] \in D
                /\ \A l \in 1..(k - 1) : Above(f)[l] \notin D
<1> DEFINE n == Len(Above(f))
           found == {k \in 1..n : Above(f)[k] \in D}
           first == {k \in found : \A l \in found : k <= l}
           nearest == {Above(f)[k] : k \in first}
<1>1. n \in Nat /\ None \notin D
  BY WorkspaceAssumption
<1>2. Nearest(D, f) = IF nearest = {} THEN None ELSE CHOOSE p \in nearest : TRUE
  BY DEF Nearest
<1>3. CASE found = {}
  <2>1. nearest = {}
    BY <1>3
  <2> QED  BY <1>2, <1>3, <2>1
<1>4. CASE found # {}
  <2>1. found \in SUBSET Nat
    BY <1>1
  <2>2. PICK k \in found : \A l \in found : k <= l
    BY <1>4, <2>1, LeastOf
  <2>3. k \in first
    BY <2>2
  <2>4. first = {k}
    BY <2>1, <2>2
  <2>5. nearest = {Above(f)[k]}
    BY <2>4
  <2>6. Nearest(D, f) = Above(f)[k]
    BY <1>2, <2>5
  <2>7. k \in 1..n /\ Above(f)[k] \in D
    BY <2>2
  <2>8. \A l \in 1..(k - 1) : Above(f)[l] \notin D
    BY <1>1, <2>2, <2>7
  <2> QED  BY <1>1, <2>6, <2>7, <2>8
<1> QED  BY <1>3, <1>4

\* More packages: the one that is found is the same, or a new one.
LEMMA FoundMoves ==
  ASSUME NEW D, NEW E, D \subseteq E, E \subseteq Packages, NEW f \in Files
  PROVE  /\ Nearest(E, f) \in {Nearest(D, f)} \cup (E \ D)
         /\ Nearest(D, f) # None => Nearest(E, f) # None
         /\ Nearest(D, f) \in D \cup {None}
         /\ Dir(f) \in D => Nearest(D, f) = Dir(f)
         /\ Len(Above(f)) = 1 => Nearest(D, f) \in {Dir(f), None}
<1> DEFINE n == Len(Above(f))
<1>1. /\ n \in Nat \ {0} /\ Above(f)[1] = Dir(f) /\ None \notin E
      /\ Above(f) \in [1..n -> Packages]
  <2>1. Above(f) \in Seq(Packages) /\ Above(f) # <<>> /\ Head(Above(f)) = Dir(f)
    BY WorkspaceAssumption
  <2>2. None \notin E
    BY WorkspaceAssumption
  <2> QED  BY <2>1, <2>2
<1>2. /\ Nearest(D, f) = None => \A k \in 1..n : Above(f)[k] \notin D
      /\ Nearest(D, f) # None =>
           \E k \in 1..n : /\ Nearest(D, f) = Above(f)[k] /\ Above(f)[k] \in D
                           /\ \A l \in 1..(k - 1) : Above(f)[l] \notin D
  BY NearestIs
<1>3. /\ Nearest(E, f) = None => \A k \in 1..n : Above(f)[k] \notin E
      /\ Nearest(E, f) # None =>
           \E k \in 1..n : /\ Nearest(E, f) = Above(f)[k] /\ Above(f)[k] \in E
                           /\ \A l \in 1..(k - 1) : Above(f)[l] \notin E
  BY NearestIs
<1> HIDE DEF n
<1>4. Nearest(D, f) # None => Nearest(E, f) # None
  BY <1>1, <1>2, <1>3
<1>5. Nearest(E, f) \in {Nearest(D, f)} \cup (E \ D)
  <2>1. CASE Nearest(E, f) = None
    BY <1>4, <2>1
  <2>2. CASE Nearest(E, f) # None
    <3>1. PICK k \in 1..n : /\ Nearest(E, f) = Above(f)[k] /\ Above(f)[k] \in E
                            /\ \A l \in 1..(k - 1) : Above(f)[l] \notin E
      BY <1>3, <2>2
    <3>2. CASE Above(f)[k] \in D
      <4>1. PICK m \in 1..n : /\ Nearest(D, f) = Above(f)[m] /\ Above(f)[m] \in D
                              /\ \A l \in 1..(m - 1) : Above(f)[l] \notin D
        BY <1>2, <3>2
      <4>2. ~(m < k) /\ ~(k < m)
        BY <1>1, <3>1, <3>2, <4>1
      <4>3. m = k
        BY <1>1, <4>2
      <4> QED  BY <3>1, <4>1, <4>3
    <3> QED  BY <3>1, <3>2
  <2> QED  BY <2>1, <2>2
<1>6. Nearest(D, f) \in D \cup {None}
  BY <1>2
<1>7. ASSUME Dir(f) \in D PROVE Nearest(D, f) = Dir(f)
  BY <1>1, <1>2, <1>7
<1>8. ASSUME n = 1 PROVE Nearest(D, f) \in {Dir(f), None}
  BY <1>1, <1>2, <1>8
<1> QED  BY <1>4, <1>5, <1>6, <1>7, <1>8 DEF n
------------------------------------------------------------------------------
(* The inductive invariant.  What is on `wire` about a document, and what  *)
(* has become of the rest.                                                 *)

PackagesSound ==
  /\ DOMAIN packages \subseteq Packages
  /\ \A p \in DOMAIN packages :
       Sound(p, packages[p]) /\ packages[p].run <= compileRun[Here]

Of(f) == {i \in 1..Len(wire) : wire[i].file = f}
Opens(f) == {i \in Of(f) : wire[i].kind = "open"}
Saves(f) == {i \in Of(f) : wire[i].kind = "save"}

\* Those of the client's session with the document that is the last so far.
Latest(f) == {i \in Of(f) : \A j \in Opens(f) : j <= i}

\* A document without a text: it is not open as far as the manager knows.
Fresh(f) == HasState(f) => StateFound(f).text = None

\* The client opens and closes a document in turn, and the manager, when it
\* comes to an opening, knows the document as one that is not open.
Sessions(f) ==
  /\ version[f] > 0 => \A i \in Of(f) : wire[i].kind = "close" => \E j \in Opens(f) : i < j
  /\ version[f] = 0 => \A i \in Of(f) : \E k \in Of(f) : i <= k /\ wire[k].kind = "close"
  /\ \A i \in Of(f) : \A j \in Opens(f) :
       i < j => \E k \in Of(f) : i <= k /\ k < j /\ wire[k].kind = "close"
  /\ version[f] = 0 => Of(f) # {} \/ Fresh(f)
  /\ \A j \in Opens(f) : (\E i \in Of(f) : i < j) \/ Fresh(f)

\* A package is found for a document once it has been opened.
Founds(f) ==
  /\ \A i \in Of(f) : \/ wire[i].kind = "open" \/ FindPackage(f) # None
                      \/ \E j \in Opens(f) : j < i
  /\ version[f] > 0 => FindPackage(f) # None \/ Opens(f) # {}

\* An open document the manager has heard of is in some package, and no error of
\* an earlier run is shown of it.
Known(f) ==
  version[f] > 0 /\ Opens(f) = {} =>
    /\ \E p \in DOMAIN packages : f \in DOMAIN packages[p].docs
    /\ shown[f].from = "compile" /\ shown[f].of > 0 => shown[f].at = compileRun[Here]

\* Versions grow within a session, and the last one is the buffer's.
Versions(f) ==
  version[f] > 0 =>
    /\ \A i \in Latest(f) :
         /\ wire[i].version <= version[f]
         /\ wire[i].version = version[f] => wire[i].text = buffer[f]
    /\ Opens(f) = {} /\ HasState(f) /\ StateFound(f).text # None =>
         StateFound(f).clientVersion <= version[f]
    /\ ~Reordering => \A i, j \in Latest(f) :
         i < j /\ wire[j].kind = "change" => wire[i].version < wire[j].version

\* Every document is looked for in its own directory alone.
Flat == \A f \in Files : Len(Above(f)) = 1

\* The manager still has the version that it took last, or takes no other.
Kept(f) ==
  \/ Flat /\ HasState(f) /\ StateFound(f).text # None /\ StateFound(f).clientVersion = version[f]
  \/ ~Reordering /\ \A i \in Of(f) : wire[i].kind # "change"

\* The buffer is on its way to the manager, or has arrived and stays.
Brings(i, f) ==
  i \in Latest(f) /\ wire[i].kind \in {"open", "change"} /\ wire[i].version = version[f]
Arrived(f) ==
  /\ Opens(f) = {} /\ source[f] = buffer[f] /\ Kept(f)
  /\ shown[f].from = "syntax" => shown[f].of = buffer[f]
Arrives(f) == version[f] > 0 => Arrived(f) \/ \E i \in Of(f) : Brings(i, f)

\* So is what makes a document stale that is not as on the disk.
Dirties(i, f) ==
  /\ i \in Latest(f) /\ wire[i].kind = "change" /\ wire[i].version = version[f]
  /\ \A j \in Saves(f) : j < i
Stale(f) ==
  /\ Opens(f) = {} /\ Saves(f) = {}
  /\ HasState(f) /\ StateFound(f).text # None /\ StateFound(f).edited = TRUE
Dirty(f) ==
  version[f] > 0 /\ buffer[f] # disk[f] => Stale(f) \/ \E i \in Of(f) : Dirties(i, f)

\* Of a file that has changed on the disk since it was compiled, the save is on
\* its way or was put aside: unless a compile is running, and will read it.
AsOnDisk(f, text) == text = disk[f] \/ PutAsideAsSaved(f) \/ Saves(f) # {}

\* The last save on its way is of what the disk has.
LastSaved(f) == \A i \in Saves(f) : wire[i].text = disk[f] \/ \E j \in Saves(f) : i < j

Compiles ==
  /\ \/ compiling[Here]
     \/ \A p \in DOMAIN packages : \A f \in Files :
          packages[p].run = compileRun[Here] /\ ModuleOf(packages[p], f) # None =>
            AsOnDisk(f, ModuleOf(packages[p], f))
  /\ \A k \in 1..Len(finished[Here]) : LET x == finished[Here][k].result IN
       x.ok => \A p \in DOMAIN x.program : \A f \in DOMAIN x.program[p] :
                 AsOnDisk(f, x.program[p][f])
  /\ \A f \in Files : LastSaved(f)

\* Where no document can move to a nearer package, or no change overtakes
\* another, the buffer arrives; where no other program writes, the disk is
\* what was compiled.
DInv ==
  /\ PackagesSound /\ DOMAIN source = Files /\ DOMAIN shown = Files
  /\ \A f \in Files : Sessions(f) /\ Founds(f) /\ Known(f) /\ Versions(f)
  /\ Flat \/ ~Reordering => \A f \in Files : Arrives(f)
  /\ Flat => \A f \in Files : Dirty(f)
  /\ ~Outsiders => Compiles

------------------------------------------------------------------------------
(* What a step makes of the messages about one document.                   *)

\* Those in `gone` are handled, all others stay as they are and in order: {0} if
\* none is.
Survives(f, gone) ==
  \E old \in [Of(f)' -> Of(f) \ gone] :
    /\ \A k \in Of(f) \ gone : \E j \in Of(f)' : old[j] = k
    /\ \A j, k \in Of(f)' : j < k <=> old[j] < old[k]
    /\ \A j \in Of(f)' : wire'[j] = wire[old[j]]

\* Message n is sent.
Adds(f, n) ==
  /\ Of(f)' = Of(f) \cup {n}
  /\ n \in Nat /\ \A j \in Of(f) : j < n /\ wire'[j] = wire[j]

LEMMA SameLog ==
  ASSUME NEW f \in Files, wire \in Seq(Message), UNCHANGED wire
  PROVE  Survives(f, {0})
<1>1. Of(f)' = Of(f)
  BY DEF Of
<1> DEFINE was == [j \in Of(f) |-> j]
<1>2. was \in [Of(f)' -> Of(f) \ {0}]
  BY <1>1 DEF Of
<1> QED  BY <1>1, <1>2 DEF Survives

LEMMA Appended ==
  ASSUME wire \in Seq(Message), NEW m \in Message, wire' = Append(wire, m), NEW f \in Files
  PROVE  /\ m.file = f => Adds(f, Len(wire) + 1) /\ wire'[Len(wire) + 1] = m
         /\ m.file # f => Survives(f, {0})
<1>1. /\ Len(wire) \in Nat /\ Len(wire') = Len(wire) + 1 /\ wire'[Len(wire) + 1] = m
      /\ \A j \in 1..Len(wire) : wire'[j] = wire[j]
  OBVIOUS
<1>2. ASSUME m.file = f PROVE Adds(f, Len(wire) + 1)
  <2>1. Of(f)' = Of(f) \cup {Len(wire) + 1}
    BY <1>1, <1>2 DEF Of
  <2> QED  BY <1>1, <2>1 DEF Adds, Of
<1>3. ASSUME m.file # f PROVE Survives(f, {0})
  <2>1. Of(f)' = Of(f)
    BY <1>1, <1>3 DEF Of
  <2> DEFINE was == [j \in Of(f) |-> j]
  <2>2. was \in [Of(f)' -> Of(f) \ {0}]
    BY <2>1 DEF Of
  <2>3. \A j \in Of(f) : wire'[j] = wire[j]
    BY <1>1 DEF Of
  <2> QED  BY <2>1, <2>2, <2>3 DEF Survives
<1> QED  BY <1>1, <1>2, <1>3

LEMMA RemoveAtElements ==
  ASSUME NEW S, NEW s \in Seq(S), NEW i \in 1..Len(s)
  PROVE  /\ Len(RemoveAt(s, i)) = Len(s) - 1
         /\ \A j \in 1..(Len(s) - 1) : RemoveAt(s, i)[j] = s[IF j < i THEN j ELSE j + 1]
<1> DEFINE a == SubSeq(s, 1, i - 1)
           b == SubSeq(s, i + 1, Len(s))
<1>1. Len(s) \in Nat /\ i \in Nat /\ i >= 1 /\ i <= Len(s)
  OBVIOUS
<1>2. a \in Seq(S) /\ Len(a) = i - 1 /\ \A j \in 1..(i - 1) : a[j] = s[j]
  OBVIOUS
<1>3. b \in Seq(S) /\ Len(b) = Len(s) - i /\ \A j \in 1..(Len(s) - i) : b[j] = s[i + j]
  OBVIOUS
<1>4. RemoveAt(s, i) = a \o b
  BY DEF RemoveAt
<1> HIDE DEF a, b
<1>5. /\ Len(a \o b) = Len(a) + Len(b)
      /\ \A j \in 1..(Len(a) + Len(b)) : (a \o b)[j] = IF j <= Len(a) THEN a[j] ELSE b[j - Len(a)]
  BY <1>2, <1>3, ConcatProperties
<1>6. Len(a) + Len(b) = Len(s) - 1
  BY <1>1, <1>2, <1>3
<1>7. ASSUME NEW j \in 1..(Len(s) - 1)
      PROVE  RemoveAt(s, i)[j] = s[IF j < i THEN j ELSE j + 1]
  <2>1. CASE j < i
    BY <1>1, <1>2, <1>4, <1>5, <1>6, <2>1
  <2>2. CASE ~(j < i)
    <3>1. j - (i - 1) \in 1..(Len(s) - i) /\ i + (j - (i - 1)) = j + 1
      BY <1>1, <2>2
    <3>2. RemoveAt(s, i)[j] = b[j - (i - 1)]
      BY <1>1, <1>2, <1>4, <1>5, <1>6, <2>2
    <3> QED  BY <1>3, <2>2, <3>1, <3>2
  <2> QED  BY <2>1, <2>2
<1> QED  BY <1>4, <1>5, <1>6, <1>7

LEMMA HandledLog ==
  ASSUME wire \in Seq(Message), NEW i \in 1..Len(wire), wire' = RemoveAt(wire, i), NEW f \in Files
  PROVE  Survives(f, {i})
<1>1. /\ Len(wire) \in Nat /\ Len(wire') = Len(wire) - 1
      /\ \A j \in 1..(Len(wire) - 1) : wire'[j] = wire[IF j < i THEN j ELSE j + 1]
  <2>1. /\ Len(RemoveAt(wire, i)) = Len(wire) - 1
        /\ \A j \in 1..(Len(wire) - 1) : RemoveAt(wire, i)[j] = wire[IF j < i THEN j ELSE j + 1]
    BY RemoveAtElements
  <2> QED  BY <2>1
<1> DEFINE was == [j \in Of(f)' |-> IF j < i THEN j ELSE j + 1]
<1>2. ASSUME NEW j \in Of(f)'
      PROVE  was[j] \in Of(f) \ {i} /\ wire'[j] = wire[was[j]] /\ j \in Nat
             /\ was[j] = IF j < i THEN j ELSE j + 1
  BY <1>1 DEF Of
<1>3. ASSUME NEW k \in Of(f) \ {i}
      PROVE  \E j \in Of(f)' : was[j] = k
  <2> DEFINE j == IF k < i THEN k ELSE k - 1
  <2>1. j \in 1..(Len(wire) - 1) /\ k = IF j < i THEN j ELSE j + 1
    BY <1>1 DEF Of
  <2>2. j \in Of(f)'
    BY <1>1, <2>1 DEF Of
  <2> QED  BY <2>1, <2>2
<1>4. was \in [Of(f)' -> Of(f) \ {i}]
  BY <1>2
<1> HIDE DEF was
<1>5. \A j, k \in Of(f)' : j < k <=> was[j] < was[k]
  BY <1>2
<1> QED  BY <1>2, <1>3, <1>4, <1>5 DEF Survives

\* Message i is the next of its document: the first, or a change before which
\* there are only changes.
First(f, i) ==
  \A j \in Of(f) : j < i => wire[i].kind = "change" /\ wire[j].kind = "change"

LEMMA SessionsSurvive ==
  ASSUME NEW f \in Files, NEW i, wire \in Seq(Message), version[f] \in Nat,
         Survives(f, {i}), version'[f] = version[f],
         i \in Of(f) => First(f, i) /\ (wire[i].kind = "close" => Fresh(f)'),
         i \notin Of(f) => (Fresh(f) => Fresh(f)'),
         Sessions(f)
  PROVE  Sessions(f)'
<1>1. PICK was \in [Of(f)' -> Of(f) \ {i}] :
        /\ \A k \in Of(f) \ {i} : \E j \in Of(f)' : was[j] = k
        /\ \A j, k \in Of(f)' : j < k <=> was[j] < was[k]
        /\ \A j \in Of(f)' : wire'[j] = wire[was[j]]
  BY DEF Survives
<1>2. /\ \A j \in Of(f)' : was[j] \in Of(f) /\ was[j] # i
      /\ Of(f) \subseteq Nat /\ Of(f)' \subseteq Nat
      /\ \A j \in Of(f)' : wire'[j].kind = wire[was[j]].kind
  <2>1. Of(f) \subseteq Nat /\ Of(f)' \subseteq Nat
    BY DEF Of
  <2> QED  BY <1>1, <2>1
<1>3. /\ \A j \in Opens(f)' : j \in Of(f)' /\ was[j] \in Opens(f)
      /\ \A k \in Opens(f) \ {i} : \E j \in Opens(f)' : was[j] = k
  BY <1>1, <1>2 DEF Opens
<1>4. version[f] > 0 => \A j \in Of(f)' : wire'[j].kind = "close" => \E k \in Opens(f)' : j < k
  <2> SUFFICES ASSUME version[f] > 0, NEW j \in Of(f)', wire'[j].kind = "close"
               PROVE  \E k \in Opens(f)' : j < k
    OBVIOUS
  <2>1. was[j] \in Of(f) /\ wire[was[j]].kind = "close"
    BY <1>2
  <2>2. PICK k \in Opens(f) : was[j] < k
    BY <2>1 DEF Sessions
  <2>3. k # i
    BY <2>1, <2>2 DEF First, Opens
  <2>4. PICK l \in Opens(f)' : was[l] = k
    BY <1>3, <2>3
  <2> QED  BY <1>1, <1>3, <2>2, <2>4
<1>5. version[f] = 0 =>
        \A j \in Of(f)' : \E k \in Of(f)' : j <= k /\ wire'[k].kind = "close"
  <2> SUFFICES ASSUME version[f] = 0, NEW j \in Of(f)'
               PROVE  \E k \in Of(f)' : j <= k /\ wire'[k].kind = "close"
    OBVIOUS
  <2>1. PICK k \in Of(f) : was[j] <= k /\ wire[k].kind = "close"
    BY <1>2 DEF Sessions
  <2>2. was[j] \in Of(f) /\ was[j] # i /\ was[j] \in Nat /\ k \in Nat
    BY <1>2
  <2>3. k # i
    BY <2>1, <2>2 DEF First
  <2>4. PICK l \in Of(f)' : was[l] = k
    BY <1>1, <2>3
  <2>5. ~(l < j)
    BY <1>1, <2>1, <2>2, <2>4
  <2> QED  BY <1>2, <2>1, <2>4, <2>5
<1>6. \A j \in Of(f)' : \A o \in Opens(f)' :
        j < o => \E k \in Of(f)' : j <= k /\ k < o /\ wire'[k].kind = "close"
  <2> SUFFICES ASSUME NEW j \in Of(f)', NEW o \in Opens(f)', j < o
               PROVE  \E k \in Of(f)' : j <= k /\ k < o /\ wire'[k].kind = "close"
    OBVIOUS
  <2>1. was[j] < was[o] /\ was[o] \in Opens(f) /\ o \in Of(f)'
    BY <1>1, <1>3
  <2>2. was[j] \in Of(f) /\ was[j] # i /\ was[j] \in Nat
    BY <1>2
  <2>3. PICK k \in Of(f) : was[j] <= k /\ k < was[o] /\ wire[k].kind = "close"
    BY <2>1, <2>2 DEF Sessions
  <2>4. k # i
    BY <1>2, <2>2, <2>3 DEF First
  <2>5. PICK l \in Of(f)' : was[l] = k
    BY <1>1, <2>4
  <2>6. ~(l < j) /\ l < o
    BY <1>1, <1>2, <2>1, <2>2, <2>3, <2>5
  <2> QED  BY <1>2, <2>3, <2>5, <2>6
<1>7. version[f] = 0 => Of(f)' # {} \/ Fresh(f)'
  <2> SUFFICES ASSUME version[f] = 0, Of(f)' = {} PROVE Fresh(f)'
    OBVIOUS
  <2>1. Of(f) \subseteq {i}
    BY <1>1
  <2>2. CASE i \in Of(f)
    <3>1. wire[i].kind = "close"
      BY <2>1, <2>2 DEF Sessions
    <3> QED  BY <2>2, <3>1
  <2>3. CASE i \notin Of(f)
    BY <2>1, <2>3 DEF Sessions
  <2> QED  BY <2>2, <2>3
<1>8. \A o \in Opens(f)' : (\E j \in Of(f)' : j < o) \/ Fresh(f)'
  <2> SUFFICES ASSUME NEW o \in Opens(f)', \A j \in Of(f)' : ~(j < o)
               PROVE  Fresh(f)'
    OBVIOUS
  <2>1. was[o] \in Opens(f) /\ o \in Of(f)' /\ was[o] # i /\ was[o] \in Nat
    BY <1>2, <1>3
  <2>2. ASSUME NEW k \in Of(f), k < was[o] PROVE k = i
    <3> SUFFICES ASSUME k # i PROVE FALSE
      OBVIOUS
    <3>1. PICK l \in Of(f)' : was[l] = k
      BY <1>1
    <3> QED  BY <1>1, <2>1, <2>2, <3>1
  <2>3. CASE i \in Of(f)
    <3>1. i < was[o]
      <4>1. ~(was[o] < i)
        BY <2>1, <2>3 DEF First, Opens
      <4> QED  BY <1>2, <2>1, <2>3, <4>1
    <3>2. PICK k \in Of(f) : i <= k /\ k < was[o] /\ wire[k].kind = "close"
      BY <2>1, <2>3, <3>1 DEF Sessions
    <3>3. k = i
      BY <2>2, <3>2
    <3> QED  BY <2>3, <3>2, <3>3
  <2>4. CASE i \notin Of(f)
    <3>1. \A k \in Of(f) : ~(k < was[o])
      BY <2>2, <2>4
    <3> QED  BY <2>1, <2>4, <3>1 DEF Sessions
  <2> QED  BY <2>3, <2>4
<1> QED  BY <1>4, <1>5, <1>6, <1>7, <1>8 DEF Sessions

\* The client opens and closes in turn.
LEMMA SessionsGrow ==
  ASSUME NEW f \in Files, NEW n, wire \in Seq(Message), version[f] \in Nat, Adds(f, n),
         Fresh(f) => Fresh(f)', Sessions(f),
         \/ wire'[n].kind = "open" /\ version[f] = 0 /\ version'[f] = 1
         \/ wire'[n].kind \in {"change", "save"} /\ version[f] > 0 /\ version'[f] \in Nat \ {0}
         \/ wire'[n].kind = "close" /\ version[f] > 0 /\ version'[f] = 0
  PROVE  Sessions(f)'
<1>1. /\ Of(f)' = Of(f) \cup {n} /\ n \in Nat /\ Of(f) \subseteq Nat
      /\ \A j \in Of(f) : j < n /\ wire'[j] = wire[j]
  BY DEF Adds, Of
<1>2. Opens(f)' = Opens(f) \cup (IF wire'[n].kind = "open" THEN {n} ELSE {})
  BY <1>1 DEF Opens
<1>3. Opens(f) \subseteq Of(f)
  BY DEF Opens
<1>4. version'[f] > 0 => \A j \in Of(f)' : wire'[j].kind = "close" => \E k \in Opens(f)' : j < k
  BY <1>1, <1>2, <1>3 DEF Sessions
<1>5. version'[f] = 0 =>
        \A j \in Of(f)' : \E k \in Of(f)' : j <= k /\ wire'[k].kind = "close"
  BY <1>1
<1>6. \A j \in Of(f)' : \A o \in Opens(f)' :
        j < o => \E k \in Of(f)' : j <= k /\ k < o /\ wire'[k].kind = "close"
  <2> SUFFICES ASSUME NEW j \in Of(f)', NEW o \in Opens(f)', j < o
               PROVE  \E k \in Of(f)' : j <= k /\ k < o /\ wire'[k].kind = "close"
    OBVIOUS
  <2>1. CASE o \in Opens(f)
    <3>1. j \in Of(f) /\ o \in Of(f)
      BY <1>1, <1>3, <2>1
    <3>2. PICK k \in Of(f) : j <= k /\ k < o /\ wire[k].kind = "close"
      BY <2>1, <3>1 DEF Sessions
    <3> QED  BY <1>1, <3>2
  <2>2. CASE o \notin Opens(f)
    <3>1. o = n /\ wire'[n].kind = "open" /\ version[f] = 0 /\ j \in Of(f)
      BY <1>1, <1>2, <2>2
    <3>2. PICK k \in Of(f) : j <= k /\ wire[k].kind = "close"
      BY <3>1 DEF Sessions
    <3> QED  BY <1>1, <3>1, <3>2
  <2> QED  BY <2>1, <2>2
<1>7. Of(f)' # {}
  BY <1>1
<1>8. \A o \in Opens(f)' : (\E j \in Of(f)' : j < o) \/ Fresh(f)'
  <2> SUFFICES ASSUME NEW o \in Opens(f)' PROVE (\E j \in Of(f)' : j < o) \/ Fresh(f)'
    OBVIOUS
  <2>1. CASE o \in Opens(f)
    BY <1>1, <2>1 DEF Sessions
  <2>2. CASE o \notin Opens(f)
    <3>1. o = n /\ version[f] = 0
      BY <1>2, <2>2
    <3> QED  BY <1>1, <3>1 DEF Sessions
  <2> QED  BY <2>1, <2>2
<1> QED  BY <1>4, <1>5, <1>6, <1>7, <1>8 DEF Sessions

\* Where each message was: an order isomorphism that keeps what they say.
Traces(was, f, i) ==
  /\ \A j \in Of(f)' : j \in Nat /\ was[j] \in Of(f) \ {i} /\ wire'[j] = wire[was[j]]
  /\ \A j, k \in Of(f)' : j < k <=> was[j] < was[k]
  /\ \A k \in Of(f) \ {i} : \E j \in Of(f)' : was[j] = k
  /\ \A j \in Opens(f)' : was[j] \in Opens(f) /\ j \in Of(f)'
  /\ \A k \in Opens(f) \ {i} : \E j \in Opens(f)' : was[j] = k
  /\ \A j \in Saves(f)' : was[j] \in Saves(f) /\ j \in Of(f)'
  /\ \A k \in Saves(f) \ {i} : \E j \in Saves(f)' : was[j] = k
  /\ \A j \in Latest(f)' : was[j] \in Latest(f) /\ j \in Of(f)'
  /\ \A k \in Latest(f) \ {i} : \E j \in Latest(f)' : was[j] = k

\* What survives of the openings, the saves and the last session.
LEMMA Surviving ==
  ASSUME NEW f \in Files, NEW i, wire \in Seq(Message), Survives(f, {i}),
         i \in Of(f) => First(f, i)
  PROVE  \E was : Traces(was, f, i)
<1>1. PICK was \in [Of(f)' -> Of(f) \ {i}] :
        /\ \A k \in Of(f) \ {i} : \E j \in Of(f)' : was[j] = k
        /\ \A j, k \in Of(f)' : j < k <=> was[j] < was[k]
        /\ \A j \in Of(f)' : wire'[j] = wire[was[j]]
  BY DEF Survives
<1>2. /\ \A j \in Of(f)' : was[j] \in Of(f) /\ was[j] # i
      /\ Of(f) \subseteq Nat /\ Of(f)' \subseteq Nat
      /\ \A j \in Of(f)' : wire'[j].kind = wire[was[j]].kind
  <2>1. Of(f) \subseteq Nat /\ Of(f)' \subseteq Nat
    BY DEF Of
  <2> QED  BY <1>1, <2>1
<1>3. /\ \A j \in Opens(f)' : was[j] \in Opens(f) /\ j \in Of(f)'
      /\ \A k \in Opens(f) \ {i} : \E j \in Opens(f)' : was[j] = k
  BY <1>1, <1>2 DEF Opens
<1>4. /\ \A j \in Saves(f)' : was[j] \in Saves(f) /\ j \in Of(f)'
      /\ \A k \in Saves(f) \ {i} : \E j \in Saves(f)' : was[j] = k
  BY <1>1, <1>2 DEF Saves
<1>5. ASSUME NEW j \in Latest(f)' PROVE was[j] \in Latest(f) /\ j \in Of(f)'
  <2>1. j \in Of(f)' /\ \A k \in Opens(f)' : ~(j < k)
    BY <1>2, <1>3 DEF Latest
  <2>2. was[j] \in Of(f) /\ was[j] # i /\ was[j] \in Nat
    BY <1>2, <2>1
  <2>3. ASSUME NEW k \in Opens(f), was[j] < k PROVE FALSE
    <3>1. CASE k = i
      BY <2>2, <2>3, <3>1 DEF First, Opens
    <3>2. CASE k # i
      <4>1. PICK l \in Opens(f)' : was[l] = k
        BY <1>3, <3>2
      <4> QED  BY <1>1, <1>3, <2>1, <2>3, <4>1
    <3> QED  BY <3>1, <3>2
  <2>4. \A k \in Opens(f) : k \in Nat
    BY <1>2 DEF Opens
  <2> QED  BY <2>1, <2>2, <2>3, <2>4 DEF Latest
<1>6. ASSUME NEW k \in Latest(f) \ {i} PROVE \E j \in Latest(f)' : was[j] = k
  <2>1. k \in Of(f) /\ k # i /\ k \in Nat /\ \A l \in Opens(f) : l <= k
    BY <1>2 DEF Latest
  <2>2. PICK j \in Of(f)' : was[j] = k
    BY <1>1, <2>1
  <2>3. ASSUME NEW l \in Opens(f)' PROVE l <= j
    <3>1. was[l] \in Opens(f) /\ l \in Of(f)' /\ was[l] \in Nat
      BY <1>2, <1>3
    <3>2. ~(k < was[l])
      BY <2>1, <3>1
    <3>3. ~(j < l)
      BY <1>1, <2>2, <3>1, <3>2
    <3> QED  BY <1>2, <2>2, <3>1, <3>3
  <2> QED  BY <2>2, <2>3 DEF Latest
<1>7. Traces(was, f, i)
  BY <1>1, <1>2, <1>3, <1>4, <1>5, <1>6 DEF Traces
<1> QED  BY <1>7

LEMMA FoundsSurvive ==
  ASSUME NEW f \in Files, NEW i, wire \in Seq(Message), Survives(f, {i}),
         i \in Of(f) => First(f, i), version'[f] = version[f],
         FindPackage(f) # None \/ i \in Opens(f) => FindPackage(f)' # None,
         Founds(f)
  PROVE  Founds(f)'
<1>0. PICK was : Traces(was, f, i)
  BY Surviving
<1>1. /\ \A j \in Of(f)' : j \in Nat /\ was[j] \in Of(f) \ {i} /\ wire'[j] = wire[was[j]]
      /\ \A j, k \in Of(f)' : j < k <=> was[j] < was[k]
      /\ \A j \in Opens(f)' : was[j] \in Opens(f) /\ j \in Of(f)'
      /\ \A k \in Opens(f) \ {i} : \E j \in Opens(f)' : was[j] = k
  BY <1>0 DEF Traces
<1>2. ASSUME FindPackage(f)' = None
      PROVE  FindPackage(f) = None /\ i \notin Opens(f)
  BY <1>2
<1>3. ASSUME FindPackage(f)' = None, NEW j \in Of(f)'
      PROVE  wire'[j].kind = "open" \/ \E k \in Opens(f)' : k < j
  <2>1. was[j] \in Of(f) /\ wire[was[j]] = wire'[j]
    BY <1>1
  <2>2. wire[was[j]].kind = "open" \/ \E k \in Opens(f) : k < was[j]
    BY <1>2, <1>3, <2>1 DEF Founds
  <2>3. ASSUME NEW k \in Opens(f), k < was[j] PROVE \E l \in Opens(f)' : l < j
    <3>1. PICK l \in Opens(f)' : was[l] = k
      BY <1>1, <1>2, <1>3
    <3> QED  BY <1>1, <2>3, <3>1
  <2> QED  BY <2>1, <2>2, <2>3
<1>4. ASSUME FindPackage(f)' = None, version[f] > 0 PROVE Opens(f)' # {}
  <2>1. PICK k \in Opens(f) : k # i
    BY <1>2, <1>4 DEF Founds
  <2> QED  BY <1>1, <2>1
<1> QED  BY <1>3, <1>4 DEF Founds

LEMMA FoundsGrow ==
  ASSUME NEW f \in Files, NEW n, wire \in Seq(Message), Adds(f, n),
         FindPackage(f)' = FindPackage(f), Founds(f),
         wire'[n].kind # "open" => version[f] > 0
  PROVE  Founds(f)'
<1>1. /\ Of(f)' = Of(f) \cup {n} /\ n \in Nat /\ Of(f) \subseteq Nat
      /\ \A j \in Of(f) : j < n /\ wire'[j] = wire[j]
  BY DEF Adds, Of
<1>2. Opens(f) \subseteq Opens(f)' /\ Opens(f) \subseteq Of(f)
      /\ (wire'[n].kind = "open" => n \in Opens(f)')
  BY <1>1 DEF Opens
<1>3. ASSUME FindPackage(f) = None, NEW j \in Of(f)'
      PROVE  wire'[j].kind = "open" \/ \E k \in Opens(f)' : k < j
  <2>1. CASE j \in Of(f)
    BY <1>1, <1>2, <1>3, <2>1 DEF Founds
  <2>2. CASE j \notin Of(f)
    <3>1. j = n
      BY <1>1, <2>2
    <3>2. wire'[n].kind # "open" => Opens(f) # {}
      BY <1>3 DEF Founds
    <3> QED  BY <1>1, <1>2, <3>1, <3>2
  <2> QED  BY <2>1, <2>2
<1>4. ASSUME FindPackage(f) = None, version'[f] > 0 PROVE Opens(f)' # {}
  <2>1. wire'[n].kind # "open" => Opens(f) # {}
    BY <1>4 DEF Founds
  <2> QED  BY <1>2, <2>1
<1> QED  BY <1>3, <1>4 DEF Founds

LEMMA VersionsSurvive ==
  ASSUME NEW f \in Files, NEW i, wire \in Seq(Message), Survives(f, {i}),
         i \in Of(f) => First(f, i),
         version'[f] = version[f], buffer'[f] = buffer[f], Versions(f),
         version[f] > 0 /\ Opens(f)' = {} /\ HasState(f)' /\ StateFound(f)'.text # None =>
           StateFound(f)'.clientVersion <= version[f]
  PROVE  Versions(f)'
<1>0. PICK was : Traces(was, f, i)
  BY Surviving
<1>1. /\ \A j \in Of(f)' : wire'[j] = wire[was[j]]
      /\ \A j, k \in Of(f)' : j < k <=> was[j] < was[k]
      /\ \A j \in Latest(f)' : was[j] \in Latest(f) /\ j \in Of(f)'
  BY <1>0 DEF Traces
<1>2. ASSUME version[f] > 0, NEW j \in Latest(f)'
      PROVE  /\ wire'[j].version <= version[f]
             /\ wire'[j].version = version[f] => wire'[j].text = buffer[f]
  <2>1. was[j] \in Latest(f) /\ wire'[j] = wire[was[j]]
    BY <1>1
  <2> QED  BY <1>2, <2>1 DEF Versions
<1>3. ASSUME version[f] > 0, ~Reordering, NEW j \in Latest(f)', NEW k \in Latest(f)',
             j < k, wire'[k].kind = "change"
      PROVE  wire'[j].version < wire'[k].version
  <2>1. /\ was[j] \in Latest(f) /\ wire'[j] = wire[was[j]]
        /\ was[k] \in Latest(f) /\ wire'[k] = wire[was[k]] /\ was[j] < was[k]
    BY <1>1, <1>3
  <2> QED  BY <1>3, <2>1 DEF Versions
<1> QED  BY <1>2, <1>3 DEF Versions

LEMMA VersionsGrow ==
  ASSUME NEW f \in Files, NEW n, wire \in Seq(Message), Adds(f, n), UNCHANGED packages,
         version[f] \in Nat, wire'[n].version \in Nat, Versions(f),
         HasState(f) => StateFound(f).clientVersion \in Int,
         \/ /\ wire'[n].kind = "open" /\ version'[f] = wire'[n].version
            /\ buffer'[f] = wire'[n].text
         \/ /\ wire'[n].kind = "change" /\ version[f] > 0 /\ version'[f] = version[f] + 1
            /\ wire'[n].version = version'[f] /\ buffer'[f] = wire'[n].text
         \/ /\ wire'[n].kind = "save" /\ version[f] > 0 /\ version'[f] = version[f]
            /\ wire'[n].version = version[f] /\ buffer'[f] = wire'[n].text /\ UNCHANGED buffer
         \/ wire'[n].kind = "close" /\ version'[f] = 0
  PROVE  Versions(f)'
<1>1. /\ Of(f)' = Of(f) \cup {n} /\ n \in Nat /\ Of(f) \subseteq Nat
      /\ \A j \in Of(f) : j < n /\ wire'[j] = wire[j] /\ wire[j].version \in Nat
  <2>1. \A j \in 1..Len(wire) : wire[j] \in Message
    OBVIOUS
  <2> QED  BY <2>1 DEF Adds, Of, Message
<1>2. Opens(f)' = Opens(f) \cup (IF wire'[n].kind = "open" THEN {n} ELSE {})
  BY <1>1 DEF Opens
<1>3. Opens(f) \subseteq Of(f)
  BY DEF Opens
<1>4. HasState(f)' = HasState(f) /\ StateFound(f)' = StateFound(f)
  BY DEF HasState, StateFound, FindPackage
<1>5. CASE wire'[n].kind = "open"
  <2>1. Opens(f)' # {} /\ \A j \in Latest(f)' : j = n
    <3>1. n \in Opens(f)'
      BY <1>2, <1>5
    <3>2. \A j \in Latest(f)' : j \in Of(f)' /\ n <= j
      BY <3>1 DEF Latest
    <3>3. \A j \in Of(f)' : n <= j => j = n
      BY <1>1
    <3> QED  BY <3>1, <3>2, <3>3
  <2>2. version'[f] = wire'[n].version /\ buffer'[f] = wire'[n].text
    BY <1>5
  <2>3. ~(n < n)
    BY <1>1
  <2>4. version'[f] <= version'[f]
    BY <2>2
  <2> QED  BY <2>1, <2>2, <2>3, <2>4 DEF Versions
<1>6. CASE wire'[n].kind \in {"change", "save"}
  <2>1. Opens(f)' = Opens(f) /\ Latest(f)' = Latest(f) \cup {n} /\ Latest(f) \subseteq Of(f)
    <3>1. Opens(f)' = Opens(f)
      BY <1>2, <1>6
    <3> QED  BY <1>1, <1>3, <3>1 DEF Latest
  <2>2. /\ version[f] > 0 /\ version'[f] \in Nat /\ version[f] <= version'[f]
        /\ wire'[n].version = version'[f] /\ buffer'[f] = wire'[n].text
        /\ version'[f] = version[f] => buffer'[f] = buffer[f]
        /\ wire'[n].kind = "change" => version[f] < version'[f]
    BY <1>6
  <2>3. ASSUME NEW j \in Latest(f)
        PROVE  /\ wire'[j] = wire[j] /\ wire[j].version \in Nat /\ wire[j].version <= version[f]
               /\ wire[j].version = version[f] => wire[j].text = buffer[f]
    BY <1>1, <2>1, <2>2 DEF Versions
  <2>4. ASSUME NEW j \in Latest(f)'
        PROVE  /\ wire'[j].version <= version'[f]
               /\ wire'[j].version = version'[f] => wire'[j].text = buffer'[f]
    <3>1. CASE j \in Latest(f)
      BY <2>2, <2>3, <3>1
    <3>2. CASE j = n
      BY <2>2, <3>2
    <3> QED  BY <2>1, <3>1, <3>2
  <2>5. ASSUME ~Reordering, NEW j \in Latest(f)', NEW k \in Latest(f)', j < k,
               wire'[k].kind = "change"
        PROVE  wire'[j].version < wire'[k].version
    <3>1. CASE k \in Latest(f)
      <4>1. j \in Latest(f)
        BY <1>1, <2>1, <2>5, <3>1
      <4> QED  BY <2>2, <2>3, <2>5, <3>1, <4>1 DEF Versions
    <3>2. CASE k \notin Latest(f)
      <4>1. k = n /\ j \in Latest(f)
        BY <1>1, <2>1, <2>5, <3>2
      <4> QED  BY <2>2, <2>3, <2>5, <4>1
    <3> QED  BY <3>1, <3>2
  <2>6. Opens(f)' = {} /\ HasState(f)' /\ StateFound(f)'.text # None =>
          StateFound(f)'.clientVersion <= version'[f]
    <3> SUFFICES ASSUME Opens(f) = {}, HasState(f), StateFound(f).text # None
                 PROVE  StateFound(f).clientVersion <= version'[f]
      BY <1>4, <2>1
    <3>1. StateFound(f).clientVersion <= version[f]
      BY <2>2 DEF Versions
    <3> DEFINE c == StateFound(f).clientVersion
    <3>0. c \in Int
      OBVIOUS
    <3> HIDE DEF c
    <3>4. c <= version[f]
      BY <3>1 DEF c
    <3>5. c <= version'[f]
      BY <2>2, <3>0, <3>4
    <3> QED  BY <3>5 DEF c
  <2> QED  BY <2>4, <2>5, <2>6 DEF Versions
<1>7. CASE wire'[n].kind = "close"
  BY <1>7 DEF Versions
<1> QED  BY <1>5, <1>6, <1>7

LEMMA ArrivesSurvive ==
  ASSUME NEW f \in Files, NEW i, wire \in Seq(Message), Survives(f, {i}),
         i \in Of(f) => First(f, i),
         version'[f] = version[f], Arrives(f),
         version[f] > 0 /\ (Arrived(f) \/ Brings(i, f)) => Arrived(f)'
  PROVE  Arrives(f)'
<1>0. PICK was : Traces(was, f, i)
  BY Surviving
<1>1. /\ \A j \in Of(f)' : wire'[j] = wire[was[j]]
      /\ \A j \in Latest(f)' : was[j] \in Latest(f) /\ j \in Of(f)'
      /\ \A k \in Latest(f) \ {i} : \E j \in Latest(f)' : was[j] = k
  BY <1>0 DEF Traces
<1>2. ASSUME NEW k \in Of(f), k # i, Brings(k, f)
      PROVE  \E j \in Of(f)' : Brings(j, f)'
  <2>1. PICK j \in Latest(f)' : was[j] = k
    BY <1>1, <1>2 DEF Brings
  <2>2. j \in Of(f)' /\ wire'[j] = wire[k]
    BY <1>1, <2>1
  <2>3. Brings(j, f)'
    BY <1>2, <2>1, <2>2 DEF Brings
  <2> QED  BY <2>2, <2>3
<1> QED  BY <1>2 DEF Arrives

LEMMA DirtySurvives ==
  ASSUME NEW f \in Files, NEW i, wire \in Seq(Message), Survives(f, {i}),
         i \in Of(f) => First(f, i),
         version'[f] = version[f], buffer'[f] = buffer[f], disk'[f] = disk[f], Dirty(f),
         version[f] > 0 /\ (Stale(f) \/ Dirties(i, f)) => Stale(f)'
  PROVE  Dirty(f)'
<1>0. PICK was : Traces(was, f, i)
  BY Surviving
<1>1. /\ \A j \in Of(f)' : wire'[j] = wire[was[j]]
      /\ \A j, k \in Of(f)' : j < k <=> was[j] < was[k]
      /\ \A j \in Saves(f)' : was[j] \in Saves(f) /\ j \in Of(f)'
      /\ \A j \in Latest(f)' : was[j] \in Latest(f) /\ j \in Of(f)'
      /\ \A k \in Latest(f) \ {i} : \E j \in Latest(f)' : was[j] = k
  BY <1>0 DEF Traces
<1>2. ASSUME NEW k \in Of(f), k # i, Dirties(k, f)
      PROVE  \E j \in Of(f)' : Dirties(j, f)'
  <2>1. PICK j \in Latest(f)' : was[j] = k
    BY <1>1, <1>2 DEF Dirties
  <2>2. j \in Of(f)' /\ wire'[j] = wire[k]
    BY <1>1, <2>1
  <2>3. \A l \in Saves(f)' : l < j
    BY <1>1, <1>2, <2>1, <2>2 DEF Dirties
  <2>4. Dirties(j, f)'
    BY <1>2, <2>1, <2>2, <2>3 DEF Dirties
  <2> QED  BY <2>2, <2>4
<1> QED  BY <1>2 DEF Dirty

\* What the client sends is the last of the session, an opening the first too.
LEMMA Newest ==
  ASSUME NEW f \in Files, NEW n, wire \in Seq(Message), Adds(f, n)
  PROVE  /\ n \in Latest(f)' /\ n \in Of(f)'
         /\ wire'[n].kind # "open" =>
              Opens(f)' = Opens(f) /\ Latest(f)' = Latest(f) \cup {n}
         /\ wire'[n].kind = "open" => n \in Opens(f)'
         /\ wire'[n].kind # "save" => Saves(f)' = Saves(f)
         /\ wire'[n].kind = "save" => n \in Saves(f)'
         /\ \A j \in Of(f) : j < n /\ j \in Of(f)' /\ wire'[j] = wire[j]
<1>1. /\ Of(f)' = Of(f) \cup {n} /\ n \in Nat /\ Of(f) \subseteq Nat
      /\ \A j \in Of(f) : j < n /\ wire'[j] = wire[j]
  BY DEF Adds, Of
<1>2. Opens(f)' = Opens(f) \cup (IF wire'[n].kind = "open" THEN {n} ELSE {})
  BY <1>1 DEF Opens
<1>3. Saves(f)' = Saves(f) \cup (IF wire'[n].kind = "save" THEN {n} ELSE {})
  BY <1>1 DEF Saves
<1>4. Opens(f) \subseteq Of(f)
  BY DEF Opens
<1>5. n \in Latest(f)'
  <2>1. \A j \in Opens(f)' : j <= n
    BY <1>1, <1>2, <1>4
  <2> QED  BY <1>1, <2>1 DEF Latest
<1>6. ASSUME wire'[n].kind # "open" PROVE Latest(f)' = Latest(f) \cup {n}
  <2>1. Opens(f)' = Opens(f)
    BY <1>2, <1>6
  <2> QED  BY <1>1, <1>4, <2>1 DEF Latest
<1> QED  BY <1>1, <1>2, <1>3, <1>5, <1>6

LEMMA ArrivesGrow ==
  ASSUME NEW f \in Files, NEW n, wire \in Seq(Message), Adds(f, n),
         UNCHANGED <<packages, source, shown>>, Arrives(f),
         \/ wire'[n].kind \in {"open", "change"} /\ wire'[n].version = version'[f]
         \/ wire'[n].kind = "save" /\ UNCHANGED <<version, buffer>>
         \/ version'[f] = 0
  PROVE  Arrives(f)'
<1>1. CASE wire'[n].kind \in {"open", "change"} /\ wire'[n].version = version'[f]
  BY <1>1, Newest DEF Arrives, Brings
<1>2. CASE wire'[n].kind = "save" /\ UNCHANGED <<version, buffer>>
  <2>1. /\ Opens(f)' = Opens(f) /\ Latest(f)' = Latest(f) \cup {n}
        /\ \A j \in Of(f) : j \in Of(f)' /\ wire'[j] = wire[j]
        /\ Of(f)' = Of(f) \cup {n}
    BY <1>2, Newest DEF Adds
  <2>2. HasState(f)' = HasState(f) /\ StateFound(f)' = StateFound(f)
    BY DEF HasState, StateFound, FindPackage
  <2>3. Kept(f) => Kept(f)'
    BY <1>2, <2>1, <2>2 DEF Kept
  <2>4. Arrived(f) => Arrived(f)'
    BY <1>2, <2>1, <2>3 DEF Arrived
  <2>5. \A j \in Of(f) : Brings(j, f) => Brings(j, f)'
    BY <1>2, <2>1 DEF Brings
  <2> QED  BY <1>2, <2>1, <2>4, <2>5 DEF Arrives
<1>3. CASE version'[f] = 0
  BY <1>3 DEF Arrives
<1> QED  BY <1>1, <1>2, <1>3

LEMMA DirtyGrows ==
  ASSUME NEW f \in Files, NEW n, wire \in Seq(Message), Adds(f, n),
         \/ /\ wire'[n].kind = "change" /\ wire'[n].version = version'[f]
         \/ buffer'[f] = disk'[f]
         \/ version'[f] = 0
  PROVE  Dirty(f)'
<1>1. CASE wire'[n].kind = "change" /\ wire'[n].version = version'[f]
  <2>1. n \in Latest(f)' /\ n \in Of(f)' /\ Saves(f)' = Saves(f)
        /\ \A j \in Of(f) : j < n
    BY <1>1, Newest
  <2>2. \A j \in Saves(f)' : j < n
    BY <2>1 DEF Saves
  <2>3. Dirties(n, f)'
    BY <1>1, <2>1, <2>2 DEF Dirties
  <2> QED  BY <2>1, <2>3 DEF Dirty
<1>2. CASE buffer'[f] = disk'[f]
  BY <1>2 DEF Dirty
<1>3. CASE version'[f] = 0
  BY <1>3 DEF Dirty
<1> QED  BY <1>1, <1>2, <1>3

------------------------------------------------------------------------------
(* What a step leaves as it is.                                            *)

Listed(f) == \E p \in DOMAIN packages : f \in DOMAIN packages[p].docs

\* The manager knows of document f what it knew.  It may find another package for
\* it: then it has no text for it there.
KeepsState(f) ==
  /\ FindPackage(f) # None => FindPackage(f)' # None
  /\ HasState(f)' /\ StateFound(f)'.text # None =>
       /\ HasState(f) /\ StateFound(f)'.text = StateFound(f).text
       /\ StateFound(f)'.clientVersion = StateFound(f).clientVersion
       /\ StateFound(f)'.edited = StateFound(f).edited
  /\ Flat /\ HasState(f) =>
       /\ HasState(f)' /\ StateFound(f)'.text = StateFound(f).text
       /\ StateFound(f)'.clientVersion = StateFound(f).clientVersion
       /\ StateFound(f)'.edited = StateFound(f).edited
  /\ Listed(f) => Listed(f)'

Quietly(f) ==
  KeepsState(f) /\ (source[f] # None => source'[f] = source[f])

\* What the client shows of f is as it was, or has come with the last run.
ShowsQuietly(f) ==
  /\ shown'[f] = shown[f] \/ shown'[f].from = "compile"
  /\ Listed(f) => \/ shown'[f] = shown[f] /\ compileRun'[Here] = compileRun[Here]
                  \/ shown'[f].from = "compile" /\ shown'[f].at = compileRun'[Here]

LEMMA NoChange ==
  ASSUME NEW f \in Files, UNCHANGED <<packages, source, shown>>,
         compileRun'[Here] = compileRun[Here]
  PROVE  Quietly(f) /\ ShowsQuietly(f)
<1>1. FindPackage(f)' = FindPackage(f) /\ HasState(f)' = HasState(f)
      /\ StateFound(f)' = StateFound(f) /\ Listed(f)' = Listed(f)
  BY DEF HasState, StateFound, FindPackage, Listed
<1> QED  BY <1>1 DEF Quietly, KeepsState, ShowsQuietly

\* A document of which no message is handled.
LEMMA QuietKeeps ==
  ASSUME IInv, NEW f \in Files, NEW i, i \notin Of(f), Survives(f, {i}),
         version'[f] = version[f],
         version[f] > 0 => buffer'[f] = buffer[f] /\ disk'[f] = disk[f],
         Quietly(f), ShowsQuietly(f),
         Sessions(f), Founds(f), Known(f), Versions(f)
  PROVE  /\ Sessions(f)' /\ Founds(f)' /\ Known(f)' /\ Versions(f)'
         /\ (Flat \/ ~Reordering) /\ Arrives(f) => Arrives(f)'
         /\ Flat /\ Dirty(f) => Dirty(f)'
<1>1. wire \in Seq(Message) /\ version[f] \in Nat /\ (version[f] > 0 \/ version[f] = 0)
      /\ buffer[f] \in Texts /\ buffer[f] # None
  BY WorkspaceAssumption DEF IInv, Typed
<1>2. Fresh(f) => Fresh(f)'
  BY DEF Fresh, Quietly, KeepsState
<1>3. Sessions(f)'
  BY <1>1, <1>2, SessionsSurvive
<1>4. Founds(f)'
  <2>1. FindPackage(f) # None \/ i \in Opens(f) => FindPackage(f)' # None
    BY DEF Quietly, KeepsState, Opens
  <2> QED  BY <1>1, <2>1, FoundsSurvive
<1>5. PICK was : Traces(was, f, i)
  BY <1>1, Surviving
<1>6. /\ Opens(f)' = {} <=> Opens(f) = {}
      /\ Saves(f)' = {} <=> Saves(f) = {}
      /\ \A j \in Of(f)' : was[j] \in Of(f) /\ wire'[j] = wire[was[j]]
  <2>1. i \notin Opens(f) /\ i \notin Saves(f)
    BY DEF Opens, Saves
  <2> QED  BY <1>5, <2>1 DEF Traces
<1>7. Known(f)'
  <2> SUFFICES ASSUME version'[f] > 0, Opens(f)' = {}
               PROVE  /\ Listed(f)'
                      /\ shown'[f].from = "compile" /\ shown'[f].of > 0 =>
                           shown'[f].at = compileRun'[Here]
    BY DEF Known, Listed
  <2>1. version[f] > 0 /\ Opens(f) = {}
    BY <1>6
  <2>2. /\ Listed(f)
        /\ shown[f].from = "compile" /\ shown[f].of > 0 => shown[f].at = compileRun[Here]
    BY <2>1 DEF Known, Listed
  <2> QED  BY <2>2 DEF Quietly, KeepsState, ShowsQuietly
<1>8. Versions(f)'
  <2>1. CASE version[f] = 0
    BY <2>1 DEF Versions
  <2>2. CASE version[f] > 0
    <3>1. Opens(f)' = {} /\ HasState(f)' /\ StateFound(f)'.text # None =>
            StateFound(f)'.clientVersion <= version[f]
      BY <1>6, <2>2 DEF Quietly, KeepsState, Versions
    <3> QED  BY <1>1, <2>2, <3>1, VersionsSurvive
  <2> QED  BY <1>1, <2>1, <2>2
<1>9. ASSUME Flat \/ ~Reordering, Arrives(f) PROVE Arrives(f)'
  <2>1. ASSUME version[f] > 0, Arrived(f) PROVE Arrived(f)'
    <3>1. Kept(f)'
      <4>1. CASE Flat /\ HasState(f) /\ StateFound(f).text # None
                      /\ StateFound(f).clientVersion = version[f]
        BY <4>1 DEF Kept, Quietly, KeepsState
      <4>2. CASE ~Reordering /\ \A j \in Of(f) : wire[j].kind # "change"
        BY <1>6, <4>2 DEF Kept
      <4> QED  BY <2>1, <4>1, <4>2 DEF Arrived, Kept
    <3>2. Opens(f)' = {} /\ source'[f] = buffer'[f]
      BY <1>1, <1>6, <2>1 DEF Arrived, Quietly, KeepsState
    <3>3. shown'[f].from = "syntax" => shown'[f].of = buffer'[f]
      BY <2>1 DEF Arrived, ShowsQuietly
    <3> QED  BY <3>1, <3>2, <3>3 DEF Arrived
  <2>2. ~Brings(i, f)
    BY DEF Brings, Latest
  <2> QED  BY <1>1, <1>9, <2>1, <2>2, ArrivesSurvive
<1>10. ASSUME Flat, Dirty(f) PROVE Dirty(f)'
  <2>1. CASE version[f] = 0
    BY <2>1 DEF Dirty
  <2>2. CASE version[f] > 0
    <3>1. Stale(f) => Stale(f)'
      BY <1>6, <1>10 DEF Stale, Quietly, KeepsState
    <3>2. ~Dirties(i, f)
      BY DEF Dirties, Latest
    <3> QED  BY <1>1, <1>10, <2>2, <3>1, <3>2, DirtySurvives
  <2> QED  BY <1>1, <2>1, <2>2
<1> QED  BY <1>3, <1>4, <1>7, <1>8, <1>9, <1>10

LEMMA FoundStates ==
  ASSUME PackagesSound, NEW f \in Files
  PROVE  /\ FindPackage(f) \in DOMAIN packages \cup {None}
         /\ HasState(f) => FindPackage(f) \in DOMAIN packages /\ StateFound(f) \in Document
<1>1. FindPackage(f) = Nearest(DOMAIN packages, f)
  BY DEF FindPackage, Nearest
<1>2. FindPackage(f) \in DOMAIN packages \cup {None}
  BY <1>1, FoundMoves DEF PackagesSound
<1>3. ASSUME HasState(f) PROVE FindPackage(f) \in DOMAIN packages /\ StateFound(f) \in Document
  <2>1. PICK p \in DOMAIN packages : p = FindPackage(f)
    BY <1>2, <1>3 DEF HasState
  <2>2. Sound(p, packages[p]) /\ f \in DOMAIN packages[p].docs
    BY <1>3, <2>1 DEF HasState, PackagesSound
  <2> QED  BY <2>1, <2>2, DocsAreFunctions DEF Sound, Package, StateFound
<1> QED  BY <1>2, <1>3

LEMMA SavesStay ==
  ASSUME NEW f \in Files, NEW i, wire \in Seq(Message), Survives(f, {i}),
         i \in Of(f) => First(f, i), i \notin Saves(f), Saves(f) # {}
  PROVE  Saves(f)' # {}
<1>1. PICK was : Traces(was, f, i)
  BY Surviving
<1>2. \A k \in Saves(f) \ {i} : \E j \in Saves(f)' : was[j] = k
  BY <1>1 DEF Traces
<1> QED  BY <1>2

LEMMA LastSavedSurvives ==
  ASSUME NEW f \in Files, NEW i, wire \in Seq(Message), Survives(f, {i}),
         i \in Of(f) => First(f, i), i \in Saves(f) => \A j \in Saves(f) : i <= j,
         disk'[f] = disk[f], LastSaved(f)
  PROVE  LastSaved(f)'
<1>1. PICK was : Traces(was, f, i)
  BY Surviving
<1> SUFFICES ASSUME NEW j \in Saves(f)', wire'[j].text # disk[f]
             PROVE  \E k \in Saves(f)' : j < k
  BY DEF LastSaved
<1>2. was[j] \in Saves(f) /\ was[j] # i /\ j \in Of(f)' /\ wire'[j] = wire[was[j]]
  BY <1>1 DEF Traces
<1>3. PICK l \in Saves(f) : was[j] < l
  BY <1>2 DEF LastSaved
<1>4. Saves(f) \subseteq Nat
  BY DEF Saves, Of
<1>5. l # i
  BY <1>2, <1>3, <1>4
<1>6. PICK k \in Saves(f)' : was[k] = l /\ k \in Of(f)'
  BY <1>1, <1>5 DEF Traces
<1> QED  BY <1>1, <1>2, <1>3, <1>6 DEF Traces

LEMMA LastSavedGrows ==
  ASSUME NEW f \in Files, NEW n, wire \in Seq(Message), Adds(f, n), LastSaved(f),
         \/ wire'[n].kind = "save" /\ wire'[n].text = disk'[f]
         \/ wire'[n].kind # "save" /\ disk'[f] = disk[f]
  PROVE  LastSaved(f)'
<1>1. /\ wire'[n].kind # "save" => Saves(f)' = Saves(f)
      /\ wire'[n].kind = "save" => n \in Saves(f)'
      /\ \A j \in Of(f) : j < n /\ wire'[j] = wire[j]
  BY Newest
<1>2. Saves(f) \subseteq Of(f) /\ Saves(f)' \subseteq Of(f)'
  BY DEF Saves
<1>3. Of(f)' = Of(f) \cup {n}
  BY DEF Adds
<1>4. CASE wire'[n].kind = "save" /\ wire'[n].text = disk'[f]
  BY <1>1, <1>2, <1>3, <1>4 DEF LastSaved
<1>5. CASE wire'[n].kind # "save" /\ disk'[f] = disk[f]
  BY <1>1, <1>2, <1>5 DEF LastSaved
<1> QED  BY <1>4, <1>5

\* A step that neither sends or handles a message nor writes a file nor puts one
\* aside.
LEMMA NothingSaved ==
  ASSUME UNCHANGED <<wire, disk>>,
         \A f \in DOMAIN awaiting : f \in DOMAIN awaiting' /\ awaiting'[f] = awaiting[f]
  PROVE  /\ \A f, text : AsOnDisk(f, text) =>
                            text = disk'[f] \/ PutAsideAsSaved(f)' \/ Saves(f)' # {}
         /\ \A f \in Files : \A text : AsOnDisk(f, text) => AsOnDisk(f, text)'
         /\ \A f : LastSaved(f) => LastSaved(f)'
<1>1. \A f : PutAsideAsSaved(f) => PutAsideAsSaved(f)'
  BY DEF PutAsideAsSaved, TextHash
<1>2. \A f : Saves(f)' = Saves(f)
  BY DEF Saves, Of
<1> QED  BY <1>1, <1>2 DEF AsOnDisk, LastSaved

\* A result that waits names files.
LEMMA ResultFiles ==
  ASSUME IInv, NEW k \in 1..Len(finished[Here])
  PROVE  /\ finished[Here][k].run \in Nat
         /\ IsOutcome(finished[Here][k].result)
         /\ finished[Here][k].result.ok =>
              \A p \in DOMAIN finished[Here][k].result.program :
                DOMAIN finished[Here][k].result.program[p] \subseteq Files
<1>1. PICK O : finished \in [Managers -> Seq(ResultOf(O))] /\ \A x \in O : IsOutcome(x)
  BY Zenon DEF IInv, Typed, Finished
<1>2. finished[Here][k] \in ResultOf(O)
  BY <1>1, WorkspaceAssumption
<1>3. IsOutcome(finished[Here][k].result) /\ finished[Here][k].run \in Nat
  BY <1>1, <1>2 DEF ResultOf
<1> QED  BY <1>3 DEF IsOutcome, FilesIn

\* What the packages have is what they had, and no compile ends.
LEMMA CompilesKeep ==
  ASSUME IInv, Compiles, finished'[Here] = finished[Here],
         compiling[Here] => compiling'[Here],
         \A p \in DOMAIN packages' : \A f \in Files :
           packages'[p].run = compileRun'[Here] /\ ModuleOf(packages'[p], f) # None =>
             /\ p \in DOMAIN packages /\ packages[p].run = compileRun[Here]
             /\ ModuleOf(packages[p], f) = ModuleOf(packages'[p], f),
         \A f \in Files : LastSaved(f)',
         \/ \A f \in Files : \A text : AsOnDisk(f, text) => AsOnDisk(f, text)'
         \/ compiling'[Here] /\ finished[Here] = <<>>
  PROVE  Compiles'
<1>1. CASE compiling'[Here] /\ finished[Here] = <<>>
  <2>1. Len(finished'[Here]) = 0
    BY <1>1
  <2> QED  BY <1>1, <2>1 DEF Compiles
<1>2. CASE \A f \in Files : \A text : AsOnDisk(f, text) => AsOnDisk(f, text)'
  <2>1. \/ compiling'[Here]
        \/ \A p \in DOMAIN packages' : \A f \in Files :
             packages'[p].run = compileRun'[Here] /\ ModuleOf(packages'[p], f) # None =>
               \/ ModuleOf(packages'[p], f) = disk'[f]
               \/ PutAsideAsSaved(f)' \/ Saves(f)' # {}
    <3>1. CASE compiling[Here]
      BY <3>1
    <3>2. CASE ~compiling[Here]
      <4> SUFFICES ASSUME NEW p \in DOMAIN packages', NEW f \in Files,
                          packages'[p].run = compileRun'[Here], ModuleOf(packages'[p], f) # None
                   PROVE  \/ ModuleOf(packages'[p], f) = disk'[f]
                          \/ PutAsideAsSaved(f)' \/ Saves(f)' # {}
        OBVIOUS
      <4>1. PICK text : text = ModuleOf(packages[p], f) /\ text = ModuleOf(packages'[p], f)
        OBVIOUS
      <4>2. AsOnDisk(f, text)
        BY <3>2, <4>1 DEF Compiles
      <4>3. AsOnDisk(f, text)'
        BY <1>2, <4>2
      <4> QED  BY <4>1, <4>3 DEF AsOnDisk
    <3> QED  BY <3>1, <3>2
  <2>2. ASSUME NEW k \in 1..Len(finished'[Here]), finished'[Here][k].result.ok,
               NEW p \in DOMAIN finished'[Here][k].result.program,
               NEW f \in DOMAIN finished'[Here][k].result.program[p]
        PROVE  \/ finished'[Here][k].result.program[p][f] = disk'[f]
               \/ PutAsideAsSaved(f)' \/ Saves(f)' # {}
    <3>1. k \in 1..Len(finished[Here]) /\ finished'[Here][k] = finished[Here][k]
      OBVIOUS
    <3>2. f \in Files
      BY <2>2, <3>1, ResultFiles
    <3>3. PICK text : text = finished[Here][k].result.program[p][f]
      OBVIOUS
    <3>4. AsOnDisk(f, text)
      BY <2>2, <3>1, <3>3 DEF Compiles
    <3>5. AsOnDisk(f, text)'
      BY <1>2, <3>2, <3>4
    <3> QED  BY <3>1, <3>3, <3>5 DEF AsOnDisk
  <2> QED  BY <2>1, <2>2 DEF Compiles, AsOnDisk
<1> QED  BY <1>1, <1>2

------------------------------------------------------------------------------
(* The client's steps.                                                     *)

LEMMA ClientSays ==
  ASSUME IInv, DInv, NEW f \in Files, NEW m \in Message, m.file = f, wire' = Append(wire, m),
         UNCHANGED <<packages, source, shown, compileRun, compiling, awaiting, finished>>,
         \A g \in Files \ {f} :
           version'[g] = version[g] /\ buffer'[g] = buffer[g] /\ disk'[g] = disk[g],
         \/ /\ m.kind = "open" /\ version[f] = 0 /\ version'[f] = 1 /\ m.version = 1
            /\ m.text = buffer'[f] /\ buffer'[f] = disk[f] /\ UNCHANGED disk
         \/ /\ m.kind = "change" /\ version[f] > 0 /\ version'[f] = version[f] + 1
            /\ m.version = version'[f] /\ m.text = buffer'[f] /\ UNCHANGED disk
         \/ /\ m.kind = "save" /\ version[f] > 0 /\ UNCHANGED <<version, buffer>>
            /\ m.version = version[f] /\ m.text = buffer[f] /\ disk'[f] = buffer[f]
         \/ /\ m.kind = "close" /\ version[f] > 0 /\ version'[f] = 0 /\ UNCHANGED disk
  PROVE  DInv'
<1>1. /\ wire \in Seq(Message) /\ \A g \in Files : version[g] \in Nat
      /\ PackagesSound
      /\ \A g \in Files : Sessions(g) /\ Founds(g) /\ Known(g) /\ Versions(g)
  BY DEF IInv, Typed, DInv
<1>2. PICK n : n = Len(wire) + 1
  OBVIOUS
<1>3. Adds(f, n) /\ wire'[n] = m
  BY <1>1, <1>2, Appended
<1>14. /\ m.kind # "open" => Opens(f)' = Opens(f)
       /\ m.kind = "open" => Opens(f)' # {}
       /\ m.kind # "save" => Saves(f)' = Saves(f)
       /\ m.kind = "save" => Saves(f)' # {}
  <2>1. /\ wire'[n].kind # "open" =>
              Opens(f)' = Opens(f) /\ Latest(f)' = Latest(f) \cup {n}
        /\ wire'[n].kind = "open" => n \in Opens(f)'
        /\ wire'[n].kind # "save" => Saves(f)' = Saves(f)
        /\ wire'[n].kind = "save" => n \in Saves(f)'
    BY <1>1, <1>3, Newest
  <2> QED  BY <1>3, <2>1
<1>4. /\ FindPackage(f)' = FindPackage(f) /\ HasState(f)' = HasState(f)
      /\ StateFound(f)' = StateFound(f) /\ Listed(f)' = Listed(f)
  BY DEF HasState, StateFound, FindPackage, Listed
<1>5. Sessions(f)'
  <2>1. Fresh(f) => Fresh(f)'
    BY <1>4 DEF Fresh
  <2>2. \/ wire'[n].kind = "open" /\ version[f] = 0 /\ version'[f] = 1
        \/ wire'[n].kind \in {"change", "save"} /\ version[f] > 0 /\ version'[f] \in Nat \ {0}
        \/ wire'[n].kind = "close" /\ version[f] > 0 /\ version'[f] = 0
    BY <1>1, <1>3
  <2> QED  BY <1>1, <1>3, <2>1, <2>2, SessionsGrow
<1>6. Founds(f)'
  <2>1. wire'[n].kind # "open" => version[f] > 0
    BY <1>3
  <2> QED  BY <1>1, <1>3, <1>4, <2>1, FoundsGrow
<1>7. Known(f)'
  <2>1. CASE m.kind = "open"
    BY <1>14, <2>1 DEF Known
  <2>2. CASE m.kind \in {"change", "save"}
    <3>1. version[f] > 0 /\ Opens(f)' = Opens(f)
      BY <1>14, <2>2
    <3> QED  BY <1>1, <1>4, <3>1 DEF Known, Listed
  <2>3. CASE m.kind = "close"
    BY <2>3 DEF Known
  <2> QED  BY <2>1, <2>2, <2>3
<1>8. Versions(f)'
  <2>1. HasState(f) => StateFound(f).clientVersion \in Int
    BY <1>1, FoundStates DEF Document
  <2>2. wire'[n].version \in Nat
    BY <1>3 DEF Message
  <2>3. \/ /\ wire'[n].kind = "open" /\ version'[f] = wire'[n].version
           /\ buffer'[f] = wire'[n].text
        \/ /\ wire'[n].kind = "change" /\ version[f] > 0 /\ version'[f] = version[f] + 1
           /\ wire'[n].version = version'[f] /\ buffer'[f] = wire'[n].text
        \/ /\ wire'[n].kind = "save" /\ version[f] > 0 /\ version'[f] = version[f]
           /\ wire'[n].version = version[f] /\ buffer'[f] = wire'[n].text /\ UNCHANGED buffer
        \/ wire'[n].kind = "close" /\ version'[f] = 0
    BY <1>3
  <2> QED  BY <1>1, <1>3, <2>1, <2>2, <2>3, VersionsGrow
<1>9. ASSUME Arrives(f) PROVE Arrives(f)'
  <2>1. \/ wire'[n].kind \in {"open", "change"} /\ wire'[n].version = version'[f]
        \/ wire'[n].kind = "save" /\ UNCHANGED <<version, buffer>>
        \/ version'[f] = 0
    BY <1>3
  <2> QED  BY <1>1, <1>3, <1>9, <2>1, ArrivesGrow
<1>10. Dirty(f)'
  <2>1. \/ wire'[n].kind = "change" /\ wire'[n].version = version'[f]
        \/ buffer'[f] = disk'[f]
        \/ version'[f] = 0
    BY <1>3
  <2> QED  BY <1>1, <1>3, <2>1, DirtyGrows
<1>11. ASSUME NEW g \in Files, g # f
       PROVE  /\ Sessions(g)' /\ Founds(g)' /\ Known(g)' /\ Versions(g)'
              /\ (Flat \/ ~Reordering) /\ Arrives(g) => Arrives(g)'
              /\ Flat /\ Dirty(g) => Dirty(g)'
              /\ Saves(g) # {} => Saves(g)' # {}
              /\ LastSaved(g) => LastSaved(g)'
  <2>1. 0 \notin Of(g) /\ Survives(g, {0})
    BY <1>1, <1>11, Appended DEF Of
  <2>2. Quietly(g) /\ ShowsQuietly(g)
    BY NoChange
  <2>3. Saves(g) # {} => Saves(g)' # {}
    <3>1. 0 \notin Saves(g)
      BY <2>1 DEF Saves
    <3> QED  BY <1>1, <2>1, <3>1, SavesStay
  <2>4. LastSaved(g) => LastSaved(g)'
    <3>1. 0 \notin Saves(g) /\ disk'[g] = disk[g]
      BY <1>11, <2>1 DEF Saves
    <3> QED  BY <1>1, <2>1, <3>1, LastSavedSurvives
  <2> QED  BY <1>1, <1>11, <2>1, <2>2, <2>3, <2>4, QuietKeeps
<1>12. ASSUME Compiles PROVE Compiles'
  <2>0. ASSUME NEW g \in Files, g # f \/ m.kind # "save", PutAsideAsSaved(g)
        PROVE  PutAsideAsSaved(g)'
    <3>1. disk'[g] = disk[g] /\ awaiting' = awaiting
      BY <2>0
    <3> QED  BY <2>0, <3>1 DEF PutAsideAsSaved, TextHash
  <2>1. ASSUME NEW g \in Files, NEW text, AsOnDisk(g, text) PROVE AsOnDisk(g, text)'
    <3>1. CASE g # f
      BY <1>11, <2>0, <2>1, <3>1 DEF AsOnDisk
    <3>2. CASE g = f /\ m.kind = "save"
      <4>1. Saves(f)' # {}
        BY <1>14, <3>2
      <4> QED  BY <3>2, <4>1 DEF AsOnDisk
    <3>3. CASE g = f /\ m.kind # "save"
      <4>1. Saves(f)' = Saves(f) /\ disk' = disk
        BY <1>14, <3>3
      <4> QED  BY <2>0, <2>1, <3>3, <4>1 DEF AsOnDisk
    <3> QED  BY <3>1, <3>2, <3>3
  <2>2. ASSUME NEW g \in Files PROVE LastSaved(g)'
    <3>1. LastSaved(g)
      BY <1>12 DEF Compiles
    <3>2. CASE g # f
      BY <1>11, <3>1, <3>2
    <3>3. CASE g = f
      <4>1. \/ wire'[n].kind = "save" /\ wire'[n].text = disk'[f]
            \/ wire'[n].kind # "save" /\ disk'[f] = disk[f]
        BY <1>3
      <4> QED  BY <1>1, <1>3, <3>1, <3>3, <4>1, LastSavedGrows
    <3> QED  BY <3>2, <3>3
  <2> QED  BY <1>12, <2>1, <2>2, CompilesKeep
<1>13. PackagesSound'
  BY <1>1 DEF PackagesSound
<1> QED  BY <1>5, <1>6, <1>7, <1>8, <1>9, <1>10, <1>11, <1>12, <1>13 DEF DInv, Flat

\* A step in which no message is sent and none is handled.
LEMMA QuietStep ==
  ASSUME IInv, DInv, UNCHANGED <<wire, version>>,
         \A f \in Files : version[f] > 0 => buffer'[f] = buffer[f] /\ disk'[f] = disk[f],
         \A f \in Files : Quietly(f) /\ ShowsQuietly(f),
         PackagesSound', DOMAIN source' = Files, DOMAIN shown' = Files,
         ~Outsiders => Compiles'
  PROVE  DInv'
<1>1. wire \in Seq(Message)
  BY DEF IInv, Typed
<1>2. ASSUME NEW f \in Files
      PROVE  /\ Sessions(f)' /\ Founds(f)' /\ Known(f)' /\ Versions(f)'
             /\ (Flat \/ ~Reordering) /\ Arrives(f) => Arrives(f)'
             /\ Flat /\ Dirty(f) => Dirty(f)'
  <2>1. 0 \notin Of(f) /\ Survives(f, {0})
    BY <1>1, SameLog DEF Of
  <2> QED  BY <2>1, QuietKeeps DEF DInv
<1> QED  BY <1>2 DEF DInv, Flat

LEMMA SaysOpen ==
  ASSUME IInv, DInv, NEW f \in Files, Open(f) PROVE DInv'
<1> DEFINE m == [kind |-> "open", file |-> f, text |-> disk[f], version |-> 1]
<1>1. /\ disk \in [Files -> Texts] /\ version \in [Files -> Nat] /\ buffer \in [Files -> Texts]
  BY DEF IInv, Typed
<1>2. m \in Message /\ wire' = Append(wire, m)
  BY <1>1 DEF Message, Open, Say
<1>3. m.kind = "open" /\ m.file = f /\ m.text = disk[f] /\ m.version = 1
  OBVIOUS
<1> HIDE DEF m
<1>4. /\ version[f] = 0 /\ version'[f] = 1 /\ buffer'[f] = disk[f] /\ UNCHANGED disk
      /\ \A g \in Files \ {f} :
           version'[g] = version[g] /\ buffer'[g] = buffer[g] /\ disk'[g] = disk[g]
      /\ UNCHANGED <<packages, source, shown, compileRun, compiling, awaiting, finished>>
  BY <1>1 DEF Open, Act, managerVars, compilerVars
<1> QED  BY <1>2, <1>3, <1>4, ClientSays

LEMMA SaysEdit ==
  ASSUME IInv, DInv, NEW f \in Files, NEW text \in Texts, Edit(f, text) PROVE DInv'
<1> DEFINE m == [kind |-> "change", file |-> f, text |-> text, version |-> version[f] + 1]
<1>1. /\ disk \in [Files -> Texts] /\ version \in [Files -> Nat] /\ buffer \in [Files -> Texts]
  BY DEF IInv, Typed
<1>2. m \in Message /\ wire' = Append(wire, m)
  BY <1>1 DEF Message, Edit, Say
<1>3. m.kind = "change" /\ m.file = f /\ m.text = text /\ m.version = version[f] + 1
  OBVIOUS
<1> HIDE DEF m
<1>4. /\ version[f] > 0 /\ version'[f] = version[f] + 1 /\ buffer'[f] = text /\ UNCHANGED disk
      /\ \A g \in Files \ {f} :
           version'[g] = version[g] /\ buffer'[g] = buffer[g] /\ disk'[g] = disk[g]
      /\ UNCHANGED <<packages, source, shown, compileRun, compiling, awaiting, finished>>
  BY <1>1 DEF Edit, Act, managerVars, compilerVars
<1> QED  BY <1>2, <1>3, <1>4, ClientSays

LEMMA SaysSave ==
  ASSUME IInv, DInv, NEW f \in Files, Save(f) PROVE DInv'
<1> DEFINE m == [kind |-> "save", file |-> f, text |-> buffer[f], version |-> version[f]]
<1>1. /\ disk \in [Files -> Texts] /\ version \in [Files -> Nat] /\ buffer \in [Files -> Texts]
  BY DEF IInv, Typed
<1>2. m \in Message /\ wire' = Append(wire, m)
  BY <1>1 DEF Message, Save, Say
<1>3. m.kind = "save" /\ m.file = f /\ m.text = buffer[f] /\ m.version = version[f]
  OBVIOUS
<1> HIDE DEF m
<1>4. /\ version[f] > 0 /\ disk'[f] = buffer[f] /\ UNCHANGED <<version, buffer>>
      /\ \A g \in Files \ {f} :
           version'[g] = version[g] /\ buffer'[g] = buffer[g] /\ disk'[g] = disk[g]
      /\ UNCHANGED <<packages, source, shown, compileRun, compiling, awaiting, finished>>
  BY <1>1 DEF Save, Act, managerVars, compilerVars
<1> QED  BY <1>2, <1>3, <1>4, ClientSays

LEMMA SaysClose ==
  ASSUME IInv, DInv, NEW f \in Files, Close(f) PROVE DInv'
<1> DEFINE m == [kind |-> "close", file |-> f, text |-> disk[f], version |-> version[f]]
<1>1. /\ disk \in [Files -> Texts] /\ version \in [Files -> Nat] /\ buffer \in [Files -> Texts]
  BY DEF IInv, Typed
<1>2. m \in Message /\ wire' = Append(wire, m)
  BY <1>1 DEF Message, Close, Say
<1>3. m.kind = "close" /\ m.file = f
  OBVIOUS
<1> HIDE DEF m
<1>4. /\ version[f] > 0 /\ version'[f] = 0 /\ UNCHANGED disk
      /\ \A g \in Files \ {f} :
           version'[g] = version[g] /\ buffer'[g] = buffer[g] /\ disk'[g] = disk[g]
      /\ UNCHANGED <<packages, source, shown, compileRun, compiling, awaiting, finished>>
  BY <1>1 DEF Close, Act, managerVars, compilerVars
<1> QED  BY <1>2, <1>3, <1>4, ClientSays

LEMMA OthersWrite ==
  ASSUME IInv, DInv, NEW f \in Files, NEW text \in Texts, WriteFile(f, text) PROVE DInv'
<1>1. /\ Outsiders /\ version[f] = 0 /\ UNCHANGED <<wire, version>>
      /\ disk' = [disk EXCEPT ![f] = text] /\ buffer' = [buffer EXCEPT ![f] = text]
      /\ UNCHANGED <<packages, source, shown, compileRun>>
  BY DEF WriteFile, Act, managerVars
<1>2. \A g \in Files : version[g] > 0 => buffer'[g] = buffer[g] /\ disk'[g] = disk[g]
  BY <1>1 DEF IInv, Typed
<1>3. \A g \in Files : Quietly(g) /\ ShowsQuietly(g)
  BY <1>1, NoChange
<1>4. PackagesSound'
  BY <1>1 DEF DInv, PackagesSound
<1> QED  BY <1>1, <1>2, <1>3, <1>4, QuietStep DEF DInv

------------------------------------------------------------------------------
(* The compiler and the other managers.                                    *)

LEMMA CompilerIsQuiet ==
  ASSUME IInv, DInv, CompilerStep PROVE DInv'
<1>1. UNCHANGED <<wire, version, buffer, disk, packages, source, shown, compileRun,
                  compiling, awaiting>>
  BY DEF CompilerStep, clientVars, managerVars
<1>2. \A g \in Files : Quietly(g) /\ ShowsQuietly(g)
  BY <1>1, NoChange
<1>3. PackagesSound'
  BY <1>1 DEF DInv, PackagesSound
<1>4. ASSUME Compiles PROVE Compiles'
  <2>1. /\ \A f \in Files : \A text : AsOnDisk(f, text) => AsOnDisk(f, text)'
        /\ \A f \in Files : LastSaved(f)'
    BY <1>1, <1>4, NothingSaved DEF Compiles
  <2>2. CASE finished'[Here] = finished[Here]
    BY <1>1, <1>4, <2>1, <2>2, CompilesKeep
  <2>3. CASE finished'[Here] # finished[Here]
    <3> DEFINE r == Head(mailbox)
               x == Outcome(r.package)
               e == [package |-> r.package, result |-> x, run |-> nextRun]
    <3>1. /\ mailbox # <<>> /\ finished' = [finished EXCEPT ![r.by] = Append(@, e)]
      BY <2>3 DEF CompilerStep, ApplySettings, Defer, Compile
    <3>2. r \in Request /\ Here \in Managers
      BY <3>1, WorkspaceAssumption DEF IInv, Typed
    <3>3. PICK O : finished \in [Managers -> Seq(ResultOf(O))]
      BY Zenon DEF IInv, Typed, Finished
    <3>4. finished'[Here] = Append(finished[Here], e) /\ finished[Here] \in Seq(ResultOf(O))
      BY <2>3, <3>1, <3>2, <3>3
    <3>5. /\ Len(finished[Here]) \in Nat /\ Len(finished'[Here]) = Len(finished[Here]) + 1
          /\ \A k \in 1..Len(finished[Here]) : finished'[Here][k] = finished[Here][k]
          /\ finished'[Here][Len(finished[Here]) + 1] = e
      BY <3>4
    <3>6. e.result = x
      OBVIOUS
    <3>7. x.ok => \A p \in DOMAIN x.program : \A f \in DOMAIN x.program[p] :
                    f \in Files /\ x.program[p][f] = disk[f]
      BY DEF Outcome, FilesIn
    <3> HIDE DEF e, x
    <3>8. ASSUME NEW k \in 1..Len(finished'[Here]), finished'[Here][k].result.ok,
                 NEW p \in DOMAIN finished'[Here][k].result.program,
                 NEW f \in DOMAIN finished'[Here][k].result.program[p]
          PROVE  \/ finished'[Here][k].result.program[p][f] = disk'[f]
                 \/ PutAsideAsSaved(f)' \/ Saves(f)' # {}
      <4>1. CASE k = Len(finished[Here]) + 1
        BY <1>1, <3>5, <3>6, <3>7, <3>8, <4>1
      <4>2. CASE k \in 1..Len(finished[Here])
        <5>1. finished'[Here][k] = finished[Here][k]
          BY <3>5, <4>2
        <5>2. PICK text : text = finished[Here][k].result.program[p][f]
          OBVIOUS
        <5>3. AsOnDisk(f, text) /\ f \in Files
          BY <1>4, <3>8, <4>2, <5>1, <5>2, ResultFiles DEF Compiles
        <5> QED  BY <1>1, <2>1, <5>1, <5>2, <5>3 DEF AsOnDisk
      <4> QED  BY <3>5, <4>1, <4>2
    <3>9. \/ compiling'[Here]
          \/ \A p \in DOMAIN packages' : \A f \in Files :
               packages'[p].run = compileRun'[Here] /\ ModuleOf(packages'[p], f) # None =>
                 \/ ModuleOf(packages'[p], f) = disk'[f]
                 \/ PutAsideAsSaved(f)' \/ Saves(f)' # {}
      <4>1. CASE compiling[Here]
        BY <1>1, <4>1
      <4>2. CASE ~compiling[Here]
        <5> SUFFICES ASSUME NEW p \in DOMAIN packages, NEW f \in Files,
                            packages[p].run = compileRun[Here], ModuleOf(packages[p], f) # None
                     PROVE  \/ ModuleOf(packages[p], f) = disk[f]
                            \/ PutAsideAsSaved(f)' \/ Saves(f)' # {}
          BY <1>1
        <5>1. PICK text : text = ModuleOf(packages[p], f)
          OBVIOUS
        <5>2. AsOnDisk(f, text)
          BY <1>4, <4>2, <5>1 DEF Compiles
        <5> QED  BY <1>1, <2>1, <5>1, <5>2 DEF AsOnDisk
      <4> QED  BY <4>1, <4>2
    <3> QED  BY <2>1, <3>8, <3>9 DEF Compiles, AsOnDisk
  <2> QED  BY <2>2, <2>3
<1> QED  BY <1>1, <1>2, <1>3, <1>4, QuietStep DEF DInv

LEMMA OthersAreQuiet ==
  ASSUME IInv, DInv, NEW m \in Others,
         (\E p \in Packages : OtherAsks(m, p)) \/ OtherDone(m)
  PROVE  DInv'
<1>0. m # Here /\ Here \in Managers
  BY WorkspaceAssumption DEF Others
<1>1. /\ UNCHANGED <<wire, version, buffer, disk, packages, source, shown, awaiting>>
      /\ compiling'[Here] = compiling[Here] /\ compileRun'[Here] = compileRun[Here]
      /\ finished'[Here] = finished[Here]
  BY <1>0 DEF OtherAsks, OtherDone, Take, clientVars, IInv, Typed, Finished
<1>2. \A g \in Files : Quietly(g) /\ ShowsQuietly(g)
  BY <1>1, NoChange
<1>3. PackagesSound'
  BY <1>1 DEF DInv, PackagesSound
<1>4. ASSUME Compiles PROVE Compiles'
  <2>1. /\ \A f \in Files : \A text : AsOnDisk(f, text) => AsOnDisk(f, text)'
        /\ \A f \in Files : LastSaved(f)'
    BY <1>1, <1>4, NothingSaved DEF Compiles
  <2> QED  BY <1>1, <1>4, <2>1, CompilesKeep
<1> QED  BY <1>1, <1>2, <1>3, <1>4, QuietStep DEF DInv

------------------------------------------------------------------------------
(* The manager's handlers.                                                 *)

\* A document is given another state, in the package it is found in, or in a new
\* one in its own directory.
LEMMA DocWritten ==
  ASSUME PackagesSound, NEW f \in Files, NEW p \in Packages,
         p = IF FindPackage(f) = None THEN Dir(f) ELSE FindPackage(f),
         NEW doc \in Document, doc.run = StateOf(packages, p, f).run,
         doc.module = StateOf(packages, p, f).module,
         packages' = WithState(packages, p, f, doc), UNCHANGED compileRun,
         compileRun[Here] \in Nat
  PROVE  /\ PackagesSound' /\ FindPackage(f)' = p
         /\ HasState(f)' /\ StateFound(f)' = doc /\ Listed(f)'
         /\ \A g \in Files \ {f} : KeepsState(g)
         /\ \A q \in DOMAIN packages' : \A g \in Files :
              packages'[q].run = compileRun'[Here] /\ ModuleOf(packages'[q], g) # None =>
                /\ q \in DOMAIN packages /\ packages[q].run = compileRun[Here]
                /\ ModuleOf(packages[q], g) = ModuleOf(packages'[q], g)
<1> DEFINE old == IF p \in DOMAIN packages THEN packages[p] ELSE NewPackage
<1>1. /\ AllSound(packages) /\ AllSound(packages')
      /\ DOMAIN packages' = DOMAIN packages \cup {p}
      /\ \A q \in DOMAIN packages \ {p} : packages'[q] = packages[q]
      /\ packages'[p].run = old.run /\ packages'[p].program = old.program
      /\ DOMAIN packages'[p].docs = DOMAIN old.docs \cup {f}
      /\ packages'[p].docs[f] = doc
      /\ \A g \in DOMAIN old.docs \ {f} : packages'[p].docs[g] = old.docs[g]
  <2>1. AllSound(packages)
    BY DEF PackagesSound, AllSound
  <2>2. Written(packages, p, f, doc, packages')
    BY <2>1, WithStateSound
  <2> QED  BY <2>1, <2>2 DEF Written
<1>2. /\ p \in DOMAIN packages => old = packages[p]
      /\ p \notin DOMAIN packages => old.run = 0 /\ DOMAIN old.docs = {} /\ Program(old) = None
  BY NewPackageSound DEF NewPackage, Program, Get, Empty
<1> HIDE DEF old
<1>3. PackagesSound'
  <2>1. packages'[p].run <= compileRun[Here]
    BY <1>1, <1>2 DEF PackagesSound
  <2> QED  BY <1>1, <2>1 DEF PackagesSound, AllSound
<1>4. ASSUME NEW g \in Files
      PROVE  /\ FindPackage(g)' \in {FindPackage(g)} \cup (DOMAIN packages' \ DOMAIN packages)
             /\ FindPackage(g) # None => FindPackage(g)' # None
             /\ FindPackage(g) \in DOMAIN packages \cup {None}
             /\ FindPackage(g)' \in DOMAIN packages' \cup {None}
             /\ Dir(g) \in DOMAIN packages => FindPackage(g) = Dir(g)
             /\ Dir(g) \in DOMAIN packages' => FindPackage(g)' = Dir(g)
             /\ Len(Above(g)) = 1 => FindPackage(g) \in {Dir(g), None}
  <2>1. FindPackage(g) = Nearest(DOMAIN packages, g)
    BY DEF FindPackage, Nearest
  <2>2. FindPackage(g)' = Nearest(DOMAIN packages', g)
    BY DEF FindPackage, Nearest
  <2>3. DOMAIN packages \subseteq DOMAIN packages' /\ DOMAIN packages' \subseteq Packages
    BY <1>1 DEF AllSound
  <2>4. DOMAIN packages' \subseteq DOMAIN packages'
    OBVIOUS
  <2>5. /\ Nearest(DOMAIN packages', g) \in DOMAIN packages' \cup {None}
        /\ Dir(g) \in DOMAIN packages' => Nearest(DOMAIN packages', g) = Dir(g)
    BY <2>3, <2>4, FoundMoves
  <2> QED  BY <2>1, <2>2, <2>3, <2>5, FoundMoves
<1>5. FindPackage(f)' = p /\ p # None
  <2>1. CASE FindPackage(f) = None
    BY <1>1, <1>4, <2>1, WorkspaceAssumption
  <2>2. CASE FindPackage(f) # None
    BY <1>1, <1>4, <2>2
  <2> QED  BY <2>1, <2>2
<1>6. HasState(f)' /\ StateFound(f)' = doc /\ Listed(f)'
  BY <1>1, <1>5 DEF HasState, StateFound, Listed
<1>7. ASSUME NEW g \in Files \ {f} PROVE KeepsState(g)
  <2>1. ASSUME NEW q \in DOMAIN packages
        PROVE  /\ g \in DOMAIN packages'[q].docs <=> g \in DOMAIN packages[q].docs
               /\ g \in DOMAIN packages[q].docs => packages'[q].docs[g] = packages[q].docs[g]
               /\ q \in DOMAIN packages'
    BY <1>1, <1>2
  <2>2. Listed(g) => Listed(g)'
    BY <2>1 DEF Listed
  <2>3. HasState(g)' => FindPackage(g)' = FindPackage(g) /\ FindPackage(g) \in DOMAIN packages
    <3>1. p \notin DOMAIN packages => g \notin DOMAIN packages'[p].docs
      BY <1>1, <1>2
    <3> QED  BY <1>1, <1>4, <3>1 DEF HasState
  <2>4. HasState(g)' => HasState(g) /\ StateFound(g)' = StateFound(g)
    BY <2>1, <2>3 DEF HasState, StateFound
  <2>5. ASSUME Flat, HasState(g) PROVE HasState(g)' /\ StateFound(g)' = StateFound(g)
    <3>1. FindPackage(g) = Dir(g) /\ FindPackage(g) \in DOMAIN packages
      BY <1>4, <2>5 DEF Flat, HasState
    <3>2. FindPackage(g)' = FindPackage(g)
      BY <1>1, <1>4, <3>1
    <3> QED  BY <2>1, <2>5, <3>1, <3>2 DEF HasState, StateFound
  <2> QED  BY <1>4, <2>2, <2>4, <2>5 DEF KeepsState
<1>8. ASSUME NEW q \in DOMAIN packages', NEW g \in Files,
             packages'[q].run = compileRun'[Here], ModuleOf(packages'[q], g) # None
      PROVE  /\ q \in DOMAIN packages /\ packages[q].run = compileRun[Here]
             /\ ModuleOf(packages[q], g) = ModuleOf(packages'[q], g)
  <2>1. CASE q # p
    BY <1>1, <1>8, <2>1
  <2>2. CASE q = p
    <3>1. ModuleOf(packages'[p], g) = ModuleOf(old, g)
      BY <1>1 DEF ModuleOf, Program
    <3>2. p \in DOMAIN packages
      BY <1>2, <1>8, <2>2, <3>1 DEF ModuleOf
    <3> QED  BY <1>1, <1>2, <1>8, <2>2, <3>1, <3>2
  <2> QED  BY <2>1, <2>2
<1> QED  BY <1>3, <1>5, <1>6, <1>7, <1>8

\* What is known of the message that is next, and of its document.
LEMMA NextMessage ==
  ASSUME IInv, DInv, NEW i \in 1..Len(wire), NEW kind, IsNext(i, kind),
         NEW f, f = wire[i].file
  PROVE  /\ f \in Files /\ i \in Of(f) /\ First(f, i)
         /\ wire[i].text \in Texts /\ wire[i].version \in Nat
         /\ kind = "open" => i \in Opens(f) /\ Fresh(f)
         /\ kind # "open" => FindPackage(f) # None /\ i \notin Opens(f)
         /\ kind = "close" /\ version[f] > 0 => \E o \in Opens(f) : o # i
         /\ Opens(f) \subseteq {i} => Latest(f) = Of(f)
         /\ i \in Latest(f) => \A o \in Opens(f) : o = i
         /\ ~Reordering => \A j \in Of(f) \ {i} : i < j
         /\ \A j \in Saves(f) : kind = "change" => ~(j < i)
<1>1. wire[i] \in Message /\ wire[i].kind = kind
  BY DEF IInv, Typed, IsNext
<1>2. f \in Files /\ wire[i].text \in Texts /\ wire[i].version \in Nat
  BY <1>1 DEF Message
<1>3. i \in Of(f) /\ Of(f) \subseteq Nat /\ Opens(f) \subseteq Of(f) /\ Saves(f) \subseteq Of(f)
  BY DEF Of, Opens, Saves
<1>4. ASSUME NEW j \in Of(f), j < i
      PROVE  Reordering /\ kind = "change" /\ wire[j].kind = "change"
  <2>1. j \in 1..(i - 1)
    BY <1>4 DEF Of
  <2> QED  BY <2>1 DEF IsNext
<1>5. First(f, i)
  BY <1>1, <1>4 DEF First
<1>6. Sessions(f) /\ Founds(f)
  BY <1>2 DEF DInv
<1>7. \A o \in Opens(f) : ~(o < i)
  BY <1>3, <1>4 DEF Opens
<1>8. ASSUME kind = "open" PROVE i \in Opens(f) /\ Fresh(f)
  <2>1. i \in Opens(f)
    BY <1>1, <1>3, <1>8 DEF Opens
  <2>2. ~\E j \in Of(f) : j < i
    BY <1>4, <1>8
  <2> QED  BY <1>6, <2>1, <2>2 DEF Sessions
<1>9. ASSUME kind # "open" PROVE FindPackage(f) # None /\ i \notin Opens(f)
  <2>1. i \notin Opens(f)
    BY <1>1, <1>9 DEF Opens
  <2> QED  BY <1>1, <1>3, <1>6, <1>7, <1>9, <2>1 DEF Founds
<1>10. ASSUME kind = "close", version[f] > 0 PROVE \E o \in Opens(f) : o # i
  <2>1. PICK o \in Opens(f) : i < o
    BY <1>1, <1>3, <1>6, <1>10 DEF Sessions
  <2> QED  BY <1>3, <2>1
<1>11. ASSUME Opens(f) \subseteq {i} PROVE Latest(f) = Of(f)
  <2>1. ASSUME NEW j \in Of(f), NEW o \in Opens(f) PROVE o <= j
    <3>1. o = i /\ kind = "open"
      BY <1>1, <1>11 DEF Opens
    <3>2. ~(j < i)
      BY <1>4, <3>1
    <3> QED  BY <1>3, <3>1, <3>2
  <2> QED  BY <2>1 DEF Latest
<1>12. ASSUME i \in Latest(f) PROVE \A o \in Opens(f) : o = i
  BY <1>3, <1>7, <1>12 DEF Latest
<1>13. ~Reordering => \A j \in Of(f) \ {i} : i < j
  BY <1>3, <1>4
<1>14. \A j \in Saves(f) : kind = "change" => ~(j < i)
  BY <1>3, <1>4 DEF Saves
<1> QED  BY <1>2, <1>3, <1>5, <1>8, <1>9, <1>10, <1>11, <1>12, <1>13, <1>14

\* What a handler has to do of the document of its message, and to leave of others.
Serves(i, kind, f) ==
  /\ \A g \in Files \ {f} : Quietly(g) /\ ShowsQuietly(g)
  /\ FindPackage(f)' # None
  /\ kind = "close" => Fresh(f)'
  /\ version[f] > 0 /\ Opens(f)' = {} =>
       /\ Listed(f)'
       /\ shown'[f].from = "compile" /\ shown'[f].of > 0 => shown'[f].at = compileRun'[Here]
       /\ HasState(f)' /\ StateFound(f)'.text # None =>
            StateFound(f)'.clientVersion <= version[f]
  /\ Flat \/ ~Reordering =>
       (version[f] > 0 /\ (Arrived(f) \/ Brings(i, f)) => Arrived(f)')
  /\ Flat => (version[f] > 0 /\ (Stale(f) \/ Dirties(i, f)) => Stale(f)')
  /\ PackagesSound' /\ DOMAIN source' = Files /\ DOMAIN shown' = Files

LEMMA HandlerStep ==
  ASSUME IInv, DInv, NEW i \in 1..Len(wire), NEW kind, IsNext(i, kind), Handled(i),
         NEW f, f = wire[i].file, Serves(i, kind, f), ~Outsiders => Compiles'
  PROVE  DInv'
<1>1. /\ wire \in Seq(Message) /\ \A g \in Files : version[g] \in Nat
      /\ wire' = RemoveAt(wire, i) /\ UNCHANGED <<version, buffer, disk>>
  BY DEF IInv, Typed, Handled, clientVars
<1>2. f \in Files /\ i \in Of(f) /\ First(f, i) /\ wire[i].kind = kind
  BY NextMessage DEF IsNext
<1>3. Survives(f, {i})
  BY <1>1, <1>2, HandledLog
<1>4. Sessions(f) /\ Founds(f) /\ Known(f) /\ Versions(f)
  BY <1>2 DEF DInv
<1>5. Sessions(f)'
  BY <1>1, <1>2, <1>3, <1>4, SessionsSurvive DEF Serves
<1>6. Founds(f)'
  BY <1>1, <1>2, <1>3, <1>4, FoundsSurvive DEF Serves
<1>7. Known(f)'
  BY <1>1 DEF Known, Listed, Serves
<1>8. Versions(f)'
  BY <1>1, <1>2, <1>3, <1>4, VersionsSurvive DEF Serves
<1>9. ASSUME Flat \/ ~Reordering, Arrives(f) PROVE Arrives(f)'
  BY <1>1, <1>2, <1>3, <1>9, ArrivesSurvive DEF Serves
<1>10. ASSUME Flat, Dirty(f) PROVE Dirty(f)'
  BY <1>1, <1>2, <1>3, <1>10, DirtySurvives DEF Serves
<1>11. ASSUME NEW g \in Files, g # f
       PROVE  /\ Sessions(g)' /\ Founds(g)' /\ Known(g)' /\ Versions(g)'
              /\ (Flat \/ ~Reordering) /\ Arrives(g) => Arrives(g)'
              /\ Flat /\ Dirty(g) => Dirty(g)'
  <2>1. i \notin Of(g) /\ Survives(g, {i})
    BY <1>1, <1>11, HandledLog DEF Of
  <2>2. Sessions(g) /\ Founds(g) /\ Known(g) /\ Versions(g)
    BY DEF DInv
  <2> QED  BY <1>1, <1>11, <2>1, <2>2, QuietKeeps DEF Serves
<1> QED  BY <1>2, <1>5, <1>6, <1>7, <1>8, <1>9, <1>10, <1>11 DEF DInv, Serves, Flat

\* What is left of the openings and saves of f once message i is handled.
Rest(i, f) ==
  /\ Opens(f)' = {} <=> Opens(f) \subseteq {i}
  /\ Saves(f)' = {} <=> Saves(f) \subseteq {i}

LEMMA AfterMessage ==
  ASSUME IInv, DInv, NEW i \in 1..Len(wire), NEW kind, IsNext(i, kind), Handled(i),
         NEW f, f = wire[i].file
  PROVE  /\ Rest(i, f)
         /\ \A j \in Of(f)' : \E k \in Of(f) \ {i} : wire'[j] = wire[k]
         /\ \A g \in Files \ {f} : Saves(g) # {} => Saves(g)' # {}
<1>1. wire \in Seq(Message) /\ wire' = RemoveAt(wire, i)
  BY DEF IInv, Typed, Handled
<1>2. f \in Files /\ i \in Of(f) /\ First(f, i)
  BY NextMessage
<1>3. Survives(f, {i})
  BY <1>1, <1>2, HandledLog
<1>4. PICK was : Traces(was, f, i)
  BY <1>1, <1>2, <1>3, Surviving
<1>5. ASSUME NEW g \in Files, g # f, Saves(g) # {} PROVE Saves(g)' # {}
  <2>1. i \notin Of(g) /\ i \notin Saves(g) /\ Survives(g, {i})
    BY <1>1, <1>5, HandledLog DEF Of, Saves
  <2> QED  BY <1>1, <1>5, <2>1, SavesStay
<1>6. /\ Opens(f)' = {} <=> Opens(f) \subseteq {i}
      /\ Saves(f)' = {} <=> Saves(f) \subseteq {i}
      /\ \A j \in Of(f)' : \E k \in Of(f) \ {i} : wire'[j] = wire[k]
  <2>1. \A j \in Of(f)' : was[j] \in Of(f) \ {i} /\ wire'[j] = wire[was[j]]
    BY <1>4 DEF Traces
  <2>2. /\ \A j \in Opens(f)' : was[j] \in Opens(f) /\ j \in Of(f)'
        /\ \A k \in Opens(f) \ {i} : \E j \in Opens(f)' : was[j] = k
    BY <1>4 DEF Traces
  <2>3. /\ \A j \in Saves(f)' : was[j] \in Saves(f) /\ j \in Of(f)'
        /\ \A k \in Saves(f) \ {i} : \E j \in Saves(f)' : was[j] = k
    BY <1>4 DEF Traces
  <2> QED  BY <2>1, <2>2, <2>3
<1> QED  BY <1>5, <1>6 DEF Rest

\* The document's state as the handler finds it.
LEMMA StateAsked ==
  ASSUME PackagesSound, NEW f \in Files, NEW p,
         p = IF FindPackage(f) = None THEN Dir(f) ELSE FindPackage(f)
  PROVE  LET old == StateOf(packages, p, f) IN
         /\ p \in Packages /\ p # None /\ old \in Document
         /\ HasState(f) => old = StateFound(f)
         /\ ~HasState(f) => old.text = None
<1>1. AllSound(packages)
  BY DEF PackagesSound, AllSound
<1>2. FindPackage(f) \in DOMAIN packages \cup {None}
  BY FoundStates
<1>3. p \in Packages /\ p # None
  BY <1>1, <1>2, WorkspaceAssumption DEF AllSound
<1>4. FindPackage(f) = None => p \notin DOMAIN packages
  <2>1. FindPackage(f) = Nearest(DOMAIN packages, f)
    BY DEF FindPackage, Nearest
  <2>2. Dir(f) \in DOMAIN packages => Nearest(DOMAIN packages, f) = Dir(f)
    BY FoundMoves DEF PackagesSound
  <2> QED  BY <1>3, <2>1, <2>2
<1>5. HasState(f) <=> p \in DOMAIN packages /\ f \in DOMAIN packages[p].docs
  BY <1>2, <1>3, <1>4 DEF HasState
<1>6. HasState(f) => StateFound(f) = packages[p].docs[f]
  BY DEF HasState, StateFound
<1>7. LET old == StateOf(packages, p, f) IN
         /\ old \in Document
         /\ p \in DOMAIN packages /\ f \in DOMAIN packages[p].docs => old = packages[p].docs[f]
         /\ ~(p \in DOMAIN packages /\ f \in DOMAIN packages[p].docs) => old.text = None
  BY <1>1, <1>3, StateOfSound
<1> QED  BY <1>3, <1>5, <1>6, <1>7

\* A document that has this text, of this version, and is otherwise the old one.
HasText(new, old, text, v) ==
  /\ new \in Document /\ new.run = old.run /\ new.module = old.module
  /\ new.text = text /\ new.clientVersion = v /\ new.text # None

LEMMA WithTextIs ==
  ASSUME NEW doc \in Document, NEW text \in Texts, NEW v \in Nat
  PROVE  /\ HasText(WithText(doc, text, v, TRUE), doc, text, v)
         /\ HasText(WithText(doc, text, v, FALSE), doc, text, v)
         /\ WithText(doc, text, v, FALSE).edited = TRUE
<1> DEFINE n == doc.textVersion + 1
           made(edited) == [doc EXCEPT !.text = text, !.clientVersion = v,
                                       !.textVersion = n, !.edited = edited]
<1>1. /\ WithText(doc, text, v, TRUE) = made(FALSE)
      /\ WithText(doc, text, v, FALSE) = made(TRUE)
  BY DEF WithText
<1>2. n \in Nat /\ v \in Int /\ text # None
  BY WorkspaceAssumption DEF Document
<1> HIDE DEF n
<1>3. \A edited \in BOOLEAN :
        /\ made(edited) \in Document
        /\ made(edited).run = doc.run /\ made(edited).module = doc.module
        /\ made(edited).text = text /\ made(edited).clientVersion = v
        /\ made(edited).edited = edited
  BY <1>2 DEF Document
<1> HIDE DEF made
<1>4. FALSE \in BOOLEAN /\ TRUE \in BOOLEAN
  OBVIOUS
<1>5. /\ made(FALSE) \in Document
      /\ made(FALSE).run = doc.run /\ made(FALSE).module = doc.module
      /\ made(FALSE).text = text /\ made(FALSE).clientVersion = v
  BY <1>3, <1>4, Zenon
<1>6. /\ made(TRUE) \in Document
      /\ made(TRUE).run = doc.run /\ made(TRUE).module = doc.module
      /\ made(TRUE).text = text /\ made(TRUE).clientVersion = v
      /\ made(TRUE).edited = TRUE
  BY <1>3, <1>4, Zenon
<1> QED  BY <1>1, <1>2, <1>5, <1>6 DEF HasText

\* A handler that neither ends a compile nor changes what was compiled.
LEMMA HandlersCompile ==
  ASSUME IInv, DInv, Compiles, NEW i \in 1..Len(wire), NEW kind, IsNext(i, kind), Handled(i),
         NEW f, f = wire[i].file, NEW p, NEW hash,
         \/ /\ AskOrAwait(p, f, hash)
            /\ hash = IF kind = "save" THEN TextHash(wire[i].text) ELSE None
         \/ kind # "save" /\ UNCHANGED <<mailbox, compiling, awaiting>>,
         ~compiling[Here] => finished[Here] = <<>>,
         \A q \in DOMAIN packages' : \A g \in Files :
           packages'[q].run = compileRun'[Here] /\ ModuleOf(packages'[q], g) # None =>
             /\ q \in DOMAIN packages /\ packages[q].run = compileRun[Here]
             /\ ModuleOf(packages[q], g) = ModuleOf(packages'[q], g)
  PROVE  Compiles'
<1>1. /\ UNCHANGED <<disk, finished>> /\ f \in Files /\ compiling \in [Managers -> BOOLEAN]
      /\ Here \in Managers /\ wire[i].kind = kind
  <2>1. f \in Files
    BY NextMessage
  <2> QED  BY <2>1, WorkspaceAssumption DEF Handled, clientVars, IInv, Typed, IsNext
<1>2. compiling[Here] => compiling'[Here]
  BY <1>1 DEF AskOrAwait, Busy
<1>3. \/ compiling'[Here] /\ finished[Here] = <<>>
      \/ /\ \A g \in DOMAIN awaiting \ {f} : g \in DOMAIN awaiting' /\ awaiting'[g] = awaiting[g]
         /\ \/ /\ f \in DOMAIN awaiting'
               /\ awaiting'[f] = IF kind = "save" THEN TextHash(wire[i].text) ELSE None
            \/ kind # "save" /\ awaiting' = awaiting
  BY <1>1 DEF AskOrAwait, Busy, PutAside
<1>5. /\ Saves(f)' = {} <=> Saves(f) \subseteq {i}
      /\ \A g \in Files \ {f} : Saves(g) # {} => Saves(g)' # {}
  <2>1. Rest(i, f) /\ \A g \in Files \ {f} : Saves(g) # {} => Saves(g)' # {}
    BY AfterMessage
  <2> QED  BY <2>1 DEF Rest
<1>4. ASSUME \A g \in DOMAIN awaiting \ {f} : g \in DOMAIN awaiting' /\ awaiting'[g] = awaiting[g],
             \/ /\ f \in DOMAIN awaiting'
                /\ awaiting'[f] = IF kind = "save" THEN TextHash(wire[i].text) ELSE None
             \/ kind # "save" /\ awaiting' = awaiting,
             NEW g \in Files, NEW text, AsOnDisk(g, text)
      PROVE  AsOnDisk(g, text)'
  <2>1. CASE g # f
    <3>1. PutAsideAsSaved(g) => PutAsideAsSaved(g)'
      BY <1>1, <1>4, <2>1 DEF PutAsideAsSaved, TextHash
    <3> QED  BY <1>1, <1>4, <1>5, <2>1, <3>1 DEF AsOnDisk
  <2>2. CASE g = f /\ kind = "save"
    <3>1. CASE Saves(f) \subseteq {i}
      <4>1. i \in Saves(f) /\ ~(i < i)
        BY <1>1, <2>2 DEF Saves, Of
      <4>2. wire[i].text = disk[f]
        BY <1>1, <3>1, <4>1 DEF Compiles, LastSaved
      <4>3. PutAsideAsSaved(f)'
        BY <1>1, <1>4, <2>2, <4>2 DEF PutAsideAsSaved, TextHash
      <4> QED  BY <2>2, <4>3 DEF AsOnDisk
    <3>2. CASE ~(Saves(f) \subseteq {i})
      BY <1>5, <2>2, <3>2 DEF AsOnDisk
    <3> QED  BY <3>1, <3>2
  <2>3. CASE g = f /\ kind # "save"
    <3>1. i \notin Saves(f)
      BY <1>1, <2>3 DEF Saves
    <3>2. Saves(f) # {} => Saves(f)' # {}
      BY <1>5, <3>1
    <3>3. PutAsideAsSaved(f) => PutAsideAsSaved(f)'
      BY <1>1, <1>4, <2>3 DEF PutAsideAsSaved, TextHash
    <3> QED  BY <1>1, <1>4, <2>3, <3>2, <3>3 DEF AsOnDisk
  <2> QED  BY <2>1, <2>2, <2>3
<1>6. ASSUME NEW g \in Files PROVE LastSaved(g)'
  <2>1. wire \in Seq(Message) /\ Survives(g, {i}) /\ LastSaved(g) /\ disk'[g] = disk[g]
    <3>1. wire \in Seq(Message) /\ wire' = RemoveAt(wire, i)
      BY DEF IInv, Typed, Handled
    <3> QED  BY <1>1, <3>1, HandledLog DEF Compiles
  <2>2. i \in Of(g) => g = f
    BY DEF Of
  <2>3. i \in Of(g) => First(g, i)
    BY <2>2, NextMessage
  <2>4. i \in Saves(g) => \A j \in Saves(g) : i <= j
    <3> SUFFICES ASSUME i \in Saves(g), NEW j \in Saves(g), ~(i <= j) PROVE FALSE
      OBVIOUS
    <3>1. wire[i].kind = "save" /\ j \in 1..(i - 1)
      BY DEF Saves, Of
    <3> QED  BY <1>1, <3>1 DEF IsNext
  <2> QED  BY <2>1, <2>3, <2>4, LastSavedSurvives
<1> QED  BY <1>1, <1>2, <1>3, <1>4, <1>6, CompilesKeep

\* The text of a message of the last session is the buffer's if its version is.
LEMMA MessageVersion ==
  ASSUME IInv, DInv, NEW i \in 1..Len(wire), NEW kind, IsNext(i, kind),
         NEW f, f = wire[i].file, version[f] > 0, Opens(f) \subseteq {i}
  PROVE  /\ wire[i].version <= version[f]
         /\ wire[i].version = version[f] => wire[i].text = buffer[f]
         /\ ~Reordering /\ wire[i].version = version[f] =>
              \A j \in Of(f) \ {i} : wire[j].kind # "change"
<1>1. /\ f \in Files /\ i \in Of(f) /\ Latest(f) = Of(f) /\ wire[i].version \in Nat
      /\ ~Reordering => \A j \in Of(f) \ {i} : i < j
  BY NextMessage
<1>2. Versions(f) /\ version[f] \in Nat
  BY <1>1 DEF DInv, IInv, Typed
<1>3. \A j \in Of(f) : wire[j].version \in Nat /\ wire[j].version <= version[f]
  <2>1. \A j \in Of(f) : wire[j] \in Message
    BY DEF Of, IInv, Typed
  <2> QED  BY <1>1, <1>2, <2>1 DEF Versions, Message
<1>4. ASSUME ~Reordering, wire[i].version = version[f], NEW j \in Of(f) \ {i}
      PROVE  wire[j].kind # "change"
  <2> SUFFICES ASSUME wire[j].kind = "change" PROVE FALSE
    OBVIOUS
  <2>1. wire[i].version < wire[j].version
    BY <1>1, <1>2, <1>4 DEF Versions
  <2> QED  BY <1>2, <1>3, <1>4, <2>1
<1> QED  BY <1>1, <1>2, <1>4 DEF Versions

\* The document has the buffer, and nothing that comes will change it.
LEMMA HasArrived ==
  ASSUME IInv, DInv, NEW i \in 1..Len(wire), NEW kind, IsNext(i, kind), Handled(i),
         NEW f, f = wire[i].file, version[f] > 0, Opens(f) \subseteq {i},
         HasState(f)', StateFound(f)'.text # None,
         StateFound(f)'.clientVersion = version[f], wire[i].version = version[f],
         source'[f] = buffer[f], shown'[f].from = "syntax" => shown'[f].of = buffer[f],
         Flat \/ ~Reordering
  PROVE  Arrived(f)'
<1>1. UNCHANGED <<buffer, version>>
  BY DEF Handled, clientVars
<1>2. /\ Opens(f)' = {}
      /\ \A j \in Of(f)' : \E k \in Of(f) \ {i} : wire'[j] = wire[k]
  BY AfterMessage DEF Rest
<1>3. Kept(f)'
  <2>1. CASE Flat
    BY <1>1, <2>1 DEF Kept, Flat
  <2>2. CASE ~Reordering
    <3>1. \A j \in Of(f) \ {i} : wire[j].kind # "change"
      BY <2>2, MessageVersion
    <3> QED  BY <1>2, <2>2, <3>1 DEF Kept
  <2> QED  BY <2>1, <2>2
<1> QED  BY <1>1, <1>2, <1>3 DEF Arrived

LEMMA DidOpenKeeps ==
  ASSUME IInv, DInv, NEW i \in 1..Len(wire), DidOpen(i),
         ~compiling[Here] => finished[Here] = <<>>
  PROVE  DInv'
<1>1. PICK f, p, kind, text, v :
        /\ f = wire[i].file /\ kind = "open" /\ text = wire[i].text /\ v = wire[i].version
        /\ p = IF FindPackage(f) = None THEN Dir(f) ELSE FindPackage(f)
  OBVIOUS
<1>2. IsNext(i, kind) /\ Handled(i) /\ UNCHANGED <<compileRun, version, buffer, disk>>
  BY <1>1 DEF DidOpen, Handled, clientVars
<1>3. /\ f \in Files /\ i \in Of(f)
      /\ wire[i].text \in Texts /\ wire[i].version \in Nat
      /\ kind = "open" => i \in Opens(f) /\ Fresh(f)
      /\ i \in Latest(f) => Opens(f) \subseteq {i}
  <2>1. f = wire[i].file /\ IsNext(i, kind)
    BY <1>1, <1>2
  <2>2. f \in Files /\ i \in Of(f)
    BY <2>1, NextMessage
  <2>3. wire[i].text \in Texts /\ wire[i].version \in Nat
    BY <2>1, NextMessage
  <2>4. kind = "open" => i \in Opens(f)
    BY <2>1, NextMessage
  <2>5. kind = "open" => Fresh(f)
    BY <2>1, NextMessage
  <2>6. i \in Latest(f) => \A o \in Opens(f) : o = i
    BY <2>1, NextMessage
  <2> QED  BY <2>2, <2>3, <2>4, <2>5, <2>6
<1>4. PackagesSound /\ DOMAIN source = Files /\ DOMAIN shown = Files
      /\ compileRun[Here] \in Nat
  BY WorkspaceAssumption DEF DInv, IInv, Typed
<1>5. PICK old : /\ old = StateOf(packages, p, f)
                 /\ p \in Packages /\ p # None /\ old \in Document
                 /\ HasState(f) => old = StateFound(f)
                 /\ ~HasState(f) => old.text = None
  <2>1. LET o == StateOf(packages, p, f) IN
         /\ p \in Packages /\ p # None /\ o \in Document
         /\ HasState(f) => o = StateFound(f)
         /\ ~HasState(f) => o.text = None
    BY <1>1, <1>3, <1>4, StateAsked
  <2> QED  BY <2>1
<1>6. old.text = None /\ Takes(old, v)
  <2>1. HasState(f) => StateFound(f).text = None
    BY <1>1, <1>3 DEF Fresh
  <2>2. old.text = None
    BY <2>1, <1>5
  <2> QED  BY <2>2 DEF Takes
<1>7. PICK doc : /\ doc = WithText(old, text, v, TRUE)
                 /\ doc \in Document /\ doc.run = old.run /\ doc.module = old.module
                 /\ doc.text = text /\ doc.clientVersion = v /\ doc.text # None
  <2>1. old \in Document /\ text \in Texts /\ v \in Nat
    BY <1>1, <1>3, <1>5
  <2>2. HasText(WithText(old, text, v, TRUE), old, text, v)
    BY <2>1, WithTextIs
  <2> QED  BY <2>2 DEF HasText
<1>8. /\ packages' = WithState(packages, p, f, doc)
      /\ source' = Synced([source EXCEPT ![f] = doc.text], p)
      /\ shown' = [shown EXCEPT ![f] = Syntax(doc.textVersion, doc.text)]
      /\ \/ AskOrAwait(p, f, None)
         \/ UNCHANGED <<mailbox, compiling, awaiting>>
  <2>1. NeedsCompilation(doc) => ModuleHash(Module(doc)) = None
    BY DEF NeedsCompilation, ModuleHash
  <2> QED  BY <1>1, <1>5, <1>6, <1>7, <2>1 DEF DidOpen, ShowSyntax
<1>9. /\ PackagesSound' /\ FindPackage(f)' = p
      /\ HasState(f)' /\ StateFound(f)' = doc /\ Listed(f)'
      /\ \A g \in Files \ {f} : KeepsState(g)
      /\ \A q \in DOMAIN packages' : \A g \in Files :
           packages'[q].run = compileRun'[Here] /\ ModuleOf(packages'[q], g) # None =>
             /\ q \in DOMAIN packages /\ packages[q].run = compileRun[Here]
             /\ ModuleOf(packages[q], g) = ModuleOf(packages'[q], g)
  <2>1. doc.run = StateOf(packages, p, f).run /\ doc.module = StateOf(packages, p, f).module
    BY <1>5, <1>7
  <2>2. UNCHANGED compileRun
    BY <1>2
  <2> QED  BY <1>1, <1>3, <1>4, <1>5, <1>7, <1>8, <2>1, <2>2, DocWritten
<1>10. /\ DOMAIN source' = Files /\ DOMAIN shown' = Files
       /\ source'[f] = text /\ shown'[f].from = "syntax" /\ shown'[f].of = text
       /\ \A g \in Files \ {f} : (source[g] # None => source'[g] = source[g])
                                 /\ shown'[g] = shown[g]
  BY <1>3, <1>4, <1>7, <1>8 DEF Synced, Syntax
<1>11. \A g \in Files \ {f} : Quietly(g) /\ ShowsQuietly(g)
  BY <1>2, <1>9, <1>10 DEF Quietly, ShowsQuietly
<1>12. ASSUME version[f] > 0, Opens(f)' = {}
       PROVE  StateFound(f)'.clientVersion <= version[f]
  <2>1. Opens(f) \subseteq {i}
    <3>1. Opens(f)' = {} <=> Opens(f) \subseteq {i}
      <4>1. f = wire[i].file /\ IsNext(i, kind) /\ Handled(i)
        BY <1>1, <1>2
      <4> QED  BY <4>1, AfterMessage DEF Rest
    <3> QED  BY <1>12, <3>1
  <2>2. wire[i].version <= version[f]
    BY <1>1, <1>2, <1>12, <2>1, MessageVersion
  <2> QED  BY <1>1, <1>7, <1>9, <2>2
<1>13. ASSUME Flat \/ ~Reordering, version[f] > 0, Arrived(f) \/ Brings(i, f)
       PROVE  Arrived(f)'
  <2>1. Brings(i, f) /\ Opens(f) \subseteq {i} /\ wire[i].version = version[f]
    BY <1>1, <1>3, <1>13 DEF Arrived, Brings
  <2>2. wire[i].version = version[f] => wire[i].text = buffer[f]
    BY <1>1, <1>2, <1>13, <2>1, MessageVersion
  <2>3. /\ HasState(f)' /\ StateFound(f)'.text # None
        /\ StateFound(f)'.clientVersion = version[f] /\ source'[f] = buffer[f]
        /\ shown'[f].from = "syntax" => shown'[f].of = buffer[f]
    BY <1>1, <1>7, <1>9, <1>10, <2>1, <2>2
  <2> QED  BY <1>1, <1>2, <1>13, <2>1, <2>3, HasArrived
<1>14. ~Stale(f) /\ ~Dirties(i, f)
  BY <1>1, <1>2, <1>3 DEF Stale, Dirties, IsNext
<1>15. ASSUME Compiles PROVE Compiles'
  <2>1. PICK hash : hash = None
    OBVIOUS
  <2>2. \/ AskOrAwait(p, f, hash) /\ hash = IF kind = "save" THEN TextHash(wire[i].text) ELSE None
        \/ kind # "save" /\ UNCHANGED <<mailbox, compiling, awaiting>>
    BY <1>1, <1>8, <2>1
  <2> QED  BY <1>1, <1>2, <1>9, <1>15, <2>2, HandlersCompile
<1>16. Serves(i, kind, f)
  BY <1>1, <1>5, <1>9, <1>10, <1>11, <1>12, <1>13, <1>14 DEF Serves
<1> QED
  <2>1. ~Outsiders => Compiles'
    BY <1>15 DEF DInv
  <2> QED  BY <1>1, <1>2, <1>16, <2>1, HandlerStep

\* What a handler knows as it starts: its message, and its document's state.
Starts(i, kind, f, p, old) ==
  /\ f = wire[i].file /\ wire[i].kind = kind
  /\ p = IF FindPackage(f) = None THEN Dir(f) ELSE FindPackage(f)
  /\ f \in Files /\ i \in Of(f) /\ wire[i].text \in Texts /\ wire[i].version \in Nat
  /\ i \in Latest(f) => \A o \in Opens(f) : o = i
  /\ kind # "open" => FindPackage(f) # None /\ i \notin Opens(f)
  /\ kind = "close" /\ version[f] > 0 => \E o \in Opens(f) : o # i
  /\ kind = "change" => \A j \in Saves(f) : ~(j < i)
  /\ Opens(f)' = {} <=> Opens(f) \subseteq {i}
  /\ Saves(f)' = {} <=> Saves(f) \subseteq {i}
  /\ old = StateOf(packages, p, f) /\ p \in Packages /\ p # None /\ old \in Document
  /\ HasState(f) => old = StateFound(f)
  /\ ~HasState(f) => old.text = None
  /\ PackagesSound /\ DOMAIN source = Files /\ DOMAIN shown = Files
  /\ compileRun[Here] \in Nat /\ version[f] \in Nat
  /\ UNCHANGED <<compileRun, version, buffer, disk, finished>>
  /\ Known(f) /\ Versions(f)

LEMMA HandlerStarts ==
  ASSUME IInv, DInv, NEW i \in 1..Len(wire), NEW kind, IsNext(i, kind), Handled(i)
  PROVE  \E f, p, old : Starts(i, kind, f, p, old)
<1>1. PICK f : f = wire[i].file
  OBVIOUS
<1>2. PICK p : p = IF FindPackage(f) = None THEN Dir(f) ELSE FindPackage(f)
  OBVIOUS
<1>3. f \in Files /\ i \in Of(f) /\ wire[i].text \in Texts /\ wire[i].version \in Nat
  BY <1>1, NextMessage
<1>4. /\ kind # "open" => FindPackage(f) # None /\ i \notin Opens(f)
      /\ kind = "close" /\ version[f] > 0 => \E o \in Opens(f) : o # i
  BY <1>1, NextMessage
<1>5. i \in Latest(f) => \A o \in Opens(f) : o = i
  BY <1>1, NextMessage
<1>6. kind = "change" => \A j \in Saves(f) : ~(j < i)
  BY <1>1, NextMessage
<1>7. /\ Opens(f)' = {} <=> Opens(f) \subseteq {i}
      /\ Saves(f)' = {} <=> Saves(f) \subseteq {i}
  <2>1. f = wire[i].file /\ IsNext(i, kind) /\ Handled(i)
    BY <1>1
  <2>2. Rest(i, f)
    BY <2>1, AfterMessage
  <2> QED  BY <2>2 DEF Rest
<1>8. PackagesSound /\ DOMAIN source = Files /\ DOMAIN shown = Files /\ Known(f) /\ Versions(f)
  BY <1>3 DEF DInv
<1>9. PICK old : /\ old = StateOf(packages, p, f)
                 /\ p \in Packages /\ p # None /\ old \in Document
                 /\ HasState(f) => old = StateFound(f)
                 /\ ~HasState(f) => old.text = None
  <2>1. LET o == StateOf(packages, p, f) IN
         /\ p \in Packages /\ p # None /\ o \in Document
         /\ HasState(f) => o = StateFound(f)
         /\ ~HasState(f) => o.text = None
    BY <1>2, <1>3, <1>8, StateAsked
  <2> QED  BY <2>1
<1>10. compileRun[Here] \in Nat /\ version[f] \in Nat
  BY <1>3, WorkspaceAssumption DEF IInv, Typed
<1>11. UNCHANGED <<compileRun, version, buffer, disk, finished>> /\ wire[i].kind = kind
  BY DEF Handled, clientVars, IsNext
<1>12. Starts(i, kind, f, p, old)
  BY <1>1, <1>2, <1>3, <1>4, <1>5, <1>6, <1>7, <1>8, <1>9, <1>10, <1>11 DEF Starts
<1> QED  BY <1>12

\* What a handler that gives its document another state has made of the packages.
Leaves(f, p, doc) ==
  /\ PackagesSound' /\ FindPackage(f)' = p
  /\ HasState(f)' /\ StateFound(f)' = doc /\ Listed(f)'
  /\ \A g \in Files \ {f} : KeepsState(g)
  /\ \A q \in DOMAIN packages' : \A g \in Files :
       packages'[q].run = compileRun'[Here] /\ ModuleOf(packages'[q], g) # None =>
         /\ q \in DOMAIN packages /\ packages[q].run = compileRun[Here]
         /\ ModuleOf(packages[q], g) = ModuleOf(packages'[q], g)

LEMMA HandlerLeaves ==
  ASSUME NEW i, NEW kind, NEW f, NEW p, NEW old, Starts(i, kind, f, p, old),
         NEW doc \in Document, doc.run = old.run, doc.module = old.module,
         packages' = WithState(packages, p, f, doc)
  PROVE  Leaves(f, p, doc)
<1>1. /\ f \in Files /\ p \in Packages /\ PackagesSound
      /\ p = IF FindPackage(f) = None THEN Dir(f) ELSE FindPackage(f)
      /\ old = StateOf(packages, p, f) /\ compileRun[Here] \in Nat /\ UNCHANGED compileRun
  BY DEF Starts
<1>2. doc.run = StateOf(packages, p, f).run /\ doc.module = StateOf(packages, p, f).module
  BY <1>1
<1>3. /\ PackagesSound' /\ FindPackage(f)' = p
      /\ HasState(f)' /\ StateFound(f)' = doc /\ Listed(f)'
      /\ \A g \in Files \ {f} : KeepsState(g)
      /\ \A q \in DOMAIN packages' : \A g \in Files :
           packages'[q].run = compileRun'[Here] /\ ModuleOf(packages'[q], g) # None =>
             /\ q \in DOMAIN packages /\ packages[q].run = compileRun[Here]
             /\ ModuleOf(packages[q], g) = ModuleOf(packages'[q], g)
  BY <1>1, <1>2, DocWritten
<1> QED  BY <1>3 DEF Leaves

LEMMA DidChangeKeeps ==
  ASSUME IInv, DInv, NEW i \in 1..Len(wire), DidChange(i),
         ~compiling[Here] => finished[Here] = <<>>
  PROVE  DInv'
<1>1. PICK kind : kind = "change"
  OBVIOUS
<1>2. IsNext(i, kind) /\ Handled(i)
  BY <1>1 DEF DidChange
<1>3. PICK f, p, old : Starts(i, kind, f, p, old)
  BY <1>2, HandlerStarts
<1>4. PICK text, v : text = wire[i].text /\ v = wire[i].version
  OBVIOUS
<1>5. text \in Texts /\ v \in Nat /\ old \in Document /\ p = FindPackage(f) /\ p # None
  BY <1>1, <1>3, <1>4 DEF Starts
<1>6. PICK new : /\ new = WithText(old, text, v, FALSE)
                 /\ new \in Document /\ new.run = old.run /\ new.module = old.module
                 /\ new.text = text /\ new.clientVersion = v /\ new.text # None
                 /\ new.edited = TRUE
  <2>1. /\ HasText(WithText(old, text, v, FALSE), old, text, v)
        /\ WithText(old, text, v, FALSE).edited = TRUE
    BY <1>5, WithTextIs
  <2> QED  BY <2>1 DEF HasText
<1>7. PICK doc : /\ packages' = WithState(packages, p, f, doc)
                 /\ \/ /\ Takes(old, v) /\ doc = new
                       /\ source' = [source EXCEPT ![f] = text]
                       /\ shown' = [shown EXCEPT ![f] = Syntax(new.textVersion, text)]
                    \/ ~Takes(old, v) /\ doc = old /\ UNCHANGED <<source, shown>>
  <2>1. f = wire[i].file /\ old = StateOf(packages, p, f)
    BY <1>3 DEF Starts
  <2>2. CASE Takes(old, v)
    BY <1>4, <1>5, <1>6, <2>1, <2>2 DEF DidChange, ShowSyntax
  <2>3. CASE ~Takes(old, v)
    BY <1>4, <1>5, <1>6, <2>1, <2>3 DEF DidChange
  <2> QED  BY <2>2, <2>3
<1>8. doc \in Document /\ doc.run = old.run /\ doc.module = old.module
  BY <1>5, <1>6, <1>7
<1>9. Leaves(f, p, doc)
  BY <1>3, <1>7, <1>8, HandlerLeaves
<1>10. /\ DOMAIN source' = Files /\ DOMAIN shown' = Files
       /\ Takes(old, v) => /\ source'[f] = text
                           /\ shown'[f].from = "syntax" /\ shown'[f].of = text
       /\ ~Takes(old, v) => source'[f] = source[f] /\ shown'[f] = shown[f]
       /\ \A g \in Files \ {f} : source'[g] = source[g] /\ shown'[g] = shown[g]
  BY <1>3, <1>7 DEF Starts, Syntax
<1>11. \A g \in Files \ {f} : Quietly(g) /\ ShowsQuietly(g)
  BY <1>3, <1>9, <1>10 DEF Quietly, ShowsQuietly, Starts, Leaves
<1>12. ASSUME version[f] > 0, Opens(f) = {}
       PROVE  /\ v <= version[f]
              /\ v = version[f] => wire[i].text = buffer[f]
              /\ old.text # None => old.clientVersion <= version[f]
              /\ v = version[f] => Takes(old, v)
  <2>1. f = wire[i].file /\ Opens(f) \subseteq {i}
    BY <1>3, <1>12 DEF Starts
  <2>2. v <= version[f] /\ (v = version[f] => wire[i].text = buffer[f])
    <3>1. /\ wire[i].version <= version[f]
          /\ wire[i].version = version[f] => wire[i].text = buffer[f]
      BY <1>2, <1>12, <2>1, MessageVersion
    <3> QED  BY <1>4, <3>1
  <2>3. old.text # None => old.clientVersion <= version[f]
    BY <1>3, <1>12 DEF Starts, Versions
  <2>4. old.clientVersion \in Int /\ version[f] \in Nat
    BY <1>3, <1>5 DEF Document, Starts
  <2> QED  BY <1>5, <2>2, <2>3, <2>4 DEF Takes
<1>13. ASSUME version[f] > 0, Opens(f)' = {}
       PROVE  /\ shown'[f].from = "compile" /\ shown'[f].of > 0 =>
                   shown'[f].at = compileRun'[Here]
              /\ doc.text # None => doc.clientVersion <= version[f]
  <2>1. Opens(f) = {}
    BY <1>1, <1>3, <1>13 DEF Starts
  <2>2. Takes(old, v) \/ ~Takes(old, v)
    OBVIOUS
  <2>3. CASE Takes(old, v)
    BY <1>6, <1>7, <1>10, <1>12, <1>13, <2>1, <2>3
  <2>4. CASE ~Takes(old, v)
    <3>1. shown[f].from = "compile" /\ shown[f].of > 0 => shown[f].at = compileRun[Here]
      BY <1>3, <1>13, <2>1 DEF Starts, Known
    <3>2. shown'[f] = shown[f] /\ compileRun'[Here] = compileRun[Here] /\ doc = old
      BY <1>3, <1>7, <1>10, <2>4 DEF Starts
    <3> QED  BY <1>12, <1>13, <2>1, <3>1, <3>2
  <2> QED  BY <2>2, <2>3, <2>4
<1>14. ASSUME Flat \/ ~Reordering, version[f] > 0, Arrived(f) \/ Brings(i, f)
       PROVE  Arrived(f)'
  <2>1. Opens(f) = {} /\ (Brings(i, f) => v = version[f])
    BY <1>1, <1>3, <1>4, <1>14 DEF Arrived, Brings, Starts
  <2>2. CASE v = version[f]
    <3>1. Takes(old, v) /\ text = buffer[f]
      BY <1>4, <1>12, <1>14, <2>1, <2>2
    <3>2. /\ HasState(f)' /\ StateFound(f)'.text # None
          /\ StateFound(f)'.clientVersion = version[f] /\ source'[f] = buffer[f]
          /\ shown'[f].from = "syntax" => shown'[f].of = buffer[f]
      BY <1>6, <1>7, <1>9, <1>10, <2>2, <3>1 DEF Leaves
    <3>3. f = wire[i].file /\ Opens(f) \subseteq {i} /\ wire[i].version = version[f]
      BY <1>3, <1>4, <2>1, <2>2 DEF Starts
    <3> QED  BY <1>2, <1>14, <3>2, <3>3, HasArrived
  <2>3. CASE v # version[f]
    <3>1. Arrived(f) /\ Kept(f)
      BY <1>14, <2>1, <2>3 DEF Arrived
    <3>2. /\ Flat /\ HasState(f) /\ StateFound(f).text # None
          /\ StateFound(f).clientVersion = version[f]
      BY <1>1, <1>3, <3>1 DEF Kept, Starts
    <3>3. old.text # None /\ old.clientVersion = version[f]
      BY <1>3, <3>2 DEF Starts
    <3>4. ~Takes(old, v)
      <4>1. v <= version[f] /\ version[f] \in Nat
        BY <1>3, <1>12, <1>14, <2>1 DEF Starts
      <4> QED  BY <1>5, <2>3, <3>3, <4>1 DEF Takes
    <3>5. /\ doc = old /\ source'[f] = source[f] /\ shown'[f] = shown[f]
          /\ buffer'[f] = buffer[f] /\ version'[f] = version[f] /\ Opens(f)' = {}
      BY <1>3, <1>7, <1>10, <2>1, <3>4 DEF Starts
    <3>6. Kept(f)'
      BY <1>9, <3>2, <3>3, <3>5 DEF Kept, Leaves, Flat
    <3> QED  BY <3>1, <3>5, <3>6 DEF Arrived
  <2> QED  BY <2>2, <2>3
<1>15. ASSUME Flat, version[f] > 0, Stale(f) \/ Dirties(i, f)
       PROVE  Stale(f)'
  <2>1. Opens(f) = {} /\ Saves(f) = {}
    BY <1>1, <1>3, <1>15 DEF Stale, Dirties, Starts
  <2>2. Opens(f)' = {} /\ Saves(f)' = {}
    BY <1>3, <2>1 DEF Starts
  <2>3. doc.text # None /\ doc.edited = TRUE
    <3>1. CASE Takes(old, v)
      BY <1>6, <1>7, <3>1
    <3>2. CASE ~Takes(old, v)
      <4>1. ~Dirties(i, f)
        BY <1>4, <1>12, <1>15, <2>1, <3>2 DEF Dirties
      <4> QED  BY <1>3, <1>7, <1>15, <3>2, <4>1 DEF Stale, Starts
    <3> QED  BY <3>1, <3>2
  <2> QED  BY <1>9, <2>2, <2>3 DEF Stale, Leaves
<1>16. ASSUME Compiles PROVE Compiles'
  <2>1. PICK hash : hash = None
    OBVIOUS
  <2>2. kind # "save" /\ UNCHANGED <<mailbox, compiling, awaiting>>
    BY <1>1 DEF DidChange
  <2>3. f = wire[i].file
    BY <1>3 DEF Starts
  <2> QED  BY <1>2, <1>9, <1>16, <2>2, <2>3, HandlersCompile DEF Leaves
<1>17. Serves(i, kind, f)
  BY <1>1, <1>5, <1>9, <1>10, <1>11, <1>13, <1>14, <1>15 DEF Serves, Leaves
<1> QED
  <2>1. f = wire[i].file
    BY <1>3 DEF Starts
  <2>2. ~Outsiders => Compiles'
    BY <1>16 DEF DInv
  <2> QED  BY <1>2, <1>17, <2>1, <2>2, HandlerStep

LEMMA SavedIs ==
  ASSUME NEW doc \in Document
  PROVE  LET d == Saved(doc) IN
         /\ d \in Document /\ d.run = doc.run /\ d.module = doc.module
         /\ d.text = doc.text /\ d.clientVersion = doc.clientVersion
<1>1. Saved(doc) = [doc EXCEPT !.edited = FALSE]
  BY DEF Saved
<1> QED  BY <1>1 DEF Document

LEMMA DidSaveKeeps ==
  ASSUME IInv, DInv, NEW i \in 1..Len(wire), DidSave(i),
         ~compiling[Here] => finished[Here] = <<>>
  PROVE  DInv'
<1>1. PICK kind : kind = "save"
  OBVIOUS
<1>2. IsNext(i, kind) /\ Handled(i)
  BY <1>1 DEF DidSave
<1>3. PICK f, p, old : Starts(i, kind, f, p, old)
  BY <1>2, HandlerStarts
<1>4. p = FindPackage(f) /\ p # None /\ old \in Document /\ i \in Saves(f) /\ i \notin Opens(f)
  BY <1>1, <1>3 DEF Starts, Saves
<1>5. PICK doc : /\ doc = Saved(old)
                 /\ doc \in Document /\ doc.run = old.run /\ doc.module = old.module
                 /\ doc.text = old.text /\ doc.clientVersion = old.clientVersion
  <2>1. LET d == Saved(old) IN
         /\ d \in Document /\ d.run = old.run /\ d.module = old.module
         /\ d.text = old.text /\ d.clientVersion = old.clientVersion
    BY <1>4, SavedIs
  <2> QED  BY <2>1
<1>6. PICK hash : /\ packages' = WithState(packages, p, f, doc)
                  /\ AskOrAwait(p, f, hash) /\ UNCHANGED <<source, shown>>
                  /\ hash = IF kind = "save" THEN TextHash(wire[i].text) ELSE None
  <2>1. f = wire[i].file /\ old = StateOf(packages, p, f)
    BY <1>3 DEF Starts
  <2> QED  BY <1>1, <1>4, <1>5, <2>1 DEF DidSave
<1>7. Leaves(f, p, doc)
  BY <1>3, <1>5, <1>6, HandlerLeaves
<1>8. /\ DOMAIN source' = Files /\ DOMAIN shown' = Files
      /\ \A g \in Files : source'[g] = source[g] /\ shown'[g] = shown[g]
      /\ compileRun'[Here] = compileRun[Here]
  BY <1>3, <1>6 DEF Starts
<1>9. \A g \in Files \ {f} : Quietly(g) /\ ShowsQuietly(g)
  BY <1>7, <1>8 DEF Quietly, ShowsQuietly, Leaves
<1>10. ASSUME version[f] > 0, Opens(f)' = {}
       PROVE  /\ shown'[f].from = "compile" /\ shown'[f].of > 0 =>
                   shown'[f].at = compileRun'[Here]
              /\ doc.text # None => doc.clientVersion <= version[f]
  <2>1. Opens(f) = {} /\ f \in Files
    BY <1>3, <1>4, <1>10 DEF Starts
  <2>2. shown[f].from = "compile" /\ shown[f].of > 0 => shown[f].at = compileRun[Here]
    BY <1>3, <1>10, <2>1 DEF Starts, Known
  <2>3. old.text # None => old.clientVersion <= version[f]
    BY <1>3, <1>10, <2>1 DEF Starts, Versions
  <2> QED  BY <1>5, <1>8, <2>1, <2>2, <2>3
<1>11. ASSUME Flat \/ ~Reordering, version[f] > 0, Arrived(f) \/ Brings(i, f)
       PROVE  Arrived(f)'
  <2>1. Arrived(f) /\ Opens(f) = {} /\ Opens(f)' = {} /\ f \in Files
    BY <1>1, <1>3, <1>11 DEF Arrived, Brings, Starts
  <2>2. Kept(f)'
    <3>1. CASE Flat /\ HasState(f) /\ StateFound(f).text # None
               /\ StateFound(f).clientVersion = version[f]
      BY <1>3, <1>5, <1>7, <3>1 DEF Kept, Starts, Leaves, Flat
    <3>2. CASE ~Reordering /\ \A j \in Of(f) : wire[j].kind # "change"
      <4>1. f = wire[i].file
        BY <1>3 DEF Starts
      <4>2. \A j \in Of(f)' : \E k \in Of(f) \ {i} : wire'[j] = wire[k]
        BY <1>2, <4>1, AfterMessage
      <4> QED  BY <3>2, <4>2 DEF Kept
    <3> QED  BY <2>1, <3>1, <3>2 DEF Arrived, Kept
  <2>3. buffer'[f] = buffer[f] /\ source'[f] = source[f] /\ shown'[f] = shown[f]
    BY <1>3, <1>8, <2>1 DEF Starts
  <2> QED  BY <2>1, <2>2, <2>3 DEF Arrived
<1>12. ~Stale(f) /\ ~Dirties(i, f)
  BY <1>1, <1>3, <1>4 DEF Stale, Dirties, Starts
<1>13. ASSUME Compiles PROVE Compiles'
  <2>1. f = wire[i].file
    BY <1>3 DEF Starts
  <2> QED  BY <1>2, <1>6, <1>7, <1>13, <2>1, HandlersCompile DEF Leaves
<1>14. Serves(i, kind, f)
  BY <1>1, <1>4, <1>7, <1>8, <1>9, <1>10, <1>11, <1>12 DEF Serves, Leaves
<1> QED
  <2>1. f = wire[i].file
    BY <1>3 DEF Starts
  <2>2. ~Outsiders => Compiles'
    BY <1>13 DEF DInv
  <2> QED  BY <1>2, <1>14, <2>1, <2>2, HandlerStep

\* A document is removed from the package it is found in.
LEMMA DocRemoved ==
  ASSUME PackagesSound, NEW f \in Files, NEW p \in Packages, p = FindPackage(f), p # None,
         packages' = [packages EXCEPT ![p] = WithoutDocument(@, f)], UNCHANGED compileRun
  PROVE  /\ PackagesSound' /\ FindPackage(f)' = p /\ ~HasState(f)'
         /\ \A g \in Files \ {f} : KeepsState(g)
         /\ \A q \in DOMAIN packages' : \A g \in Files :
              /\ q \in DOMAIN packages /\ packages'[q].run = packages[q].run
              /\ ModuleOf(packages'[q], g) = ModuleOf(packages[q], g)
<1>1. p \in DOMAIN packages /\ Sound(p, packages[p])
  <2>1. FindPackage(f) \in DOMAIN packages \cup {None}
    BY FoundStates
  <2> QED  BY <2>1 DEF PackagesSound
<1>2. PICK new : /\ new = WithoutDocument(packages[p], f)
                 /\ Sound(p, new) /\ new.run = packages[p].run
                 /\ new.program = packages[p].program
                 /\ DOMAIN new.docs = DOMAIN packages[p].docs \ {f}
                 /\ \A g \in DOMAIN packages[p].docs \ {f} : new.docs[g] = packages[p].docs[g]
  <2>1. LET q == WithoutDocument(packages[p], f) IN
         /\ Sound(p, q) /\ q.run = packages[p].run /\ q.program = packages[p].program
         /\ DOMAIN q.docs = DOMAIN packages[p].docs \ {f}
         /\ \A g \in DOMAIN packages[p].docs \ {f} : q.docs[g] = packages[p].docs[g]
    BY <1>1, WithoutDocumentSound
  <2> QED  BY <2>1
<1>3. /\ DOMAIN packages' = DOMAIN packages /\ packages'[p] = new
      /\ \A q \in DOMAIN packages \ {p} : packages'[q] = packages[q]
  BY <1>1, <1>2
<1>4. PackagesSound'
  BY <1>2, <1>3 DEF PackagesSound
<1>5. \A g \in Files : FindPackage(g)' = FindPackage(g)
  BY <1>3 DEF FindPackage
<1>6. ~HasState(f)'
  BY <1>2, <1>3, <1>5 DEF HasState
<1>7. ASSUME NEW g \in Files \ {f} PROVE KeepsState(g)
  <2>1. ASSUME NEW q \in DOMAIN packages
        PROVE  /\ g \in DOMAIN packages'[q].docs <=> g \in DOMAIN packages[q].docs
               /\ g \in DOMAIN packages[q].docs => packages'[q].docs[g] = packages[q].docs[g]
    BY <1>2, <1>3
  <2>2. FindPackage(g) \in DOMAIN packages \cup {None}
    BY FoundStates
  <2>3. HasState(g)' <=> HasState(g)
    BY <1>3, <1>5, <2>1, <2>2 DEF HasState
  <2>4. HasState(g) => StateFound(g)' = StateFound(g)
    BY <1>5, <2>1, <2>2 DEF HasState, StateFound
  <2>5. Listed(g) => Listed(g)'
    BY <1>3, <2>1 DEF Listed
  <2> QED  BY <1>5, <2>3, <2>4, <2>5 DEF KeepsState
<1>8. ASSUME NEW q \in DOMAIN packages', NEW g \in Files
      PROVE  /\ q \in DOMAIN packages /\ packages'[q].run = packages[q].run
             /\ ModuleOf(packages'[q], g) = ModuleOf(packages[q], g)
  BY <1>2, <1>3 DEF ModuleOf, Program
<1> QED  BY <1>4, <1>5, <1>6, <1>7, <1>8

LEMMA DidCloseKeeps ==
  ASSUME IInv, DInv, NEW i \in 1..Len(wire), DidClose(i),
         ~compiling[Here] => finished[Here] = <<>>
  PROVE  DInv'
<1>1. PICK kind : kind = "close"
  OBVIOUS
<1>2. IsNext(i, kind) /\ Handled(i)
  BY <1>1 DEF DidClose
<1>3. PICK f, p, old : Starts(i, kind, f, p, old)
  BY <1>2, HandlerStarts
<1>4. /\ f \in Files /\ p = FindPackage(f) /\ p # None /\ p \in Packages /\ PackagesSound
      /\ UNCHANGED compileRun
  BY <1>1, <1>3 DEF Starts
<1>5. /\ packages' = [packages EXCEPT ![p] = WithoutDocument(@, f)]
      /\ UNCHANGED <<source, shown, mailbox, compiling, awaiting>>
  <2>1. f = wire[i].file
    BY <1>3 DEF Starts
  <2> QED  BY <1>4, <2>1 DEF DidClose
<1>6. /\ PackagesSound' /\ FindPackage(f)' = p /\ ~HasState(f)'
      /\ \A g \in Files \ {f} : KeepsState(g)
      /\ \A q \in DOMAIN packages' : \A g \in Files :
           /\ q \in DOMAIN packages /\ packages'[q].run = packages[q].run
           /\ ModuleOf(packages'[q], g) = ModuleOf(packages[q], g)
  BY <1>4, <1>5, DocRemoved
<1>7. /\ DOMAIN source' = Files /\ DOMAIN shown' = Files
      /\ \A g \in Files : source'[g] = source[g] /\ shown'[g] = shown[g]
      /\ compileRun'[Here] = compileRun[Here]
  BY <1>3, <1>5 DEF Starts
<1>8. \A g \in Files \ {f} : Quietly(g) /\ ShowsQuietly(g)
  BY <1>6, <1>7 DEF Quietly, ShowsQuietly
<1>9. Fresh(f)'
  BY <1>6 DEF Fresh
\* The client has the document open, so it has opened it again.
<1>10. ASSUME version[f] > 0 PROVE /\ Opens(f)' # {}
                                   /\ ~Arrived(f) /\ ~Stale(f)
                                   /\ ~Brings(i, f) /\ ~Dirties(i, f)
  <2>1. PICK o \in Opens(f) : o # i
    BY <1>1, <1>3, <1>10 DEF Starts
  <2>2. Opens(f)' # {}
    BY <1>3, <2>1 DEF Starts
  <2>3. wire[i].kind = "close"
    BY <1>1, <1>3 DEF Starts
  <2> QED  BY <2>1, <2>2, <2>3 DEF Arrived, Stale, Brings, Dirties
<1>11. ASSUME Compiles PROVE Compiles'
  <2>1. PICK hash : hash = None
    OBVIOUS
  <2>2. kind # "save" /\ UNCHANGED <<mailbox, compiling, awaiting>>
    BY <1>1, <1>5
  <2>3. f = wire[i].file
    BY <1>3 DEF Starts
  <2>4. \A q \in DOMAIN packages' : \A g \in Files :
          packages'[q].run = compileRun'[Here] /\ ModuleOf(packages'[q], g) # None =>
            /\ q \in DOMAIN packages /\ packages[q].run = compileRun[Here]
            /\ ModuleOf(packages[q], g) = ModuleOf(packages'[q], g)
    BY <1>6, <1>7
  <2> QED  BY <1>2, <1>11, <2>2, <2>3, <2>4, HandlersCompile
<1>12. Serves(i, kind, f)
  BY <1>1, <1>4, <1>6, <1>7, <1>8, <1>9, <1>10 DEF Serves
<1> QED
  <2>1. f = wire[i].file
    BY <1>3 DEF Starts
  <2>2. ~Outsiders => Compiles'
    BY <1>11 DEF DInv
  <2> QED  BY <1>2, <1>12, <2>1, <2>2, HandlerStep

------------------------------------------------------------------------------
(* What a run has found.                                                   *)

\* Every document the packages have keeps its text, and one that is new in a
\* package has none.
Renews ==
  /\ PackagesSound'
  /\ DOMAIN packages \subseteq DOMAIN packages'
  /\ \A p \in DOMAIN packages' : \A f \in DOMAIN packages'[p].docs :
       \/ /\ p \in DOMAIN packages /\ f \in DOMAIN packages[p].docs
       \/ /\ p \in DOMAIN packages /\ packages'[p].docs[f].text = None
  /\ \A p \in DOMAIN packages : \A f \in DOMAIN packages[p].docs :
       /\ f \in DOMAIN packages'[p].docs
       /\ packages'[p].docs[f].text = packages[p].docs[f].text
       /\ packages'[p].docs[f].clientVersion = packages[p].docs[f].clientVersion
       /\ packages'[p].docs[f].edited = packages[p].docs[f].edited

LEMMA RenewedIsQuiet ==
  ASSUME PackagesSound, Renews, UNCHANGED source, NEW f \in Files
  PROVE  Quietly(f)
<1>1. /\ FindPackage(f)' \in {FindPackage(f)} \cup (DOMAIN packages' \ DOMAIN packages)
      /\ FindPackage(f) # None => FindPackage(f)' # None
      /\ FindPackage(f) \in DOMAIN packages \cup {None}
      /\ FindPackage(f)' \in DOMAIN packages' \cup {None}
      /\ Dir(f) \in DOMAIN packages' => FindPackage(f)' = Dir(f)
      /\ Len(Above(f)) = 1 => FindPackage(f) \in {Dir(f), None}
  <2>1. FindPackage(f) = Nearest(DOMAIN packages, f)
    BY DEF FindPackage, Nearest
  <2>2. FindPackage(f)' = Nearest(DOMAIN packages', f)
    BY DEF FindPackage, Nearest
  <2>3. /\ DOMAIN packages \subseteq DOMAIN packages' /\ DOMAIN packages' \subseteq Packages
        /\ DOMAIN packages' \subseteq DOMAIN packages'
    BY DEF Renews, PackagesSound
  <2>4. /\ Nearest(DOMAIN packages', f) \in DOMAIN packages' \cup {None}
        /\ Dir(f) \in DOMAIN packages' => Nearest(DOMAIN packages', f) = Dir(f)
    BY <2>3, FoundMoves
  <2> QED  BY <2>1, <2>2, <2>3, <2>4, FoundMoves
<1>2. Listed(f) => Listed(f)'
  BY DEF Listed, Renews
<1>3. ASSUME HasState(f)', StateFound(f)'.text # None
      PROVE  /\ HasState(f) /\ StateFound(f)'.text = StateFound(f).text
             /\ StateFound(f)'.clientVersion = StateFound(f).clientVersion
             /\ StateFound(f)'.edited = StateFound(f).edited
  <2>1. PICK p : p = FindPackage(f)' /\ p \in DOMAIN packages' /\ f \in DOMAIN packages'[p].docs
    BY <1>1, <1>3 DEF HasState
  <2>2. packages'[p].docs[f].text # None
    BY <1>3, <2>1 DEF StateFound
  <2>3. p \in DOMAIN packages /\ f \in DOMAIN packages[p].docs
    BY <2>1, <2>2 DEF Renews
  <2>4. FindPackage(f) = p /\ p # None
    BY <1>1, <1>3, <2>1, <2>3 DEF HasState
  <2>5. HasState(f) /\ StateFound(f) = packages[p].docs[f] /\ StateFound(f)' = packages'[p].docs[f]
    BY <2>1, <2>3, <2>4 DEF HasState, StateFound
  <2> QED  BY <2>3, <2>5 DEF Renews
<1>4. ASSUME Flat, HasState(f)
      PROVE  /\ HasState(f)' /\ StateFound(f)'.text = StateFound(f).text
             /\ StateFound(f)'.clientVersion = StateFound(f).clientVersion
             /\ StateFound(f)'.edited = StateFound(f).edited
  <2>1. PICK p : p = FindPackage(f) /\ p \in DOMAIN packages /\ f \in DOMAIN packages[p].docs
                 /\ p # None /\ p = Dir(f)
    BY <1>1, <1>4 DEF HasState, Flat
  <2>2. p \in DOMAIN packages' /\ f \in DOMAIN packages'[p].docs
    BY <2>1 DEF Renews
  <2>3. FindPackage(f)' = p
    BY <1>1, <2>1, <2>2
  <2>4. HasState(f)' /\ StateFound(f) = packages[p].docs[f] /\ StateFound(f)' = packages'[p].docs[f]
    BY <2>1, <2>2, <2>3 DEF HasState, StateFound
  <2> QED  BY <2>1, <2>4 DEF Renews
<1> QED  BY <1>1, <1>2, <1>3, <1>4 DEF Quietly, KeepsState

\* The packages of a program get what a newer run has found in them.
LEMMA WithRunRenews ==
  ASSUME PackagesSound, compileRun[Here] \in Nat, NEW run \in Nat, compileRun[Here] < run,
         compileRun'[Here] = run, NEW program, DOMAIN program \subseteq Packages,
         \A p \in DOMAIN program : program[p] \in [FilesIn(p) -> Texts],
         packages' = WithRun(run, program)
  PROVE  /\ Renews
         /\ \A p \in DOMAIN packages' : \A f :
              packages'[p].run = run /\ ModuleOf(packages'[p], f) # None =>
                /\ p \in DOMAIN program /\ f \in DOMAIN program[p]
                /\ ModuleOf(packages'[p], f) = program[p][f]
<1> DEFINE old(p) == IF p \in DOMAIN packages THEN packages[p] ELSE NewPackage
<1>1. /\ DOMAIN packages' = DOMAIN packages \cup DOMAIN program
      /\ \A p \in DOMAIN packages' :
           packages'[p] = IF p \in DOMAIN program THEN WithProgram(old(p), run, program[p])
                          ELSE old(p)
  BY DEF WithRun
<1>2. ASSUME NEW p \in DOMAIN packages'
      PROVE  /\ p \in Packages /\ Sound(p, old(p)) /\ old(p).run < run
             /\ p \notin DOMAIN packages => DOMAIN old(p).docs = {}
             /\ p \in DOMAIN packages => old(p) = packages[p]
  <2>1. p \in Packages
    BY <1>1 DEF PackagesSound
  <2>2. CASE p \in DOMAIN packages
    <3>1. Sound(p, packages[p]) /\ packages[p].run <= compileRun[Here]
      BY <2>2 DEF PackagesSound
    <3>2. packages[p].run \in Nat
      BY <3>1 DEF Sound, Package
    <3> QED  BY <2>1, <2>2, <3>1, <3>2
  <2>3. CASE p \notin DOMAIN packages
    <3>1. NewPackage.run = 0 /\ 0 < run
      BY DEF NewPackage
    <3> QED  BY <2>1, <2>3, <3>1, NewPackageSound
  <2> QED  BY <2>2, <2>3
<1> HIDE DEF old
<1>3. ASSUME NEW p \in DOMAIN packages'
      PROVE  /\ Sound(p, packages'[p]) /\ packages'[p].run <= run
             /\ packages'[p].run = run => p \in DOMAIN program
             /\ p \in DOMAIN program =>
                  \A f : ModuleOf(packages'[p], f) = IF f \in FilesIn(p) THEN program[p][f] ELSE None
             /\ DOMAIN packages'[p].docs = DOMAIN old(p).docs
             /\ \A f \in DOMAIN old(p).docs :
                  /\ packages'[p].docs[f].text = old(p).docs[f].text
                  /\ packages'[p].docs[f].clientVersion = old(p).docs[f].clientVersion
                  /\ packages'[p].docs[f].edited = old(p).docs[f].edited
  <2>1. PICK pkg : pkg = old(p) /\ p \in Packages /\ Sound(p, pkg) /\ pkg.run < run
    BY <1>2
  <2>2. pkg.run \in Nat
    BY <2>1 DEF Sound, Package
  <2>3. CASE p \in DOMAIN program
    <3>1. PICK prog \in [FilesIn(p) -> Texts] : prog = program[p]
      BY <2>3
    <3>2. PICK q : q = packages'[p] /\ q = WithProgram(pkg, run, prog)
      BY <1>1, <2>1, <2>3, <3>1
    <3>3. LET r == WithProgram(pkg, run, prog) IN
          /\ Sound(p, r) /\ r.run = run
          /\ \A f : ModuleOf(r, f) = IF f \in FilesIn(p) THEN prog[f] ELSE None
          /\ DOMAIN r.docs = DOMAIN pkg.docs
          /\ \A f \in DOMAIN pkg.docs :
               /\ r.docs[f].text = pkg.docs[f].text /\ r.docs[f].edited = pkg.docs[f].edited
               /\ r.docs[f].clientVersion = pkg.docs[f].clientVersion
      BY <2>1, <3>1, WithProgramSound
    <3>4. run <= run
      OBVIOUS
    <3> QED  BY <2>1, <2>3, <3>1, <3>2, <3>3, <3>4
  <2>4. CASE p \notin DOMAIN program
    <3>1. packages'[p] = pkg
      BY <1>1, <2>1, <2>4
    <3> QED  BY <2>1, <2>2, <2>4, <3>1
  <2> QED  BY <2>3, <2>4
<1>4. PackagesSound'
  BY <1>2, <1>3 DEF PackagesSound
<1>5. Renews
  BY <1>1, <1>2, <1>3, <1>4 DEF Renews
<1>6. ASSUME NEW p \in DOMAIN packages', NEW f,
             packages'[p].run = run, ModuleOf(packages'[p], f) # None
      PROVE  /\ p \in DOMAIN program /\ f \in DOMAIN program[p]
             /\ ModuleOf(packages'[p], f) = program[p][f]
  <2>1. p \in DOMAIN program
    BY <1>3, <1>6
  <2>2. ModuleOf(packages'[p], f) = IF f \in FilesIn(p) THEN program[p][f] ELSE None
    BY <1>3, <2>1
  <2> QED  BY <1>6, <2>1, <2>2
<1> QED  BY <1>5, <1>6

\* Errors are put down to a document, and leave it as it is.
LEMMA WithDiagnosticsIs ==
  ASSUME NEW doc \in Document, NEW run \in Nat, NEW n \in Nat
  PROVE  LET d == WithDiagnostics(doc, run, n) IN
         /\ d \in Document /\ d.run = doc.run /\ d.module = doc.module /\ d.text = doc.text
         /\ d.clientVersion = doc.clientVersion /\ d.edited = doc.edited
<1> DEFINE had == IF doc.diagnostics.thing = None THEN 0 ELSE doc.diagnostics.thing
           D == [run : Nat, thing : Nat \cup {None}]
<1>1. doc.diagnostics \in D /\ doc.run \in Nat /\ had \in Nat
  BY DEF Document
<1>2. had + n \in Nat /\ 1 \in Nat
  BY <1>1
<1> HIDE DEF had
<1>3. \A m \in Nat : Updated(doc.diagnostics, run, m) \in D
  BY <1>1 DEF Updated
<1>4. \/ WithDiagnostics(doc, run, n) = doc
      \/ \E m \in Nat : WithDiagnostics(doc, run, n) =
           [doc EXCEPT !.diagnostics = Updated(doc.diagnostics, run, m)]
  <2>1. CASE run = doc.run
    <3>1. WithDiagnostics(doc, run, n) =
            [doc EXCEPT !.diagnostics = Updated(doc.diagnostics, run, had + n)]
      BY <2>1 DEF WithDiagnostics, had
    <3> QED  BY <1>2, <3>1
  <2>2. CASE run # doc.run /\ run > doc.run
    <3>1. WithDiagnostics(doc, run, n) =
            [doc EXCEPT !.diagnostics = Updated(doc.diagnostics, run, 1)]
      BY <2>2 DEF WithDiagnostics
    <3> QED  BY <1>2, <3>1
  <2>3. CASE run # doc.run /\ ~(run > doc.run)
    BY <2>3 DEF WithDiagnostics
  <2> QED  BY <2>1, <2>2, <2>3
<1>5. ASSUME NEW x \in D
      PROVE  LET d == [doc EXCEPT !.diagnostics = x] IN
             /\ d \in Document /\ d.run = doc.run /\ d.module = doc.module /\ d.text = doc.text
             /\ d.clientVersion = doc.clientVersion /\ d.edited = doc.edited
  BY <1>5 DEF Document
<1>6. CASE WithDiagnostics(doc, run, n) = doc
  BY <1>6
<1>7. CASE \E m \in Nat : WithDiagnostics(doc, run, n) =
                [doc EXCEPT !.diagnostics = Updated(doc.diagnostics, run, m)]
  <2>1. PICK m \in Nat : WithDiagnostics(doc, run, n) =
               [doc EXCEPT !.diagnostics = Updated(doc.diagnostics, run, m)]
    BY <1>7
  <2>2. PICK x \in D : x = Updated(doc.diagnostics, run, m)
    BY <1>3
  <2>3. WithDiagnostics(doc, run, n) = [doc EXCEPT !.diagnostics = x]
    BY <2>1, <2>2
  <2> HIDE DEF D
  <2> QED  BY <1>5, <2>3
<1> QED  BY <1>4, <1>6, <1>7

\* The state of a document of a package that is known follows the package.
LEMMA StateFollows ==
  ASSUME PackagesSound, NEW p \in DOMAIN packages, NEW f \in Files
  PROVE  LET old == StateOf(packages, p, f) IN
         /\ old \in Document /\ Follows(packages[p], f, old)
         /\ f \in DOMAIN packages[p].docs => old = packages[p].docs[f]
         /\ f \notin DOMAIN packages[p].docs => old.text = None
<1>1. p \in Packages /\ Sound(p, packages[p])
  BY DEF PackagesSound
<1>2. PICK q : /\ q = WithDocument(packages[p], f) /\ Sound(p, q)
               /\ q.run = packages[p].run /\ q.program = packages[p].program
               /\ DOMAIN q.docs = DOMAIN packages[p].docs \cup {f}
               /\ \A g \in DOMAIN packages[p].docs : q.docs[g] = packages[p].docs[g]
               /\ f \notin DOMAIN packages[p].docs => q.docs[f].text = None
  <2>1. LET q == WithDocument(packages[p], f) IN
         /\ Sound(p, q) /\ q.run = packages[p].run /\ q.program = packages[p].program
         /\ DOMAIN q.docs = DOMAIN packages[p].docs \cup {f}
         /\ \A g \in DOMAIN packages[p].docs : q.docs[g] = packages[p].docs[g]
         /\ f \notin DOMAIN packages[p].docs => q.docs[f].text = None
    BY <1>1, WithDocumentSound
  <2> QED  BY <2>1
<1>3. Ensure(packages, p)[p] = packages[p]
  BY DEF Ensure
<1>4. StateOf(packages, p, f) = q.docs[f]
  BY <1>2, <1>3 DEF StateOf
<1>5. q.docs[f] \in Document /\ Follows(q, f, q.docs[f])
  BY <1>2, DocsAreFunctions DEF Sound, Package
<1>6. ModuleOf(q, f) = ModuleOf(packages[p], f)
  BY <1>2 DEF ModuleOf, Program
<1>7. Follows(packages[p], f, q.docs[f])
  BY <1>2, <1>5, <1>6 DEF Follows
<1> QED  BY <1>2, <1>4, <1>5, <1>7

\* The errors of a failed run leave the packages what they have compiled.
LEMMA WithErrorsRenews ==
  ASSUME PackagesSound, compileRun[Here] \in Nat, NEW run \in Nat, compileRun[Here] < run,
         compileRun'[Here] = run, NEW errors, DOMAIN errors \subseteq Files,
         \A f \in DOMAIN errors : errors[f] \in Nat,
         packages' = WithErrors(run, errors)
  PROVE  Renews /\ \A p \in DOMAIN packages' : packages'[p].run < run
<1> DEFINE wrong(p) == {f \in DOMAIN errors : FindPackage(f) = p}
           doc(p, f) == IF f \in wrong(p) THEN WithDiagnostics(StateOf(packages, p, f), run, errors[f])
                        ELSE packages[p].docs[f]
           docs(p) == [f \in DOMAIN packages[p].docs \cup wrong(p) |-> doc(p, f)]
<1>1. /\ DOMAIN packages' = DOMAIN packages
      /\ \A p \in DOMAIN packages : packages'[p] = [packages[p] EXCEPT !.docs = docs(p)]
  BY DEF WithErrors
<1>2. \A p : wrong(p) \subseteq Files
  OBVIOUS
<1>3. ASSUME NEW p \in DOMAIN packages
      PROVE  /\ p \in Packages /\ Sound(p, packages[p]) /\ packages[p].run < run
             /\ packages[p].run \in Nat
             /\ DOMAIN packages[p].docs \subseteq Files
             /\ \A f \in DOMAIN packages[p].docs :
                  packages[p].docs[f] \in Document /\ Follows(packages[p], f, packages[p].docs[f])
  <2>1. p \in Packages /\ Sound(p, packages[p]) /\ packages[p].run <= compileRun[Here]
    BY DEF PackagesSound
  <2>2. packages[p].run \in Nat
    BY <2>1 DEF Sound, Package
  <2>3. /\ DOMAIN packages[p].docs \subseteq Files
        /\ \A f \in DOMAIN packages[p].docs :
             packages[p].docs[f] \in Document /\ Follows(packages[p], f, packages[p].docs[f])
    BY <2>1, DocsAreFunctions DEF Sound, Package
  <2> QED  BY <2>1, <2>2, <2>3
<1> HIDE DEF wrong
<1>4. ASSUME NEW p \in DOMAIN packages, NEW f \in DOMAIN packages[p].docs \cup wrong(p)
      PROVE  /\ doc(p, f) \in Document /\ Follows(packages[p], f, doc(p, f))
             /\ f \in DOMAIN packages[p].docs =>
                  /\ doc(p, f).text = packages[p].docs[f].text
                  /\ doc(p, f).clientVersion = packages[p].docs[f].clientVersion
                  /\ doc(p, f).edited = packages[p].docs[f].edited
             /\ f \notin DOMAIN packages[p].docs => doc(p, f).text = None
  <2>1. CASE f \notin wrong(p)
    BY <1>3, <2>1
  <2>2. CASE f \in wrong(p)
    <3>1. f \in Files /\ errors[f] \in Nat
      BY <2>2 DEF wrong
    <3>2. PICK old : /\ old = StateOf(packages, p, f)
                     /\ old \in Document /\ Follows(packages[p], f, old)
                     /\ f \in DOMAIN packages[p].docs => old = packages[p].docs[f]
                     /\ f \notin DOMAIN packages[p].docs => old.text = None
      BY <3>1, StateFollows
    <3>3. PICK n \in Nat : n = errors[f]
      BY <3>1
    <3>4. doc(p, f) = WithDiagnostics(old, run, n)
      BY <2>2, <3>2, <3>3
    <3> HIDE DEF doc
    <3>5. PICK d : /\ d = WithDiagnostics(old, run, n)
                   /\ d \in Document /\ d.run = old.run /\ d.module = old.module
                   /\ d.text = old.text
                   /\ d.clientVersion = old.clientVersion /\ d.edited = old.edited
      <4>1. LET e == WithDiagnostics(old, run, n) IN
            /\ e \in Document /\ e.run = old.run /\ e.module = old.module /\ e.text = old.text
            /\ e.clientVersion = old.clientVersion /\ e.edited = old.edited
        <5>1. old \in Document
          BY <3>2
        <5> QED  BY <5>1, WithDiagnosticsIs
      <4> QED  BY <4>1
    <3>6. Follows(packages[p], f, d)
      BY <3>2, <3>5 DEF Follows
    <3> QED  BY <3>2, <3>4, <3>5, <3>6
  <2> QED  BY <2>1, <2>2
<1> HIDE DEF doc
<1>5. ASSUME NEW p \in DOMAIN packages
      PROVE  /\ Sound(p, packages'[p]) /\ packages'[p].run = packages[p].run
             /\ packages'[p].docs = docs(p)
  <2>1. DOMAIN docs(p) = DOMAIN packages[p].docs \cup wrong(p)
        /\ \A f \in DOMAIN docs(p) : docs(p)[f] = doc(p, f)
    OBVIOUS
  <2>2. PICK ds : ds = docs(p)
    OBVIOUS
  <2> HIDE DEF docs
  <2>3. ds \in Documents
    <3>1. DOMAIN ds \subseteq Files
      BY <1>2, <1>3, <2>1, <2>2
    <3>2. ds \in [DOMAIN ds -> Document]
      <4>1. ds = [f \in DOMAIN packages[p].docs \cup wrong(p) |-> doc(p, f)]
        BY <2>2 DEF docs
      <4>2. DOMAIN ds = DOMAIN packages[p].docs \cup wrong(p)
        BY <2>1, <2>2
      <4> QED  BY <1>4, <4>1, <4>2
    <3> QED  BY <3>1, <3>2, DocsMade
  <2>4. \A f \in DOMAIN ds : Follows(packages[p], f, ds[f])
    BY <1>4, <2>1, <2>2
  <2>5. LET q == [packages[p] EXCEPT !.docs = ds] IN
        Sound(p, q) /\ q.run = packages[p].run /\ q.program = packages[p].program /\ q.docs = ds
    BY <1>3, <2>3, <2>4, WithDocsSound
  <2>6. packages'[p] = [packages[p] EXCEPT !.docs = ds]
    BY <1>1, <2>2
  <2> QED  BY <2>2, <2>5, <2>6
<1>6. PackagesSound'
  <2> HIDE DEF docs
  <2>1. ASSUME NEW p \in DOMAIN packages'
        PROVE  p \in Packages /\ Sound(p, packages'[p]) /\ packages'[p].run <= compileRun'[Here]
    <3>1. p \in DOMAIN packages
      BY <1>1
    <3>2. p \in Packages /\ Sound(p, packages'[p])
      BY <1>3, <1>5, <3>1
    <3>3. packages'[p].run < run /\ packages'[p].run \in Nat
      BY <1>3, <1>5, <3>1
    <3>4. packages'[p].run <= run
      BY <3>3
    <3> QED  BY <3>2, <3>4
  <2>2. DOMAIN packages' \subseteq Packages
    BY <2>1
  <2> QED  BY <2>1, <2>2 DEF PackagesSound
<1>7. ASSUME NEW p \in DOMAIN packages
      PROVE  /\ DOMAIN packages'[p].docs = DOMAIN packages[p].docs \cup wrong(p)
             /\ \A f \in DOMAIN packages'[p].docs : packages'[p].docs[f] = doc(p, f)
  BY <1>5
<1> HIDE DEF docs
<1>8. Renews
  BY <1>1, <1>4, <1>6, <1>7 DEF Renews
<1>9. \A p \in DOMAIN packages' : packages'[p].run < run
  BY <1>1, <1>3, <1>5
<1> QED  BY <1>8, <1>9

\* Results come in step with the compiles that are asked for, and are news.
InStep ==
  /\ ~compiling[Here] => finished[Here] = <<>>
  /\ \A k \in 1..Len(finished[Here]) : IsNews(finished[Here][k].run)

\* The result that is taken.
LEMMA HeadIs ==
  ASSUME IInv, InStep, finished[Here] # <<>>, Take(Here)
  PROVE  \E done :
           /\ done = Head(finished[Here]) /\ done = finished[Here][1] /\ 1 \in 1..Len(finished[Here])
           /\ done.run \in Nat /\ compileRun[Here] \in Nat /\ compileRun[Here] < done.run
           /\ IsOutcome(done.result)
           /\ \A k \in 1..Len(finished'[Here]) :
                k + 1 \in 1..Len(finished[Here]) /\ finished'[Here][k] = finished[Here][k + 1]
<1>1. PICK O : finished \in [Managers -> Seq(ResultOf(O))] /\ \A y \in O : IsOutcome(y)
  BY Zenon DEF IInv, Typed, Finished
<1>2. PICK R : R = ResultOf(O)
  OBVIOUS
<1>3. PICK s \in Seq(R) : s = finished[Here]
  BY <1>1, <1>2, WorkspaceAssumption
<1>4. Here \in Managers /\ compileRun[Here] \in Nat
  BY WorkspaceAssumption DEF IInv, Typed
<1>5. finished'[Here] = Tail(s)
  BY <1>1, <1>3, <1>4 DEF Take
<1>6. PICK done \in R : done = Head(s) /\ done = s[1] /\ 1 \in 1..Len(s)
  BY <1>3
<1>7. done.run \in Nat /\ IsOutcome(done.result)
  BY <1>1, <1>2, <1>6 DEF ResultOf
<1>8. compileRun[Here] < done.run
  BY <1>3, <1>4, <1>6, <1>7 DEF InStep, IsNews
<1>9. ASSUME NEW k \in 1..Len(finished'[Here])
      PROVE  k + 1 \in 1..Len(finished[Here]) /\ finished'[Here][k] = finished[Here][k + 1]
  BY <1>3, <1>5
<1> QED  BY <1>3, <1>4, <1>6, <1>7, <1>8, <1>9

LEMMA DoneOkKeeps ==
  ASSUME IInv, DInv, InStep, DoneOk
  PROVE  DInv'
<1>1. /\ finished[Here] # <<>> /\ Take(Here)
      /\ UNCHANGED <<disk, buffer, version, wire, source>>
  BY DEF DoneOk, DoneStep, clientVars
<1>2. PICK done :
        /\ done = Head(finished[Here]) /\ done = finished[Here][1] /\ 1 \in 1..Len(finished[Here])
        /\ done.run \in Nat /\ compileRun[Here] \in Nat /\ compileRun[Here] < done.run
        /\ IsOutcome(done.result)
        /\ \A k \in 1..Len(finished'[Here]) :
             k + 1 \in 1..Len(finished[Here]) /\ finished'[Here][k] = finished[Here][k + 1]
  BY <1>1, HeadIs
<1>3. PICK program, run : program = done.result.program /\ run = done.run
  OBVIOUS
<1>4. /\ DOMAIN program \subseteq Packages
      /\ \A p \in DOMAIN program : program[p] \in [FilesIn(p) -> Texts]
      /\ done.result.ok /\ IsNews(run)
  BY <1>2, <1>3 DEF DoneOk, IsOutcome, IsNews
<1>5. PICK pkgs : pkgs = WithRun(run, program)
  OBVIOUS
<1>6. /\ compileRun' = [compileRun EXCEPT ![Here] = run]
      /\ packages' = pkgs /\ shown' = Published(run, <<>>)
      /\ awaiting' = [f \in DOMAIN awaiting \
                        UNION {Awaited(pkgs, p) : p \in DOMAIN program} |-> awaiting[f]]
  BY <1>2, <1>3, <1>4, <1>5 DEF DoneOk
<1>7. compileRun'[Here] = run
  BY <1>6, WorkspaceAssumption DEF IInv, Typed
<1>8. \A f \in DOMAIN awaiting : f \in DOMAIN awaiting' /\ awaiting'[f] = awaiting[f]
  <2>1. \A f \in DOMAIN awaiting : Base(f) \notin Packages
    BY WorkspaceAssumption DEF IInv, Typed
  <2>2. \A p \in DOMAIN program : Awaited(pkgs, p) = {}
    BY <1>4, <2>1 DEF Awaited, AwaitedIn
  <2> QED  BY <1>6, <2>2
<1>9. PackagesSound /\ DOMAIN source = Files /\ DOMAIN shown = Files
  BY DEF DInv
<1>10. /\ Renews
       /\ \A p \in DOMAIN packages' : \A f :
            packages'[p].run = run /\ ModuleOf(packages'[p], f) # None =>
              /\ p \in DOMAIN program /\ f \in DOMAIN program[p]
              /\ ModuleOf(packages'[p], f) = program[p][f]
  BY <1>2, <1>3, <1>4, <1>5, <1>6, <1>7, <1>9, WithRunRenews
<1>11. \A f \in Files : Quietly(f)
  BY <1>1, <1>9, <1>10, RenewedIsQuiet
<1>12. DOMAIN shown' = Files /\ \A f \in Files : ShowsQuietly(f)
  <2>1. ASSUME NEW f \in Files
        PROVE  \/ shown'[f].from = "compile" /\ shown'[f].at = run
               \/ shown'[f] = shown[f] /\ ~Listed(f)
    BY <1>6 DEF Published, Errors, Listed
  <2>2. DOMAIN shown' = Files
    BY <1>6 DEF Published
  <2> QED  BY <1>7, <2>1, <2>2 DEF ShowsQuietly
<1>13. ASSUME Compiles PROVE Compiles'
  <2>1. \A f, text : AsOnDisk(f, text) => text = disk'[f] \/ PutAsideAsSaved(f)' \/ Saves(f)' # {}
    BY <1>1, <1>8, NothingSaved
  <2>4. \A f \in Files : LastSaved(f)'
    BY <1>1, <1>8, <1>13, NothingSaved DEF Compiles
  <2>2. ASSUME NEW k \in 1..Len(finished'[Here]), finished'[Here][k].result.ok,
               NEW p \in DOMAIN finished'[Here][k].result.program,
               NEW f \in DOMAIN finished'[Here][k].result.program[p]
        PROVE  \/ finished'[Here][k].result.program[p][f] = disk'[f]
               \/ PutAsideAsSaved(f)' \/ Saves(f)' # {}
    <3>1. PICK l \in 1..Len(finished[Here]) : finished'[Here][k] = finished[Here][l]
      BY <1>2
    <3>2. AsOnDisk(f, finished[Here][l].result.program[p][f])
      BY <1>13, <2>2, <3>1 DEF Compiles
    <3> QED  BY <2>1, <3>1, <3>2
  <2>3. ASSUME NEW p \in DOMAIN packages', NEW f \in Files,
               packages'[p].run = compileRun'[Here], ModuleOf(packages'[p], f) # None
        PROVE  \/ ModuleOf(packages'[p], f) = disk'[f]
               \/ PutAsideAsSaved(f)' \/ Saves(f)' # {}
    <3>1. /\ p \in DOMAIN program /\ f \in DOMAIN program[p]
          /\ ModuleOf(packages'[p], f) = program[p][f]
      BY <1>7, <1>10, <2>3
    <3>2. AsOnDisk(f, program[p][f])
      BY <1>2, <1>3, <1>4, <1>13, <3>1 DEF Compiles
    <3> QED  BY <2>1, <3>1, <3>2
  <2> QED  BY <2>2, <2>3, <2>4 DEF Compiles, AsOnDisk
<1> QED
  <2>1. \A f \in Files : version[f] > 0 => buffer'[f] = buffer[f] /\ disk'[f] = disk[f]
    BY <1>1
  <2>2. ~Outsiders => Compiles'
    BY <1>13 DEF DInv
  <2>3. PackagesSound' /\ DOMAIN source' = Files
    BY <1>1, <1>9, <1>10 DEF Renews
  <2> QED  BY <1>1, <1>11, <1>12, <2>1, <2>2, <2>3, QuietStep

LEMMA DoneFailedKeeps ==
  ASSUME IInv, DInv, InStep, DoneFailed
  PROVE  DInv'
<1>1. /\ finished[Here] # <<>> /\ Take(Here)
      /\ UNCHANGED <<disk, buffer, version, wire, source, awaiting>>
  BY DEF DoneFailed, DoneStep, clientVars
<1>2. PICK done :
        /\ done = Head(finished[Here]) /\ done = finished[Here][1] /\ 1 \in 1..Len(finished[Here])
        /\ done.run \in Nat /\ compileRun[Here] \in Nat /\ compileRun[Here] < done.run
        /\ IsOutcome(done.result)
        /\ \A k \in 1..Len(finished'[Here]) :
             k + 1 \in 1..Len(finished[Here]) /\ finished'[Here][k] = finished[Here][k + 1]
  BY <1>1, HeadIs
<1>3. PICK errors, run : errors = done.result.errors /\ run = done.run
  OBVIOUS
<1>4. /\ DOMAIN errors \subseteq Files /\ \A f \in DOMAIN errors : errors[f] \in Nat
      /\ IsNews(run)
  BY <1>2, <1>3 DEF DoneFailed, IsOutcome, IsNews
<1>5. /\ compileRun' = [compileRun EXCEPT ![Here] = run]
      /\ packages' = WithErrors(run, errors) /\ shown' = Published(run, errors)
  BY <1>2, <1>3, <1>4 DEF DoneFailed
<1>6. compileRun'[Here] = run
  BY <1>5, WorkspaceAssumption DEF IInv, Typed
<1>7. PackagesSound /\ DOMAIN source = Files /\ DOMAIN shown = Files
  BY DEF DInv
<1>8. Renews /\ \A p \in DOMAIN packages' : packages'[p].run < run
  BY <1>2, <1>3, <1>4, <1>5, <1>6, <1>7, WithErrorsRenews
<1>9. \A f \in Files : Quietly(f)
  BY <1>1, <1>7, <1>8, RenewedIsQuiet
<1>10. DOMAIN shown' = Files /\ \A f \in Files : ShowsQuietly(f)
  <2>1. ASSUME NEW f \in Files
        PROVE  \/ shown'[f].from = "compile" /\ shown'[f].at = run
               \/ shown'[f] = shown[f] /\ ~Listed(f)
    BY <1>5 DEF Published, Errors, Listed
  <2>2. DOMAIN shown' = Files
    BY <1>5 DEF Published
  <2> QED  BY <1>6, <2>1, <2>2 DEF ShowsQuietly
<1>11. ASSUME Compiles PROVE Compiles'
  <2>1. \A f, text : AsOnDisk(f, text) => text = disk'[f] \/ PutAsideAsSaved(f)' \/ Saves(f)' # {}
    BY <1>1, NothingSaved
  <2>4. \A f \in Files : LastSaved(f)'
    BY <1>1, <1>11, NothingSaved DEF Compiles
  <2>2. ASSUME NEW k \in 1..Len(finished'[Here]), finished'[Here][k].result.ok,
               NEW p \in DOMAIN finished'[Here][k].result.program,
               NEW f \in DOMAIN finished'[Here][k].result.program[p]
        PROVE  \/ finished'[Here][k].result.program[p][f] = disk'[f]
               \/ PutAsideAsSaved(f)' \/ Saves(f)' # {}
    <3>1. PICK l \in 1..Len(finished[Here]) : finished'[Here][k] = finished[Here][l]
      BY <1>2
    <3>2. AsOnDisk(f, finished[Here][l].result.program[p][f])
      BY <1>11, <2>2, <3>1 DEF Compiles
    <3> QED  BY <2>1, <3>1, <3>2
  <2>3. ASSUME NEW p \in DOMAIN packages' PROVE packages'[p].run # compileRun'[Here]
    BY <1>2, <1>3, <1>6, <1>8
  <2> QED  BY <2>2, <2>3, <2>4 DEF Compiles, AsOnDisk
<1> QED
  <2>1. \A f \in Files : version[f] > 0 => buffer'[f] = buffer[f] /\ disk'[f] = disk[f]
    BY <1>1
  <2>2. ~Outsiders => Compiles'
    BY <1>11 DEF DInv
  <2>3. PackagesSound' /\ DOMAIN source' = Files
    BY <1>1, <1>7, <1>8 DEF Renews
  <2> QED  BY <1>1, <1>9, <1>10, <2>1, <2>2, <2>3, QuietStep

------------------------------------------------------------------------------
(* The invariant, of every behaviour.                                      *)

LEMMA NoMessagesYet == Init => DInv
<1> SUFFICES ASSUME Init PROVE DInv
  OBVIOUS
<1>1. /\ wire = <<>> /\ Len(wire) = 0 /\ packages = <<>> /\ DOMAIN packages = {}
      /\ version = [f \in Files |-> 0] /\ buffer = disk
      /\ DOMAIN source = Files /\ DOMAIN shown = Files
      /\ Len(finished[Here]) = 0
  <2>1. finished[Here] = <<>>
    BY WorkspaceAssumption DEF Init, CompilerInit
  <2> QED  BY <2>1 DEF Init
<1>2. \A f \in Files : Of(f) = {} /\ Opens(f) = {} /\ Saves(f) = {} /\ version[f] = 0
  BY <1>1 DEF Of, Opens, Saves
<1>3. PackagesSound
  BY <1>1 DEF PackagesSound
<1>4. ASSUME NEW f \in Files
      PROVE  Sessions(f) /\ Founds(f) /\ Known(f) /\ Versions(f) /\ Arrives(f) /\ Dirty(f)
  <2>1. ~HasState(f)
    <3>1. FindPackage(f) \in DOMAIN packages \cup {None}
      BY <1>3, FoundStates
    <3> QED  BY <1>1, <3>1 DEF HasState
  <2>2. Fresh(f)
    BY <2>1 DEF Fresh
  <2>3. ~(version[f] > 0)
    BY <1>2
  <2> QED  BY <1>2, <2>2, <2>3 DEF Sessions, Founds, Known, Versions, Arrives, Dirty
<1>5. Compiles
  BY <1>1, <1>2 DEF Compiles, LastSaved
<1> QED  BY <1>1, <1>3, <1>4, <1>5 DEF DInv

LEMMA NothingMoves ==
  ASSUME DInv, UNCHANGED vars
  PROVE  DInv'
<1>1. UNCHANGED <<wire, version, buffer, disk, packages, source, shown, compiling, awaiting,
                  compileRun, finished>>
  BY DEF vars, managerVars, clientVars, compilerVars
<1>2. ASSUME NEW f
      PROVE  /\ Of(f)' = Of(f) /\ Opens(f)' = Opens(f) /\ Saves(f)' = Saves(f)
             /\ Latest(f)' = Latest(f) /\ FindPackage(f)' = FindPackage(f)
             /\ HasState(f)' = HasState(f) /\ StateFound(f)' = StateFound(f)
  BY <1>1 DEF Of, Opens, Saves, Latest, FindPackage, HasState, StateFound
<1>3. PackagesSound'
  BY <1>1 DEF DInv, PackagesSound
<1>4. ASSUME NEW f \in Files
      PROVE  /\ Sessions(f)' /\ Founds(f)' /\ Known(f)' /\ Versions(f)'
             /\ Arrives(f) => Arrives(f)'
             /\ Dirty(f) => Dirty(f)'
  <2>1. Sessions(f)'
    BY <1>1, <1>2 DEF DInv, Sessions, Fresh
  <2>2. Founds(f)'
    BY <1>1, <1>2 DEF DInv, Founds
  <2>3. Known(f)'
    BY <1>1, <1>2 DEF DInv, Known
  <2>4. Versions(f)'
    BY <1>1, <1>2 DEF DInv, Versions
  <2>5. Arrives(f) => Arrives(f)'
    BY <1>1, <1>2 DEF Arrives, Arrived, Kept, Brings, Flat
  <2>6. Dirty(f) => Dirty(f)'
    BY <1>1, <1>2 DEF Dirty, Stale, Dirties
  <2> QED  BY <2>1, <2>2, <2>3, <2>4, <2>5, <2>6
<1>5. Compiles => Compiles'
  <2> QED  BY <1>1, <1>2 DEF Compiles, AsOnDisk, PutAsideAsSaved, LastSaved
<1> QED  BY <1>1, <1>3, <1>4, <1>5 DEF DInv, Flat

LEMMA EveryStepKeeps == IInv /\ InStep /\ DInv /\ [Next]_vars => DInv'
<1> SUFFICES ASSUME IInv, InStep, DInv, [Next]_vars PROVE DInv'
  OBVIOUS
<1>1. CASE \E f \in Files : Open(f)
  BY <1>1, SaysOpen
<1>2. CASE \E f \in Files, text \in Texts : Edit(f, text)
  BY <1>2, SaysEdit
<1>3. CASE \E f \in Files : Save(f)
  BY <1>3, SaysSave
<1>4. CASE \E f \in Files : Close(f)
  BY <1>4, SaysClose
<1>5. CASE \E f \in Files, text \in Texts : WriteFile(f, text)
  BY <1>5, OthersWrite
<1>6. CASE \E i \in 1..Len(wire) : DidOpen(i)
  BY <1>6, DidOpenKeeps DEF InStep
<1>7. CASE \E i \in 1..Len(wire) : DidChange(i)
  BY <1>7, DidChangeKeeps DEF InStep
<1>8. CASE \E i \in 1..Len(wire) : DidSave(i)
  BY <1>8, DidSaveKeeps DEF InStep
<1>9. CASE \E i \in 1..Len(wire) : DidClose(i)
  BY <1>9, DidCloseKeeps DEF InStep
<1>10. CASE DoneOk
  BY <1>10, DoneOkKeeps
<1>11. CASE DoneFailed
  BY <1>11, DoneFailedKeeps
<1>12. CASE \E m \in Others, p \in Packages : OtherAsks(m, p)
  BY <1>12, OthersAreQuiet
<1>13. CASE \E m \in Others : OtherDone(m)
  BY <1>13, OthersAreQuiet
<1>14. CASE CompilerStep
  BY <1>14, CompilerIsQuiet
<1>15. CASE UNCHANGED vars
  BY <1>15, NothingMoves
<1> QED  BY <1>1, <1>2, <1>3, <1>4, <1>5, <1>6, <1>7, <1>8, <1>9, <1>10, <1>11, <1>12,
            <1>13, <1>14, <1>15 DEF Next

LEMMA ResultsInStep == Spec => []InStep
<1>1. IInv /\ Proved!OneInFlight => (~compiling[Here] => finished[Here] = <<>>)
  <2> SUFFICES ASSUME IInv, Proved!OneInFlight, ~compiling[Here]
               PROVE  finished[Here] = <<>>
    OBVIOUS
  <2>1. Here \in Managers
    BY WorkspaceAssumption
  <2>2. PICK O : finished \in [Managers -> Seq(ResultOf(O))]
    BY Zenon DEF IInv, Typed, Finished
  <2>3. PICK R : R = ResultOf(O)
    OBVIOUS
  <2>4. finished[Here] \in Seq(R)
    BY <2>1, <2>2, <2>3
  <2>5. Proved!Places(Here) = {}
    BY <2>1 DEF Proved!OneInFlight
  <2>6. 1..Len(Told[Here]) = {}
    <3>1. \A k \in 1..Len(Told[Here]) : <<"finished", k>> \in Proved!Places(Here)
      BY DEF Proved!Places
    <3> QED  BY <2>5, <3>1
  <2>7. Len(Told[Here]) = Len(finished[Here])
    BY <2>1, <2>4 DEF Told, Bare
  <2>8. PICK n : n = Len(finished[Here]) /\ n \in Nat /\ 1 \notin 1..n
    <3>1. Len(finished[Here]) \in Nat
      BY <2>4
    <3>2. 1 \notin 1..Len(Told[Here])
      BY <2>6
    <3>3. 1 \notin 1..Len(finished[Here])
      BY <2>7, <3>2, Zenon
    <3> QED  BY <3>1, <3>3, Zenon
  <2>9. n = 0
    BY <2>8
  <2> QED  BY <2>4, <2>8, <2>9, EmptySeq
<1>2. /\ IInv /\ Proved!OneInFlight
      /\ \A i \in 1..Len(finished[Here]) : IsNews(finished[Here][i].run)
      => InStep
  BY <1>1 DEF InStep
<1> QED  BY ManagerHasOneCompile, ManagerHearsNews, StateIsSound, <1>2, PTL

\* What is on its way about each document, what the manager has of it, and what
\* the client and the disk have, are of one piece: however the messages, the
\* compiles and their results interleave (workspace_manager.pony:139-215, 700-887).
THEOREM DocumentsAreSound == Spec => []DInv
<1>1. IInv /\ InStep /\ DInv /\ [Next]_vars => DInv'
  BY EveryStepKeeps
<1> QED  BY NoMessagesYet, ResultsInStep, StateIsSound, <1>1, PTL DEF Spec

------------------------------------------------------------------------------
(* What the client is shown.                                               *)

LEMMA ModuleIs ==
  ASSUME PackagesSound, NEW p \in DOMAIN packages, NEW f \in DOMAIN packages[p].docs
  PROVE  /\ f \in Files /\ p \in Packages
         /\ packages[p].docs[f].run <= packages[p].run /\ packages[p].docs[f].run \in Nat
         /\ packages[p].run <= compileRun[Here] /\ packages[p].run \in Nat
         /\ ModuleOf(packages[p], f) # None =>
              /\ packages[p].docs[f].run = packages[p].run
              /\ Module(packages[p].docs[f]) = ModuleOf(packages[p], f)
         /\ packages[p].docs[f].run = packages[p].run /\ Module(packages[p].docs[f]) # None =>
              Module(packages[p].docs[f]) = ModuleOf(packages[p], f)
<1>1. Sound(p, packages[p]) /\ p \in Packages /\ packages[p].run <= compileRun[Here]
  BY DEF PackagesSound
<1>2. /\ f \in Files /\ packages[p].docs[f] \in Document /\ packages[p].run \in Nat
      /\ Follows(packages[p], f, packages[p].docs[f])
  BY <1>1, DocsAreFunctions DEF Sound, Package
<1>3. Module(packages[p].docs[f]) = packages[p].docs[f].module.thing
  BY <1>2 DEF Follows, Module, Get
<1>4. packages[p].docs[f].run \in Nat
  BY <1>2 DEF Document
<1> QED  BY <1>1, <1>2, <1>3, <1>4 DEF Follows

\* A document of a package has the module that the package's last compile has for
\* it, whichever of the two came first (state.pony:65-108).
THEOREM DocumentsHaveTheirModules == Spec => []DocumentsFollowPackages
<1>1. DInv => DocumentsFollowPackages
  <2> SUFFICES ASSUME PackagesSound PROVE DocumentsFollowPackages
    BY DEF DInv
  <2> QED  BY ModuleIs DEF DocumentsFollowPackages
<1> QED  BY DocumentsAreSound, <1>1, PTL

LEMMA HeardAll ==
  ASSUME NEW f, Heard(f)
  PROVE  Of(f) = {} /\ Opens(f) = {} /\ Saves(f) = {}
  BY DEF Heard, Of, Opens, Saves

\* Of an open document no error of an earlier run is shown once a later one has
\* been handled (workspace_manager.pony:156-166).
THEOREM OldErrorsAreTakenBack == Spec => []ShownErrorsAreCurrent
<1>1. DInv => ShownErrorsAreCurrent
  BY HeardAll DEF DInv, Known, ShownErrorsAreCurrent
<1> QED  BY DocumentsAreSound, <1>1, PTL

\* What is shown of a buffer's syntax is about the buffer as it is, when no change
\* overtakes another or no document can move to a nearer package
\* (state.pony:217-242, workspace_manager.pony:601-642).
THEOREM SyntaxIsOfTheBuffer ==
  ASSUME Flat \/ ~Reordering
  PROVE  Spec => []ShownSyntaxIsCurrent
<1>1. DInv => ShownSyntaxIsCurrent
  <2> SUFFICES ASSUME DInv, NEW f \in Files, version[f] > 0, Heard(f), shown[f].from = "syntax"
               PROVE  shown[f].of = buffer[f]
    BY DEF ShownSyntaxIsCurrent
  <2>1. Arrives(f) /\ Of(f) = {}
    BY HeardAll DEF DInv
  <2> QED  BY <2>1 DEF Arrives, Arrived
<1> QED  BY DocumentsAreSound, <1>1, PTL

\* Of an open document with edits that are not saved the manager knows that it
\* has moved past what was compiled, when no document can move to a nearer
\* package (workspace_manager.pony:494-510).
THEOREM UnsavedIsStale ==
  ASSUME Flat
  PROVE  Spec => []DirtyIsStale
<1>1. DInv => DirtyIsStale
  <2> SUFFICES ASSUME DInv, NEW f \in Files, version[f] > 0, Heard(f), buffer[f] # disk[f]
               PROVE  DocumentStale(f)
    BY DEF DirtyIsStale
  <2>1. Dirty(f) /\ Of(f) = {}
    BY HeardAll DEF DInv
  <2>2. Stale(f)
    BY <2>1 DEF Dirty
  <2> QED  BY <2>2 DEF Stale, HasState, StateFound, DocumentStale
<1> QED  BY DocumentsAreSound, <1>1, PTL

\* What the last run has of a document is what is on the disk, unless that was put
\* aside while a compile ran, when no other program writes the files
\* (workspace_manager.pony:672-695).
THEOREM ModulesAreOfTheDisk ==
  ASSUME ~Outsiders
  PROVE  Spec => []CompiledFromDisk
<1>1. IInv /\ DInv => CompiledFromDisk
  <2> SUFFICES ASSUME IInv, DInv, NEW f \in Files, Heard(f), ~compiling[Here],
                      NEW text \in LastCompiled(f)
               PROVE  text = disk[f] \/ PutAsideAsSaved(f)
    BY DEF CompiledFromDisk
  <2>0. PICK p \in DOMAIN packages :
          /\ f \in DOMAIN packages[p].docs
          /\ packages[p].docs[f].run = compileRun[Here]
          /\ Module(packages[p].docs[f]) # None /\ text = Module(packages[p].docs[f])
    BY DEF LastCompiled
  <2>1. compileRun[Here] \in Nat /\ PackagesSound /\ Compiles
    BY WorkspaceAssumption DEF DInv, IInv, Typed
  <2>2. /\ packages[p].docs[f].run = packages[p].run /\ packages[p].run = compileRun[Here]
        /\ Module(packages[p].docs[f]) = ModuleOf(packages[p], f)
    BY <2>0, <2>1, ModuleIs
  <2>3. AsOnDisk(f, ModuleOf(packages[p], f))
    BY <2>0, <2>1, <2>2 DEF Compiles
  <2> QED  BY <2>0, <2>2, <2>3, HeardAll DEF AsOnDisk
<1> QED  BY DocumentsAreSound, StateIsSound, <1>1, PTL

------------------------------------------------------------------------------
(* What the client is answered.                                            *)

\* The binder has the buffer of every open document it has heard of.
LEMMA BinderHasTheBuffer ==
  ASSUME IInv, DInv, Flat \/ ~Reordering, NEW f \in Files, version[f] > 0, Heard(f)
  PROVE  TextRead(f) = buffer[f]
<1>1. Arrives(f) /\ Of(f) = {}
  BY HeardAll DEF DInv
<1>2. source[f] = buffer[f]
  BY <1>1 DEF Arrives, Arrived
<1>3. buffer[f] # None
  BY WorkspaceAssumption DEF IInv, Typed
<1> QED  BY <1>2, <1>3 DEF TextRead

\* Outlines, folds, selections and symbols are about every buffer as the client
\* has it, under the same conditions as what is shown of its syntax
\* (workspace_manager.pony:1225-1299, 1439-1535).
THEOREM BuffersAreAnswered ==
  ASSUME Flat \/ ~Reordering
  PROVE  Spec => []BufferAnswersAreCurrent
<1>1. IInv /\ DInv => BufferAnswersAreCurrent
  <2> SUFFICES ASSUME IInv, DInv, NEW f \in Files,
                      NEW answer \in UNION {DocumentSymbols(f), FoldingRange(f),
                                            SelectionRange(f), WorkspaceSymbol},
                      NEW at \in answer.at, version[at[1]] > 0, Heard(at[1])
               PROVE  at[2] = buffer[at[1]]
    BY DEF BufferAnswersAreCurrent
  <2>1. \E g \in Files : at = <<g, TextRead(g)>>
    <3>1. CASE answer \in OfBuffer(f) \cup SelectionRange(f)
      <4>1. answer = Null \/ answer = Items(InBuffer(f))
        BY <3>1 DEF OfBuffer, SelectionRange
      <4>2. at \in InBuffer(f)
        BY <4>1 DEF Null, Items
      <4> QED  BY <4>2 DEF InBuffer
    <3>2. CASE answer \in WorkspaceSymbol
      BY <3>2 DEF WorkspaceSymbol, Items, InBuffer
    <3> QED  BY <3>1, <3>2 DEF DocumentSymbols, FoldingRange
  <2>2. PICK g \in Files : at[1] = g /\ at[2] = TextRead(g)
    BY <2>1
  <2> QED  BY <2>2, BinderHasTheBuffer
<1> QED  BY DocumentsAreSound, StateIsSound, <1>1, PTL

\* What may be answered about document g: about the buffer as the client has it.
Right(g, text) == Settled(g) /\ ~DocumentStale(g) => text = buffer[g]

LEMMA RightTexts ==
  ASSUME IInv, DInv, Flat, ~Outsiders, NEW g \in Files
  PROVE  /\ Right(g, TextRead(g))
         /\ Compiled(g) => Right(g, CompiledText(g))
         /\ \A p \in DOMAIN packages :
              ModuleOf(packages[p], g) # None => Right(g, ModuleOf(packages[p], g))
<1> SUFFICES ASSUME Settled(g), ~DocumentStale(g)
             PROVE  /\ TextRead(g) = buffer[g]
                    /\ Compiled(g) => CompiledText(g) = buffer[g]
                    /\ \A p \in DOMAIN packages :
                         ModuleOf(packages[p], g) # None => ModuleOf(packages[p], g) = buffer[g]
  BY DEF Right
<1>1. /\ version[g] > 0 /\ Heard(g) /\ ~compiling[Here]
      /\ PutAsideAsSaved(g) => CompiledText(g) = disk[g]
      /\ HasState(g) /\ StateFound(g).run = compileRun[Here]
  BY DEF Settled, Quiet, UpToDate, Forgotten
<1>2. TextRead(g) = buffer[g]
  BY <1>1, BinderHasTheBuffer
<1>3. PackagesSound /\ Dirty(g) /\ Compiles /\ Of(g) = {} /\ Saves(g) = {}
  BY <1>1, HeardAll DEF DInv
<1>4. buffer[g] = disk[g]
  <2>1. ~Stale(g)
    BY DEF Stale, HasState, StateFound, DocumentStale
  <2> QED  BY <1>1, <1>3, <2>1 DEF Dirty
<1>5. PICK q : /\ q = FindPackage(g) /\ q = Dir(g) /\ q \in DOMAIN packages
               /\ g \in DOMAIN packages[q].docs
               /\ packages[q].docs[g].run = compileRun[Here]
  <2>1. FindPackage(g) \in DOMAIN packages
    BY <1>1, <1>3, FoundStates
  <2>2. FindPackage(g) \in {Dir(g), None}
    <3>1. FindPackage(g) = Nearest(DOMAIN packages, g)
      BY DEF FindPackage, Nearest
    <3>2. Len(Above(g)) = 1 => Nearest(DOMAIN packages, g) \in {Dir(g), None}
      <4>1. DOMAIN packages \subseteq DOMAIN packages /\ DOMAIN packages \subseteq Packages
        BY <1>3 DEF PackagesSound
      <4> QED  BY <4>1, FoundMoves
    <3> QED  BY <3>1, <3>2 DEF Flat
  <2> QED  BY <1>1, <2>1, <2>2 DEF HasState, StateFound
<1>6. compileRun[Here] \in Nat
  BY WorkspaceAssumption DEF IInv, Typed
<1>7. /\ packages[q].run = compileRun[Here]
      /\ Module(packages[q].docs[g]) # None =>
           Module(packages[q].docs[g]) = ModuleOf(packages[q], g)
  BY <1>3, <1>5, <1>6, ModuleIs
<1>8. ModuleOf(packages[q], g) # None => ModuleOf(packages[q], g) = buffer[g]
  <2> SUFFICES ASSUME ModuleOf(packages[q], g) # None
               PROVE  ModuleOf(packages[q], g) = disk[g]
    BY <1>4
  <2>1. AsOnDisk(g, ModuleOf(packages[q], g))
    BY <1>1, <1>3, <1>5, <1>7 DEF Compiles
  <2>2. CompiledText(g) = ModuleOf(packages[q], g)
    <3>1. Module(packages[q].docs[g]) = ModuleOf(packages[q], g)
      BY <1>3, <1>5, ModuleIs
    <3> QED  BY <1>1, <1>5, <3>1 DEF CompiledText, StateFound
  <2> QED  BY <1>1, <1>3, <2>1, <2>2 DEF AsOnDisk
<1>9. Compiled(g) => CompiledText(g) = buffer[g]
  BY <1>1, <1>5, <1>7, <1>8 DEF Compiled, CompiledText, StateFound
<1>10. ASSUME NEW p \in DOMAIN packages, ModuleOf(packages[p], g) # None
       PROVE  ModuleOf(packages[p], g) = buffer[g]
  <2>1. Dir(g) = p
    BY <1>3, <1>10, ModuleOfSound DEF PackagesSound
  <2> QED  BY <1>5, <1>8, <1>10, <2>1
<1> QED  BY <1>2, <1>9, <1>10

\* All positions of an answer are right.
AllRight(places) == \A at \in places : at[1] \in Files /\ Right(at[1], at[2])

LEMMA RightPlaces ==
  ASSUME IInv, DInv, Flat, ~Outsiders, NEW f \in Files
  PROVE  /\ Compiled(f) => AllRight(InModule(f)) /\ AllRight(InProgram(f))
         /\ AllRight(InBuffer(f)) /\ AllRight(InWorkspace) /\ AllRight({})
<1>1. AllRight(InBuffer(f))
  BY RightTexts DEF AllRight, InBuffer
<1>2. \A p \in DOMAIN packages : AllRight(ModulesOf(p))
  BY RightTexts DEF AllRight, ModulesOf
<1>3. AllRight(InWorkspace)
  BY <1>2 DEF AllRight, InWorkspace
<1>4. ASSUME Compiled(f) PROVE AllRight(InModule(f)) /\ AllRight(InProgram(f))
  <2>1. AllRight(InModule(f))
    BY <1>4, RightTexts DEF AllRight, InModule
  <2>2. FindPackage(f) \in DOMAIN packages
    BY <1>4, FoundStates DEF Compiled, CompiledText, DInv
  <2> QED  BY <1>2, <2>1, <2>2 DEF AllRight, InProgram
<1> QED  BY <1>1, <1>3, <1>4 DEF AllRight

\* What is refused has no positions; what is not is right.
AllAnswersRight(answers) == \A answer \in answers : AllRight(answer.at)

LEMMA RightAnswers ==
  ASSUME IInv, DInv, Flat, ~Outsiders, NEW f \in Files
  PROVE  AllAnswersRight(FromCompile(f))
<1>1. /\ AllAnswersRight({Null}) /\ AllAnswersRight({Failed}) /\ AllAnswersRight({Null, Failed})
      /\ AllAnswersRight({Items({})})
      /\ \A places : AllRight(places) =>
           /\ AllAnswersRight({Items(places)}) /\ AllAnswersRight({Null, Items(places)})
           /\ AllAnswersRight({Failed, Items(places)})
  BY DEF AllAnswersRight, AllRight, Null, Failed, Items
<1>2. /\ Compiled(f) => AllRight(InModule(f)) /\ AllRight(InProgram(f))
      /\ AllRight(InWorkspace) /\ AllRight({})
      /\ \A g \in Files : AllRight(InBuffer(g))
  BY RightPlaces
<1>3. AllAnswersRight(Hover(f))
  BY <1>1, <1>2 DEF Hover, IfCompiled
<1>4. AllAnswersRight(DocumentHighlight(f)) /\ AllAnswersRight(References(f))
  BY <1>1, <1>2 DEF DocumentHighlight, References, UnlessStale, IfCompiled
<1>5. AllAnswersRight(PrepareRename(f)) /\ AllAnswersRight(TypeDefinition(f))
  BY <1>1, <1>2 DEF PrepareRename, TypeDefinition, UnlessStale, IfCompiled
<1>6. AllAnswersRight(InlayHint(f)) /\ AllAnswersRight(Rename(f))
  BY <1>1, <1>2 DEF InlayHint, Rename, IfCompiled
<1>7. AllAnswersRight(GotoDefinition(f))
  <2>1. AllAnswersRight(UnlessStale(f, IfCompiled(f, {Items(InProgram(f))})))
    BY <1>1, <1>2 DEF UnlessStale, IfCompiled
  <2>2. \A g \in Files : AllAnswersRight({Items(InBuffer(g))})
    BY <1>1, <1>2
  <2> QED  BY <2>1, <2>2 DEF GotoDefinition, AllAnswersRight
<1>8. /\ AllAnswersRight(CallHierarchyPrepare(f)) /\ AllAnswersRight(CallHierarchyIncoming(f))
      /\ AllAnswersRight(CallHierarchyOutgoing(f)) /\ AllAnswersRight(TypeHierarchyPrepare(f))
  BY <1>1, <1>2 DEF CallHierarchyPrepare, CallHierarchyIncoming, CallHierarchyOutgoing,
                    TypeHierarchyPrepare, IfCompiled
<1>9. AllAnswersRight(TypeHierarchySupertypes(f)) /\ AllAnswersRight(TypeHierarchySubtypes(f))
  BY <1>1, <1>2 DEF TypeHierarchySupertypes, TypeHierarchySubtypes, IfCompiled
<1> QED  BY <1>3, <1>4, <1>5, <1>6, <1>7, <1>8, <1>9
            DEF AllAnswersRight, FromCompile, AsksIfStale

\* What asks whether the document has moved is answered, of the document itself,
\* only when it has not.
LEMMA AnsweredIsNotStale ==
  ASSUME NEW f \in Files, NEW answer \in AsksIfStale(f), NEW at \in answer.at
  PROVE  ~DocumentStale(f)
<1> SUFFICES ASSUME DocumentStale(f) PROVE FALSE
  OBVIOUS
<1>1. answer.at = {}
  <2>1. CASE answer \in Hover(f)
    BY <2>1 DEF Hover, IfCompiled, Null, Items
  <2>2. CASE answer \in UNION {DocumentHighlight(f), References(f), PrepareRename(f), TypeDefinition(f)}
    BY <2>2 DEF DocumentHighlight, References, PrepareRename, TypeDefinition, UnlessStale, Null
  <2>3. CASE answer \in InlayHint(f)
    BY <2>3 DEF InlayHint, Items
  <2> QED  BY <2>1, <2>2, <2>3 DEF AsksIfStale
<1> QED  BY <1>1

\* Of settled documents, what asks whether the document has moved is refused or about
\* the buffer, and nothing is answered about an older text of one not known to be
\* edited; when no document can move to a nearer package
\* and no other program writes the files (workspace_manager.pony:530-551, 697-1223,
\* 1382-1437, 1577-1709).
THEOREM AnswersAreRefusedOrRight ==
  ASSUME Flat, ~Outsiders
  PROVE  Spec => []RefusedOrRight
<1>1. IInv /\ DInv => RefusedOrRight
  <2> SUFFICES ASSUME IInv, DInv, NEW f \in Files
               PROVE  /\ \A answer \in AsksIfStale(f) : \A at \in answer.at :
                           at[1] = f /\ Settled(f) => at[2] = buffer[f]
                      /\ \A answer \in FromCompile(f) : \A at \in answer.at :
                           Settled(at[1]) /\ ~DocumentStale(at[1]) => at[2] = buffer[at[1]]
    BY DEF RefusedOrRight
  <2>1. \A answer \in FromCompile(f) : \A at \in answer.at : Right(at[1], at[2])
    BY RightAnswers DEF AllAnswersRight, AllRight
  <2>2. AsksIfStale(f) \subseteq FromCompile(f)
    BY DEF FromCompile
  <2> QED  BY <2>1, <2>2, AnsweredIsNotStale DEF Right
<1> QED  BY DocumentsAreSound, StateIsSound, <1>1, PTL

\* No edit of a rename is placed in a settled document by positions of another text
\* of it, whichever document it starts in, under the same conditions
\* (workspace_manager.pony:512-528, 1083-1120).
THEOREM RenamesAreSafe ==
  ASSUME Flat, ~Outsiders
  PROVE  Spec => []SettledRenameIsSafe
<1>1. IInv /\ DInv => SettledRenameIsSafe
  <2> SUFFICES ASSUME IInv, DInv, NEW f \in Files, NEW answer \in Rename(f),
                      NEW at \in answer.at, Settled(at[1])
               PROVE  at[2] = buffer[at[1]]
    BY DEF SettledRenameIsSafe
  <2>1. answer \in FromCompile(f)
    BY DEF FromCompile
  <2>2. at[1] \in Files /\ Right(at[1], at[2])
    BY <2>1, RightAnswers DEF AllAnswersRight, AllRight
  <2>3. ~WorkspaceStale
    <3> SUFFICES ASSUME WorkspaceStale PROVE FALSE
      OBVIOUS
    <3>1. answer = Failed
      BY DEF Rename, RenameRefused
    <3> QED  BY <3>1 DEF Failed
  <2>4. ~DocumentStale(at[1])
    <3>1. FindPackage(at[1]) \in DOMAIN packages \cup {None}
      BY <2>2, FoundStates DEF DInv
    <3> QED  BY <2>3, <3>1 DEF DocumentStale, WorkspaceStale, AnyStale
  <2> QED  BY <2>2, <2>4 DEF Right
<1> QED  BY DocumentsAreSound, StateIsSound, <1>1, PTL
==============================================================================
